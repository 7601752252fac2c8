---------------------------- MODULE ProxySession ----------------------------
(***************************************************************************)
(* One proxied MCP session: proxy/proxy.go (router) and proxy/verify.go    *)
(* (verifier) with the envelope rules of proxy/frame.go.                   *)
(*                                                                         *)
(* Two goroutines share the core.  The client goroutine (serveClient)      *)
(* handles one client frame at a time, the inbound goroutine handles one   *)
(* upstream frame at a time.  Each handler has a part under core.mu, which *)
(* is one action here, and a part after the unlock (the Send upstream, or  *)
(* the write to the client), which is a second action: clientStep and      *)
(* serverStep hold what a goroutine still has to do after it unlocked.     *)
(* The other goroutine may run in between.                                 *)
(*                                                                         *)
(* Data.  A tool declaration is what a comparison with the lock says of    *)
(* it: "absent" (the page does not list the tool), "locked" (h_tool        *)
(* equal), "benign" (only schema or metadata differ), "prompt"             *)
(* (description, title or annotations differ), "added" (the lock has no    *)
(* tool of this name).  A result is what the verifier                      *)
(* reads in it.  Request ids are the normalised keys of idKey.  Frames     *)
(* the proxy drops without touching its state (noise, a response that      *)
(* matches nothing in flight, an unreadable client frame, a tools/call     *)
(* without an id) are stuttering steps.                                    *)
(***************************************************************************)
EXTENDS Integers, FiniteSets

CONSTANTS
    Ids,                \* normalised JSON-RPC request ids
    Names,              \* tool names that may appear on the wire
    LockNames,          \* the names of the locked entry's tools
    Cursors,            \* non-empty pagination cursors
    Eras,               \* protocol versions CheckEra accepts
    LockEra,            \* protocol.era of the locked entry
    LockFlow,           \* protocol.flow of the locked entry, "" if unrecorded
    Warn,               \* the --warn policy
    EnumIds,            \* addresses an enumeration may be allocated at
    MaxPending,         \* maxPending (256 in the code)
    MaxTrackedCursors,  \* maxTrackedCursors (1024 in the code)
    MaxPages,           \* Limits.MaxPages
    MaxTools,           \* Limits.MaxTools
    Requested,          \* the methods this client asks for (a bound, see Methods)
    None                \* "", nil, or an absent member

Methods        == {"initialize", "server/discover", "tools/list", "tools/call", "other"}
SurfaceBearing == {"initialize", "server/discover", "tools/list"}

ASSUME SessionAssumption ==
    /\ LockNames \subseteq Names
    /\ LockEra \in Eras
    /\ LockFlow \in {"classic", "stateless", ""}
    /\ Warn \in BOOLEAN
    /\ Requested \subseteq Methods
    /\ {MaxPending, MaxTrackedCursors, MaxPages, MaxTools} \subseteq Nat \ {0}
    /\ None \notin Names
    /\ None \notin Cursors
    /\ None \notin Eras
    /\ None \notin EnumIds

VARIABLES
    pending,      \* core.pending: the tracked request of each id, or NoReq
    cursors,      \* core.cursors: the enumeration each issued cursor continues
    enums,        \* the enumerations the two maps point to
    handshakeEra, \* verifier.handshakeEra
    everClean,    \* verifier.everClean
    callable,     \* verifier.callable
    outcome,      \* core.outcome
    clientStep,   \* what the client goroutine does after its unlock
    serverStep,   \* what the inbound goroutine does after its unlock
    backend,      \* what the proxy told the backend: SetProto, notifications
    presented     \* history: the declaration last read for each tool name

core == <<pending, cursors, enums, handshakeEra, everClean>>
vars == <<pending, cursors, enums, handshakeEra, everClean, callable, outcome,
          clientStep, serverStep, backend, presented>>

-----------------------------------------------------------------------------
(* The shapes of the state. *)

Declarations   == {"absent", "locked", "benign", "prompt", "added"}

\* What the upstream may declare for a name, seen from the lock.
DeclarationsOf(n) ==
    {"absent"} \cup (IF n \in LockNames THEN {"locked", "benign", "prompt"} ELSE {"added"})

\* At most one declaration for each name.
ToolMaps  == {t \in [Names -> Declarations] : \A n \in Names : t[n] \in DeclarationsOf(n)}
NoTools   == [n \in Names |-> "absent"]
Listed(t) == {n \in Names : t[n] # "absent"}

Requests == [method : Methods \cup {"none"}, era : Eras \cup {None},
             enum   : EnumIds \cup {None}]
NoReq    == [method |-> "none", era |-> None, enum |-> None]

Enumerations ==
    [era : Eras \cup {None}, orphan : BOOLEAN, poisoned : BOOLEAN,
     warned : BOOLEAN, seen : SUBSET Cursors, tools : ToolMaps, pages : Nat]
Blank == [era |-> None, orphan |-> FALSE, poisoned |-> FALSE, warned |-> FALSE,
          seen |-> {}, tools |-> NoTools, pages |-> 0]

Codes == {"none", "drift", "inadmissible"}

\* name is the tool of a tools/call on its way upstream, None of other frames.
ClientSteps == [op : {"idle", "send", "reply"}, name : Names \cup {None}]
ClientIdle  == [op |-> "idle", name |-> None]

\* tools and instr are what the client will read of a surface in the frame.
ServerSteps == [op : {"idle", "forward", "reply"}, code : Codes, tools : ToolMaps,
                instr : {"none", "locked", "changed"},
                proto : Eras \cup {None}, listen : BOOLEAN]
ServerIdle  == [op |-> "idle", code |-> "none", tools |-> NoTools, instr |-> "none",
                proto |-> None, listen |-> FALSE]

TypeOK ==
    /\ pending \in [Ids -> Requests]
    /\ cursors \in [Cursors -> EnumIds \cup {None}]
    /\ enums \in [EnumIds -> Enumerations]
    /\ handshakeEra \in Eras \cup {None}
    /\ everClean \in BOOLEAN
    /\ callable \subseteq Names
    /\ outcome \in [drift : BOOLEAN, inadmissible : BOOLEAN, transport : BOOLEAN]
    /\ clientStep \in ClientSteps
    /\ serverStep \in ServerSteps
    /\ backend \in [proto : Eras \cup {None}, listening : BOOLEAN]
    /\ presented \in ToolMaps

Init ==
    /\ pending = [i \in Ids |-> NoReq]
    /\ cursors = [c \in Cursors |-> None]
    /\ enums = [e \in EnumIds |-> Blank]
    /\ handshakeEra = None
    /\ everClean = FALSE
    /\ callable = {}
    /\ outcome = [drift |-> FALSE, inadmissible |-> FALSE, transport |-> FALSE]
    /\ clientStep = ClientIdle
    /\ serverStep = ServerIdle
    /\ backend = [proto |-> None, listening |-> FALSE]
    /\ presented = NoTools

-----------------------------------------------------------------------------
(* Verdicts. *)

forwardVerdict      == [refuse |-> FALSE, code |-> "none", drift |-> FALSE, inadmissible |-> FALSE]
inadmissibleVerdict == [refuse |-> TRUE, code |-> "inadmissible", drift |-> FALSE, inadmissible |-> TRUE]

\* --warn forwards drift that brings no new prompt text; all else is refused.
resolveDrift(newPrompt) ==
    IF Warn /\ ~newPrompt
      THEN [refuse |-> FALSE, code |-> "none", drift |-> TRUE, inadmissible |-> FALSE]
      ELSE [refuse |-> TRUE, code |-> "drift", drift |-> TRUE, inadmissible |-> FALSE]

\* Fault: a refusal forgets to revoke.
CallableKept(vd, page) == IF vd.refuse THEN callable ELSE callable \cup page

\* revokeCalls on a refusal, else the verified page's names join.
Callable(vd, page) == IF vd.refuse THEN {} ELSE callable \cup page

\* Fault: warned drift is not counted as drift.
RecordedIfRefused(vd) == [outcome EXCEPT !.drift = @ \/ (vd.drift /\ vd.refuse),
                                         !.inadmissible = @ \/ vd.inadmissible]

\* The outcome flags of applyVerdictLocked.
Recorded(vd) == [outcome EXCEPT !.drift = @ \/ vd.drift,
                                !.inadmissible = @ \/ vd.inadmissible]

-----------------------------------------------------------------------------
(* The two maps and the enumerations they point to. *)

Tracked        == {i \in Ids : pending[i] # NoReq}
TrackedCursors == {c \in Cursors : cursors[c] # None}
Referenced(p, cs) == {p[i].enum : i \in Ids} \cup {cs[c] : c \in Cursors}

\* An enumeration neither map points to is garbage: its record is gone.
Collect(heap, p, cs) ==
    [e \in EnumIds |-> IF e \in Referenced(p, cs) THEN heap[e] ELSE Blank]

FreeEnums == EnumIds \ Referenced(pending, cursors)

-----------------------------------------------------------------------------
(* The client goroutine: handleClientFrame.                                 *)

\* Answer the client with an error frame; nothing goes upstream.
ReplyToClient == clientStep' = [op |-> "reply", name |-> None]

\* Forward a frame upstream, outside the lock.
ForwardUpstream(name) == clientStep' = [op |-> "send", name |-> name]

\* Refused with a plain error: the verification state is untouched.
RefusePlainly ==
    /\ ReplyToClient
    /\ UNCHANGED <<core, callable, outcome>>

\* Fault: the cap is compared after one too many.
CanTrackOneMore(i) == Cardinality(Tracked) <= MaxPending /\ pending[i] = NoReq

CanTrack(i) == Cardinality(Tracked) < MaxPending /\ pending[i] = NoReq

\* The request joins the in-flight map under the lock.
Track(i, method, era) ==
    /\ method \in Requested
    /\ pending' = [pending EXCEPT ![i] = [method |-> method, era |-> era, enum |-> None]]
    /\ UNCHANGED <<cursors, enums, handshakeEra, everClean, callable, outcome>>

\* A notification, or the client's answer to a request of the server.
ClientNotification ==
    /\ ForwardUpstream(None)
    /\ UNCHANGED <<core, callable, outcome>>

\* Too many requests in flight, or this id already is.
ClientUntrackable(i) ==
    /\ ~CanTrack(i)
    /\ RefusePlainly

\* server/discover or tools/call whose params cannot be read the one way.
ClientUnreadableParams(i) ==
    /\ CanTrack(i)
    /\ RefusePlainly

ClientInitialize(i) ==
    /\ CanTrack(i)
    /\ Track(i, "initialize", None)
    /\ ForwardUpstream(None)

\* era is the _meta protocolVersion of the probe, None when it carries none.
ClientDiscover(i, era) ==
    /\ CanTrack(i)
    /\ Track(i, "server/discover", era)
    /\ ForwardUpstream(None)

ClientOther(i) ==
    /\ CanTrack(i)
    /\ Track(i, "other", None)
    /\ ForwardUpstream(None)

ClientCallRefused(i, n) ==
    /\ CanTrack(i)
    /\ n \notin callable
    /\ RefusePlainly

\* Fault: the call is forwarded without looking at the verified list.
ClientCallUngated(i, n) ==
    /\ CanTrack(i)
    /\ Track(i, "tools/call", None)
    /\ ForwardUpstream(n)

ClientCall(i, n) ==
    /\ CanTrack(i)
    /\ n \in callable
    /\ Track(i, "tools/call", None)
    /\ ForwardUpstream(n)

\* prepareToolsList refuses: the verdict is applied, nothing is forwarded.
ListRefused(vd) ==
    /\ callable' = Callable(vd, {})
    /\ outcome' = Recorded(vd)
    /\ ReplyToClient
    /\ UNCHANGED core

\* Unreadable params, or a classic list before any verified handshake.
ClientListInadmissible(i) ==
    /\ CanTrack(i)
    /\ ListRefused(inadmissibleVerdict)

\* A stateless list names its dialect; it drifts by flow or by era.
ListDrifts(dialect) ==
    dialect # None /\ (LockFlow = "classic" \/ dialect # LockEra)

ClientListDrifted(i, dialect) ==
    /\ CanTrack(i)
    /\ ListDrifts(dialect)
    /\ resolveDrift(FALSE).refuse
    /\ ListRefused(resolveDrift(FALSE))

\* Fault: the cursor stays in the table after its use.
TrackListKeepingCursor(i, cursor, era) ==
    LET known == cursor # None /\ cursors[cursor] # None
        e     == IF known THEN cursors[cursor] ELSE CHOOSE x \in FreeEnums : TRUE
        fresh == [Blank EXCEPT !.era = era, !.orphan = cursor # None]
        heap  == IF known THEN enums ELSE [enums EXCEPT ![e] = fresh]
    IN  /\ known \/ FreeEnums # {}
        /\ pending' = [pending EXCEPT ![i] = [method |-> "tools/list", era |-> era, enum |-> e]]
        /\ cursors' = cursors
        /\ enums' = Collect(heap, pending', cursors')

\* A tracked cursor is single-use and moves its enumeration to the request;
\* no cursor, or one nobody issued, allocates a new one (an orphan if unknown).
TrackList(i, cursor, era) ==
    LET known == cursor # None /\ cursors[cursor] # None
        e     == IF known THEN cursors[cursor] ELSE CHOOSE x \in FreeEnums : TRUE
        fresh == [Blank EXCEPT !.era = era, !.orphan = cursor # None]
        heap  == IF known THEN enums ELSE [enums EXCEPT ![e] = fresh]
    IN  /\ known \/ FreeEnums # {}
        /\ pending' = [pending EXCEPT ![i] = [method |-> "tools/list", era |-> era, enum |-> e]]
        /\ cursors' = IF known THEN [cursors EXCEPT ![cursor] = None] ELSE cursors
        /\ enums' = Collect(heap, pending', cursors')

\* dialect is the _meta protocolVersion, None on a classic request.
ClientList(i, cursor, dialect) ==
    LET era  == IF dialect = None THEN handshakeEra ELSE dialect
        warn == ListDrifts(dialect)
    IN  /\ CanTrack(i)
        /\ "tools/list" \in Requested
        /\ era # None
        /\ warn => ~resolveDrift(FALSE).refuse
        /\ outcome' = IF warn THEN Recorded(resolveDrift(FALSE)) ELSE outcome
        /\ TrackList(i, cursor, era)
        /\ ForwardUpstream(None)
        /\ UNCHANGED <<handshakeEra, everClean, callable>>

\* The client goroutine reads its next frame only when it is done with the last.
ClientFrame ==
    /\ clientStep = ClientIdle
    /\ \/ ClientNotification
       \/ \E i \in Ids :
            \/ ClientUntrackable(i)
            \/ ClientUnreadableParams(i)
            \/ ClientInitialize(i)
            \/ \E era \in Eras \cup {None} : ClientDiscover(i, era)
            \/ ClientOther(i)
            \/ \E n \in Names : ClientCallRefused(i, n) \/ ClientCall(i, n)
            \/ ClientListInadmissible(i)
            \/ \E era \in Eras : ClientListDrifted(i, era)
            \/ \E c \in Cursors \cup {None}, era \in Eras \cup {None} : ClientList(i, c, era)
    /\ UNCHANGED <<serverStep, backend, presented>>

\* After the unlock: the frame is sent (or refused by the backend: the entry
\* stays tracked and the client gets no error), or the error frame is written.
ClientFinish ==
    /\ clientStep # ClientIdle
    /\ clientStep' = ClientIdle
    /\ \/ UNCHANGED outcome
       \/ clientStep.op = "send" /\ outcome' = [outcome EXCEPT !.transport = TRUE]
    /\ UNCHANGED <<core, callable, serverStep, backend, presented>>

-----------------------------------------------------------------------------
(* The inbound goroutine: handleServerFrame.                                *)

Untrack(i) == pending' = [pending EXCEPT ![i] = NoReq]

\* Forward a frame that carries no verified surface.
ForwardRaw == serverStep' = [ServerIdle EXCEPT !.op = "forward"]

\* Answer the client with the refusal's error frame.
RefuseResponse(vd) == serverStep' = [ServerIdle EXCEPT !.op = "reply", !.code = vd.code]

\* An object whose envelope has no trustworthy identity: dropped.
ServerUnverifiable ==
    /\ callable' = {}
    /\ outcome' = Recorded(inadmissibleVerdict)
    /\ UNCHANGED <<core, serverStep, presented>>

\* A notification or a request of the server's own.
ServerMethod ==
    /\ ForwardRaw
    /\ UNCHANGED <<core, callable, outcome, presented>>

\* The upstream's own refusal of a request, or a result no verdict covers
\* (malformed ones too: they are forwarded as they came).
ServerUnjudged(i) ==
    /\ pending[i] # NoReq
    /\ Untrack(i)
    /\ ForwardRaw
    /\ enums' = Collect(enums, pending', cursors)
    /\ UNCHANGED <<cursors, handshakeEra, everClean, callable, outcome, presented>>

ServerError(i) == ServerUnjudged(i)

ServerOther(i) == pending[i].method \notin SurfaceBearing /\ ServerUnjudged(i)

\* Both or neither of result and error, in answer to a surface request.
ServerMalformed(i) ==
    /\ pending[i].method \in SurfaceBearing
    /\ Untrack(i)
    /\ callable' = {}
    /\ outcome' = Recorded(inadmissibleVerdict)
    /\ RefuseResponse(inadmissibleVerdict)
    /\ enums' = Collect(enums, pending', cursors)
    /\ UNCHANGED <<cursors, handshakeEra, everClean, presented>>

\* What verifyHandshake reads: the era the session would run under, whether
\* supportedVersions still names it, and the instructions.
Handshakes == [era : Eras, supported : BOOLEAN, instr : {"locked", "changed", "unreadable"}]

\* Fault: an era mismatch returns before the instructions are compared.
verifyHandshakeEarlyReturn(flow, h) ==
    LET flowMismatch == LockFlow # "" /\ LockFlow # flow
        eraDrift     == h.era # LockEra \/ (flow = "stateless" /\ ~h.supported)
        changed      == h.instr = "changed"
    IN  IF eraDrift THEN resolveDrift(FALSE)
        ELSE IF h.instr = "unreadable" THEN inadmissibleVerdict
        ELSE IF flowMismatch \/ changed THEN resolveDrift(changed)
        ELSE forwardVerdict

\* Fault: the session's era is not compared with the locked one.
verifyHandshakeAnyEra(flow, h) ==
    LET flowMismatch == LockFlow # "" /\ LockFlow # flow
        eraDrift     == flow = "stateless" /\ ~h.supported
        changed      == h.instr = "changed"
    IN  IF h.instr = "unreadable" THEN inadmissibleVerdict
        ELSE IF flowMismatch \/ eraDrift \/ changed THEN resolveDrift(changed)
        ELSE forwardVerdict

verifyHandshake(flow, h) ==
    LET flowMismatch == LockFlow # "" /\ LockFlow # flow
        eraDrift     == h.era # LockEra \/ (flow = "stateless" /\ ~h.supported)
        changed      == h.instr = "changed"
    IN  IF h.instr = "unreadable" THEN inadmissibleVerdict
        ELSE IF flowMismatch \/ eraDrift \/ changed THEN resolveDrift(changed)
        ELSE forwardVerdict

\* The session runs under the era of a handshake that is forwarded.
ServerHandshake(i, h, vd) ==
    /\ Untrack(i)
    /\ handshakeEra' = IF vd.refuse THEN handshakeEra ELSE h.era
    /\ callable' = Callable(vd, {})
    /\ outcome' = Recorded(vd)
    /\ IF vd.refuse THEN RefuseResponse(vd)
       ELSE serverStep' = [ServerIdle EXCEPT
              !.op = "forward", !.instr = h.instr, !.listen = TRUE,
              !.proto = IF pending[i].method = "initialize" THEN h.era ELSE None]
    /\ UNCHANGED <<cursors, enums, everClean, presented>>

ServerInitialize(i, h) ==
    /\ pending[i].method = "initialize"
    /\ h.supported
    /\ ServerHandshake(i, h, verifyHandshake("classic", h))

\* A discover result is read under the era of its request.
ServerDiscover(i, h) ==
    /\ pending[i].method = "server/discover"
    /\ pending[i].era = h.era
    /\ ServerHandshake(i, h, verifyHandshake("stateless", h))

\* A probe without a protocolVersion cannot be era-tagged.
ServerDiscoverUntagged(i) ==
    /\ pending[i].method = "server/discover"
    /\ pending[i].era = None
    /\ ServerHandshake(i, [era |-> LockEra, supported |-> TRUE, instr |-> "unreadable"],
                       inadmissibleVerdict)

\* What verifyToolsPage reads of a page; readable is Admit's answer, and that
\* of the nextCursor and classifier checks.
Pages == [tools : ToolMaps, next : Cursors \cup {None}, readable : BOOLEAN]

\* The declarations of t, and those of u for the names t does not list.
Merge(t, u) == [n \in Names |-> IF n \in Listed(t) THEN t[n] ELSE u[n]]

LockedTools == [n \in Names |-> IF n \in LockNames THEN "locked" ELSE "absent"]

\* The page breaks a rule of its own or of the enumeration it belongs to.
PageInadmissible(en, page) ==
    \/ en.pages + 1 > MaxPages
    \/ ~page.readable
    \/ Listed(page.tools) \cap Listed(en.tools) # {}
    \/ Cardinality(Listed(Merge(page.tools, en.tools))) > MaxTools
    \/ page.next \in en.seen

\* A tool changed or added by the page, or, at the end of an enumeration
\* followed from its first page, a locked tool that never came.
PageDrifts(en, page) ==
    \/ \E n \in Listed(page.tools) : page.tools[n] # "locked"
    \/ /\ page.next = None
       /\ ~en.orphan
       /\ ~(LockNames \subseteq Listed(Merge(page.tools, en.tools)))

NewPromptText(page) == \E n \in Listed(page.tools) : page.tools[n] \in {"prompt", "added"}

\* The page ends an enumeration that may claim to be the locked surface.
ClaimsClean(en, page) ==
    /\ ~PageDrifts(en, page)
    /\ page.next = None
    /\ ~en.orphan
    /\ ~en.warned
    /\ en.era = LockEra

\* surface_hash over the enumeration's tools is the locked one.
RollupAgrees(en, page) == Merge(page.tools, en.tools) = LockedTools

verifyToolsPage(en, page) ==
    IF PageInadmissible(en, page) THEN inadmissibleVerdict
    ELSE IF PageDrifts(en, page) THEN resolveDrift(NewPromptText(page))
    ELSE IF ClaimsClean(en, page) /\ ~RollupAgrees(en, page) THEN inadmissibleVerdict
    ELSE forwardVerdict

\* Fault: forwarded drift leaves no mark on the enumeration.
ExtendedUnmarked(en, page, vd) ==
    [era      |-> en.era,
     orphan   |-> en.orphan,
     poisoned |-> en.poisoned \/ vd.refuse,
     warned   |-> en.warned,
     seen     |-> IF page.next = None THEN en.seen ELSE en.seen \cup {page.next},
     tools    |-> Merge(page.tools, en.tools),
     pages    |-> en.pages + 1]

\* Fault: the page budget counts down from zero.
ExtendedDownwards(en, page, vd) ==
    [era      |-> en.era,
     orphan   |-> en.orphan,
     poisoned |-> en.poisoned \/ vd.refuse,
     warned   |-> en.warned \/ (vd.drift /\ ~vd.refuse),
     seen     |-> IF page.next = None THEN en.seen ELSE en.seen \cup {page.next},
     tools    |-> Merge(page.tools, en.tools),
     pages    |-> en.pages - 1]

\* The enumeration after the page.  A refused one is poisoned.
Extended(en, page, vd) ==
    [era      |-> en.era,
     orphan   |-> en.orphan,
     poisoned |-> en.poisoned \/ vd.refuse,
     warned   |-> en.warned \/ (vd.drift /\ ~vd.refuse),
     seen     |-> IF page.next = None THEN en.seen ELSE en.seen \cup {page.next},
     tools    |-> Merge(page.tools, en.tools),
     pages    |-> en.pages + 1]

\* Fault: the cursor of a refused page is tracked as well.
ContinuesAnyway(page, vd) ==
    /\ page.next # None
    /\ Cardinality(TrackedCursors) < MaxTrackedCursors

\* A forwarded page's cursor is tracked while the table has room.
Continues(page, vd) ==
    /\ ~vd.refuse
    /\ page.next # None
    /\ Cardinality(TrackedCursors) < MaxTrackedCursors

ServerToolsPage(i, page) ==
    LET e  == pending[i].enum
        en == enums[e]
        vd == verifyToolsPage(en, page)
    IN  /\ pending[i].method = "tools/list"
        /\ Untrack(i)
        /\ cursors' = IF Continues(page, vd) THEN [cursors EXCEPT ![page.next] = e] ELSE cursors
        /\ enums' = Collect([enums EXCEPT ![e] = Extended(en, page, vd)], pending', cursors')
        /\ everClean' = (everClean \/ (~vd.refuse /\ ClaimsClean(en, page)))
        /\ callable' = Callable(vd, Listed(page.tools))
        /\ outcome' = Recorded(vd)
        /\ IF vd.refuse THEN RefuseResponse(vd)
           ELSE serverStep' = [ServerIdle EXCEPT !.op = "forward", !.tools = page.tools]
        /\ presented' = IF page.readable /\ en.pages < MaxPages
                          THEN Merge(page.tools, presented) ELSE presented
        /\ UNCHANGED handshakeEra

\* The inbound goroutine takes its next frame when it is done with the last.
ServerFrame ==
    /\ serverStep = ServerIdle
    /\ \/ ServerUnverifiable
       \/ ServerMethod
       \/ \E i \in Ids :
            \/ ServerError(i)
            \/ ServerOther(i)
            \/ ServerMalformed(i)
            \/ \E h \in Handshakes : ServerInitialize(i, h) \/ ServerDiscover(i, h)
            \/ ServerDiscoverUntagged(i)
            \/ \E page \in Pages : ServerToolsPage(i, page)
    /\ UNCHANGED <<clientStep, backend>>

\* After the unlock: tell the backend about a verified handshake, then write.
ServerFinish ==
    /\ serverStep # ServerIdle
    /\ serverStep' = ServerIdle
    /\ backend' = [proto     |-> IF serverStep.proto = None THEN backend.proto ELSE serverStep.proto,
                   listening |-> backend.listening \/ serverStep.listen]
    /\ UNCHANGED <<core, callable, outcome, clientStep, presented>>

Next == ClientFrame \/ ClientFinish \/ ServerFrame \/ ServerFinish

Spec == Init /\ [][Next]_vars

-----------------------------------------------------------------------------
(* Properties. *)

\* What policy lets through: the locked declaration, and under --warn one that
\* brings no new prompt text.
Forwardable == IF Warn THEN {"locked", "benign"} ELSE {"locked"}

\* A tool is callable only while the declaration the upstream last presented
\* for it, on any page of any enumeration, is one the policy forwards: a later
\* drifted page takes the name back, whichever request it answers
\* (verifier.callable and revokeCalls, verify.go:36-46 and 299).
CallableIsCurrent == \A n \in callable : presented[n] \in Forwardable

\* Whatever the inbound goroutine still has to write after it unlocked was
\* vetted: no changed instructions, no declaration the policy refuses
\* (handleServerFrame: refused results become error frames, proxy.go:630-644).
WrittenSurfaceIsVetted ==
    serverStep.op = "forward" =>
        /\ serverStep.instr # "changed"
        /\ \A n \in Listed(serverStep.tools) : serverStep.tools[n] \in Forwardable

\* An enumeration has one owner: a request in flight or an issued cursor, and
\* only one of them.  Two pages of one enumeration are thus never verified out
\* of order or twice (cursors are single-use, proxy.go:476-478).
LinearEnumerations ==
    /\ \A i, j \in Ids :
          pending[i].enum # None /\ pending[i].enum = pending[j].enum => i = j
    /\ \A c, d \in Cursors : cursors[c] # None /\ cursors[c] = cursors[d] => c = d
    /\ \A i \in Ids, c \in Cursors :
          pending[i].enum # None => pending[i].enum # cursors[c]

\* A refused page ends its enumeration: "no completion verdict can follow"
\* (verify.go:58), though nothing in the code reads the poisoned flag.
NoPoisonedContinuation == \A e \in EnumIds : ~enums[e].poisoned

\* The rollup is "belt-and-braces": whatever page answers a request in flight,
\* if every check before the rollup lets it claim a clean surface, the rollup
\* agrees with the lock (verify.go:440-452).
RollupNeverDisagrees ==
    \A i \in Ids : pending[i].method = "tools/list" =>
        \A page \in Pages :
            LET en == enums[pending[i].enum]
            IN  ~PageInadmissible(en, page) /\ ClaimsClean(en, page) => RollupAgrees(en, page)

\* Somewhere the session, the backend or an enumeration runs under an era other
\* than the locked one.
EraDrifted ==
    ~({handshakeEra, serverStep.proto, backend.proto} \cup {enums[e].era : e \in EnumIds}
        \subseteq {None, LockEra})

\* A handshake of the flow that is not the locked one was forwarded: an
\* initialize, which sets the backend's era, or a discover, which does not.
FlowDrifted ==
    \/ LockFlow = "stateless" /\ (serverStep.proto # None \/ backend.proto # None)
    \/ LockFlow = "classic" /\ serverStep.listen /\ serverStep.proto = None
    \/ LockFlow = "classic" /\ backend.listening /\ backend.proto = None

\* The exit code cannot be clean once a page presented a declaration other
\* than the locked one, refused or forwarded with a warning, nor while the
\* session, or a page still to come, runs on an era, or after a handshake of a
\* flow, that was only warned about; and what the client is told of a refusal,
\* the exit code says too (Outcome, proxy.go:95-99, verify.go:245-299).  Not
\* stated: what --warn forwards of a list that ends without a locked tool, or of
\* a stateless list against a classic lock.
DriftIsReported ==
    /\ (\E n \in Names : presented[n] \notin {"absent", "locked"})
         => outcome.drift \/ outcome.inadmissible
    /\ EraDrifted \/ FlowDrifted \/ serverStep.code = "drift" => outcome.drift
    /\ serverStep.code = "inadmissible" => outcome.inadmissible

\* In strict mode nothing runs under an era other than the locked one: not the
\* session, not the header the backend sends, not an enumeration in progress.
StrictEra ==
    ~Warn => /\ {handshakeEra, serverStep.proto, backend.proto} \subseteq {None, LockEra}
             /\ \A e \in EnumIds : enums[e].era \in {None, LockEra}

\* The two tables stay within their caps (proxy.go:372 and 611).
TablesBounded ==
    /\ Cardinality(Tracked) <= MaxPending
    /\ Cardinality(TrackedCursors) <= MaxTrackedCursors

\* A clean-surface claim answers a request made under the locked era: an
\* enumeration "that runs under a warn-forwarded era" must not claim a clean
\* surface (verify.go:431-434).
CleanClaimUnderLockedEra ==
    [][\A i \in Ids :
          ~everClean /\ everClean' /\ pending[i].method = "tools/list" /\ pending'[i] = NoReq
              => pending[i].era = LockEra]_vars

\* When a tools/call leaves for the upstream its tool is on the verified list:
\* "a tool whose drifted declaration was refused is never called" (README.md:29-31).
SentCallsAreCallable ==
    [][clientStep.op = "send" /\ clientStep.name # None /\ clientStep' = ClientIdle
          => clientStep.name \in callable]_vars

\* The gate on tools/call promises no more and no less than ToolGate: tools
\* join on a forwarded page, leave together on any refusal, and a call is
\* admitted only for a tool on the list (proxy.go:420-431, verify.go:36-46).
Gate == INSTANCE ToolGate WITH
    Tools    <- Names,
    Accepted <- Forwardable,
    Unseen   <- "absent",
    verified <- callable,
    calling  <- clientStep.name

ImplementsToolGate == Gate!GateSpec
=============================================================================
