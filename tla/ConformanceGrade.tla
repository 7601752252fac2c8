--------------------------- MODULE ConformanceGrade ---------------------------
(***************************************************************************)
(* The conformance harness: conformance/probe.go sends a plan of requests  *)
(* (probes) to a live server and records an exchange for each,             *)
(* conformance/grade.go grades the recorded capture into cells and a       *)
(* verdict, conformance/report.go turns the verdict into an answer to the  *)
(* claim "this server conforms to this era".                               *)
(*                                                                         *)
(* The server is a conforming one with at most MaxDefects planted defects. *)
(* Between two probes it may stop answering or die, and single exchanges   *)
(* may be lost or cut.                                                     *)
(*                                                                         *)
(* Data.  A tool's name is a number, 0 when it is missing; so is a cursor, *)
(* which tells the server the page to list.  An exchange keeps what the    *)
(* grader reads of it.  The initialized notification is not recorded, nor  *)
(* the GET of a stdio connection: no cell reads either.                    *)
(***************************************************************************)
EXTENDS Integers, Sequences, FiniteSets, FiniteSetsExt, Functions

CONSTANTS
    Targets,     \* the servers probed: era, kind, tools, session, speaks, pages
    MaxPages,    \* the page bound of a walk: 8 in the code, or fewer
    MaxDefects,  \* bound: planted defects
    MaxLosses    \* bound: single exchanges lost, cut or unanswered

Eras == <<"2024-11-05", "2025-03-26", "2025-06-18", "2025-11-25", "2026-07-28">>
StatelessEra == "2026-07-28"

ASSUME HarnessAssumption ==
    /\ Targets \subseteq [era : Range(Eras), kind : {"http", "stdio"}, tools : BOOLEAN,
                          session : BOOLEAN, speaks : SUBSET Range(Eras), pages : Nat \ {0}]
    /\ \A t \in Targets :
          /\ t.era \in t.speaks
          /\ t.session => t.kind = "http" /\ t.era \in {Eras[i] : i \in 2..4}
    /\ MaxPages \in 2..8
    /\ MaxDefects \in Nat
    /\ MaxLosses \in Nat

VARIABLES
    target,   \* the server
    planted,  \* its defects
    mode,     \* whether it answers, hangs or is gone
    at,       \* the next entry of the plan
    page,     \* the next page of the walk
    cap,      \* Capture.Exchanges, by probe
    alive,    \* whether the first connection still works
    losses,   \* history: the probes that were lost one by one
    report    \* the cells, once graded

vars == <<target, planted, mode, at, page, cap, alive, losses, report>>

stateless == target.era = StatelessEra
http == target.kind = "http"
has(defect) == defect \in planted

-----------------------------------------------------------------------------
(* Exchanges, and how the grader sees them. *)

\* wire: answered, dead (a transport error), silent (no answer from a live
\* child before the timeout), cut (truncated before it could be classified).
NoMessage == [wire |-> "answered", ok |-> TRUE, body |-> "none", code |-> 0,
              version |-> "none", supported |-> {}, info |-> "absent", caps |-> "absent",
              names |-> <<>>, cursor |-> 0, cacheable |-> FALSE, complete |-> FALSE,
              sid |-> FALSE, stream |-> FALSE]

Refusal(code) == [NoMessage EXCEPT !.body = "error", !.code = code]
Lost(wire)    == [NoMessage EXCEPT !.wire = wire, !.ok = FALSE]
Cut(e)        == [NoMessage EXCEPT !.wire = "cut", !.sid = e.sid]

\* Fault: what was cut off is graded like what was received.
UnreachedIfDead(e) == e.wire = "dead"

TransportErr(e) == e.wire \in {"dead", "silent"}
Succeeded(e)    == ~TransportErr(e) /\ e.body = "result" /\ e.ok
Unreached(e)    == e.wire \in {"dead", "cut"}
Refused(e)      == ~Succeeded(e) /\ ~Unreached(e)

-----------------------------------------------------------------------------
(* The plan of probes. *)

VersionHeader == target.era \in {"2025-06-18", "2025-11-25"}

ClassicPlan   == <<"H1.init", "T1", "V1.noheader", "T2.badcursor", "B1.batch",
                   "S1.nosession", "H2.newer", "H3.cold", "D1.discover", "G1.get">>
StatelessPlan == <<"D1.discover", "D2.nometa", "H1.init", "T1", "T2.badcursor",
                   "B1.batch", "V2.mismatch", "G1.get">>
Plan == IF stateless THEN StatelessPlan ELSE ClassicPlan

\* The name of a page's exchange: the first page of a stateless walk is H3.
PageNames == <<"T1.page0", "T1.page1", "T1.page2", "T1.page3",
               "T1.page4", "T1.page5", "T1.page6", "T1.page7">>
PageProbe(k) == IF stateless /\ k = 0 THEN "H3.cold" ELSE PageNames[k + 1]
Probe == IF Plan[at] = "T1" THEN PageProbe(page) ELSE Plan[at]

\* The probes that dial a connection of their own.
Fresh == IF stateless THEN {} ELSE {"H2.newer", "H3.cold", "D1.discover"}

\* The eras a discover answer does not list, the oldest of which V2 names.
Unlisted(c) == {i \in 1..Len(Eras) : Eras[i] \notin c["D1.discover"].supported}
Mismatch(c) == Eras[Min(Unlisted(c))]

Sent(entry, c) ==
    /\ entry = "V1.noheader"  => VersionHeader /\ http
    /\ entry = "S1.nosession" => http /\ c["H1.init"].sid
    /\ entry = "V2.mismatch"  => Unlisted(c) # {}
    /\ entry = "G1.get"       => http

\* The entry after the current one that is sent, given the capture so far.
NextEntry(c) ==
    LET later == {i \in at + 1..Len(Plan) : Sent(Plan[i], c)}
    IN  IF later = {} THEN Len(Plan) + 1 ELSE Min(later)

-----------------------------------------------------------------------------
(* The server: what a conforming one answers, and its planted defects. *)

\* The defects a server can have.
Defects(t) ==
    LET modern == t.era = StatelessEra
    IN  {"noInfo", "anonymous"}
        \cup (IF modern THEN {"noMeta", "incomplete", "batches"} ELSE {"wrongEra", "unknown"})
        \cup (IF ~modern /\ StatelessEra \notin t.speaks THEN {"fakeDiscover"} ELSE {})
        \cup (IF t.era \in {"2025-06-18", "2025-11-25"} THEN {"batches"} ELSE {})
        \cup (IF t.era = "2025-03-26" THEN {"unbatched"} ELSE {})
        \cup (IF t.session /\ t.tools THEN {"unenforced"} ELSE {})
        \cup (IF t.tools THEN {"duplicates", "nameless", "laxCursor"} ELSE {})
        \cup (IF t.tools /\ t.pages > 1 THEN {"loops"} ELSE {})
        \cup (IF modern /\ t.tools THEN {"gated", "uncacheable"} ELSE {})
        \cup (IF modern /\ t.tools /\ t.speaks # Range(Eras) THEN {"mismatch", "oddCode"} ELSE {})
        \cup (IF modern /\ t.kind = "http" THEN {"mints"} ELSE {})
        \cup (IF modern /\ t.kind = "http" /\ t.speaks = {t.era} THEN {"streams"} ELSE {})

\* The cells a defect must, and should, show in.
Identity == IF stateless THEN "D1.discover" ELSE "H1.init"

MustCells(d) ==
    CASE d = "wrongEra"     -> {"H1.init"}
      [] d = "unknown"      -> {"H2.newer"}
      [] d = "fakeDiscover" -> {"D1.discover"}
      [] d = "unenforced"   -> {"S1.session"}
      [] d \in {"batches", "unbatched"} -> {"B1.batch"}
      [] d = "noInfo"       -> {Identity}
      [] d \in {"duplicates", "nameless", "loops"} -> {"T1.tools"}
      [] d = "noMeta"       -> {"D2.nometa"}
      [] d = "gated"        -> {"H3.cold", "T1.tools"}
      [] d = "mismatch"     -> {"V2.mismatch"}
      [] d = "mints"        -> {"S2.nosession"}
      [] d = "incomplete"   -> {"R1.resulttype"}
      [] d = "uncacheable"  -> {"C1.cacheable"}
      [] OTHER              -> {}

ShouldCells(d) ==
    CASE d = "anonymous" -> {"I1.identity"}
      [] d = "laxCursor" -> {"T2.badcursor"}
      [] d = "oddCode"   -> {"V2.mismatch"}
      [] d = "streams"   -> {"G1.get"}
      [] OTHER           -> {}

Result == [NoMessage EXCEPT !.body = "result", !.complete = stateless /\ ~has("incomplete")]

Identified(e) ==
    [e EXCEPT !.info = IF has("noInfo") THEN "absent"
                       ELSE IF has("anonymous") THEN "incomplete" ELSE "full",
              !.caps = IF target.tools THEN "tools" ELSE "none"]

\* A legacy handshake: the offered revision if it is spoken, else the target's.
Initialized(offer) ==
    LET spoken == IF offer \in target.speaks THEN offer ELSE target.era
    IN  [Identified(Result) EXCEPT !.complete = FALSE, !.sid = target.session,
            !.version = IF has("unknown") /\ offer = StatelessEra THEN "unknown"
                        ELSE IF has("wrongEra") /\ offer = target.era THEN "2024-10-07"
                        ELSE spoken]

Discovered == [Identified(Result) EXCEPT !.supported = target.speaks]

\* A page of the list; a cursor names the page it asks for.
Listed(k) ==
    IF ~target.tools THEN Refusal(-32601)
    ELSE [Result EXCEPT !.names = IF has("nameless") THEN <<0>>
                                  ELSE IF has("duplicates") /\ (k > 0 \/ target.pages = 1)
                                    THEN <<k + 1, 1>> ELSE <<k + 1>>,
                        !.cursor = IF has("loops") THEN 1
                                   ELSE IF k + 1 < target.pages THEN k + 1 ELSE 0,
                        !.cacheable = stateless /\ ~has("uncacheable")]

\* A request is let in if the server keeps no sessions or it names one.
Admitted(p) ==
    \/ ~target.session
    \/ p \notin Fresh \cup {"S1.nosession"} /\ cap["H1.init"].sid
    \/ p = "S1.nosession" /\ has("unenforced")

Accepted == [NoMessage EXCEPT !.body = "batch"]

\* The page the walk's request for its k-th page asks for.
Asked(k) == IF k = 0 THEN 0 ELSE cap[PageProbe(k - 1)].cursor

ClassicAnswer(p, k) ==
    CASE p = "H1.init"     -> Initialized(target.era)
      [] p = "H2.newer"    -> Initialized(StatelessEra)
      [] p = "D1.discover" -> IF StatelessEra \in target.speaks THEN Discovered
                              ELSE IF has("fakeDiscover") THEN Result ELSE Refusal(-32601)
      [] p = "G1.get"      -> [NoMessage EXCEPT !.stream = TRUE]
      [] OTHER ->
           IF ~Admitted(p) THEN [Refusal(-32000) EXCEPT !.ok = FALSE]
           ELSE CASE p = "B1.batch" ->
                       IF \/ target.era = "2024-11-05"
                          \/ target.era = "2025-03-26" /\ ~has("unbatched")
                          \/ has("batches")
                         THEN Accepted ELSE Refusal(-32600)
                  [] p = "T2.badcursor" -> IF has("laxCursor") THEN Listed(0) ELSE Refusal(-32602)
                  [] p \in {"V1.noheader", "S1.nosession", "H3.cold"} -> Listed(0)
                  [] OTHER -> Listed(Asked(k))

StatelessAnswer(p, k) ==
    CASE p = "D1.discover" -> Discovered
      [] p = "D2.nometa"   -> IF has("noMeta") THEN Discovered ELSE Refusal(-32602)
      [] p = "H1.init"     -> IF target.speaks = {StatelessEra} THEN Refusal(-32601)
                              ELSE Initialized("2025-11-25")
      [] p = "T2.badcursor" -> IF has("laxCursor") THEN Listed(0) ELSE Refusal(-32602)
      [] p = "B1.batch"    -> IF has("batches") THEN Accepted ELSE Refusal(-32600)
      [] p = "V2.mismatch" -> IF ~target.tools THEN Refusal(-32601)
                              ELSE IF has("mismatch") \/ Mismatch(cap) \in target.speaks THEN Listed(0)
                              ELSE Refusal(IF has("oddCode") THEN -32004 ELSE -32022)
      [] p = "G1.get"      -> [NoMessage EXCEPT !.stream = has("streams"), !.ok = has("streams")]
      [] OTHER             -> IF p = "H3.cold" /\ has("gated") THEN Refusal(-32600) ELSE Listed(Asked(k))

\* The answer to a probe, the walk being at its k-th page.
Answer(p, k) ==
    IF stateless THEN [StatelessAnswer(p, k) EXCEPT !.sid = @ \/ has("mints")] ELSE ClassicAnswer(p, k)

-----------------------------------------------------------------------------
(* Grading: the cells of the classic eras. *)

recorded(p) == p \in DOMAIN cap

\* The grade of an exchange, unreached when none was recorded.
Graded(p, grade) == IF recorded(p) THEN grade ELSE "unreached"

H1Classic(e) ==
    CASE TransportErr(e) -> "unreached"
      [] ~TransportErr(e) /\ ~Succeeded(e) -> "must"
      [] Succeeded(e) -> IF e.version = target.era /\ e.info # "absent" /\ e.caps # "absent"
                           THEN "pass" ELSE "must"

Negotiated == IF recorded("H1.init") /\ Succeeded(cap["H1.init"]) THEN cap["H1.init"].version ELSE "none"

H2Newer(e) ==
    CASE TransportErr(e) -> "unreached"
      [] ~TransportErr(e) /\ ~Succeeded(e) -> "must"
      [] Succeeded(e) -> IF e.version = StatelessEra THEN "obs"
                         ELSE IF e.version \in Range(Eras) THEN "pass" ELSE "must"

H3Classic(e) == IF Unreached(e) THEN "unreached" ELSE "obs"

\* Fault: whatever did not succeed was refused.
D1DeadRefuses(e) ==
    IF Succeeded(e) THEN IF e.supported # {} THEN "obs" ELSE "must" ELSE "pass"

D1Classic(e) ==
    CASE Unreached(e) -> "unreached"
      [] Refused(e)   -> "pass"
      [] Succeeded(e) -> IF e.supported # {} THEN "obs" ELSE "must"

\* A request that has to be served.
Served(e) ==
    CASE Unreached(e) -> "unreached"
      [] Refused(e)   -> "must"
      [] Succeeded(e) -> "pass"

\* A request that has to be refused.
Withheld(e) ==
    CASE Unreached(e) -> "unreached"
      [] Refused(e)   -> "pass"
      [] Succeeded(e) -> "must"

V1Header ==
    CASE ~http -> "na"
      [] http /\ recorded("T1.page0") /\ Negotiated # "none" -> Served(cap["T1.page0"])
      [] OTHER -> "unreached"

S1Session ==
    CASE target.era = "2024-11-05" \/ ~http -> "na"
      [] OTHER -> IF cap["H1.init"].sid THEN Graded("S1.nosession", Withheld(cap["S1.nosession"])) ELSE "na"

B1Batch(e) ==
    LET accepted == e.body = "batch" /\ e.ok
    IN  CASE Unreached(e) -> "unreached"
          [] ~Unreached(e) /\ target.era = "2024-11-05" -> "obs"
          [] ~Unreached(e) /\ target.era = "2025-03-26" -> IF accepted THEN "pass" ELSE "must"
          [] OTHER -> IF accepted THEN "must" ELSE "pass"

\* Without an answer that says otherwise a server is taken to list tools.
ToolsCapability(p) ==
    recorded(p) /\ cap[p].body = "result" => cap[p].caps # "none"

-----------------------------------------------------------------------------
(* The pages of the walk, the cursor and the identity. *)

Walked == {k \in 0..MaxPages - 1 : recorded(PageProbe(k))}

\* What is wrong with a page, in the light of those before it.
PageGrade(k) ==
    LET e      == cap[PageProbe(k)]
        before == {cap[PageProbe(j)] : j \in {i \in Walked : i < k}}
        listed == UNION {Range(b.names) : b \in before}
    IN  CASE Unreached(e)  -> "unreached"
          [] Refused(e)    -> "must"
          [] Succeeded(e)  ->
               IF \/ 0 \in Range(e.names)
                  \/ ~IsInjective(e.names)
                  \/ Range(e.names) \cap listed # {}
                  \/ e.cursor # 0 /\ \E b \in before : b.cursor = e.cursor
                 THEN "must" ELSE "pass"

\* Fault: the last page's cursor is not looked at.
T1CapPasses ==
    LET flawed == {k \in Walked : PageGrade(k) # "pass"}
    IN  CASE Walked = {}   -> "unreached"
          [] flawed # {}   -> PageGrade(Min(flawed))
          [] OTHER         -> "pass"

T1Tools ==
    LET flawed == {k \in Walked : PageGrade(k) # "pass"}
    IN  CASE Walked = {}   -> "unreached"
          [] flawed # {}   -> PageGrade(Min(flawed))
          [] OTHER         -> IF cap[PageProbe(Max(Walked))].cursor # 0 THEN "unreached" ELSE "pass"

T2BadCursor(e) ==
    CASE Unreached(e) -> "unreached"
      [] Refused(e)   -> "pass"
      [] Succeeded(e) -> "should"

I1Identity(e) ==
    IF ~Succeeded(e) \/ e.info = "absent" THEN "unreached"
    ELSE IF e.info = "incomplete" THEN "should" ELSE "pass"

ToolsCells == {"T1.tools", "T2.badcursor"}

ToolsCell(c) == IF c = "T1.tools" THEN T1Tools ELSE Graded(c, T2BadCursor(cap[c]))

ClassicCellNames ==
    {"H1.init", "H2.newer", "H3.cold", "D1.discover", "B1.batch", "I1.identity"} \cup ToolsCells
    \cup (IF VersionHeader THEN {"V1.header"} ELSE {})
    \cup (IF recorded("V1.noheader") /\ Negotiated # "none" THEN {"V1.noheader"} ELSE {})
    \cup (IF http \/ target.era # "2024-11-05" THEN {"S1.session"} ELSE {})
    \cup (IF http THEN {"G1.get"} ELSE {})

ClassicCell(c) ==
    CASE c = "H1.init"     -> Graded(c, H1Classic(cap[c]))
      [] c = "H2.newer"    -> Graded(c, H2Newer(cap[c]))
      [] c = "H3.cold"     -> Graded(c, H3Classic(cap[c]))
      [] c = "D1.discover" -> Graded(c, D1Classic(cap[c]))
      [] c = "V1.header"   -> V1Header
      [] c = "V1.noheader" -> "obs"
      [] c = "S1.session"  -> S1Session
      [] c \in ToolsCells  -> IF ToolsCapability("H1.init") THEN ToolsCell(c) ELSE "na"
      [] c = "B1.batch"    -> Graded(c, B1Batch(cap[c]))
      [] c = "G1.get"      -> IF target.era = "2024-11-05" THEN "na" ELSE "obs"
      [] c = "I1.identity" -> Graded("H1.init", I1Identity(cap["H1.init"]))

-----------------------------------------------------------------------------
(* The cells of the stateless era. *)

D1Stateless(e) ==
    CASE TransportErr(e) -> "unreached"
      [] ~TransportErr(e) /\ ~Succeeded(e) -> "must"
      [] Succeeded(e) -> IF StatelessEra \in e.supported /\ e.info # "absent" /\ e.caps # "absent"
                           THEN "pass" ELSE "must"

H1Stateless(e) ==
    CASE Unreached(e) -> "unreached"
      [] Refused(e)   -> "pass"
      [] Succeeded(e) -> IF e.version # "none" THEN "obs" ELSE "must"

S2NoSession ==
    CASE ~http -> "na"
      [] http /\ (\E p \in DOMAIN cap : cap[p].sid) -> "must"
      [] OTHER -> IF \A p \in DOMAIN cap : Unreached(cap[p]) THEN "unreached" ELSE "pass"

V2Mismatch(e) ==
    CASE Unreached(e) -> "unreached"
      [] Succeeded(e) -> "must"
      [] Refused(e)   -> IF e.body = "error" /\ e.code = -32022 THEN "pass" ELSE "should"

C1Cacheable(e) ==
    IF ~Succeeded(e) THEN "unreached" ELSE IF e.cacheable THEN "pass" ELSE "must"

\* Fault: the legacy handshake is inspected too.
R1SweepsAll ==
    LET modern == {p \in DOMAIN cap : Succeeded(cap[p])}
    IN  IF modern = {} THEN "unreached"
        ELSE IF \A p \in modern : cap[p].complete THEN "pass" ELSE "must"

R1ResultType ==
    LET modern == {p \in DOMAIN cap \ {"H1.init"} : Succeeded(cap[p])}
    IN  IF modern = {} THEN "unreached"
        ELSE IF \A p \in modern : cap[p].complete THEN "pass" ELSE "must"

\* A target that speaks only this era should not serve the old stream.
G1Stateless(e) ==
    LET supported == IF Succeeded(cap["D1.discover"]) THEN cap["D1.discover"].supported ELSE {}
    IN  IF e.stream /\ e.ok /\ supported = {StatelessEra} THEN "should" ELSE "obs"

StatelessCellNames ==
    {"D1.discover", "D2.nometa", "H1.init", "H3.cold", "S2.nosession", "B1.batch", "V2.mismatch",
     "C1.cacheable", "R1.resulttype", "I1.identity"} \cup ToolsCells
    \cup (IF http THEN {"G1.get"} ELSE {})

StatelessCell(c) ==
    CASE c = "D1.discover"   -> Graded(c, D1Stateless(cap[c]))
      [] c = "D2.nometa"     -> Graded(c, Withheld(cap[c]))
      [] c = "H1.init"       -> Graded(c, H1Stateless(cap[c]))
      [] c = "S2.nosession"  -> S2NoSession
      [] c = "B1.batch"      -> Graded(c, B1Batch(cap[c]))
      [] c = "R1.resulttype" -> R1ResultType
      [] c = "G1.get"        -> Graded(c, G1Stateless(cap[c]))
      [] c = "I1.identity"   -> Graded("D1.discover", I1Identity(cap["D1.discover"]))
      [] c \in {"H3.cold", "V2.mismatch", "C1.cacheable"} \cup ToolsCells ->
           IF ~ToolsCapability("D1.discover") THEN "na"
           ELSE CASE c = "H3.cold"      -> Graded(c, Served(cap[c]))
                  [] c = "V2.mismatch"  -> Graded(c, V2Mismatch(cap[c]))
                  [] c = "C1.cacheable" -> Graded("H3.cold", C1Cacheable(cap["H3.cold"]))
                  [] c \in ToolsCells   -> ToolsCell(c)

Cells ==
    IF stateless THEN [c \in StatelessCellNames |-> StatelessCell(c)]
    ELSE [c \in ClassicCellNames |-> ClassicCell(c)]

\* Fault: a SHOULD violation hides a MUST violation.
VerdictShouldFirst(cells) ==
    LET outcomes == {cells[c] : c \in DOMAIN cells}
    IN  CASE outcomes \cap {"must", "should", "pass"} = {} -> "UNGRADED"
          [] "should" \in outcomes -> "CONFORMANT*"
          [] "should" \notin outcomes /\ "must" \in outcomes -> "NONCONFORMANT"
          [] OTHER -> "CONFORMANT"

VerdictOf(cells) ==
    LET outcomes == {cells[c] : c \in DOMAIN cells}
    IN  CASE outcomes \cap {"must", "should", "pass"} = {} -> "UNGRADED"
          [] "must" \in outcomes -> "NONCONFORMANT"
          [] "must" \notin outcomes /\ "should" \in outcomes -> "CONFORMANT*"
          [] OTHER -> "CONFORMANT"

\* ValidateEraClaim: whether the report upholds the claim.
Validates(cells) == VerdictOf(cells) \in {"CONFORMANT", "CONFORMANT*"}

-----------------------------------------------------------------------------
(* A run of the harness.  Its first dial has succeeded: else there is no report. *)

done == report # <<>>

Init ==
    /\ target \in Targets
    /\ planted \in {d \in SUBSET Defects(target) : Cardinality(d) <= MaxDefects}
    /\ mode = "up"
    /\ at = 1
    /\ page = 0
    /\ cap = <<>>
    /\ alive = TRUE
    /\ losses = {}
    /\ report = <<>>

Probing == at <= Len(Plan)

\* Whether a request reaches a server that is up.
Connected(p) == p \in Fresh \/ alive

\* The next page while the list goes on and the bound allows, else the next entry.
Advance(e) ==
    IF Plan[at] = "T1" /\ e.cursor # 0 /\ page + 1 < MaxPages
      THEN page' = page + 1 /\ UNCHANGED at
      ELSE at' = NextEntry(cap') /\ UNCHANGED page

Record(p, e) ==
    /\ cap' = [q \in DOMAIN cap \cup {p} |-> IF recorded(q) THEN cap[q] ELSE e]
    /\ Advance(e)
    /\ UNCHANGED <<target, planted, mode, report>>

Answered ==
    /\ Probing /\ mode = "up" /\ Connected(Probe)
    /\ Record(Probe, Answer(Probe, page))
    /\ UNCHANGED <<alive, losses>>

\* One exchange is lost: over HTTP the connection breaks, before or after the
\* headers, or the capture is cut; a child does not answer, or exits.  Of a GET
\* only the headers are graded: what breaks after them counts as answered.
Mislaid(p, e) ==
    CASE ~http                 -> {Lost("dead"), Lost("silent")}
      [] http /\ p = "G1.get" -> {Lost("dead"), e}
      [] OTHER                 -> {Lost("dead"), [Lost("dead") EXCEPT !.sid = e.sid], Cut(e)}

ExchangeLost ==
    /\ Probing /\ mode = "up" /\ Connected(Probe)
    /\ Cardinality(losses) < MaxLosses
    /\ \E e \in Mislaid(Probe, Answer(Probe, page)) :
          /\ Record(Probe, e)
          /\ alive' = (alive /\ (http \/ Probe \in Fresh \/ e.wire # "dead"))
    /\ losses' = losses \cup {Probe}

Unanswered ==
    /\ Probing /\ mode = "silent" /\ Connected(Probe)
    /\ Record(Probe, Lost("silent"))
    /\ UNCHANGED <<alive, losses>>

\* The server is gone, or the child of this connection is.
Failed ==
    /\ Probing /\ (mode = "down" \/ ~Connected(Probe))
    /\ Record(Probe, Lost("dead"))
    /\ alive' = (alive /\ (http \/ Probe \in Fresh))
    /\ UNCHANGED losses

\* A fresh child does not start: no exchange is recorded.
DialFails ==
    /\ Probing /\ mode = "down" /\ ~http /\ Probe \in Fresh
    /\ at' = NextEntry(cap)
    /\ UNCHANGED <<target, planted, mode, page, cap, alive, losses, report>>

\* The server hangs (every request of HTTP then times out: it is down), goes
\* away, or the harness's budget is spent.
Turns ==
    /\ Probing /\ mode = "up"
    /\ mode' \in IF http THEN {"down"} ELSE {"silent", "down"}
    /\ UNCHANGED <<target, planted, at, page, cap, alive, losses, report>>

\* The child of the first connection exits.
ChildExits ==
    /\ Probing /\ ~http /\ alive
    /\ alive' = FALSE
    /\ UNCHANGED <<target, planted, mode, at, page, cap, losses, report>>

GradeCapture ==
    /\ ~Probing /\ ~done
    /\ report' = Cells
    /\ UNCHANGED <<target, planted, mode, at, page, cap, alive, losses>>

Server == Answered \/ ExchangeLost \/ Unanswered \/ Failed \/ DialFails
Next == Server \/ Turns \/ ChildExits \/ GradeCapture

Spec == Init /\ [][Next]_vars

-----------------------------------------------------------------------------
(* Properties. *)

CellsThatSay(o) == {c \in DOMAIN report : report[c] = o}
Quiet == mode = "up" /\ alive /\ losses = {}
All(cells(_)) == UNION {cells(d) : d \in planted}

\* The version header is graded on the list, which a server without tools rightly
\* refuses (see ToollessIsNotBlamed).
HeaderApplies == http /\ VersionHeader => target.tools

\* The harness's validity controls (PREDICATES.md, CTRL-BAD and CTRL-GOOD): of
\* a server that answers everything, and that has the list it is graded on,
\* exactly the planted defect is flagged, and one without a defect conforms.
FlaggedExactly ==
    done /\ Quiet /\ HeaderApplies /\ Cardinality(planted) <= 1 =>
       /\ CellsThatSay("must") = All(MustCells)
       /\ CellsThatSay("should") = All(ShouldCells)
       /\ planted = {} => VerdictOf(report) = "CONFORMANT"

\* Whatever is lost, nothing is held against a server that it does not do: an
\* unreached exchange "grades UNREACHED, never a verdict" (grade.go:107-116).
\* Not so when the identity exchange itself is lost (its session id, versions
\* and capabilities are missing later), nor for the exchanges that are
\* condemned when cut, nor for silence, which refuses, nor for a server without
\* the list that its header is graded on.
NothingFabricated ==
    /\ done /\ HeaderApplies
    /\ cap[Identity].wire = "answered"
    /\ \A p \in DOMAIN cap : cap[p].wire # "silent" /\ (cap[p].wire = "cut" => p # "H2.newer")
    => CellsThatSay("must") \subseteq All(MustCells)

\* The exchanges a violation shows on.
Witnesses(d) ==
    CASE d = "wrongEra"     -> {"H1.init"}
      [] d = "unknown"      -> {"H2.newer"}
      [] d = "fakeDiscover" -> {"D1.discover"}
      [] d = "unenforced"   -> {"S1.nosession"}
      [] d \in {"batches", "unbatched"} -> {Identity, "B1.batch"}
      [] d \in {"noInfo", "incomplete"} -> {Identity}
      [] d = "nameless"     -> {PageProbe(0)}
      [] d \in {"duplicates", "loops"} ->
            {PageProbe(k) : k \in 0..(IF target.pages = 1 THEN 0 ELSE 1)}
      [] d = "noMeta"       -> {"D2.nometa"}
      [] d \in {"gated", "uncacheable"} -> {"H3.cold"}
      [] d = "mismatch"     -> {"V2.mismatch"}
      [] d = "mints"        -> {"B1.batch"}
      [] OTHER              -> {"none"}

\* A violation that was answered on the wire stays one, whatever else is lost
\* and whichever other defect goes with it: the claim is not validated.
ViolationsCount ==
    done /\ (\E d \in planted :
               \A p \in Witnesses(d) : recorded(p) /\ cap[p].wire = "answered")
    => ~Validates(report)

\* A walk passes only when it has seen the server's whole list, every tool
\* once: "a walk that hits it records unreached(page-cap), never a pass".
WalkPassIsWhole ==
    done /\ report["T1.tools"] = "pass" =>
       LET walked == {cap[p].names : p \in {PageProbe(k) : k \in Walked}}
       IN  /\ UNION {Range(names) : names \in walked} = 1..target.pages
           /\ planted \cap {"duplicates", "nameless", "loops", "gated"} = {}

\* A target no exchange reached is not graded: "a dead target must never read
\* as conformant" (grade.go:27-29); and over HTTP, where silence is a timeout,
\* a claim is upheld only by an answer.
DeadIsUngraded ==
    done =>
       /\ (\A p \in DOMAIN cap : cap[p] = Lost("dead")) => VerdictOf(report) = "UNGRADED"
       /\ http /\ Validates(report) => \E p \in DOMAIN cap : cap[p].wire = "answered"

\* "Grading that refusal as a violation would manufacture a finding out of the
\* prober's own inapplicable request" (grade.go:683-690): a server without tools
\* that does nothing wrong and answers everything has no violation.
ToollessIsNotBlamed ==
    done /\ Quiet /\ planted = {} /\ ~target.tools => CellsThatSay("must") = {}

\* The claim of report.go:25-28, "a dead target must never validate a claim
\* (silence is not conformance)": a target that answered nothing at all, over
\* any transport, does not validate one.
SilenceIsNotConformance ==
    done /\ Validates(report) => \E p \in DOMAIN cap : cap[p].wire = "answered"
===============================================================================
