--------------------------- MODULE LockfileVerbs ---------------------------
(***************************************************************************)
(* The command line (cmd/surfacelock): several runs of lock, verify, diff, *)
(* pin and proxy over one lockfile, which is read whole, judged, and       *)
(* written in place, while other runs do the same, writes fail and runs    *)
(* are killed.  A server may serve anything at every fetch; what client    *)
(* and proxy make of it is the subject of ClientFetch and ProxySession,    *)
(* and here the outcome is any they can have.                              *)
(***************************************************************************)
EXTENDS LockSurface

CONSTANTS
    Runs,        \* processes
    Invocations, \* per process: the command lines it may be given
    Names,       \* entry names, in the order they are sorted; "all" is none
    Transport,   \* of the server each name stands for
    RawSurfaces, \* what a server may serve
    Versions     \* of a tool: what it may hold at its places

ASSUME VerbsAssumption ==
    /\ Names \in Seq(STRING)
    /\ "all" \notin Range(Names)
    /\ Transport \in [Range(Names) -> {"http", "stdio"}]
    /\ Invocations \in [Runs -> SUBSET [verb : {"lock", "verify", "pin", "proxy"}, json : BOOLEAN,
                                         name : Range(Names) \union {"all"},
                                         headers : {"none", "valid", "unset"}]]
    /\ \A p \in Runs : \A i \in Invocations[p] : i.verb = "lock" => i.name \in Range(Names)

VARIABLES
    file, \* the lockfile: absent, partial (what a write in progress or cut leaves), or whole
    run   \* per process: its run

vars == <<file, run>>

None == [era |-> "empty"]
Entries == {EntryFromSurface(Admit(raw)) : raw \in {w \in RawSurfaces : Admissible(w)}}
Servers == [Range(Names) -> Entries \union {None}]
NoServers == [n \in Range(Names) |-> None]
Present(lf) == {n \in Range(Names) : lf[n] # None}

Codes == {"ok", "drift", "usage", "transport", "lockfile", "inadmissible"}
Nothing == "nothing" \* not observed, not judged

Idle ==
    [pc |-> "idle", verb |-> "none", json |-> FALSE, name |-> "all", headers |-> "none",
     base |-> NoServers, lf |-> NoServers, todo |-> {}, worst |-> "ok",
     judged |-> [n \in Range(Names) |-> Nothing], observed |-> [n \in Range(Names) |-> <<>>],
     found |-> {}, alone |-> TRUE, exit |-> "none", doc |-> "none", cut |-> FALSE]

\* base: the entries as read (history); observed: the rollup of the admitted
\* surface, per name (history); found: the verdicts met (history); alone: no
\* other run has touched the file since this one read it (history); doc: the exit
\* code in the document on stdout, "none" for no document or half of one; cut:
\* stdout did not take it.

Init ==
    /\ file = [state |-> "absent", servers |-> NoServers]
    /\ run = [p \in Runs |-> Idle]

-----------------------------------------------------------------------------
(***************************************************************************)
(* Exit codes and the report.                                              *)
(***************************************************************************)

\* Least serious first: a run that could not complete outranks a drift verdict.
Seriousness == <<"ok", "drift", "transport", "inadmissible", "lockfile", "usage">>

Serious(code) == CHOOSE i \in DOMAIN Seriousness : Seriousness[i] = code

WorseLast(a, b) == b \* Fault: the last outcome wins

worse(a, b) == IF Serious(b) > Serious(a) THEN b ELSE a

Exit(r, code) == [r EXCEPT !.pc = "done", !.exit = code]

\* finish: with --json the report goes out, or it does not and the exit code
\* says so.
Finish(r, code) ==
    IF r.json
    THEN {[Exit(r, code) EXCEPT !.doc = code], [Exit(r, worse(code, "transport")) EXCEPT !.cut = TRUE]}
    ELSE {Exit(r, code)}

Becomes(p, rs) == \E r \in rs : run' = [run EXCEPT ![p] = r]

-----------------------------------------------------------------------------
(***************************************************************************)
(* From the command line to the first fetch.                               *)
(***************************************************************************)

\* An unset --header-env variable, and --json for a verb that has no report,
\* are refused before any verb runs.
Begin(p) ==
    /\ run[p].pc \in {"idle", "done", "killed"}
    /\ \E i \in Invocations[p] :
        LET r == [Idle EXCEPT !.pc = "read", !.verb = i.verb, !.json = i.json, !.name = i.name,
                              !.headers = i.headers]
        IN run' = [run EXCEPT ![p] =
                      IF i.headers = "unset" \/ (i.json /\ i.verb \in {"pin", "proxy"})
                      THEN Exit(r, "usage") ELSE r]
    /\ UNCHANGED file

\* Fault: a file cut short parses as an empty one.
ParsesCut == \A n \in Present(file.servers) : WellFormed(file.servers[n])

\* Parse: one document, of well-formed entries.
Parses == file.state = "whole" /\ \A n \in Present(file.servers) : WellFormed(file.servers[n])

\* readLockfile: no file, one that does not parse and one whose hashes disagree
\* with its content are lockfile errors.
Readable == Parses /\ \A n \in Present(file.servers) : Validates(file.servers[n])

Selected(r, lf) == {n \in Present(lf) : r.name \in {"all", n}}

\* Entries are taken in the order of their names.
First(names) == Names[Min({i \in DOMAIN Names : Names[i] \in names})]

\* One credential is for one entry, and for an http one.
HeadersMisapplied(r, names) ==
    /\ r.headers = "valid"
    /\ Cardinality(names) > 1 \/ \E n \in names : Transport[n] # "http"

Loaded(r, lf, names) ==
    [r EXCEPT !.pc = "fetch", !.base = lf, !.lf = lf, !.todo = names, !.alone = TRUE]

\* lock: only an absent file is taken for an empty one; an entry that is there
\* is not lock's to replace.
ReadForLock(p) ==
    LET r == run[p] IN
    /\ r.pc = "read"
    /\ r.verb = "lock"
    /\ Becomes(p, IF HeadersMisapplied(r, {r.name}) THEN Finish(r, "usage")
                  ELSE IF file.state # "absent" /\ ~Readable THEN Finish(r, "lockfile")
                  ELSE IF r.name \in Present(file.servers) THEN Finish(r, "usage")
                  ELSE {Loaded(r, file.servers, {r.name})})
    /\ UNCHANGED file

\* verify and diff: a name that is not there is a usage error, an empty file a
\* lockfile error; misapplied headers end the run without its report.
ReadForCompare(p) ==
    LET r == run[p]
        names == Selected(r, file.servers)
    IN
    /\ r.pc = "read"
    /\ r.verb = "verify"
    /\ Becomes(p, IF ~Readable THEN Finish(r, "lockfile")
                  ELSE IF names = {} THEN Finish(r, IF r.name = "all" THEN "lockfile" ELSE "usage")
                  ELSE IF HeadersMisapplied(r, names) THEN {Exit(r, "usage")}
                  ELSE {Loaded(r, file.servers, names)})
    /\ UNCHANGED file

ReadForPin(p) ==
    LET r == run[p]
        names == Selected(r, file.servers)
    IN
    /\ r.pc = "read"
    /\ r.verb = "pin"
    /\ Becomes(p, IF ~Readable THEN {Exit(r, "lockfile")}
                  ELSE IF names = {} THEN {Exit(r, IF r.name = "all" THEN "lockfile" ELSE "usage")}
                  ELSE IF HeadersMisapplied(r, names) THEN {Exit(r, "usage")}
                  ELSE {Loaded(r, file.servers, names)})
    /\ UNCHANGED file

\* proxy serves one entry: the named one, or the only one.
ReadForProxy(p) ==
    LET r == run[p]
        names == Selected(r, file.servers)
    IN
    /\ r.pc = "read"
    /\ r.verb = "proxy"
    /\ Becomes(p, IF ~Readable THEN {Exit(r, "lockfile")}
                  ELSE IF Cardinality(names) # 1 \/ HeadersMisapplied(r, names) THEN {Exit(r, "usage")}
                  ELSE {[Loaded(r, file.servers, names) EXCEPT !.pc = "session"]})
    /\ UNCHANGED file

-----------------------------------------------------------------------------
(***************************************************************************)
(* Fetches and verdicts.                                                   *)
(***************************************************************************)

\* What a fetch that succeeds makes of the entry, for lock and pin.
Renewed(r, s) ==
    LET n == First(r.todo) IN
    [r EXCEPT !.lf[n] = EntryFromSurface(s), !.observed[n] = SurfaceHash(s), !.todo = @ \ {n},
              !.pc = IF r.todo = {n} THEN "truncate" ELSE "fetch"]

\* fetchSurface: Fetch fails in either way, or hands over a raw surface that is
\* admitted or not.
FetchForLock(p) ==
    LET r == run[p] IN
    /\ r.pc = "fetch"
    /\ r.verb = "lock"
    /\ \/ \E code \in {"transport", "inadmissible"} : Becomes(p, Finish(r, code))
       \/ \E raw \in RawSurfaces :
            IF Admissible(raw) THEN Becomes(p, {Renewed(r, Admit(raw))})
            ELSE Becomes(p, Finish(r, "inadmissible"))
    /\ UNCHANGED file

\* Fault: pin passes over an entry it cannot fetch and writes the others.
FetchForPinSkips(p) ==
    LET r == run[p] IN
    /\ r.pc = "fetch"
    /\ r.verb = "pin"
    /\ \/ Becomes(p, {[r EXCEPT !.todo = @ \ {First(@)}, !.pc = IF r.todo = {First(r.todo)} THEN "truncate" ELSE @]})
       \/ \E raw \in RawSurfaces : Admissible(raw) /\ Becomes(p, {Renewed(r, Admit(raw))})
    /\ UNCHANGED file

\* pin: the first entry that fails ends the run, and nothing is written.
FetchForPin(p) ==
    LET r == run[p] IN
    /\ r.pc = "fetch"
    /\ r.verb = "pin"
    /\ \/ \E code \in {"transport", "inadmissible"} : Becomes(p, {Exit(r, code)})
       \/ \E raw \in RawSurfaces :
            Becomes(p, {IF Admissible(raw) THEN Renewed(r, Admit(raw)) ELSE Exit(r, "inadmissible")})
    /\ UNCHANGED file

\* verify and diff: every entry gets its verdict, a failure like a drift, and
\* the worst is the run's.
Judged(r, code, hash) ==
    LET n == First(r.todo)
        s == [r EXCEPT !.judged[n] = code, !.observed[n] = hash, !.worst = worse(@, code),
                       !.todo = @ \ {n}, !.found = @ \union {code}]
    IN IF s.todo = {} THEN Finish(s, s.worst) ELSE {s}

Verdict(e, s) == IF Empty(Diff(e, s)) THEN "ok" ELSE "drift"

Compare(p) ==
    LET r == run[p] IN
    /\ r.pc = "fetch"
    /\ r.verb = "verify"
    /\ \/ \E code \in {"transport", "inadmissible"} : Becomes(p, Judged(r, code, <<>>))
       \/ \E raw \in RawSurfaces :
            IF Admissible(raw)
            THEN Becomes(p, Judged(r, Verdict(r.lf[First(r.todo)], Admit(raw)), SurfaceHash(Admit(raw))))
            ELSE Becomes(p, Judged(r, "inadmissible", <<>>))
    /\ UNCHANGED file

\* The three flags of a session's outcome, the later one over the earlier.
ProxyExit(flags) ==
    CASE "inadmissible" \in flags -> "inadmissible"
      [] "inadmissible" \notin flags /\ "transport" \in flags -> "transport"
      [] flags = {"drift"} -> "drift"
      [] flags = {} -> "ok"

\* proxy.Run does not start, or ends with its outcome.
Session(p) ==
    LET r == run[p] IN
    /\ r.pc = "session"
    /\ \/ Becomes(p, {Exit(r, "transport")})
       \/ \E flags \in SUBSET {"drift", "transport", "inadmissible"} :
            Becomes(p, {[Exit(r, ProxyExit(flags)) EXCEPT !.found = flags]})
    /\ UNCHANGED file

-----------------------------------------------------------------------------
(***************************************************************************)
(* writeLockfile: the file is truncated and written in place.              *)
(***************************************************************************)

\* Nobody else's copy of the file is what is in it any more.
Touched(p, r) == [q \in Runs |-> IF q = p THEN r ELSE [run[q] EXCEPT !.alone = FALSE]]

\* How a run that could not write ends: lock has a report, pin has none.
WriteFailed(r) == IF r.verb = "lock" THEN Finish(r, "lockfile") ELSE {Exit(r, "lockfile")}

\* The file cannot be rendered, would hold a credential, or cannot be opened.
WriteRefused(p) ==
    /\ run[p].pc = "truncate"
    /\ Becomes(p, WriteFailed(run[p]))
    /\ UNCHANGED file

Truncate(p) ==
    /\ run[p].pc = "truncate"
    /\ file' = [state |-> "partial", servers |-> NoServers]
    /\ run' = Touched(p, [run[p] EXCEPT !.pc = "write"])

\* What a write leaves.  The bytes go to the start of the file: where another
\* run has written since this one truncated it, the longer tail may remain.
Written(lf) ==
    {[state |-> "whole", servers |-> lf]}
    \union IF file.state = "whole" /\ file.servers # lf
           THEN {[state |-> "partial", servers |-> NoServers]} ELSE {}

Write(p) ==
    LET r == run[p] IN
    /\ r.pc = "write"
    /\ file' \in Written(r.lf)
    /\ \E s \in IF r.verb = "lock" THEN Finish(r, "ok") ELSE {Exit(r, "ok")} : run' = Touched(p, s)

\* The disk is full, say: some of it is there.
WriteCut(p) ==
    LET r == run[p] IN
    /\ r.pc = "write"
    /\ file' = [state |-> "partial", servers |-> NoServers]
    /\ \E s \in WriteFailed(r) : run' = Touched(p, s)

\* The process is killed; what it has not written stays unwritten.
Killed(p) ==
    /\ run[p].pc \in {"fetch", "session", "truncate", "write"}
    /\ run' = [run EXCEPT ![p] = [Idle EXCEPT !.pc = "killed"]]
    /\ UNCHANGED file

\* A lockfile that is no good is taken from version control, or removed.
Restore ==
    /\ file.state = "partial"
    /\ \A p \in Runs : run[p].pc \in {"idle", "done", "killed"}
    /\ file' = [state |-> "absent", servers |-> NoServers]
    /\ UNCHANGED run

Next ==
    \/ \E p \in Runs :
        \/ Begin(p) \/ ReadForLock(p) \/ ReadForCompare(p) \/ ReadForPin(p) \/ ReadForProxy(p)
        \/ FetchForLock(p) \/ FetchForPin(p) \/ Compare(p) \/ Session(p)
        \/ WriteRefused(p) \/ Truncate(p) \/ Write(p) \/ WriteCut(p) \/ Killed(p)
    \/ Restore

Spec == Init /\ [][Next]_vars

-----------------------------------------------------------------------------
(***************************************************************************)
(* Properties.                                                             *)
(***************************************************************************)

Done(r, verbs) == r.pc = "done" /\ r.verb \in verbs

\* An exit code is the most serious verdict the run met, whatever the order it
\* met them in, or more serious for want of a report: a drift is not masked by
\* a later transport failure, nor that by a later success, and a session's
\* flags rank as a run's entries do (main.go:516-519, :450, :577).  A verdict
\* whose report did not go out is none, and the code in a report that did is the
\* exit code (json.go:125-141, CLI-JSON.md:34-40).
WorstIsReported ==
    \A p \in Runs : LET r == run[p] IN
        Done(r, {"verify", "proxy"}) /\ r.found # {} =>
            /\ \A c \in r.found : worse(r.exit, c) = r.exit
            /\ r.exit \in r.found \union {"transport"}
            /\ r.cut => r.exit \notin {"ok", "drift"}
            /\ r.json => r.cut \/ r.doc = r.exit

\* verify's verdict on an entry is the rollups': clean if the admitted surface
\* has the hash that is locked, drift if it has another; and a run that gives
\* verdicts gives one on every entry it selected (main.go:516, diff.go:82,
\* surface.go:463).
VerdictIsTheRollups ==
    \A p \in Runs : LET r == run[p] IN
        Done(r, {"verify"}) /\ r.found # {} =>
            \A n \in Selected(r, r.base) :
                /\ r.judged[n] # Nothing
                /\ r.observed[n] # <<>> =>
                    r.judged[n] = IF r.observed[n] = r.base[n].surfaceHash THEN "ok" ELSE "drift"

\* A run that wrote the file changed, of what it had read, the entries it
\* selected and no other, each to a surface it fetched and admitted in this
\* very run: pin is all or nothing, lock only adds.  A pin that failed, at
\* whichever entry, left the file as it read it, or cut it short in writing
\* (main.go:303, :355, :369).
WritesOnlySelected ==
    \A p \in Runs : LET r == run[p] IN
        /\ Done(r, {"lock", "pin"}) /\ r.exit = "ok" =>
            \A n \in Range(Names) :
                IF n \in IF r.verb = "lock" THEN {r.name} ELSE Selected(r, r.base)
                THEN r.lf[n] # None /\ r.lf[n].surfaceHash = r.observed[n]
                ELSE r.lf[n] = r.base[n]
        /\ Done(r, {"pin"}) /\ r.exit # "ok" /\ r.alone /\ Present(r.base) # {} =>
            file.state # "whole" \/ file.servers = r.base

\* As long as no other run touches the file, a run judges and replaces the file
\* it read: no file cut short by a crash or a full disk is taken for an empty one
\* and written over, and no entry is lost.  (With another run in between an
\* entry can be lost: the last writer wins.)  (main.go:274, :300, :322.)
NothingLostAlone ==
    \A p \in Runs : LET r == run[p] IN
        r.alone =>
            /\ r.pc \in {"fetch", "session", "truncate"} =>
                file.state # "partial" /\ file.servers = r.base
            /\ Done(r, {"lock", "pin"}) /\ r.exit = "ok" =>
                file.state = "whole" /\ Present(r.base) \subseteq Present(file.servers)

\* A file that was written to its end can be read back: what admission lets
\* through, the reader's own shape and hash checks let through (surface.go:103,
\* lockfile.go:142, :174, :255).
FileIsSound ==
    file.state = "whole" => Readable

\* No run has the file in hand.
AtRest == file.state = "whole" /\ \A p \in Runs : run[p].pc \in {"idle", "killed"}

\* A surface with other instructions than the locked ones, or with a text for
\* the model anywhere in a tool that is not the locked one, drifts with the
\* highest severity, whatever else changed (SPEC.md 8, diff.go:64).
PromptDriftIsWorst ==
    AtRest =>
        \A n \in Present(file.servers) : \A i \in {Absent, "text1"} : \A x \in Versions :
            LET e == file.servers[n]
                s == [era |-> e.era, flow |-> e.flow, hInstr |-> i,
                      tools |-> {[name |-> o.name, at |-> x] : o \in e.tools}]
                retold == \E o \in e.tools, q \in DescriptionPlaces :
                            o.at[q] # x[q] /\ {o.at[q], x[q]} \intersect Texts # {}
            IN e.hInstr # i \/ retold => Severity(Diff(e, s)) = "description"
=============================================================================
