# A verification project for surfacelock

surfacelock records the surface an MCP server shows a model (its tools, its
instructions, the protocol revision it speaks) in a lockfile, and refuses to go
on when the server shows another one. This directory models the program in
TLA+: the in-band verifying proxy, the client that fetches a surface, the
command line over its lockfile, what is admitted, stored and compared, and the
conformance harness.

Contents: [the system](#the-system), [the modules](#the-modules),
[the runs](#the-runs), [fairness](#fairness), [what is proved](#what-is-proved),
[where the code and its documents differ](#where-the-code-and-its-documents-differ),
[abstractions](#abstractions), [not modelled](#not-modelled), [plan](#plan).

## The system

| Component | Source | State it keeps | Operations | Hard behaviour |
|---|---|---|---|---|
| Proxy session: router and verifier | `proxy/proxy.go`, `proxy/verify.go`, `proxy/frame.go` | pending requests by id, cursors issued, enumerations in progress, handshake era, callable tools, outcome | `handleClientFrame`, `prepareToolsList`, `handleServerFrame`, `verifyHandshake`, `verifyToolsPage`, `applyVerdictLocked` | two goroutines over one lock, each with work left after the unlock; pipelined pages; a server that answers as it likes |
| HTTP upstream | `proxy/backend_http.go` | session id, negotiated version, one goroutine per POST, the notification stream, the frames channel | `Send`, `roundTrip`, `relaySSE`, `notifLoop`, `SetProto`, `emit`, `Close` | everything races `Close`; a bounded channel; retries |
| stdio upstream | `proxy/backend_stdio.go` | the child, `closed`, `err`, the frames channel | `readLoop`, `Send`, `Err`, `Close` | the child dies at any moment; a reader parked on a full channel |
| Session lifecycle and findings sink | `proxy/proxy.go` | the goroutines of `Run`, `findCh`, the lock of `clientOut` | `Run`, `serveClient`, `finding`, `drainFindings`, `writeFrame` | teardown joins goroutines that may be blocked; three causes of an end in any order |
| Client fetch | `client/fetch.go` | pages, cursors seen | `Fetch`, `fetchModern`, `fetchClassic`, `fetchPages` | the commit point of the flow selection; hostile pagination |
| Client sessions | `client/client.go` | next id, session id, reader goroutine | `call`, `notify`, `readSSE`, `close` | responses matched by id in a stream of others |
| CLI verbs | `cmd/surfacelock/main.go`, `json.go` | the lockfile on disk | `lock`, `verify`, `diff`, `pin`, `proxy` | two processes over one file; one entry of several fails |
| Lockfile | `lockfile.go` | none | `Parse`, `Validate`, `Render`, `EntryFromSurface` | hand-edited files |
| Surface admission | `surface.go` | none | `Admit`, `SurfaceHash` | hostile input |
| Drift classification | `diff.go` | none | `Diff`, `ClassifyTool`, `SafetyOrDisplayChanged` | a change in no class |
| Canonical JSON, exact decoding | `canonical.go`, `decode.go` | none | | bytes |
| Static headers | `headers.go`, `cmd/surfacelock/headers.go` | none | `Validate`, `Apply` | input validation |
| Conformance probe, wire | `conformance/probe.go`, `wire.go` | a capture, one connection | `probeClassic`, `probeStateless`, `Roundtrip` | later probes depend on earlier answers; a target that hangs or dies between two |
| Conformance grader, report | `conformance/grade.go`, `report.go` | none | `Grade`, `verdictOf`, `ValidateEraClaim` | absence of evidence is neither a pass nor a violation |
| Python bindings, npm launcher, scripts | `python/`, `npm/`, `scripts/` | none | | start a process |

How they interact. `main.proxy` reads the lockfile and calls `Run`. `Run`
starts the findings drain, the upstream, the inbound goroutine (which ranges
over `Backend.Frames()` and calls `handleServerFrame`) and the client goroutine
(`serveClient`, which calls `handleClientFrame`). The two handlers share
`core` under `core.mu`; the client goroutine calls `Backend.Send`, the inbound
one calls `SetProto` and `StartNotificationStream` after its unlock, both write
to the client under `outMu`, and both put findings on a channel that only
`drainFindings` empties. The HTTP upstream calls back into `finding` and
`setTransport`. `lock`, `verify`, `diff` and `pin` do not use the proxy: they
call `client.Fetch`, which opens one session (or two) and returns pages that
`Admit` turns into a surface, to be stored or compared by `Diff`. The
conformance harness shares nothing with them but the lock entry it checks: it
dials the target itself, records what its probes get, and grades the record.

What makes each part correct:

- *session*: only what the policy accepts reaches the client; a tool is
  callable only while its last declaration is an accepted one; drift is never
  lost from the outcome; pages are verified in the order of one enumeration;
  a clean claim is true; tables are bounded.
- *HTTP upstream*: `Close` returns and nothing outlives it; the handshake
  takes effect before the client knows of it; a waiting client gets an answer or
  an error; the transport is blamed only for its own failures.
- *stdio upstream and lifecycle*: the session ends when one of its sides does;
  the outcome blames the transport exactly when the upstream broke; diagnostics
  never hold up the relay.
- *fetch*: no fallback after the commit point; the surface is every page of one
  flow, in order; pagination ends within its caps; every session and reader is
  let go; a fetch ends when its budget does.
- *CLI*: a run writes the entries it selected and no other; the worst verdict is
  the exit code; no verdict without its report; a file that was written can be
  read.
- *classification*: instructions and descriptions rank highest; every difference
  between the locked and the served surface is some drift.
- *conformance*: what is flagged is what the server does; an exchange that was lost
  is no violation; a claim is upheld on evidence only. The code keeps this with
  exceptions, [listed below](#where-the-code-and-its-documents-differ).

## The modules

| Module | Models | Uses |
|---|---|---|
| `ToolGate` | what the gate on `tools/call` promises, without pages, requests or goroutines | |
| `ProxySession` | one session: router and verifier | instantiates `ToolGate` as its abstraction |
| `MCProxySession` | symmetry and a bound for TLC | extends `ProxySession` |
| `HttpBackend` | the HTTP upstream with the inbound goroutine that reads from it | |
| `ProxyRun` | `Run`, its goroutines, the stdio upstream and the findings drain | |
| `FetchPromise` | what a fetch promises: one flow, whole pages, then one result | |
| `ClientFetch` | one `Fetch` with its sessions, over HTTP or stdio | instantiates `FetchPromise` as its abstraction |
| `LockSurface` | admission, entries and drift, as operators | |
| `LockfileVerbs` | the verbs, as processes over one lockfile | extends `LockSurface` |
| `MCLockfileVerbs` | command lines, surfaces and tool versions for TLC | extends `LockfileVerbs` |
| `ConformanceGrade` | a run of the conformance harness against a server with planted defects | |
| `MCConformanceGrade` | the servers for TLC | extends `ConformanceGrade` |
| `ProxySessionProofs` | the type invariant of `ProxySession`, proved | extends `ProxySession` |
| `ProxySessionSafety` | the other safety results, proved | extends `ProxySessionProofs` |
| `HttpBackendProofs` | safety of the HTTP upstream, proved | extends `HttpBackend` |
| `ProxyRunProofs` | safety of the lifecycle, proved | extends `ProxyRun` |
| `ClientFetchProofs` | safety of a fetch and the refinement of `FetchPromise`, proved | extends `ClientFetch` |
| `LockSurfaceProofs` | what admission, the rollup and the ranks promise of one another, proved | extends `LockSurface` |
| `LockfileVerbsProofs` | safety of the verbs over one file, proved | extends `LockfileVerbs`, `LockSurfaceProofs` |
| `ConformanceGradeProofs` | what the grader may conclude, proved | extends `ConformanceGrade` |

Three models cut the proxy along its channels. `ProxySession` has the
contents of frames and nothing of how they travel; `HttpBackend` and `ProxyRun`
have the goroutines and channels, and of a frame only what the transport looks
at.

### ProxySession

One action is one critical section of `core.mu`. What a handler does after the
unlock is a second action, and the other goroutine may run in between:
`clientStep` and `serverStep` hold what is left to do.

| Code | Model |
|---|---|
| `core.pending`, `core.cursors` | `pending`, `cursors` |
| the `enumeration`s they point to | `enums`, a heap; `Collect` blanks what nothing points to any more |
| `verifier.handshakeEra`, `everClean`, `callable` | the same names |
| `core.outcome` | `outcome` |
| what the backend was told | `backend` |
| `handleClientFrame` up to the unlock | `ClientFrame`: one disjunct for each kind of frame and each early return |
| `forwardUpstream`, `writeFrame` on the client goroutine | `ClientFinish` |
| `handleServerFrame` up to the unlock | `ServerFrame` |
| `SetProto`, `StartNotificationStream`, `writeFrame` | `ServerFinish` |
| `verifyHandshake`, `verifyToolsPage`, `resolveDrift` | operators of the same names that return a verdict |
| `applyVerdictLocked` | `Recorded` and `Callable` |

`presented` is a history variable: the declaration last read for each tool. A
tool declaration is what a comparison with the lock says of it: `locked`,
`benign`, `prompt` (drift with prompt text, or of the annotations and the title
`SafetyOrDisplayChanged` looks at), `added`, or `absent`.

### HttpBackend

`trip[c]` is the goroutine of one POST; its `at` is the place it is parked at.
`Build` reads the session id and the version under the lock, `Response` is the
moment the headers arrive, `ReadBody`/`ReadFails` and `RelayEvent`/
`RelayOversize`/`RelayEnds` are the two kinds of body, `Emitted` is `emit`.
`notif` is `notifLoop`. `Close` has a step for each of its parts: the flag, the
cancel, the wait, the DELETE with the closing of the channel. The inbound
goroutine takes a frame, tells the backend of a verified handshake, and writes
the frame. `shown`, `informed` and `fate` are histories; `fate` is how the last
exchange of a POST or of the notification stream ended, as the upstream made it
end (`accepted`, `blank`, `whole`, `ended`, `broken`, `oversize`, `refused`,
`unreachable`) or as our own cancel did (`cut`), whatever the code made of it.

### ProxyRun

`run` is how far `Run` is, the steps of the stdio `Close` included. `client`,
`inbound`, `reader` and `drain` are the goroutines, `outMu` the lock of
`clientOut`. `RunJoins` is the receive from `inboundDone` with the look at
`Err`. `broken` is a history: the upstream or a stream failed by itself. The child
may die, or live on and close its `stdin`: a send fails in both cases. A client
frame is forwarded, with a warning or without, or refused with a finding and, if it
has an id, an answer.

### ClientFetch

`fetch` is the goroutine of `Fetch`: the flow it is in, the request in hand, the
cursors seen and the pages kept. `sess` and `stdio` hold the session of each
attempt: over HTTP the last session id the server gave and the one whose deletion
was asked for, over stdio the reader goroutine, its channel and its last error.
`Close` asks for a deletion only within the budget, as the DELETE runs under the
same context; what the server makes of it is not known. Every `call` is `Send` and then
the arrival of something: `HttpHead`, `JsonBody`, `StreamEvent`, `StreamEnds` over
HTTP, `Receive`, `ReaderGone`, `WriteFails` over stdio, and `CtxDone` over both.
The id of the request in hand is the last one the
session gave out. What an answer leads to is `DiscoverAnswered`, `InitializeAnswered` or
`PageAnswered`; what a failure leads to is `CallFails`, with `MayFallBack`,
`FallBack` and `Return` for the rest of `Fetch`. `Expire` is the budget
`fetchSurface` sets. The server is free: any message, of any id, with a good page,
one that names a new or an old cursor, an inadmissible one, or an RPC error.

### LockSurface and LockfileVerbs

A tool object is what it holds at the places a client reads (`description`, the
schemas and the text in them, `annotations`, `title`, anything else); a hash is the
value it is taken of. `Admit`, `EntryFromSurface`, `Validates`, `Diff`, `Severity`
and `ClassifyTool` are the functions of those names; `Contract` and `Residual` are the two projections of `classifyToolDrift`.

`run[p]` is a process: `ReadFor...` is a verb up to its first fetch, `FetchFor...`,
`Compare` and `Session` are one fetch or session with its verdict, `Truncate` and
`Write` the two halves of `os.WriteFile`. Any step may be the last (`Killed`), a
write may be cut (`WriteCut`), and the other process may do its steps in between.
A run's `todo` is the set of selected names it has not come to; `First` takes them
in the order of `Names`, as the code's sorted list does. `base`, `observed`, `found`
and `alone` are histories; `doc` is the exit code in the document on stdout.

### ConformanceGrade

`at` and `page` are the place in the plan of probes, `cap` the capture, by probe.
An exchange keeps what the grader reads: whether it was answered, dead, silent or
cut, and the members of the answer that decide cells. A GET whose body breaks off
counts as answered, since the code reads no more than its headers. The server is a conforming
one with at most `MaxDefects` `planted` defects, one for each cell that can be
violated; `ClassicAnswer` and `StatelessAnswer` are what it answers to each probe.
`ExchangeLost` loses or cuts single exchanges, `Turns` makes the server hang or go
away, `ChildExits` ends the first connection's child. `GradeCapture` is
`Check` after the probe: the cells (`ClassicCell`, `StatelessCell`, and one operator
for the grade of each kind of exchange) and `VerdictOf`. `Walked` are the pages the
capture holds; `PageProbe` gives each its name, for walks of up to the code's eight.

## The runs

| Run | Instance | Shows |
|---|---|---|
| `session_strict` | strict policy, classic lock, two ids, two tools of which one is locked, one cursor, two eras | type; a callable tool's last declaration is accepted; one era; the session implements `ToolGate` |
| `session_warn` | `--warn`, a lock that records the stateless flow, two cursors for a table of one, a pending table of one | nothing unvetted is written; the drift of tools, era and flow that a session ran into, and every refusal, is in the outcome; the rollup is never the check that refuses; the tables keep their caps |
| `session_stateless` | strict policy, a stateless lock, two ids, discover probes with and without an era | linear enumerations under pipelining, no poisoned continuation |
| `http_session` | a handshake and a notification, a channel of one, fairness of the goroutines | nothing outlives `Close`, which returns; the handshake takes effect before it is seen; the notification stream is tried again after every kind of end; the transport is blamed for an act of the upstream; a request whose exchange is over is answered, with the exceptions below |
| `run_session` | channels of one, three frames, two client lines, fairness of the goroutines | the outcome's cause; a child's death is reported; the session ends if the client goes on reading or leaves (`ClientListens`); the relay goes on |
| `fetch` | three pages, a stdio channel of one (64 in the code), an offered flow or none, HTTP and stdio, fairness of the client's own steps | the surface is whole and every page the answer to its own request; what was inadmissible stays so through the fallback; every connection is closed, and the deletion of its last session id asked for while there is budget; readers are let go; the fetch ends; it implements `FetchPromise`: caps, no cursor twice, no other flow after the commit point |
| `verbs` | two processes, two entries (one HTTP, one stdio), ten surfaces, 160 versions of a tool | the exit code is the worst verdict, the one in the report, and no verdict if the report did not go out; a verdict is the rollups'; writes touch what was selected, and a pin that fails half way nothing; the file is sound; drift of prompt text ranks first |
| `grade` | sixteen servers of every era, over HTTP and stdio, up to two defects and two lost exchanges, a walk of at most three pages (8 in the code) | of a server that answers everything, exactly the planted defect is flagged; a loss or a cut is no violation, if the identity exchange was answered, `H2.newer` not cut, nothing silent; violations decide the verdict; a walk passes only when whole; a dead target is ungraded |
| `call_after_refusal`, `mixed_era_claim`, `silence_claims`, `toolless_blamed` | the smallest instance that shows it | a document's statement the code does not keep (below) |

`FlaggedExactly` and `NothingFabricated` leave out the servers `toolless_blamed` is
about: those that have no list although their version header is graded on it.

Each property is checked in a run that can break it; those of
`ProxySession` are proved for every policy, lock and bound besides.

Why the bounds are enough for what is asked:

- *Ids*: two requests in flight are what pipelining and id reuse need; ids
  are only compared for equality, so TLC may permute them.
- *Names*: one locked and one that is not: a page can miss the locked tool, list
  it with any declaration, and add another.
- *Eras*: the locked one and another.
- *Cursors*: one is enough for a loop, a continuation, and two enumerations
  that meet in it; two make a cursor table of one overflow.
- *EnumIds*: one more than requests and cursors can hold at once, so that
  allocation never fails. *MaxPages*, *MaxTools* are two, so both caps are hit.
- *SendsSucceed* stops the larger session instances at the first failed send,
  which changes nothing but `outcome.transport`.
- *Capacity*, *FindCapacity* are one: the smallest channel that can be
  empty, full, and have somebody waiting. *MaxEvents*, *MaxFrames* and *MaxLines*
  exceed the capacity, so that it overflows.

- *Pages*: three let a server name a new cursor, an old one and none, and go
  over the cap; a walk of three pages with servers of one to four pages ends
  before, at and after the bound.
- *Defects and losses*: two of each: a defect that is flagged alone can be masked
  by another, and an exchange that matters can be lost with the one that would
  have explained it.
- *Processes*: a first that runs any command line over and over, a second that
  writes the same file: every interleaving of one reader or writer with one
  other writer. *MaxTools*, *MaxPages*, *MaxBytes* are two, each exceeded by one of
  the surfaces.

Deadlock is not checked where a session, a fetch or a harness run really ends
(`HttpBackend`, `ProxyRun`, `ClientFetch`, `ConformanceGrade`); the session runs and
`verbs` check it.

## Fairness

`ProxySession`, `LockfileVerbs` and `ConformanceGrade` state no fairness: their
properties are safety. The others do.

- *Goroutines run*: a goroutine that can go on does (`WF` of its own steps).
  This is the Go scheduler. Waiting for `outMu` is strongly fair
  (`SF`): Go mutexes hand themselves over to a waiter that has starved.
- *Reads end after a cancel*: `HttpBackend!Fairness` makes `ReadFails`,
  `NotifConnected` and `NotifEnds` fair only once the context is done, because
  every request carries that context. Nothing is assumed of the upstream before.
- *The timer fires*: `NotifWakes`.
- `ClientListens` (the client reads what is written to it) is not the code's to
  guarantee; `run_session` assumes it for `SessionEnds`. That the findings sink
  takes lines is assumed nowhere: `SessionEnds` names it as the one thing that may
  hold `Run` (as `proxy.go:258` does), and `RelayGoesOn` says it holds nothing else.
- *A fetch's own steps* (`ClientFetch`): the client goes on when it can, its context
  is noticed once done (`CtxDone`, a `select` or the HTTP client's own), the budget
  ends (`Expire`, `main.go:264`), and a reader whose child was killed reaches the
  end of its output. Nothing is assumed of the server, which may never answer.

Nothing makes the client write, the child write or die, or a signal arrive.

## What is proved

All theorems hold for every value of the constants that satisfies the module's
named assumption (`SessionAssumption`, `BackendAssumption`, `RunAssumption`, `FetchAssumption`,
`LimitsAssumption` with `VerbsAssumption`, `HarnessAssumption`), and are checked by
TLAPS. Together they state every safety property and every refinement the passing
runs check.

- `TypeCorrect`: `Spec => [](TypeOK /\ OwnersOK)`. `TypeOK` is not inductive
  alone: a request is looked up in the heap of enumerations, so `OwnersOK`
  (a tracked `tools/list` owns an enumeration, no other request does) is proved
  with it.
- `LinearCorrect`: an enumeration has one owner. Inductive relative to
  `TypeCorrect`: `FreeEnums` is disjoint from what is referenced, and
  `TrackList` takes the cursor out of the table as it hands on its enumeration.
- `GateImplemented`: the refinement of `ToolGate`, one lemma per action, each
  step mapped to `Accept`, `Refuse`, `Admit`, `Leave` or a stutter.
  `CallableCorrect` follows along the same lines.
- `StrictEraCorrect`, `PoisonCorrect`, `RollupCorrect`: from one invariant,
  `EraOK /\ EnumsSound`. `EnumsSound` says of each live enumeration that it
  is not poisoned, that its pages are within the cap, and that one with no
  warning holds only locked declarations. It needs linearity: without it a
  page could be merged into an enumeration another request still reads.
- `DriftCorrect`: outcome flags are never taken back (`OutcomeGrows`); a declaration
  is presented only by a page whose verdict is recorded (`PresentedSteps`); and
  `SurfaceReported`, the invariant for the rest: an era other than the locked one
  (`EraDrifted`) that the session, the backend or an enumeration runs on, a
  forwarded handshake of the other flow (`FlowDrifted`) and a refusal on its way to
  the client are in the outcome. Drift that leaves no trace in the state, a locked
  tool that a list under `--warn` lacks or a stateless list against a classic lock,
  is not in the statement.
- `WrittenCorrect`: what a verdict does to the frame that is written.
- `TablesCorrect`: both caps, with the finiteness of the tables as the
  strengthening that cardinalities need.
- `HttpTypeCorrect`, `OutliveCorrect`, `HandshakeCorrect` (`HttpBackendProofs`):
  `TypeOK` with `OutOK` (what a goroutine about to emit holds); the second needs
  only that `Close` passes its wait when no goroutine is left and that `Send`
  starts none afterwards; the third goes through `AnswerOK` and `EffectOK`, which
  follow a handshake's answer from the response through the channel to the
  client.
- `FailureCorrect`, `WaitingCorrect`: from one invariant, `CallOK /\ NotifOK`
  (`ExchangesCorrect`): nothing has become of an exchange before its last frame;
  `sawResponse` is set exactly by a frame that settles the request, and that frame
  is with the client, on its way there, or in the hands of its own goroutine; an
  exchange that is over has left such a frame, or ended in one of the four ways that
  leave none. The first theorem is about steps: each that first blames the transport
  is matched with what the upstream did in it.
- `RunTypeCorrect`, `CauseCorrect`, `DeathCorrect` (`ProxyRunProofs`): `CauseOK`
  says a dead child was broken or killed by `Close`; `WakeOK` that a reader which
  ended before `Close` left its reason before it closed the channel.
- `SurfaceCorrect`, `InadmissibleCorrect`, `SessionsReleased` and
  `PromiseImplemented` (`ClientFetchProofs`), for any page cap and channel
  capacity. `Moves` first reduces the two transports to a few moves of the fetch:
  an answer that advances the flow, a page, the last page, a failure, a wait that
  never ends. `FetchInv` is then shown inductive move by move: `FlowOK` (only a
  discover's failure may be wrapped `errPreCommit`, the second attempt is
  classic), `ClassOK` (an inadmissible verdict is the attempt's or the earlier
  one's), `ListOK` (page i was asked for with cursor i - 1 and names cursor i;
  the cursors seen are 1 to the number of pages, so the one new cursor is the
  next number), `IdOK` (the ids given out are those of the handshake and the
  pages, so the id that matches is page i's own) and `ReleaseOK` (an attempt that
  is over is closed, and what was closed within the budget asked for the deletion
  of its last id). Each move is a step of `FetchPromise` or leaves it alone.

- `AdmissionSound`, `RollupDecides`, `PromptDriftRanksFirst` (`LockSurfaceProofs`):
  lemmas about the operators, for any surface and stored entry. What `Admit` lets
  through, `WellFormed` and `Validates` let through when the file is read back;
  `Diff` is empty exactly when the two rollups are equal, for which the surface may
  name no tool twice, as an admitted one does not.
- `LockfileVerbsProofs`, for any processes, command lines, names and served
  surfaces. `RunsInvariant` is the invariant: every entry in a file or in a run's
  copy of it is an admitted surface (`Files`, `Records`), and of each run `Left`
  (what is still to do was selected), `Changed` (the selected names that are done
  are new, no other is), `Judgements` (every name that is done has the verdict its
  rollup calls for), `WorstSoFar` (the worst is one that was met and no less serious
  than any) and `Owned` (while nobody else touches it, the file is as the run read
  it, cut short in the middle of its write, or as it left it, unchanged if it is a
  pin that failed). `Owned` is the one that relates
  two runs: a step of one keeps it for the other because it clears `alone`
  there. That a comparison keeps `Judgements` is `RollupDecides`. From the
  invariant follow `WorstReported`, `VerdictsAreRollups`, `OnlySelectedWritten` and
  `NothingLost`, and with `AdmissionSound` also `FileSound`. `PromptDrift` is about the
  classification alone and holds for any set of tool versions.
- `ConformanceGradeProofs`, for any servers, number of defects and losses, and page
  bounds from two to the code's eight. `CaptureInvariant` is the invariant: the
  identity exchange comes first and the pages of the walk in their order, each on
  the cursor of the one before (`Ordered`); an exchange that counts as answered is
  what the server answers to that probe in the capture as it is now (`Heard`, which
  is inductive because an answer depends only on exchanges recorded before it); the
  report is of the final capture. Lemmas say of each probe what its answer looks
  like to the cells. From there:
  - `DeadUngraded`: a cell that passes or condemns needs an exchange that was not
    dead.
  - `WalkPassesWhole`: if no page is flawed the walk followed the server's cursors
    from page to page, so page k is the server's page k; a least page that broke
    the chain would have been condemned.
  - `NothingIsFabricated`: cell by cell, a violation needs an answered exchange and
    that answer a defect; for the walk, its first flawed page. Under the hypotheses
    of `NothingFabricated` only: the identity exchange was answered, `H2.newer` was
    not cut, nothing met with silence, and the header is graded on a list the server
    has.
  - `ViolationsAreCounted`: defect by defect, the answered witnesses make its cells
    say so, and a single violated MUST decides the verdict. A gated first page hides the
    missing cache hints, but is itself condemned.
  - `FlagsAreExact` needs a second invariant, `Complete`: as long as nothing went
    wrong, every entry of the plan that is to be sent has been answered and the walk
    stopped at the end of the list or at the bound (`CaptureIsComplete`). It rests on what
    may be sent not changing once the identity exchange is recorded. Then every
    witness of a defect has been heard, and the cells are computed; of servers with
    the list their header is graded on (`HeaderApplies`).

Only model-checked, because they are out of the prover's reach: liveness
(`CloseReturns`, `NotificationsResume`, `SessionEnds`, `RelayGoesOn`, `FetchEnds`,
`ReadersLeave`). The statements the code does not keep are, of course, not theorems. `None` is assumed to be no frame (`NoFrameAssumption`).

## Where the code and its documents differ

- `call_after_refusal`: README.md:29-31 says a tool whose drifted declaration
  was refused is never called. The call is checked under the lock and sent
  after it (`proxy.go:430`); a refusal in between does not stop it. The upstream
  gets one call it had been admitted for a moment before.
- `mixed_era_claim`: `verify.go:431-434` says an enumeration that runs under a
  warn-forwarded era makes no clean claim. The check looks at the era of
  the enumeration's first request; a continuation in another era, warned about,
  keeps it, and its completion claims a match.
- `silence_claims`: `report.go:27-28` says a dead target never validates a claim,
  silence not being conformance. The silence of a live child counts as a refusal
  (`grade.go:119-122`), and the cells that pass on a refusal pass by it: a server
  that says nothing and then exits is conformant.
- `toolless_blamed`: grading the refusal of a list by a server that advertises no
  tools "would manufacture a finding out of the prober's own inapplicable request"
  (`grade.go:683-687`, PREDICATES.md:170-174). `V1.header` is graded on the first page
  of the list without that look (`grade.go:287-300`): over HTTP a conforming server
  of 2025-06-18 or 2025-11-25 without tools gets a MUST violation there, and its
  claim is not validated.

Where a run's property states a document's promise with its exception, the
exception is a smaller disagreement of the same kind:

- CLI-JSON.md:28-31 says that with `--json` stdout carries exactly one document on
  every exit path. `compare` returns a usage error without one when static headers
  do not fit the selection (`main.go:512-515`), and `run` does when they cannot be
  used at all (`main.go:119-123`). The model has both paths; `WorstIsReported` speaks of
  the document of a run that reached a verdict.
- `Outcome.Transport` is documented as an upstream failure (`proxy.go:98`). A JSON
  body that is being read when `Close` cancels is reported as one
  (`backend_http.go:276-278`): the last disjunct of `FailureIsUpstreams`.
- `relaySSE` promises that a client is not left waiting (`backend_http.go:292-295`),
  and keeps it for streams, but for one case: an event with the request's id counts
  as its response even if it is a request of the server's own
  (`backend_http.go:317`). Outside streams a request is left waiting by a 202 or 204,
  by a blank body and by a body that is another message. Those are the last three
  disjuncts of `NotLeftWaiting`.
- A session id that a later answer replaces is never deleted (`client.go:204-206`), nor
  is the last one if the budget is spent when the session closes (`client.go:305`):
  `SessionsAreReleased` speaks of the last id, within the budget.
- `Run` is documented to return when the context is cancelled (`proxy.go:157-158`);
  it joins the inbound goroutine, which may be in a write to a client that does not
  read (`proxy.go:246`): `SessionEnds` is checked under `ClientListens`.
- Two processes that lock at once can lose an entry (`main.go:322`): no lock is
  taken and nothing promises one; `NothingLostAlone` is about a run nobody disturbs.
- What the harness holds against a server although an exchange was lost:
  `NothingFabricated` leaves out a lost identity exchange (without the minted
  session id a session server refuses the rest of the plan; V2 then names a version
  the server may speak), an exchange cut before it could be classified at the cells
  that look at the transport error only (`grade.go:199`, `:227`, `:388`, where
  `unreached` would be the rule), and silence.

Seen while reading, outside every run: an instructions string with an unpaired surrogate is
hashed as it is written but shown decoded; the fallback of `classifyToolDrift`
(`diff.go:205`, "should be unreachable") is reached by a member that turns from
null to absent; the paths `collectDescriptions` joins with `/` (`diff.go:222`) can
collide for keys that contain one; S2 condemns a server of two eras whose answer
to the legacy handshake mints a session id (`grade.go:469`) although H1 permits that
answer; the batch probe passes its id although its comment says 0
(`probe.go:196-200`), so that a batch answered over SSE finds no match.

## Abstractions

- Frames the proxy drops with no effect on its state (noise, a response that
  matches nothing, an unreadable client frame) are stuttering steps. Which
  error code the client goroutine replies with is left out.
- Byte caps (page, surface, instructions, cursor size) are one way among others
  for a page to be inadmissible: `readable` is false.
- `poisoned` and `complete` are kept although the code never reads them.
- With a classic lock that records its flow, a list is not checked against the
  flow unless it names an era, as in `prepareToolsList`.
- When the cursor table is full but the cursor is already in it, the code does
  not replace the entry (`proxy.go:611`), so the older enumeration is continued;
  `Continues` does the same.
- `HttpBackend` keeps the ids of client calls apart from one another; a
  client's answer to a server request, whose id is the server's, is one of
  the calls with an id.
- In `ProxyRun` the child's writes to stdin and stdout are single steps, and
  an oversized or broken stream is one more way for a reader to end.
- `Run`'s startup refusals are before the initial state. When the upstream does
  not start, `drainFindings` is left running (`proxy.go:218`).
- `ClientFetch` keeps of a page whether it is admissible and which cursor it
  names. Each attempt is a session of its own, as in the code; a cursor is a number
  the server chose. The headers of a request (dialect, mirrored method, credentials)
  are left out.
- `LockSurface` takes what only an encoding can be guilty of (invalid UTF-8, keys
  twice, aliased keys, a wrong type) as one flaw of the page or tool that has it.
  The class order of a `ToolDiff` is a set with a rank. Diff's output order is left
  out.
- In `LockfileVerbs` a write to the file is its truncation and its contents; a
  file another run wrote in between may keep a longer tail. A fetch has any
  outcome; a proxy session ends with any of the outcome's flags.
- In `ConformanceGrade` a tool's name and a cursor are numbers, the notification
  after a handshake is not recorded (no cell reads it), and a budget that is spent
  is a server that went away. A server's defects are those a cell can see.

## Not modelled

`canonical.go` and `decode.go` encode bytes: their effect, that equal
declarations have equal hashes, is what the models' declarations stand for.
`headers.go` and `cmd/surfacelock/headers.go` validate input once, before
anything runs. The matrices of `report.go` and `conformance/gen` are formatting.
`python/`, `npm/` and `scripts/` start the binary. A lockfile edited by hand, the
member walk of `frame.go`, the SSE scanners and the byte caps are abstracted as
said above.

## Plan

1. (done) `ToolGate`, `ProxySession`, its runs and proofs; `HttpBackend`;
   `ProxyRun`.
2. (done) `FetchPromise`, `ClientFetch`; `LockSurface`, `LockfileVerbs`;
   `ConformanceGrade`.
3. (done) Proofs of every safety property of `ClientFetch`, `LockfileVerbs` and
   `ConformanceGrade`, for which the latter two were put into a form without
   sequences of work left and without probe names computed from numbers.
4. `Envelope`: the member walk of `frame.go` as an automaton against the
   statement that no consumed key is ambiguous.
5. A composition of `ProxySession` with `HttpBackend` for the id collision
   between the two sides of one connection (`backend_http.go:97`).

Hazards without a property of their own: POSTs that overtake one another
(`backend_http.go:108`; every property of `HttpBackend` holds under any order); a
session assigned while `Close` waits is never deleted (`backend_http.go:442`); the
findings drain of a session that did not start (`proxy.go:218`); a descendant that
holds a child's stderr keeps `close` waiting (`client.go:432`); the dialect a strict
server wants to see on the discover request (`fetch.go:218`).
