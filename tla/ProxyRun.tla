------------------------------ MODULE ProxyRun ------------------------------
(***************************************************************************)
(* The life of one proxied session over a stdio upstream: Run, the client  *)
(* and inbound goroutines and the findings drain of proxy/proxy.go, with   *)
(* the reader, Send and Close of proxy/backend_stdio.go.                   *)
(*                                                                         *)
(* What the frames say is the subject of ProxySession; here a frame is     *)
(* only a thing to be relayed, and what matters is who waits for whom when *)
(* the client leaves, the child dies or the context is cancelled.          *)
(***************************************************************************)
EXTENDS Integers

CONSTANTS
    Capacity,     \* of the frames channel (64 in the code)
    FindCapacity, \* of the findings channel (512 in the code)
    MaxFrames,    \* bound: frames the child writes
    MaxLines      \* bound: frames the client writes

ASSUME RunAssumption ==
    /\ {Capacity, FindCapacity} \subseteq Nat \ {0}
    /\ {MaxFrames, MaxLines} \subseteq Nat

VARIABLES
    run,       \* how far Run is
    signal,    \* the caller cancelled the context
    client,    \* serveClient
    inbound,   \* the goroutine that ranges over Frames
    outMu,     \* who holds the lock of clientOut
    child,     \* the upstream process
    stdin,     \* the child's end of its standard input
    reader,    \* readLoop
    frames,    \* frames in the channel
    err,       \* stdioBackend.err is set
    transport, \* Outcome.Transport
    findings,  \* lines in findCh
    drain,     \* drainFindings
    broken,    \* history: the child died by itself, or a stream broke
    written,   \* frames the child has written
    lines      \* frames the client has written

vars == <<run, signal, client, inbound, outMu, child, stdin, reader, frames, err,
          transport, findings, drain, broken, written, lines>>
procs == <<run, signal>>
clientVars == <<client, lines>>
upstream == <<child, stdin, reader, frames, err, written>>
log == <<findings, drain>>

\* Close has its own steps: flagged (closed is set), killed (done is closed,
\* stdin too, and the process group is killed), reaped (Wait returned).
RunSteps == {"select", "cancelled", "flagged", "killed", "reaped", "joined", "flushing", "returned"}

TypeOK ==
    /\ run \in RunSteps
    /\ signal \in BOOLEAN
    /\ client \in {"reading", "sending", "writing", "done"}
    /\ inbound \in {"ranging", "writing", "done"}
    /\ outMu \in {"free", "client", "inbound"}
    /\ child \in {"alive", "dead"}
    /\ stdin \in {"open", "closed"}
    /\ reader \in {"scanning", "parked", "ended", "exited"}
    /\ frames \in 0..Capacity
    /\ err \in BOOLEAN
    /\ transport \in BOOLEAN
    /\ findings \in 0..FindCapacity
    /\ drain \in {"idle", "writing", "done"}
    /\ broken \in BOOLEAN
    /\ written \in 0..MaxFrames
    /\ lines \in 0..MaxLines

Init ==
    /\ run = "select"
    /\ signal = FALSE
    /\ client = "reading"
    /\ inbound = "ranging"
    /\ outMu = "free"
    /\ child = "alive"
    /\ stdin = "open"
    /\ reader = "scanning"
    /\ frames = 0
    /\ err = FALSE
    /\ transport = FALSE
    /\ findings = 0
    /\ drain = "idle"
    /\ broken = FALSE
    /\ written = 0
    /\ lines = 0

-----------------------------------------------------------------------------
CtxDone == signal \/ run # "select"

\* Fault: closed is set when Close is done.
ClosedAfterReap == run \notin {"select", "cancelled", "flagged", "killed"}

Closed == run \notin {"select", "cancelled"}
Done   == run \notin {"select", "cancelled", "flagged"}

\* Fault: a line is staged even if there is no room for it.
FindingUnbounded == findings' = findings + 1

\* finding never blocks: a line that finds no room is dropped (and counted).
Finding == findings' = IF findings < FindCapacity THEN findings + 1 ELSE findings

-----------------------------------------------------------------------------
(* The client goroutine: serveClient, forwardUpstream, Send, writeFrame.    *)

\* A frame to forward, with a warning or without, or to refuse with an answer or
\* (no JSON-RPC object, a call without an id) none; once the context is done, none.
ClientReads ==
    /\ client = "reading"
    /\ lines < MaxLines
    /\ lines' = lines + 1
    /\ IF CtxDone
       THEN client' = "done" /\ UNCHANGED findings
       ELSE \/ client' = "sending" /\ (Finding \/ UNCHANGED findings)
            \/ client' \in {"writing", "reading"} /\ Finding
    /\ UNCHANGED <<procs, inbound, outMu, upstream, transport, drain, broken>>

ClientEOF ==
    /\ client = "reading"
    /\ client' = "done"
    /\ UNCHANGED <<procs, lines, inbound, outMu, upstream, transport, log, broken>>

\* clientIn fails or carries a frame over the cap: reported unless too late.
ClientReadFails ==
    /\ client = "reading"
    /\ client' = "done"
    /\ IF CtxDone THEN UNCHANGED <<transport, findings, broken>>
       ELSE transport' = TRUE /\ broken' = TRUE /\ Finding
    /\ UNCHANGED <<procs, lines, inbound, outMu, upstream, drain>>

\* The child takes the frame, or the context ends the wait.
ClientSent ==
    /\ client = "sending"
    /\ (child = "alive" /\ stdin = "open") \/ CtxDone
    /\ client' = "reading"
    /\ UNCHANGED <<procs, lines, inbound, outMu, upstream, transport, log, broken>>

\* Nobody is at the other end of the pipe: reported unless the context is done.
ClientSendFails ==
    /\ client = "sending"
    /\ child = "dead" \/ stdin = "closed"
    /\ client' = "reading"
    /\ IF CtxDone THEN UNCHANGED <<transport, findings>>
       ELSE transport' = TRUE /\ Finding
    /\ UNCHANGED <<procs, lines, inbound, outMu, upstream, drain, broken>>

ClientLocksOut ==
    /\ client = "writing" /\ outMu = "free"
    /\ outMu' = "client"
    /\ UNCHANGED <<procs, clientVars, inbound, upstream, transport, log, broken>>

ClientWrites ==
    /\ outMu = "client"
    /\ outMu' = "free"
    /\ client' = "reading"
    /\ UNCHANGED <<procs, lines, inbound, upstream, transport, log, broken>>

-----------------------------------------------------------------------------
(* The child and its reader.                                                *)

ChildDies ==
    /\ child = "alive"
    /\ child' = "dead"
    /\ broken' = TRUE
    /\ UNCHANGED <<procs, clientVars, inbound, outMu, stdin, reader, frames, err, written, transport, log>>

\* A child that lives on may stop reading.
ChildClosesStdin ==
    /\ child = "alive" /\ stdin = "open"
    /\ stdin' = "closed"
    /\ broken' = TRUE
    /\ UNCHANGED <<procs, clientVars, inbound, outMu, child, reader, frames, err, written, transport, log>>

ReaderScans ==
    /\ reader = "scanning"
    /\ written < MaxFrames
    /\ written' = written + 1
    /\ reader' = "parked"
    /\ UNCHANGED <<procs, clientVars, inbound, outMu, child, stdin, frames, err, transport, log, broken>>

ReaderEmits ==
    /\ reader = "parked"
    /\ frames < Capacity
    /\ frames' = frames + 1
    /\ reader' = "scanning"
    /\ UNCHANGED <<procs, clientVars, inbound, outMu, child, stdin, err, written, transport, log, broken>>

\* Close frees a reader parked on a full channel.
ReaderReleased ==
    /\ reader = "parked" /\ Done
    /\ reader' = "ended"
    /\ UNCHANGED <<procs, clientVars, inbound, outMu, child, stdin, frames, err, written, transport, log, broken>>

\* Fault: the channel is closed before the reason is recorded.
ReaderExitsFirst ==
    /\ reader = "scanning" /\ child = "dead"
    /\ reader' = "exited"
    /\ UNCHANGED <<procs, clientVars, inbound, outMu, child, stdin, frames, err, written, transport, log, broken>>

\* End of stdout, or a line over the cap; the reason is kept unless Close began.
ReaderEnds ==
    /\ reader = "scanning"
    /\ child = "dead" \/ ~Done
    /\ reader' = "ended"
    /\ err' = ~Closed
    /\ broken' = (broken \/ child = "alive")
    /\ UNCHANGED <<procs, clientVars, inbound, outMu, child, stdin, frames, written, transport, log>>

\* Fault: the channel is left open once Close began.
ReaderClosesUnlessDone ==
    /\ reader = "ended" /\ ~Done
    /\ reader' = "exited"
    /\ UNCHANGED <<procs, clientVars, inbound, outMu, child, stdin, frames, err, written, transport, log, broken>>

\* The deferred close of the channel, whichever way the reader ended.
ReaderCloses ==
    /\ reader = "ended"
    /\ reader' = "exited"
    /\ UNCHANGED <<procs, clientVars, inbound, outMu, child, stdin, frames, err, written, transport, log, broken>>

-----------------------------------------------------------------------------
(* The inbound goroutine.                                                   *)

\* Fault: a finding waits for room in the channel.
InboundWaitsForFindings ==
    /\ inbound = "ranging" /\ frames > 0
    /\ frames' = frames - 1
    /\ findings < FindCapacity
    /\ Finding
    /\ inbound' \in {"writing", "ranging"}
    /\ UNCHANGED <<procs, clientVars, outMu, child, stdin, reader, err, written, transport, drain, broken>>

\* A frame is handled, with findings or without: written or dropped.
InboundTakes ==
    /\ inbound = "ranging" /\ frames > 0
    /\ frames' = frames - 1
    /\ Finding \/ UNCHANGED findings
    /\ inbound' \in {"writing", "ranging"}
    /\ UNCHANGED <<procs, clientVars, outMu, child, stdin, reader, err, written, transport, drain, broken>>

InboundLocksOut ==
    /\ inbound = "writing" /\ outMu = "free"
    /\ outMu' = "inbound"
    /\ UNCHANGED <<procs, clientVars, inbound, upstream, transport, log, broken>>

InboundWrites ==
    /\ outMu = "inbound"
    /\ outMu' = "free"
    /\ inbound' = "ranging"
    /\ UNCHANGED <<procs, clientVars, upstream, transport, log, broken>>

InboundEnds ==
    /\ inbound = "ranging" /\ frames = 0 /\ reader = "exited"
    /\ inbound' = "done"
    /\ UNCHANGED <<procs, clientVars, outMu, upstream, transport, log, broken>>

-----------------------------------------------------------------------------
(* Run and the drain of the findings.                                       *)

Signal ==
    /\ ~signal
    /\ signal' = TRUE
    /\ UNCHANGED <<run, clientVars, inbound, outMu, upstream, transport, log, broken>>

\* The select, then cancel.
RunWakes ==
    /\ run = "select"
    /\ client = "done" \/ inbound = "done" \/ signal
    /\ run' = "cancelled"
    /\ UNCHANGED <<signal, clientVars, inbound, outMu, upstream, transport, log, broken>>

CloseFlags ==
    /\ run = "cancelled"
    /\ run' = "flagged"
    /\ UNCHANGED <<signal, clientVars, inbound, outMu, upstream, transport, log, broken>>

CloseKills ==
    /\ run = "flagged"
    /\ run' = "killed"
    /\ child' = "dead"
    /\ UNCHANGED <<signal, clientVars, inbound, outMu, stdin, reader, frames, err, written, transport, log, broken>>

CloseReaps ==
    /\ run = "killed"
    /\ run' = "reaped"
    /\ UNCHANGED <<signal, clientVars, inbound, outMu, upstream, transport, log, broken>>

\* After the inbound goroutine is done: Err decides about the transport.
RunJoins ==
    /\ run = "reaped" /\ inbound = "done"
    /\ run' = "joined"
    /\ transport' = (transport \/ err)
    /\ IF err THEN Finding ELSE UNCHANGED findings
    /\ UNCHANGED <<signal, clientVars, inbound, outMu, upstream, drain, broken>>

\* The session-end line is staged and findDone closed.
RunFlushes ==
    /\ run = "joined"
    /\ run' = "flushing"
    /\ Finding
    /\ UNCHANGED <<signal, clientVars, inbound, outMu, upstream, transport, drain, broken>>

RunReturns ==
    /\ run = "flushing" /\ drain = "done"
    /\ run' = "returned"
    /\ UNCHANGED <<signal, clientVars, inbound, outMu, upstream, transport, log, broken>>

DrainTakes ==
    /\ drain = "idle" /\ findings > 0
    /\ findings' = findings - 1
    /\ drain' = "writing"
    /\ UNCHANGED <<procs, clientVars, inbound, outMu, upstream, transport, broken>>

DrainWrites ==
    /\ drain = "writing"
    /\ drain' = "idle"
    /\ UNCHANGED <<procs, clientVars, inbound, outMu, upstream, transport, findings, broken>>

DrainEnds ==
    /\ drain = "idle" /\ findings = 0 /\ run = "flushing"
    /\ drain' = "done"
    /\ UNCHANGED <<procs, clientVars, inbound, outMu, upstream, transport, findings, broken>>

Run    == RunWakes \/ CloseFlags \/ CloseKills \/ CloseReaps \/ RunJoins \/ RunFlushes \/ RunReturns
Reader == ReaderEmits \/ ReaderReleased \/ (child = "dead" /\ ReaderEnds) \/ ReaderCloses
Drain  == DrainTakes \/ DrainEnds

Next ==
    \/ ClientReads \/ ClientEOF \/ ClientReadFails \/ ClientSent \/ ClientSendFails
    \/ ClientLocksOut \/ ClientWrites
    \/ ChildDies \/ ChildClosesStdin \/ ReaderScans \/ ReaderEnds \/ Reader
    \/ InboundTakes \/ InboundLocksOut \/ InboundWrites \/ InboundEnds
    \/ Signal \/ Run \/ Drain \/ DrainWrites

Spec == Init /\ [][Next]_vars

\* The goroutines run and locks are granted; nothing is assumed of the client,
\* the child or the findings sink.
Goroutines ==
    /\ WF_vars(Run)
    /\ WF_vars(Reader)
    /\ WF_vars(Drain)
    /\ WF_vars(InboundTakes \/ InboundEnds)
    /\ SF_vars(InboundLocksOut)
    /\ SF_vars(ClientLocksOut)

\* The client reads what the proxy writes to it.
ClientListens == WF_vars(InboundWrites) /\ WF_vars(ClientWrites)

FairSpec == Spec /\ Goroutines /\ ClientListens

-----------------------------------------------------------------------------
(* Properties. *)

\* Teardown by the client or the caller is never reported as a failure of the
\* transport: only a child that died, or a stream that broke, before the
\* teardown began (backend_stdio.go:80-88, proxy.go:321-335 and 507-515).
TransportHasCause == transport => broken

\* A session that ended because the upstream did says so: the reason is on
\* record before the channel is closed (backend_stdio.go:64, proxy.go:241-248).
DeathIsReported ==
    [][run = "reaped" /\ run' = "joined" /\ ~signal /\ client # "done" => transport']_vars

\* Run returns once the client closed clientIn, the upstream terminated or the
\* context was cancelled (proxy.go:156-158), wherever the goroutines are parked;
\* only a findings sink that stops taking lines may hold it (proxy.go:258), and
\* a client that does not read (ClientListens): Run waits for a write to it.
SessionEnds ==
    signal \/ child = "dead" \/ client = "done"
        ~> run = "returned" \/ [](drain = "writing")

\* The diagnostic sink never holds up the relay: "finding() never waits on it"
\* (proxy.go:262-263 and 288-293), so a parked reader goes on though the sink
\* takes nothing.
RelayGoesOn == reader = "parked" ~> reader # "parked"
=============================================================================
