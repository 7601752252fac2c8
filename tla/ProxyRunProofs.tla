---------------------------- MODULE ProxyRunProofs ----------------------------
(***************************************************************************)
(* Safety of a session's life over a stdio upstream, for channels of any   *)
(* capacity and any number of frames.                                      *)
(*                                                                         *)
(* Two invariants carry it.  CauseOK: a dead child was either broken or    *)
(* killed by Close, and the reader's reason is only kept in the first      *)
(* case.  WakeOK: if neither the client nor the caller ended the session,  *)
(* the reader's reason is on record from the moment Run wakes.             *)
(***************************************************************************)
EXTENDS ProxyRun, TLAPS

\* Every action, for steps that only need to know what it leaves alone.
ClientActs == ClientReads \/ ClientEOF \/ ClientReadFails \/ ClientSent \/ ClientSendFails
                  \/ ClientLocksOut \/ ClientWrites
ChildActs  == ChildDies \/ ChildClosesStdin \/ ReaderScans \/ ReaderEnds \/ Reader

\* What is dead was broken, or Close has killed it; a closed stdin and a recorded
\* reason have a cause.
CauseOK ==
    /\ child = "dead" => broken \/ Done
    /\ stdin = "closed" => broken
    /\ err => broken
    /\ transport => broken

\* How the reader ended before Close began, and what Run woke up for.
WakeOK ==
    /\ err => reader \in {"ended", "exited"}
    /\ reader \in {"ended", "exited"} /\ ~Closed => err
    /\ inbound = "done" => reader = "exited"
    /\ run # "select" /\ ~signal /\ client # "done" => err
    /\ outMu = "client" => client = "writing"

-----------------------------------------------------------------------------

\* A finding keeps the channel within its capacity.
LEMMA FindingTyped ==
    ASSUME findings \in 0..FindCapacity, Finding
    PROVE  findings' \in 0..FindCapacity
BY RunAssumption DEF Finding

\* Every step keeps the types, the capacities of both channels among them.
LEMMA TypeStep ==
    ASSUME TypeOK, [Next]_vars
    PROVE  TypeOK'
<1> USE RunAssumption DEF TypeOK, procs, clientVars, upstream, log
<1>1. CASE ClientActs
  <2>1. CASE ClientReads
    <3>1. findings' \in 0..FindCapacity
      BY <2>1, FindingTyped DEF ClientReads
    <3> QED BY <2>1, <3>1 DEF ClientReads
  <2>2. CASE ClientEOF
    BY <2>2 DEF ClientEOF
  <2>3. CASE ClientReadFails
    <3>1. CASE CtxDone
      BY <2>3, <3>1 DEF ClientReadFails
    <3>2. CASE ~CtxDone
      <4>1. findings' \in 0..FindCapacity
        BY <2>3, <3>2, FindingTyped DEF ClientReadFails
      <4> QED BY <2>3, <3>2, <4>1 DEF ClientReadFails
    <3> QED BY <3>1, <3>2
  <2>4. CASE ClientSent
    BY <2>4 DEF ClientSent
  <2>5. CASE ClientSendFails
    <3>1. CASE CtxDone
      BY <2>5, <3>1 DEF ClientSendFails
    <3>2. CASE ~CtxDone
      <4>1. findings' \in 0..FindCapacity
        BY <2>5, <3>2, FindingTyped DEF ClientSendFails
      <4> QED BY <2>5, <3>2, <4>1 DEF ClientSendFails
    <3> QED BY <3>1, <3>2
  <2>6. CASE ClientLocksOut
    BY <2>6 DEF ClientLocksOut
  <2>7. CASE ClientWrites
    BY <2>7 DEF ClientWrites
  <2> QED BY <1>1, <2>1, <2>2, <2>3, <2>4, <2>5, <2>6, <2>7 DEF ClientActs
<1>2. CASE ChildActs
  <2>1. CASE ChildDies \/ ChildClosesStdin
    BY <2>1 DEF ChildDies, ChildClosesStdin
  <2>2. CASE ReaderScans
    BY <2>2 DEF ReaderScans
  <2>3. CASE ReaderEnds
    <3>1. (broken \/ child = "alive") \in BOOLEAN /\ (~Closed) \in BOOLEAN
      OBVIOUS
    <3> QED BY <2>3, <3>1 DEF ReaderEnds
  <2>4. CASE ReaderEmits
    BY <2>4 DEF ReaderEmits
  <2>5. CASE ReaderReleased
    BY <2>5 DEF ReaderReleased
  <2>6. CASE ReaderCloses
    BY <2>6 DEF ReaderCloses
  <2> QED BY <1>2, <2>1, <2>2, <2>3, <2>4, <2>5, <2>6 DEF ChildActs, Reader
<1>3. CASE InboundTakes
  BY <1>3, FindingTyped DEF InboundTakes
<1>4. CASE InboundLocksOut
  BY <1>4 DEF InboundLocksOut
<1>5. CASE InboundWrites
  BY <1>5 DEF InboundWrites
<1>6. CASE InboundEnds
  BY <1>6 DEF InboundEnds
<1>7. CASE Signal
  BY <1>7 DEF Signal
<1>8. CASE RunWakes \/ CloseFlags \/ CloseReaps \/ RunReturns
  BY <1>8 DEF RunWakes, CloseFlags, CloseReaps, RunReturns, RunSteps
<1>9. CASE CloseKills
  BY <1>9 DEF CloseKills, RunSteps
<1>10. CASE RunJoins
  <2>1. (transport \/ err) \in BOOLEAN
    OBVIOUS
  <2> QED BY <1>10, <2>1, FindingTyped DEF RunJoins, RunSteps
<1>11. CASE RunFlushes
  BY <1>11, FindingTyped DEF RunFlushes, RunSteps
<1>12. CASE DrainTakes
  BY <1>12 DEF DrainTakes
<1>13. CASE DrainWrites \/ DrainEnds
  BY <1>13 DEF DrainWrites, DrainEnds
<1>14. CASE UNCHANGED vars
  BY <1>14 DEF vars
<1> QED BY <1>1, <1>2, <1>3, <1>4, <1>5, <1>6, <1>7, <1>8, <1>9, <1>10, <1>11, <1>12, <1>13, <1>14
        DEF Next, ClientActs, ChildActs, Run, Drain

\* Every state of a session's life has its type.
THEOREM RunTypeCorrect == Spec => []TypeOK
<1>1. ASSUME Init
      PROVE  TypeOK
  <2>1. 0 \in 0..Capacity /\ 0 \in 0..FindCapacity /\ 0 \in 0..MaxFrames /\ 0 \in 0..MaxLines
    BY RunAssumption
  <2> QED BY <1>1, <2>1 DEF Init, TypeOK, RunSteps
<1> QED BY <1>1, TypeStep, PTL DEF Spec

-----------------------------------------------------------------------------

\* A cause stays one, and Close never takes its steps back.
LEMMA CauseStep ==
    ASSUME TypeOK, CauseOK, [Next]_vars
    PROVE  CauseOK'
<1> USE DEF TypeOK, CauseOK, Done, procs, clientVars, upstream, log
<1>1. CASE ClientActs
  <2>1. CASE ClientReadFails
    BY <2>1 DEF ClientReadFails
  <2>2. CASE ClientSendFails
    BY <2>2 DEF ClientSendFails, CtxDone
  <2>3. CASE ClientReads \/ ClientEOF \/ ClientSent \/ ClientLocksOut \/ ClientWrites
    BY <2>3 DEF ClientReads, ClientEOF, ClientSent, ClientLocksOut, ClientWrites
  <2> QED BY <1>1, <2>1, <2>2, <2>3 DEF ClientActs
<1>2. CASE ChildActs
  <2>1. CASE ReaderEnds
    BY <2>1 DEF ReaderEnds, Closed
  <2>2. CASE ChildDies \/ ChildClosesStdin \/ ReaderScans \/ ReaderEmits \/ ReaderReleased \/ ReaderCloses
    BY <2>2 DEF ChildDies, ChildClosesStdin, ReaderScans, ReaderEmits, ReaderReleased, ReaderCloses
  <2> QED BY <1>2, <2>1, <2>2 DEF ChildActs, Reader
<1>3. CASE InboundTakes \/ InboundLocksOut \/ InboundWrites \/ InboundEnds \/ Signal
            \/ Drain \/ DrainWrites
  BY <1>3 DEF InboundTakes, InboundLocksOut, InboundWrites, InboundEnds, Signal, Drain,
     DrainTakes, DrainEnds, DrainWrites
<1>4. CASE Run
  BY <1>4 DEF Run, RunWakes, CloseFlags, CloseKills, CloseReaps, RunJoins, RunFlushes, RunReturns
<1>5. CASE UNCHANGED vars
  BY <1>5 DEF vars
<1> QED BY <1>1, <1>2, <1>3, <1>4, <1>5 DEF Next, ClientActs, ChildActs

\* The transport is blamed only for a child that died or a stream that broke
\* before the teardown (backend_stdio.go:80-88, proxy.go:321-335 and 507-515).
THEOREM CauseCorrect == Spec => []TransportHasCause
<1>1. Init => CauseOK
  BY DEF Init, CauseOK
<1>2. CauseOK => TransportHasCause
  BY DEF CauseOK, TransportHasCause
<1> QED BY <1>1, <1>2, CauseStep, RunTypeCorrect, PTL DEF Spec

-----------------------------------------------------------------------------

\* The reason is recorded once, before the channel is closed, and Run does not
\* wake for a closed channel without it.
LEMMA WakeStep ==
    ASSUME TypeOK, WakeOK, [Next]_vars
    PROVE  WakeOK'
<1> USE DEF TypeOK, WakeOK, Closed, procs, clientVars, upstream, log
<1>1. CASE ClientActs
  <2>1. CASE ClientReads \/ ClientEOF \/ ClientReadFails
    BY <2>1 DEF ClientReads, ClientEOF, ClientReadFails
  <2>2. CASE ClientSent \/ ClientSendFails
    BY <2>2 DEF ClientSent, ClientSendFails
  <2>3. CASE ClientLocksOut \/ ClientWrites
    BY <2>3 DEF ClientLocksOut, ClientWrites
  <2> QED BY <1>1, <2>1, <2>2, <2>3 DEF ClientActs
<1>2. CASE ChildActs
  <2>1. CASE ReaderEnds
    BY <2>1 DEF ReaderEnds
  <2>2. CASE ReaderReleased
    BY <2>2 DEF ReaderReleased, Done
  <2>3. CASE ChildDies \/ ChildClosesStdin \/ ReaderScans \/ ReaderEmits \/ ReaderCloses
    BY <2>3 DEF ChildDies, ChildClosesStdin, ReaderScans, ReaderEmits, ReaderCloses
  <2> QED BY <1>2, <2>1, <2>2, <2>3 DEF ChildActs, Reader
<1>3. CASE InboundTakes \/ InboundLocksOut \/ InboundWrites \/ InboundEnds \/ Signal
            \/ Drain \/ DrainWrites
  BY <1>3 DEF InboundTakes, InboundLocksOut, InboundWrites, InboundEnds, Signal, Drain,
     DrainTakes, DrainEnds, DrainWrites
<1>4. CASE Run
  BY <1>4 DEF Run, RunWakes, CloseFlags, CloseKills, CloseReaps, RunJoins, RunFlushes, RunReturns
<1>5. CASE UNCHANGED vars
  BY <1>5 DEF vars
<1> QED BY <1>1, <1>2, <1>3, <1>4, <1>5 DEF Next, ClientActs, ChildActs

\* A session that ended because the upstream did says so
\* (backend_stdio.go:64, proxy.go:241-248).
THEOREM DeathCorrect == Spec => DeathIsReported
<1>1. Init => WakeOK
  BY DEF Init, WakeOK
<1>2. ASSUME TypeOK, WakeOK, [Next]_vars,
             run = "reaped", run' = "joined", ~signal, client # "done"
      PROVE  transport'
  <2>1. err
    BY <1>2 DEF WakeOK
  <2>2. RunJoins
    BY <1>2 DEF Next, vars, ClientReads, ClientEOF, ClientReadFails, ClientSent,
       ClientSendFails, ClientLocksOut, ClientWrites, ChildDies, ChildClosesStdin, ReaderScans, ReaderEnds,
       Reader, ReaderEmits, ReaderReleased, ReaderCloses, InboundTakes, InboundLocksOut,
       InboundWrites, InboundEnds, Signal, Run, RunWakes, CloseFlags, CloseKills,
       CloseReaps, RunFlushes, RunReturns, Drain, DrainTakes, DrainEnds, DrainWrites, procs
  <2> QED BY <2>1, <2>2 DEF RunJoins
<1>3. TypeOK /\ WakeOK /\ [Next]_vars
          => [run = "reaped" /\ run' = "joined" /\ ~signal /\ client # "done" => transport']_vars
  BY <1>2
<1> QED BY <1>1, <1>3, WakeStep, RunTypeCorrect, PTL DEF Spec, DeathIsReported
=============================================================================
