-------------------------- MODULE HttpBackendProofs --------------------------
(***************************************************************************)
(* Safety of the HTTP upstream, for any number of calls and any capacity.  *)
(*                                                                         *)
(* TypeOK is not inductive alone: a goroutine parked in emit puts its      *)
(* frame on the channel, so that frame must be one (OutOK).  The effect of *)
(* the handshake needs to know where a handshake's answer may be and that  *)
(* the session is known wherever it is (AnswerOK, EffectOK).  Who is left  *)
(* waiting, and on whose account a failure is, need to know how each       *)
(* exchange stands and where its frames are (CallOK, NotifOK).             *)
(***************************************************************************)
EXTENDS HttpBackend, TLAPS

\* What a goroutine parked in emit holds: a frame of its own call.
OutOK ==
    \A c \in Calls : trip[c].at = "emitting" =>
        /\ trip[c].out \in Frame
        /\ trip[c].out.call = c
        /\ trip[c].then # "emitting"

-----------------------------------------------------------------------------
(* What the building blocks of a round trip do to the goroutine's record.   *)

\* A goroutine that goes on to a step other than emit keeps its record's type.
LEMMA GoTyped ==
    ASSUME TypeOK, OutOK, NEW c \in Calls, NEW step \in Steps \ {"emitting"}, Go(c, step)
    PROVE  trip' \in [Calls -> Trips] /\ OutOK'
<1>1. trip' = [trip EXCEPT ![c].at = step]
  BY DEF Go
<1>2. trip[c] \in Trips
  BY DEF TypeOK
<1>3. [trip[c] EXCEPT !.at = step] \in Trips
  BY <1>2 DEF Trips
<1>4. trip' \in [Calls -> Trips]
  BY <1>1, <1>3 DEF TypeOK
<1>5. ASSUME NEW d \in Calls, trip'[d].at = "emitting"
      PROVE  trip'[d] = trip[d]
  BY <1>1, <1>2, <1>5 DEF TypeOK, Trips
<1>6. OutOK'
  BY <1>5 DEF OutOK
<1> QED BY <1>4, <1>6

\* A goroutine that enters emit does so with a frame of its own call.
LEMMA EmitTyped ==
    ASSUME TypeOK, OutOK, NEW c \in Calls, NEW kind \in Kinds,
           NEW then \in Steps \ {"emitting"}, Emit(c, kind, then)
    PROVE  trip' \in [Calls -> Trips] /\ OutOK'
<1> DEFINE f == [call |-> c, kind |-> kind]
<1> DEFINE s == trip[c].saw \/ kind \in {"answer", "request"}
<1>1. trip' = [trip EXCEPT ![c] =
                  [trip[c] EXCEPT !.at = "emitting", !.then = then, !.out = f, !.saw = s]]
  BY DEF Emit, TypeOK
<1>2. f \in Frame
  BY DEF Frame
<1>3. s \in BOOLEAN
  OBVIOUS
<1>4. trip[c] \in Trips
  BY DEF TypeOK
<1>5. [trip[c] EXCEPT !.at = "emitting", !.then = then, !.out = f, !.saw = s] \in Trips
  <2> HIDE DEF f, s
  <2> QED BY <1>2, <1>3, <1>4 DEF Trips, Steps
<1>6. trip' \in [Calls -> Trips]
  BY <1>1, <1>5 DEF TypeOK
<1>7. /\ trip'[c].out = f /\ trip'[c].then = then
      /\ \A d \in Calls \ {c} : trip'[d] = trip[d]
  <2> HIDE DEF f, s
  <2> QED BY <1>1, <1>4 DEF TypeOK, Trips
<1>8. f.call = c
  OBVIOUS
<1>9. OutOK'
  <2> HIDE DEF f
  <2> QED BY <1>2, <1>7, <1>8 DEF OutOK
<1> QED BY <1>6, <1>9

\* transportFailure: the flag is set and an error frame is on its way, if any.
LEMMA FailureTyped ==
    ASSUME TypeOK, OutOK, NEW c \in Calls, TransportFailure(c)
    PROVE  trip' \in [Calls -> Trips] /\ OutOK' /\ transport' = TRUE
<1>1. transport' = TRUE
  BY DEF TransportFailure
<1>2. CASE c \in Notices
  <2>1. Go(c, "done")
    BY <1>2 DEF TransportFailure
  <2>2. "done" \in Steps \ {"emitting"}
    BY DEF Steps
  <2> QED BY <1>1, <2>1, <2>2, GoTyped
<1>3. CASE c \notin Notices
  <2>1. Emit(c, "failure", "done")
    BY <1>3 DEF TransportFailure
  <2>2. "failure" \in Kinds /\ "done" \in Steps \ {"emitting"}
    BY DEF Steps, Kinds
  <2> QED BY <1>1, <2>1, <2>2, EmitTyped
<1> QED BY <1>2, <1>3

\* The fate of an exchange is one of them.
LEMMA EndsTyped ==
    ASSUME TypeOK, NEW x \in Calls \cup {None}, NEW how \in Fates, Ends(x, how)
    PROVE  fate' \in [Calls \cup {None} -> Fates]
BY DEF Ends, TypeOK

-----------------------------------------------------------------------------
(* Type correctness.                                                        *)

\* The steps of a POST keep every type, and what emit holds.
LEMMA TripTyped ==
    ASSUME TypeOK, OutOK, NEW c \in Calls, Send(c) \/ Trip(c) \/ Upstream(c)
    PROVE  TypeOK' /\ OutOK'
<1> USE BackendAssumption
<1>0. /\ {"building", "done", "reading", "relaying"} \subseteq Steps \ {"emitting"}
      /\ Answers(c) \subseteq Kinds
      /\ {"unreachable", "accepted", "refused", "whole", "blank", "broken", "ended",
          "oversize", "cut"} \subseteq Fates
      /\ c \in Calls \cup {None}
  BY DEF Steps, Answers, Kinds, Fates
<1>1. CASE Send(c)
  <2>1. trip' \in [Calls -> Trips] /\ OutOK'
    BY <1>0, <1>1, GoTyped DEF Send
  <2> QED BY <1>1, <2>1 DEF Send, TypeOK
<1>2. CASE Build(c)
  <2> DEFINE v == IF c \in Stateless THEN "own" ELSE IF proto THEN "negotiated" ELSE "none"
  <2>1. trip' = [trip EXCEPT ![c] =
                    [trip[c] EXCEPT !.at = "waiting", !.session = sessionID, !.version = v]]
    BY <1>2 DEF Build, TypeOK
  <2>2. v \in {"none", "negotiated", "own"}
    OBVIOUS
  <2>3. trip[c] \in Trips
    BY DEF TypeOK
  <2>4. [trip[c] EXCEPT !.at = "waiting", !.session = sessionID, !.version = v] \in Trips
    <3> HIDE DEF v
    <3> QED BY <2>2, <2>3 DEF Trips, Steps, TypeOK
  <2>5. trip' \in [Calls -> Trips]
    BY <2>1, <2>4 DEF TypeOK
  <2>6. trip'[c].at = "waiting" /\ \A d \in Calls \ {c} : trip'[d] = trip[d]
    <3> HIDE DEF v
    <3> QED BY <2>1, <2>3 DEF TypeOK, Trips
  <2>7. OutOK'
    BY <2>6 DEF OutOK
  <2> QED BY <1>2, <2>5, <2>7 DEF Build, TypeOK
<1>3. CASE TripCancelled(c)
  <2>1. trip' \in [Calls -> Trips] /\ OutOK'
    BY <1>0, <1>3, GoTyped DEF TripCancelled
  <2>2. fate' \in [Calls \cup {None} -> Fates]
    BY <1>0, <1>3, EndsTyped DEF TripCancelled
  <2> QED BY <1>3, <2>1, <2>2 DEF TripCancelled, TypeOK
<1>4. CASE Emitted(c)
  <2>1. trip[c] \in Trips /\ trip[c].at = "emitting" /\ trip[c].out \in Frame
        /\ trip[c].then \in Steps /\ trip[c].then # "emitting"
    BY <1>4 DEF Emitted, TypeOK, OutOK, Trips
  <2>2. trip' = [trip EXCEPT ![c] = [trip[c] EXCEPT !.at = trip[c].then, !.out = None]]
    BY <1>4 DEF Emitted, TypeOK
  <2>3. [trip[c] EXCEPT !.at = trip[c].then, !.out = None] \in Trips
    BY <2>1 DEF Trips
  <2>4. trip' \in [Calls -> Trips]
    BY <2>2, <2>3 DEF TypeOK
  <2>5. trip'[c].at # "emitting" /\ \A d \in Calls \ {c} : trip'[d] = trip[d]
    BY <2>1, <2>2 DEF TypeOK, Trips
  <2>6. OutOK'
    BY <2>5 DEF OutOK
  <2>7. frames' \in Seq(Frame) /\ Len(frames') <= Capacity
    <3>1. CASE Len(frames) < Capacity /\ frames' = Append(frames, trip[c].out)
      BY <2>1, <3>1 DEF TypeOK
    <3>2. CASE UNCHANGED frames
      BY <3>2 DEF TypeOK
    <3> QED BY <1>4, <3>1, <3>2 DEF Emitted
  <2> QED BY <1>4, <2>4, <2>6, <2>7 DEF Emitted, TypeOK
<1>5. CASE DoFails(c)
  <2>1. trip' \in [Calls -> Trips] /\ OutOK' /\ transport' = TRUE
    BY <1>5, FailureTyped DEF DoFails
  <2>2. fate' \in [Calls \cup {None} -> Fates]
    BY <1>0, <1>5, EndsTyped DEF DoFails
  <2> QED BY <1>5, <2>1, <2>2 DEF DoFails, TypeOK
<1>6. CASE Response(c)
  <2>1. trip' \in [Calls -> Trips] /\ OutOK' /\ transport' \in BOOLEAN
        /\ fate' \in [Calls \cup {None} -> Fates]
    <3>1. CASE Ends(c, "accepted") /\ Go(c, "done") /\ UNCHANGED transport
      BY <1>0, <3>1, GoTyped, EndsTyped DEF TypeOK
    <3>2. CASE Ends(c, "refused") /\ TransportFailure(c)
      BY <1>0, <3>2, FailureTyped, EndsTyped
    <3>3. CASE Go(c, "reading") /\ UNCHANGED <<transport, fate>>
      BY <1>0, <3>3, GoTyped DEF TypeOK
    <3>4. CASE Go(c, "relaying") /\ UNCHANGED <<transport, fate>>
      BY <1>0, <3>4, GoTyped DEF TypeOK
    <3> QED BY <1>6, <3>1, <3>2, <3>3, <3>4 DEF Response, Respond
  <2>2. sessionID' \in BOOLEAN
    BY <1>6 DEF Response, TypeOK
  <2> QED BY <1>6, <2>1, <2>2 DEF Response, TypeOK
<1>7. CASE ReadBody(c)
  <2>1. trip' \in [Calls -> Trips] /\ OutOK'
    <3>1. ASSUME NEW kind \in Answers(c), Emit(c, kind, "done")
          PROVE  trip' \in [Calls -> Trips] /\ OutOK'
      BY <1>0, <3>1, EmitTyped
    <3>2. CASE Go(c, "done")
      BY <1>0, <3>2, GoTyped
    <3> QED BY <1>7, <3>1, <3>2 DEF ReadBody
  <2>2. fate' \in [Calls \cup {None} -> Fates]
    BY <1>0, <1>7, EndsTyped DEF ReadBody
  <2> QED BY <1>7, <2>1, <2>2 DEF ReadBody, TypeOK
<1>8. CASE ReadFails(c)
  <2>1. trip' \in [Calls -> Trips] /\ OutOK' /\ transport' = TRUE
    BY <1>8, FailureTyped DEF ReadFails
  <2>2. fate' \in [Calls \cup {None} -> Fates]
    BY <1>0, <1>8, EndsTyped DEF ReadFails
  <2> QED BY <1>8, <2>1, <2>2 DEF ReadFails, TypeOK
<1>9. CASE RelayEvent(c)
  <2>1. trip' \in [Calls -> Trips] /\ OutOK'
    BY <1>0, <1>9, EmitTyped DEF RelayEvent
  <2>2. events' \in 0..MaxEvents
    BY <1>9 DEF RelayEvent, TypeOK
  <2> QED BY <1>9, <2>1, <2>2 DEF RelayEvent, TypeOK
<1>10. CASE RelayOversize(c)
  <2>1. trip' \in [Calls -> Trips] /\ OutOK' /\ transport' = TRUE
    BY <1>10, FailureTyped DEF RelayOversize
  <2>2. fate' \in [Calls \cup {None} -> Fates]
    BY <1>0, <1>10, EndsTyped DEF RelayOversize
  <2> QED BY <1>10, <2>1, <2>2 DEF RelayOversize, TypeOK
<1>11. CASE RelayEnds(c)
  <2>1. trip' \in [Calls -> Trips] /\ OutOK' /\ transport' \in BOOLEAN
    <3>1. CASE TransportFailure(c)
      BY <3>1, FailureTyped
    <3>2. CASE Go(c, "done") /\ UNCHANGED transport
      BY <1>0, <3>2, GoTyped DEF TypeOK
    <3> QED BY <1>11, <3>1, <3>2 DEF RelayEnds
  <2>2. fate' \in [Calls \cup {None} -> Fates]
    BY <1>0, <1>11, EndsTyped DEF RelayEnds
  <2> QED BY <1>11, <2>1, <2>2 DEF RelayEnds, TypeOK
<1> QED BY <1>1, <1>2, <1>3, <1>4, <1>5, <1>6, <1>7, <1>8, <1>9, <1>10, <1>11 DEF Trip, Upstream

\* So do the notification stream, the inbound goroutine and Close.
LEMMA OthersTyped ==
    ASSUME TypeOK, OutOK, Notif \/ Inbound \/ Close
    PROVE  TypeOK' /\ OutOK'
<1> USE BackendAssumption
<1>0. trip' = trip
  BY DEF Notif, Inbound, Close, NotifConnected, NotifEvent, NotifEmitted, NotifEnds,
         NotifWakes, InboundTakes, InboundTells, InboundWrites, CloseFlags, CloseCancels,
         CloseWaits, CloseEnds, closeVars
<1>1. OutOK'
  BY <1>0 DEF OutOK
<1>0a. \A how \in Fates : NotifNext(how) \in NotifSteps
  BY DEF NotifNext, NotifSteps
<1>2. CASE NotifConnected
  <2>1. PICK how \in {"open", "refused", "other", "unreachable", "cut"} :
             Ends(None, how) /\ notif' = NotifNext(how)
    BY <1>2 DEF NotifConnected
  <2>2. how \in Fates
    BY DEF Fates
  <2>3. notif' \in NotifSteps /\ fate' \in [Calls \cup {None} -> Fates]
    BY <1>0a, <2>1, <2>2, EndsTyped
  <2> QED BY <1>1, <1>2, <2>3 DEF NotifConnected, TypeOK
<1>3. CASE NotifEvent
  BY <1>1, <1>3 DEF NotifEvent, TypeOK, NotifSteps
<1>4. CASE NotifEmitted
  <2>1. [call |-> None, kind |-> "other"] \in Frame
    BY DEF Frame, Kinds
  <2>2. frames' \in Seq(Frame) /\ Len(frames') <= Capacity
    <3>1. CASE Len(frames) < Capacity /\ frames' = Append(frames, [call |-> None, kind |-> "other"])
      BY <2>1, <3>1 DEF TypeOK
    <3>2. CASE UNCHANGED frames
      BY <3>2 DEF TypeOK
    <3> QED BY <1>4, <3>1, <3>2 DEF NotifEmitted
  <2> QED BY <1>1, <1>4, <2>2 DEF NotifEmitted, TypeOK, NotifSteps
<1>5. CASE NotifEnds
  <2>1. PICK how \in {"ended", "oversize", "cut"} :
             Ends(None, how) /\ notif' = NotifNext(how) /\ transport' = (transport \/ how = "oversize")
    BY <1>5 DEF NotifEnds
  <2>2. how \in Fates
    BY DEF Fates
  <2>3. notif' \in NotifSteps /\ fate' \in [Calls \cup {None} -> Fates]
    BY <1>0a, <2>1, <2>2, EndsTyped
  <2>4. transport' \in BOOLEAN
    BY <2>1
  <2> QED BY <1>1, <1>5, <2>3, <2>4 DEF NotifEnds, TypeOK
<1>6. CASE NotifWakes
  <2>1. fate' \in [Calls \cup {None} -> Fates]
    <3>1. "open" \in Fates
      BY DEF Fates
    <3> QED BY <1>6, <3>1, EndsTyped DEF NotifWakes, TypeOK
  <2>2. notif' \in NotifSteps
    BY <1>6 DEF NotifWakes, NotifSteps
  <2> QED BY <1>1, <1>6, <2>1, <2>2 DEF NotifWakes, TypeOK
<1>7. CASE InboundTakes
  <2>1. Head(frames) \in Frame /\ Tail(frames) \in Seq(Frame) /\ Len(Tail(frames)) <= Capacity
    BY <1>7 DEF InboundTakes, TypeOK
  <2>2. [Head(frames) EXCEPT !.kind = "failure"] \in Frame
    BY <2>1 DEF Frame, Kinds
  <2>3. inbound' \in Frame /\ frames' = Tail(frames)
    BY <1>7, <2>1, <2>2 DEF InboundTakes
  <2> QED BY <1>1, <1>7, <2>1, <2>3 DEF InboundTakes, TypeOK
<1>8. CASE InboundTells
  BY <1>1, <1>8 DEF InboundTells, TypeOK, NotifSteps
<1>9. CASE InboundWrites
  BY <1>1, <1>9 DEF InboundWrites, TypeOK
<1>10. CASE Close
  BY <1>1, <1>10 DEF Close, CloseFlags, CloseCancels, CloseWaits, CloseEnds, closeVars,
         TypeOK, CloseSteps
<1> QED BY <1>2, <1>3, <1>4, <1>5, <1>6, <1>7, <1>8, <1>9, <1>10 DEF Notif, Inbound

\* Every state of the upstream has its type: frames and records of goroutines
\* are what backend_http.go:24-43 and 216-248 say, and the channel its capacity.
THEOREM HttpTypeCorrect == Spec => [](TypeOK /\ OutOK)
<1>1. Init => TypeOK /\ OutOK
  <2> SUFFICES ASSUME Init PROVE TypeOK /\ OutOK
    OBVIOUS
  <2>1. Unsent \in Trips
    BY DEF Unsent, Trips, Steps
  <2>2. trip \in [Calls -> Trips]
    BY <2>1 DEF Init
  <2>3. \A c \in Calls : trip[c].at = "unsent"
    BY DEF Init, Unsent
  <2>4. OutOK
    BY <2>3 DEF OutOK
  <2>5. frames \in Seq(Frame) /\ Len(frames) <= Capacity
    <3>1. frames = <<>> /\ Capacity >= 0
      BY BackendAssumption DEF Init
    <3> QED BY <3>1
  <2>6. events \in 0..MaxEvents
    BY BackendAssumption DEF Init
  <2>7. fate \in [Calls \cup {None} -> Fates]
    BY DEF Init, Fates
  <2> QED BY <2>2, <2>4, <2>5, <2>6, <2>7 DEF Init, TypeOK, NotifSteps, CloseSteps
<1>2. TypeOK /\ OutOK /\ [Next]_vars => (TypeOK /\ OutOK)'
  <2> SUFFICES ASSUME TypeOK, OutOK, [Next]_vars PROVE (TypeOK /\ OutOK)'
    OBVIOUS
  <2>1. CASE \E c \in Calls : Send(c) \/ Trip(c) \/ Upstream(c)
    BY <2>1, TripTyped
  <2>2. CASE Notif \/ Inbound \/ Close
    BY <2>2, OthersTyped
  <2>3. CASE UNCHANGED vars
    BY <2>3 DEF vars, TypeOK, OutOK
  <2> QED BY <2>1, <2>2, <2>3 DEF Next
<1> QED BY <1>1, <1>2, PTL DEF Spec

-----------------------------------------------------------------------------
(* Close.                                                                   *)

\* Once Close waits no longer, no goroutine runs and none is started: Send and
\* StartNotificationStream look at the flag under the lock (backend_http.go:42,
\* 101-107 and 355-361).
THEOREM OutliveCorrect == Spec => []NoGoroutineOutlivesClose
<1>1. Init => NoGoroutineOutlivesClose
  BY DEF Init, NoGoroutineOutlivesClose
<1>2. TypeOK /\ NoGoroutineOutlivesClose /\ [Next]_vars => NoGoroutineOutlivesClose'
  <2> SUFFICES ASSUME TypeOK, NoGoroutineOutlivesClose, [Next]_vars,
                      closing' \in {"deleting", "closed"}
               PROVE  Live' = {} /\ ~NotifLive'
    BY DEF NoGoroutineOutlivesClose
  <2>1. CASE CloseWaits
    BY <2>1 DEF CloseWaits, closeVars, Live, NotifLive
  <2>2. CASE CloseFlags \/ CloseCancels
    BY <2>2 DEF CloseFlags, CloseCancels
  <2>3. CASE CloseEnds
    BY <2>3 DEF CloseEnds, closeVars, NoGoroutineOutlivesClose, Live, NotifLive
  <2> SUFFICES ASSUME ~CloseWaits, ~CloseFlags, ~CloseCancels, ~CloseEnds
               PROVE  Live' = {} /\ ~NotifLive'
    BY <2>1, <2>2, <2>3
  <2>4. closing' = closing
    BY DEF Next, Close, Send, Trip, Upstream, Build, TripCancelled, Emitted, DoFails,
       Response, ReadBody, ReadFails, RelayEvent, RelayOversize, RelayEnds, Notif,
       NotifConnected, NotifEvent, NotifEmitted, NotifEnds, NotifWakes, Inbound,
       InboundTakes, InboundTells, InboundWrites, vars
  <2>5. /\ \A c \in Calls : trip[c].at \in {"unsent", "done"}
        /\ notif \in {"off", "gone"}
        /\ closed
    BY <2>4 DEF NoGoroutineOutlivesClose, Live, NotifLive, closed
  <2>6. ASSUME NEW c \in Calls, Send(c) \/ Trip(c) \/ Upstream(c) PROVE FALSE
    BY <2>5, <2>6 DEF Send, Trip, Upstream, Build, TripCancelled, Emitted, DoFails,
       Response, ReadBody, ReadFails, RelayEvent, RelayOversize, RelayEnds
  <2>7. CASE Notif
    BY <2>5, <2>7 DEF Notif, NotifConnected, NotifEvent, NotifEmitted, NotifEnds, NotifWakes
  <2>8. CASE Inbound
    <3>1. trip' = trip
      BY <2>8 DEF Inbound, InboundTakes, InboundTells, InboundWrites
    <3>2. notif' = notif
      BY <2>5, <2>8 DEF Inbound, InboundTakes, InboundTells, InboundWrites
    <3> QED BY <2>5, <3>1, <3>2 DEF Live, NotifLive
  <2>9. CASE UNCHANGED vars
    BY <2>5, <2>9 DEF vars, Live, NotifLive
  <2> QED BY <2>6, <2>7, <2>8, <2>9 DEF Next, Close
<1> QED BY <1>1, <1>2, HttpTypeCorrect, PTL DEF Spec

-----------------------------------------------------------------------------
(* The handshake.                                                           *)

HandshakeAnswer == [call |-> Handshake, kind |-> "answer"]

\* Wherever the answer to the handshake may be, the session is known.
AnswerOK ==
    LET t == trip[Handshake]
    IN  /\ t.at \in {"reading", "relaying"} => sessionID
        /\ t.at = "emitting" /\ (t.then # "done" \/ t.out = HandshakeAnswer) => sessionID
        /\ \A k \in 1..Len(frames) : frames[k] = HandshakeAnswer => sessionID
        /\ inbound # None /\ inbound = HandshakeAnswer => sessionID

\* The version is known before the client is shown the answer, and a call sent
\* after that has both headers once its request is built.
EffectOK ==
    /\ proto => closed \/ notif # "off"
    /\ HandshakeAnswer \in shown => proto /\ sessionID
    /\ \A c \in informed :
          /\ HandshakeAnswer \in shown
          /\ trip[c].at \notin {"unsent", "building"} =>
                trip[c].session /\ trip[c].version # "none"

\* A step of one POST touches that goroutine's record only, and unless it sends
\* or builds the request, not its headers.
LEMMA TripKeeps ==
    ASSUME TypeOK, NEW c \in Calls, Send(c) \/ Trip(c) \/ Upstream(c)
    PROVE  /\ \A d \in Calls \ {c} : trip'[d] = trip[d]
           /\ ~Send(c) /\ ~Build(c) =>
                 /\ trip[c].at \notin {"unsent", "building"}
                 /\ trip'[c].session = trip[c].session
                 /\ trip'[c].version = trip[c].version
<1>0. trip[c] \in Trips /\ DOMAIN trip = Calls
  BY DEF TypeOK
<1>1. ASSUME NEW step, Go(c, step)
      PROVE  /\ \A d \in Calls \ {c} : trip'[d] = trip[d]
             /\ trip'[c].session = trip[c].session
             /\ trip'[c].version = trip[c].version
             /\ trip'[c].at = step
  BY <1>0, <1>1 DEF Go, TypeOK, Trips
<1>2. ASSUME NEW kind, NEW then, Emit(c, kind, then)
      PROVE  /\ \A d \in Calls \ {c} : trip'[d] = trip[d]
             /\ trip'[c].session = trip[c].session
             /\ trip'[c].version = trip[c].version
  BY <1>0, <1>2 DEF Emit, TypeOK, Trips
<1>3. ASSUME TransportFailure(c)
      PROVE  /\ \A d \in Calls \ {c} : trip'[d] = trip[d]
             /\ trip'[c].session = trip[c].session
             /\ trip'[c].version = trip[c].version
  BY <1>1, <1>2, <1>3 DEF TransportFailure
<1>4. CASE Send(c)
  BY <1>1, <1>4 DEF Send
<1>5. CASE Build(c)
  BY <1>0, <1>5 DEF Build, TypeOK
<1>6. CASE TripCancelled(c)
  BY <1>1, <1>6 DEF TripCancelled
<1>7. CASE Emitted(c)
  BY <1>0, <1>7 DEF Emitted, TypeOK, Trips
<1>8. CASE DoFails(c)
  BY <1>3, <1>8 DEF DoFails
<1>9. CASE Response(c)
  BY <1>1, <1>3, <1>9 DEF Response, Respond
<1>10. CASE ReadBody(c)
  BY <1>1, <1>2, <1>10 DEF ReadBody
<1>11. CASE ReadFails(c)
  BY <1>3, <1>11 DEF ReadFails
<1>12. CASE RelayEvent(c)
  BY <1>2, <1>12 DEF RelayEvent
<1>13. CASE RelayOversize(c)
  BY <1>3, <1>13 DEF RelayOversize
<1>14. CASE RelayEnds(c)
  BY <1>1, <1>3, <1>14 DEF RelayEnds
<1> QED BY <1>4, <1>5, <1>6, <1>7, <1>8, <1>9, <1>10, <1>11, <1>12, <1>13, <1>14 DEF Trip, Upstream

\* The session is known before the handshake's answer is anywhere: it comes in
\* the headers of the same response (backend_http.go:258-263).
LEMMA AnswerStep ==
    ASSUME TypeOK, OutOK, AnswerOK, [Next]_vars
    PROVE  AnswerOK'
<1> USE BackendAssumption
<1> SUFFICES ASSUME ~sessionID' PROVE AnswerOK'
  BY DEF AnswerOK
<1> DEFINE H == Handshake
<1>0. trip[H] \in Trips /\ H \in Calls
  BY DEF TypeOK
<1>1. ~sessionID
  BY DEF Next, Close, CloseFlags, CloseCancels, CloseWaits, CloseEnds, closeVars,
     Send, Trip, Upstream, Build, TripCancelled, Emitted, DoFails,
     Response, ReadBody, ReadFails, RelayEvent, RelayOversize, RelayEnds, Notif,
     NotifConnected, NotifEvent, NotifEmitted, NotifEnds, NotifWakes, Inbound,
     InboundTakes, InboundTells, InboundWrites, vars
<1>2. /\ trip[H].at \notin {"reading", "relaying"}
      /\ trip[H].at = "emitting" => trip[H].then = "done" /\ trip[H].out # HandshakeAnswer
      /\ \A k \in 1..Len(frames) : frames[k] # HandshakeAnswer
      /\ inbound # None => inbound # HandshakeAnswer
  BY <1>1 DEF AnswerOK
<1>3. ASSUME /\ trip'[H].at \notin {"reading", "relaying"}
             /\ trip'[H].at = "emitting" => trip'[H].then = "done" /\ trip'[H].out # HandshakeAnswer
             /\ \A k \in 1..Len(frames') : frames'[k] # HandshakeAnswer
             /\ inbound' # None => inbound' # HandshakeAnswer
      PROVE  AnswerOK'
  BY <1>3 DEF AnswerOK
<1>4. ASSUME NEW f \in Frame, f # HandshakeAnswer, frames' = Append(frames, f)
      PROVE  \A k \in 1..Len(frames') : frames'[k] # HandshakeAnswer
  BY <1>2, <1>4 DEF TypeOK
<1>5. CASE \E c \in Calls : Send(c) \/ Trip(c) \/ Upstream(c)
  <2> PICK c \in Calls : Send(c) \/ Trip(c) \/ Upstream(c)
    BY <1>5
  <2>1. inbound' = inbound
    BY DEF Send, Trip, Upstream, Build, TripCancelled, Emitted, DoFails,
       Response, ReadBody, ReadFails, RelayEvent, RelayOversize, RelayEnds
  <2>2. \A k \in 1..Len(frames') : frames'[k] # HandshakeAnswer
    <3>1. CASE Emitted(c)
      <4>1. trip[c].out \in Frame /\ trip[c].out.call = c
        BY <3>1 DEF Emitted, OutOK
      <4>2. trip[c].out # HandshakeAnswer
        <5>1. CASE c = H
          BY <1>2, <3>1, <5>1 DEF Emitted
        <5>2. CASE c # H
          BY <4>1, <5>2 DEF HandshakeAnswer
        <5> QED BY <5>1, <5>2
      <4> QED BY <1>2, <1>4, <3>1, <4>1, <4>2 DEF Emitted
    <3>2. CASE ~Emitted(c)
      <4>1. frames' = frames
        BY <3>2 DEF Send, Trip, Upstream, Build, TripCancelled, DoFails,
           Response, ReadBody, ReadFails, RelayEvent, RelayOversize, RelayEnds
      <4> QED BY <1>2, <4>1
    <3> QED BY <3>1, <3>2
  <2>3. /\ trip'[H].at \notin {"reading", "relaying"}
        /\ trip'[H].at = "emitting" => trip'[H].then = "done" /\ trip'[H].out # HandshakeAnswer
    <3>1. CASE c # H
      <4>1. trip'[H] = trip[H]
        BY <1>0, <3>1, TripKeeps
      <4> QED BY <1>2, <4>1
    <3>2. CASE c = H
      <4>1. ~Response(H)
        BY <1>1 DEF Response
      <4>2. ~ReadBody(H) /\ ~ReadFails(H) /\ ~RelayEvent(H) /\ ~RelayOversize(H) /\ ~RelayEnds(H)
        BY <1>2 DEF ReadBody, ReadFails, RelayEvent, RelayOversize, RelayEnds
      <4>3. ASSUME NEW step, Go(H, step) PROVE trip'[H].at = step
        BY <1>0, <4>3 DEF Go, TypeOK, Trips
      <4>4. CASE Send(H)
        BY <4>3, <4>4 DEF Send
      <4>5. CASE Build(H)
        BY <1>0, <4>5 DEF Build, TypeOK, Trips
      <4>6. CASE TripCancelled(H)
        BY <4>3, <4>6 DEF TripCancelled
      <4>7. CASE Emitted(H)
        <5>1. trip'[H].at = trip[H].then /\ trip[H].then = "done"
          BY <1>0, <1>2, <4>7 DEF Emitted, TypeOK, Trips
        <5> QED BY <5>1
      <4>8. CASE DoFails(H)
        <5>1. Emit(H, "failure", "done")
          BY <4>8 DEF DoFails, TransportFailure
        <5>2. /\ trip'[H].at = "emitting" /\ trip'[H].then = "done"
              /\ trip'[H].out = [call |-> H, kind |-> "failure"]
          BY <1>0, <5>1 DEF Emit, TypeOK, Trips
        <5>3. [call |-> H, kind |-> "failure"].kind # HandshakeAnswer.kind
          BY DEF HandshakeAnswer
        <5> QED BY <5>2, <5>3
      <4> QED BY <3>2, <4>1, <4>2, <4>4, <4>5, <4>6, <4>7, <4>8 DEF Trip, Upstream
    <3> QED BY <3>1, <3>2
  <2> QED BY <1>2, <1>3, <2>1, <2>2, <2>3
<1>6. CASE InboundTakes
  <2>1. trip' = trip /\ frames # <<>> /\ frames' = Tail(frames)
    BY <1>6 DEF InboundTakes
  <2>2. Head(frames) = frames[1] /\ 1 \in 1..Len(frames) /\ Head(frames) \in Frame
    BY <2>1 DEF TypeOK
  <2>3. inbound' # HandshakeAnswer
    <3>1. CASE inbound' = Head(frames)
      BY <1>2, <2>2, <3>1
    <3>2. CASE inbound' = [Head(frames) EXCEPT !.kind = "failure"]
      <4>1. inbound'.kind = "failure"
        BY <2>2, <3>2 DEF Frame
      <4>2. HandshakeAnswer.kind = "answer"
        BY DEF HandshakeAnswer
      <4> QED BY <4>1, <4>2
    <3> QED BY <1>6, <3>1, <3>2 DEF InboundTakes
  <2>4. \A k \in 1..Len(frames') : frames'[k] # HandshakeAnswer
    <3>1. \A k \in 1..Len(Tail(frames)) : Tail(frames)[k] = frames[k + 1] /\ k + 1 \in 1..Len(frames)
      BY <2>1 DEF TypeOK
    <3> QED BY <1>2, <2>1, <3>1
  <2> QED BY <1>2, <1>3, <2>1, <2>3, <2>4
<1>7. CASE NotifEmitted
  <2>1. trip' = trip /\ inbound' = inbound
    BY <1>7 DEF NotifEmitted
  <2> DEFINE f == [call |-> None, kind |-> "other"]
  <2>2. f \in Frame
    BY DEF Frame, Kinds
  <2>3. f # HandshakeAnswer
    <3>1. f.kind = "other" /\ HandshakeAnswer.kind = "answer"
      BY DEF HandshakeAnswer
    <3> QED BY <3>1
  <2>4. \A k \in 1..Len(frames') : frames'[k] # HandshakeAnswer
    <3>1. CASE frames' = Append(frames, f)
      <4> HIDE DEF f
      <4> QED BY <1>4, <2>2, <2>3, <3>1
    <3>2. CASE UNCHANGED frames
      BY <1>2, <3>2
    <3> QED BY <1>7, <3>1, <3>2 DEF NotifEmitted
  <2> QED BY <1>2, <1>3, <2>1, <2>4
<1>8. CASE InboundTells \/ InboundWrites
  <2>1. trip' = trip /\ frames' = frames /\ inbound' \in {inbound, None}
    BY <1>8 DEF InboundTells, InboundWrites
  <2> QED BY <1>2, <1>3, <2>1
<1>9. CASE NotifConnected \/ NotifEvent \/ NotifEnds \/ NotifWakes \/ Close \/ UNCHANGED vars
  <2>1. trip' = trip /\ frames' = frames /\ inbound' = inbound
    BY <1>9 DEF NotifConnected, NotifEvent, NotifEnds, NotifWakes, Close, CloseFlags,
       CloseCancels, CloseWaits, CloseEnds, closeVars, vars
  <2> QED BY <1>2, <1>3, <2>1
<1> QED BY <1>5, <1>6, <1>7, <1>8, <1>9 DEF Next, Notif, Inbound

\* The client's view: the backend acts on the handshake before the client can
\* react to it (proxy.go:634-644).
LEMMA EffectStep ==
    ASSUME TypeOK, OutOK, AnswerOK, EffectOK, [Next]_vars
    PROVE  EffectOK'
<1> USE BackendAssumption
<1>1. proto' => closed' \/ notif' # "off"
  <2>1. closed => closed'
    BY DEF closed, Next, Close, CloseFlags, CloseCancels, CloseWaits, CloseEnds, closeVars,
       Send, Trip, Upstream, Build, TripCancelled, Emitted, DoFails,
       Response, ReadBody, ReadFails, RelayEvent, RelayOversize, RelayEnds, Notif,
       NotifConnected, NotifEvent, NotifEmitted, NotifEnds, NotifWakes, Inbound,
       InboundTakes, InboundTells, InboundWrites, vars
  <2>2. CASE InboundTells
    BY <2>2 DEF InboundTells, closed
  <2>3. CASE ~InboundTells
    <3>1. proto' = proto
      BY <2>3 DEF Next, Close, CloseFlags, CloseCancels, CloseWaits, CloseEnds, closeVars,
       Send, Trip, Upstream, Build, TripCancelled, Emitted, DoFails,
       Response, ReadBody, ReadFails, RelayEvent, RelayOversize, RelayEnds, Notif,
       NotifConnected, NotifEvent, NotifEmitted, NotifEnds, NotifWakes, Inbound,
       InboundTakes, InboundWrites, vars
    <3>2. notif # "off" => notif' # "off"
      <4>1. \A how \in Fates : NotifNext(how) # "off"
        BY DEF NotifNext
      <4>2. {"open", "refused", "other", "unreachable", "ended", "oversize", "cut"} \subseteq Fates
        BY DEF Fates
      <4>3. NotifConnected \/ NotifEnds => notif' # "off"
        BY <4>1, <4>2 DEF NotifConnected, NotifEnds
      <4> QED BY <2>3, <4>3 DEF Next, Close, CloseFlags, CloseCancels, CloseWaits, CloseEnds, closeVars,
       Send, Trip, Upstream, Build, TripCancelled, Emitted, DoFails,
       Response, ReadBody, ReadFails, RelayEvent, RelayOversize, RelayEnds, Notif,
       NotifEvent, NotifEmitted, NotifWakes, Inbound,
       InboundTakes, InboundWrites, vars
    <3> QED BY <2>1, <3>1, <3>2 DEF EffectOK
  <2> QED BY <2>2, <2>3
<1>2. proto => proto'
  BY DEF Next, Close, CloseFlags, CloseCancels, CloseWaits, CloseEnds, closeVars,
       Send, Trip, Upstream, Build, TripCancelled, Emitted, DoFails,
       Response, ReadBody, ReadFails, RelayEvent, RelayOversize, RelayEnds, Notif,
       NotifConnected, NotifEvent, NotifEmitted, NotifEnds, NotifWakes, Inbound,
       InboundTakes, InboundTells, InboundWrites, vars
<1>3. sessionID => sessionID'
  BY DEF Next, Close, CloseFlags, CloseCancels, CloseWaits, CloseEnds, closeVars,
       Send, Trip, Upstream, Build, TripCancelled, Emitted, DoFails,
       Response, ReadBody, ReadFails, RelayEvent, RelayOversize, RelayEnds, Notif,
       NotifConnected, NotifEvent, NotifEmitted, NotifEnds, NotifWakes, Inbound,
       InboundTakes, InboundTells, InboundWrites, vars
<1>4. /\ shown \subseteq shown'
      /\ HandshakeAnswer \in shown' => proto' /\ sessionID'
  <2>1. CASE InboundWrites
    <3>1. shown' \in {shown, shown \cup {inbound}} /\ inbound # None
      BY <2>1 DEF InboundWrites
    <3>2. ASSUME HandshakeAnswer \notin shown, HandshakeAnswer \in shown'
          PROVE  proto /\ sessionID
      <4>1. inbound = HandshakeAnswer /\ ~Unsolicited(inbound)
        BY <2>1, <3>1, <3>2 DEF InboundWrites
      <4>2. proto
        BY <2>1, <4>1 DEF InboundWrites, HandshakeVerified, HandshakeAnswer
      <4>3. sessionID
        BY <3>1, <4>1 DEF AnswerOK
      <4> QED BY <4>2, <4>3
    <3> QED BY <1>2, <1>3, <3>1, <3>2 DEF EffectOK
  <2>2. CASE ~InboundWrites
    <3>1. shown' = shown
      BY <2>2 DEF Next, Close, CloseFlags, CloseCancels, CloseWaits, CloseEnds, closeVars,
       Send, Trip, Upstream, Build, TripCancelled, Emitted, DoFails,
       Response, ReadBody, ReadFails, RelayEvent, RelayOversize, RelayEnds, Notif,
       NotifConnected, NotifEvent, NotifEmitted, NotifEnds, NotifWakes, Inbound,
       InboundTakes, InboundTells, vars
    <3> QED BY <1>2, <1>3, <3>1 DEF EffectOK
  <2> QED BY <2>1, <2>2
<1>5. ASSUME NEW d \in informed'
      PROVE  /\ HandshakeAnswer \in shown'
             /\ trip'[d].at \notin {"unsent", "building"} =>
                   trip'[d].session /\ trip'[d].version # "none"
  <2>1. CASE \E c \in Calls : Send(c) \/ Trip(c) \/ Upstream(c)
    <3> PICK c \in Calls : Send(c) \/ Trip(c) \/ Upstream(c)
      BY <2>1
    <3>0. trip[c] \in Trips /\ d \in Calls
      <4>1. informed' \subseteq informed \cup {c}
        BY DEF Send, Trip, Upstream, Build, TripCancelled, Emitted, DoFails,
           Response, ReadBody, ReadFails, RelayEvent, RelayOversize, RelayEnds
      <4> QED BY <1>5, <4>1 DEF TypeOK
    <3>1. CASE Send(c)
      <4>1. d \in informed \/ (d = c /\ HandshakeAnswer \in shown)
        BY <1>5, <3>1 DEF Send, HandshakeAnswer
      <4>2. trip'[c].at = "building"
        BY <3>0, <3>1 DEF Send, Go, TypeOK, Trips
      <4>3. d # c => trip'[d] = trip[d]
        BY <3>0, TripKeeps
      <4> QED BY <1>4, <4>1, <4>2, <4>3 DEF EffectOK
    <3>2. CASE ~Send(c)
      <4>1. d \in informed
        BY <1>5, <3>2 DEF Trip, Upstream, Build, TripCancelled, Emitted, DoFails,
           Response, ReadBody, ReadFails, RelayEvent, RelayOversize, RelayEnds
      <4>2. HandshakeAnswer \in shown /\ proto /\ sessionID
        BY <4>1 DEF EffectOK
      <4>3. CASE d # c
        BY <1>4, <3>0, <4>1, <4>2, <4>3, TripKeeps DEF EffectOK
      <4>4. CASE d = c /\ Build(c)
        <5> DEFINE v == IF c \in Stateless THEN "own" ELSE IF proto THEN "negotiated" ELSE "none"
        <5>1. v # "none"
          BY <4>2
        <5>2. trip' = [trip EXCEPT ![c] =
                    [trip[c] EXCEPT !.at = "waiting", !.session = sessionID, !.version = v]]
          BY <4>4 DEF Build, TypeOK
        <5>3. trip'[c].session = sessionID /\ trip'[c].version = v
          <6> HIDE DEF v
          <6> QED BY <3>0, <5>2 DEF TypeOK, Trips
        <5> QED BY <1>4, <4>2, <4>4, <5>1, <5>3
      <4>5. CASE d = c /\ ~Build(c)
        BY <1>4, <3>2, <4>1, <4>2, <4>5, TripKeeps DEF EffectOK
      <4> QED BY <4>3, <4>4, <4>5
    <3> QED BY <3>1, <3>2
  <2>2. CASE Notif \/ Inbound \/ Close \/ UNCHANGED vars
    <3>1. trip' = trip /\ informed' = informed
      BY <2>2 DEF Close, CloseFlags, CloseCancels, CloseWaits, CloseEnds, closeVars, Notif,
       NotifConnected, NotifEvent, NotifEmitted, NotifEnds, NotifWakes, Inbound,
       InboundTakes, InboundTells, InboundWrites, vars
    <3> QED BY <1>4, <1>5, <3>1 DEF EffectOK
  <2> QED BY <2>1, <2>2 DEF Next
<1> QED BY <1>1, <1>4, <1>5 DEF EffectOK

\* The client is shown a verified handshake only when the backend acts on it
\* (proxy.go:630-645, backend_http.go:226-248 and 353-363).
THEOREM HandshakeCorrect == Spec => []HandshakeTakesEffect
<1> DEFINE IInv == AnswerOK /\ EffectOK
<1>1. Init => IInv
  <2> SUFFICES ASSUME Init PROVE IInv
    OBVIOUS
  <2>1. trip[Handshake].at = "unsent"
    BY BackendAssumption DEF Init, Unsent
  <2>2. Len(frames) = 0 /\ inbound = None /\ shown = {} /\ informed = {} /\ ~proto
    BY DEF Init
  <2>3. AnswerOK
    BY <2>1, <2>2 DEF AnswerOK
  <2>4. EffectOK
    BY <2>2 DEF EffectOK
  <2> QED BY <2>3, <2>4
<1>2. TypeOK /\ OutOK /\ IInv /\ [Next]_vars => IInv'
  BY AnswerStep, EffectStep
<1>3. IInv => HandshakeTakesEffect
  BY DEF EffectOK, HandshakeTakesEffect, HandshakeAnswer
<1> QED BY <1>1, <1>2, <1>3, HttpTypeCorrect, PTL DEF Spec

-----------------------------------------------------------------------------
(* What is reported, and who is left waiting.                              *)

\* The frames that settle a request, and those among them that come from its own
\* exchange: the response, or the error frame in its stead.
Replies  == {"answer", "failure"}
Settling == Replies \cup {"request"}

\* Sets of kinds that the inbound goroutine does not tell apart.
Judged == {Replies, Settling, {"other"}, {"request"}}

\* A frame of the call is with the client, on its way there, or in the hands of
\* the goroutine.
Holds(c, kinds) == Named(c, kinds) \/ (trip[c].at = "emitting" /\ trip[c].out.kind \in kinds)

Early(c)    == trip[c].at \in {"unsent", "building", "waiting", "reading"}
Relaying(c) == trip[c].at = "relaying" \/ (trip[c].at = "emitting" /\ trip[c].then = "relaying")
Ending(c)   == trip[c].at = "done" \/ (trip[c].at = "emitting" /\ trip[c].then = "done")

\* How an exchange may be over while the session goes on.
Settled(c) ==
    \/ Holds(c, Replies)
    \/ fate[c] \in {"accepted", "blank"}
    \/ fate[c] = "whole" /\ Holds(c, {"other"})
    \/ fate[c] = "ended" /\ Holds(c, {"request"})

\* Until its last frame nothing has become of an exchange; sawResponse is set
\* exactly by a frame that settles the request, which is not lost.
CallOK(c) ==
    /\ trip[c].at = "emitting" => trip[c].then \in {"done", "relaying"}
    /\ Early(c) => ~trip[c].saw
    /\ Early(c) \/ Relaying(c) => fate[c] = "open"
    /\ (Early(c) \/ Relaying(c)) /\ ~trip[c].saw => ~Holds(c, Replies)
    /\ c \notin Notices /\ ~ctxDone /\ Relaying(c) /\ trip[c].saw => Holds(c, Settling)
    /\ c \notin Notices /\ ~ctxDone /\ Ending(c) => Settled(c)

NotifOK == notif \in {"relaying", "emitting"} => fate[None] = "open"

\* Frames that stay where they are are still named, and no others.
LEMMA NamedSame ==
    ASSUME NEW c, NEW kinds, shown' = shown, inbound' = inbound, frames' = frames
    PROVE  Named(c, kinds)' <=> Named(c, kinds)
BY DEF Named

\* One more frame on the channel is named from then on.
LEMMA NamedAppended ==
    ASSUME TypeOK, NEW c, NEW kinds, NEW f \in Frame, frames' = Append(frames, f),
           shown' = shown, inbound' = inbound
    PROVE  Named(c, kinds)' <=> Named(c, kinds) \/ (f.call = c /\ f.kind \in kinds)
<1>1. frames \in Seq(Frame)
  BY DEF TypeOK
<1>2. f = [call |-> f.call, kind |-> f.kind]
  BY DEF Frame
<1>3. /\ Len(frames') = Len(frames) + 1 /\ Len(frames) \in Nat
      /\ \A k \in 1..Len(frames) : frames'[k] = frames[k]
      /\ frames'[Len(frames) + 1] = f
  BY <1>1
<1>4. ASSUME NEW kind \in kinds
      PROVE  (\E k \in 1..Len(frames') : [call |-> c, kind |-> kind] = frames'[k])
              <=> \/ \E k \in 1..Len(frames) : [call |-> c, kind |-> kind] = frames[k]
                  \/ f = [call |-> c, kind |-> kind]
  <2> DEFINE g == [call |-> c, kind |-> kind]
  <2> HIDE DEF g
  <2>1. (\E k \in 1..Len(frames') : g = frames'[k])
              <=> (\E k \in 1..Len(frames) : g = frames[k]) \/ f = g
    BY <1>3
  <2> QED BY <2>1 DEF g
<1>5. ASSUME NEW kind PROVE f = [call |-> c, kind |-> kind] <=> f.call = c /\ f.kind = kind
  BY <1>2
<1> QED BY <1>4, <1>5 DEF Named

\* The inbound goroutine hands a frame on, as an error frame if the verifier
\* refuses it; one it drops is a second response to a call that had its first.
LEMMA InboundNamed ==
    ASSUME TypeOK, Inbound, NEW c \in Calls, NEW kinds \in Judged
    PROVE  Named(c, kinds)' <=> Named(c, kinds)
<1> DEFINE F(kind) == [call |-> c, kind |-> kind]
<1>0. /\ kinds \subseteq Kinds
      /\ "answer" \in kinds <=> "failure" \in kinds
      /\ \A kind \in Kinds : F(kind) \in Frame
  BY DEF Judged, Replies, Settling, Kinds, Frame
<1>1. ASSUME NEW f \in Frame, NEW kind PROVE f = F(kind) <=> f.call = c /\ f.kind = kind
  BY DEF Frame
<1> DEFINE In(f) == \E kind \in kinds : F(kind) = f
<1>2. Named(c, kinds) <=> (\E f \in shown : In(f)) \/ In(inbound) \/ \E k \in 1..Len(frames) : In(frames[k])
  BY DEF Named
<1>3. Named(c, kinds)' <=> \/ \E f \in shown' : In(f)
                           \/ In(inbound')
                           \/ \E k \in 1..Len(frames') : In(frames'[k])
  BY DEF Named
<1>4. ~In(None)
  BY <1>0, NoFrameAssumption
<1>5. ASSUME NEW f \in Frame PROVE In(f) <=> f.call = c /\ f.kind \in kinds
  BY <1>1
<1> HIDE DEF In, F
<1>6. CASE InboundTells
  BY <1>6, NamedSame DEF InboundTells
<1>7. CASE InboundTakes
  <2>1. /\ shown' = shown /\ frames' = Tail(frames) /\ inbound = None
        /\ frames \in Seq(Frame) /\ frames # <<>>
    BY <1>7 DEF InboundTakes, TypeOK
  <2>2. /\ Head(frames) \in Frame /\ Head(frames) = frames[1] /\ Len(frames) \in Nat \ {0}
        /\ Len(frames') = Len(frames) - 1
        /\ \A k \in 1..Len(frames') : frames'[k] = frames[k + 1]
    BY <2>1
  <2>3. In(inbound') <=> In(Head(frames))
    <3>1. CASE inbound' = Head(frames)
      BY <3>1
    <3>2. CASE Head(frames).kind = "answer" /\ inbound' = [Head(frames) EXCEPT !.kind = "failure"]
      <4>1. inbound' \in Frame /\ inbound'.call = Head(frames).call /\ inbound'.kind = "failure"
        BY <2>2, <3>2 DEF Frame, Kinds
      <4> QED BY <1>0, <1>5, <2>2, <3>2, <4>1
    <3> QED BY <1>7, <3>1, <3>2 DEF InboundTakes
  <2>4. (\E k \in 1..Len(frames) : In(frames[k]))
           <=> In(Head(frames)) \/ \E k \in 1..Len(frames') : In(frames'[k])
    <3>1. ASSUME NEW k \in 1..Len(frames), In(frames[k]), k # 1
          PROVE  k - 1 \in 1..Len(frames') /\ In(frames'[k - 1])
      BY <2>2, <3>1
    <3>2. ASSUME NEW k \in 1..Len(frames'), In(frames'[k])
          PROVE  k + 1 \in 1..Len(frames) /\ In(frames[k + 1])
      BY <2>2, <3>2
    <3>3. 1 \in 1..Len(frames)
      BY <2>2
    <3> QED BY <2>2, <3>1, <3>2, <3>3
  <2> QED BY <1>2, <1>3, <1>4, <2>1, <2>3, <2>4
<1>8. CASE InboundWrites
  <2>1. /\ frames' = frames /\ inbound' = None /\ inbound \in Frame
        /\ shown' = IF Unsolicited(inbound) THEN shown ELSE shown \cup {inbound}
        /\ shown \subseteq Frame
    BY <1>8 DEF InboundWrites, TypeOK
  <2>2. CASE ~Unsolicited(inbound)
    BY <1>2, <1>3, <1>4, <2>1, <2>2
  <2>3. CASE Unsolicited(inbound)
    <3>1. /\ inbound.kind \in {"answer", "failure"}
          /\ \E f \in shown : f \in Frame /\ f.call = inbound.call /\ f.kind \in {"answer", "failure"}
      <4>1. PICK k \in {"answer", "failure"} : [inbound EXCEPT !.kind = k] \in shown
        BY <2>3 DEF Unsolicited
      <4>2. [inbound EXCEPT !.kind = k].call = inbound.call /\ [inbound EXCEPT !.kind = k].kind = k
        BY <2>1 DEF Frame
      <4> QED BY <2>1, <2>3, <4>1, <4>2 DEF Unsolicited
    <3>2. In(inbound) => \E f \in shown : In(f)
      BY <1>0, <1>5, <2>1, <3>1
    <3> QED BY <1>2, <1>3, <1>4, <2>1, <2>3, <3>2
  <2> QED BY <2>2, <2>3
<1> QED BY <1>6, <1>7, <1>8 DEF Inbound

\* A call whose goroutine and frames are left alone is as well off as before.
LEMMA CallKept ==
    ASSUME NEW c \in Calls, CallOK(c), trip'[c] = trip[c], fate'[c] = fate[c],
           \A kinds \in Judged : Named(c, kinds)' <=> Named(c, kinds),
           ctxDone => ctxDone'
    PROVE  CallOK(c)'
<1>1. ASSUME NEW kinds \in Judged PROVE Holds(c, kinds)' <=> Holds(c, kinds)
  BY <1>1 DEF Holds
<1>2. /\ Holds(c, Replies)' <=> Holds(c, Replies)
      /\ Holds(c, Settling)' <=> Holds(c, Settling)
      /\ Holds(c, {"other"})' <=> Holds(c, {"other"})
      /\ Holds(c, {"request"})' <=> Holds(c, {"request"})
  BY <1>1 DEF Judged
<1>3. /\ Early(c)' <=> Early(c)
      /\ Relaying(c)' <=> Relaying(c)
      /\ Ending(c)' <=> Ending(c)
  BY DEF Early, Relaying, Ending
<1>4. Settled(c)' <=> Settled(c)
  BY <1>2 DEF Settled
<1> QED BY <1>2, <1>3, <1>4 DEF CallOK

\* The steps of its own goroutine keep a call so.
LEMMA OwnStep ==
    ASSUME TypeOK, OutOK, NEW d \in Calls, CallOK(d), Send(d) \/ Trip(d) \/ Upstream(d)
    PROVE  CallOK(d)'
<1>0. trip[d] \in Trips /\ DOMAIN trip = Calls /\ DOMAIN fate = Calls \cup {None}
  BY DEF TypeOK
<1>1. closing' = closing /\ shown' = shown /\ inbound' = inbound
  BY DEF Send, Trip, Upstream, Build, TripCancelled, Emitted, DoFails,
     Response, ReadBody, ReadFails, RelayEvent, RelayOversize, RelayEnds
<1>2. ctxDone' <=> ctxDone
  BY <1>1 DEF ctxDone
<1>3. ASSUME NEW step, Go(d, step)
      PROVE  trip'[d].at = step /\ trip'[d].saw = trip[d].saw
  BY <1>0, <1>3 DEF Go, TypeOK, Trips
<1>4. ASSUME NEW kind, NEW then, Emit(d, kind, then)
      PROVE  /\ trip'[d].at = "emitting" /\ trip'[d].then = then
             /\ trip'[d].out.kind = kind
             /\ trip'[d].saw = (trip[d].saw \/ kind \in {"answer", "request"})
  BY <1>0, <1>4 DEF Emit, TypeOK, Trips
<1>5. ASSUME NEW how, Ends(d, how) PROVE fate'[d] = how
  BY <1>0, <1>5 DEF Ends
<1>6. ASSUME TransportFailure(d) PROVE CallOK(d)'
  <2>1. CASE d \in Notices
    <3>1. trip'[d].at = "done"
      BY <1>3, <1>6, <2>1 DEF TransportFailure
    <3> QED BY <2>1, <3>1 DEF CallOK, Early, Relaying, Ending
  <2>2. CASE d \notin Notices
    <3>1. trip'[d].at = "emitting" /\ trip'[d].then = "done" /\ trip'[d].out.kind = "failure"
      BY <1>4, <1>6, <2>2 DEF TransportFailure
    <3>2. Holds(d, Replies)'
      BY <3>1 DEF Holds, Replies
    <3>3. Settled(d)'
      BY <3>2 DEF Settled
    <3> QED BY <3>1, <3>3 DEF CallOK, Early, Relaying, Ending
  <2> QED BY <2>1, <2>2
<1>7. ASSUME ~Emitted(d), NEW kinds PROVE Named(d, kinds)' <=> Named(d, kinds)
  <2>1. frames' = frames
    BY <1>7 DEF Send, Trip, Upstream, Build, TripCancelled, DoFails,
       Response, ReadBody, ReadFails, RelayEvent, RelayOversize, RelayEnds
  <2> QED BY <1>1, <2>1, NamedSame
<1>8. ASSUME NEW kinds, trip[d].at # "emitting" PROVE Holds(d, kinds) <=> Named(d, kinds)
  BY <1>8 DEF Holds
<1>9. ASSUME ~Emitted(d), Early(d), trip'[d].at \in {"building", "waiting", "reading", "relaying"},
             trip'[d].saw = trip[d].saw, fate' = fate
      PROVE  CallOK(d)'
  <2>1. ~trip[d].saw /\ fate[d] = "open" /\ ~Named(d, Replies)
    BY <1>9 DEF CallOK, Holds
  <2>2. ~trip'[d].saw /\ fate'[d] = "open" /\ ~Holds(d, Replies)'
    BY <1>7, <1>9, <2>1 DEF Holds
  <2> QED BY <1>9, <2>2 DEF CallOK, Early, Relaying, Ending
<1>10. CASE Send(d)
  BY <1>3, <1>9, <1>10 DEF Send, Early, Emitted
<1>11. CASE Build(d)
  <2>1. trip'[d].at = "waiting" /\ trip'[d].saw = trip[d].saw
    BY <1>0, <1>11 DEF Build, TypeOK, Trips
  <2> QED BY <1>9, <1>11, <2>1 DEF Build, Early, Emitted
<1>12. CASE TripCancelled(d)
  <2>1. trip'[d].at = "done" /\ ctxDone'
    BY <1>2, <1>3, <1>12 DEF TripCancelled
  <2> QED BY <2>1 DEF CallOK, Early, Relaying, Ending
<1>13. CASE DoFails(d)
  BY <1>6, <1>13 DEF DoFails
<1>14. CASE Response(d)
  <2>1. CASE Ends(d, "accepted") /\ Go(d, "done")
    <3>1. trip'[d].at = "done" /\ fate'[d] = "accepted"
      BY <1>3, <1>5, <2>1
    <3> QED BY <3>1 DEF CallOK, Early, Relaying, Ending, Settled
  <2>2. CASE TransportFailure(d)
    BY <1>6, <2>2
  <2>3. ASSUME NEW step \in {"reading", "relaying"}, Go(d, step), UNCHANGED fate
        PROVE  CallOK(d)'
    BY <1>3, <1>9, <1>14, <2>3 DEF Response, Early, Emitted
  <2> QED BY <1>14, <2>1, <2>2, <2>3 DEF Response, Respond
<1>15. CASE ReadBody(d)
  <2>1. ASSUME Ends(d, "whole"), NEW kind \in Answers(d) \ {"request"}, Emit(d, kind, "done")
        PROVE  CallOK(d)'
    <3>1. /\ trip'[d].at = "emitting" /\ trip'[d].then = "done" /\ trip'[d].out.kind = kind
          /\ fate'[d] = "whole" /\ kind \in {"answer", "other"}
      BY <1>4, <1>5, <2>1 DEF Answers
    <3>2. Settled(d)'
      <4>1. Holds(d, Replies)' \/ Holds(d, {"other"})'
        BY <3>1 DEF Holds, Replies
      <4> QED BY <3>1, <4>1 DEF Settled
    <3> QED BY <3>1, <3>2 DEF CallOK, Early, Relaying, Ending
  <2>2. CASE Ends(d, "blank") /\ Go(d, "done")
    <3>1. trip'[d].at = "done" /\ fate'[d] = "blank"
      BY <1>3, <1>5, <2>2
    <3> QED BY <3>1 DEF CallOK, Early, Relaying, Ending, Settled
  <2> QED BY <1>15, <2>1, <2>2 DEF ReadBody
<1>16. CASE ReadFails(d)
  BY <1>6, <1>16 DEF ReadFails
<1>17. CASE RelayEvent(d)
  <2>1. trip[d].at = "relaying" /\ fate' = fate /\ ~Emitted(d)
    BY <1>17 DEF RelayEvent, Emitted
  <2>2. PICK kind \in Answers(d) : Emit(d, kind, "relaying")
    BY <1>17 DEF RelayEvent
  <2>3. /\ trip'[d].at = "emitting" /\ trip'[d].then = "relaying" /\ trip'[d].out.kind = kind
        /\ trip'[d].saw = (trip[d].saw \/ kind \in {"answer", "request"})
        /\ kind \in {"answer", "request", "other"}
    BY <1>4, <2>2 DEF Answers
  <2>4. fate'[d] = "open"
    BY <2>1 DEF CallOK, Relaying
  <2>5. ~trip'[d].saw => ~Holds(d, Replies)'
    <3>1. ~trip[d].saw => ~Named(d, Replies)
      BY <1>8, <2>1 DEF CallOK, Relaying
    <3> QED BY <1>7, <2>1, <2>3, <3>1 DEF Holds, Replies
  <2>6. ASSUME d \notin Notices, ~ctxDone', trip'[d].saw PROVE Holds(d, Settling)'
    <3>1. CASE kind \in {"answer", "request"}
      BY <2>3, <3>1 DEF Holds, Settling, Replies
    <3>2. CASE trip[d].saw
      <4>1. Named(d, Settling)
        BY <1>2, <1>8, <2>1, <2>6, <3>2 DEF CallOK, Relaying
      <4> QED BY <1>7, <2>1, <4>1 DEF Holds
    <3> QED BY <2>3, <2>6, <3>1, <3>2
  <2> QED BY <2>3, <2>4, <2>5, <2>6 DEF CallOK, Early, Relaying, Ending
<1>18. CASE RelayOversize(d)
  BY <1>6, <1>18 DEF RelayOversize
<1>19. CASE RelayEnds(d)
  <2>1. CASE TransportFailure(d)
    BY <1>6, <2>1
  <2>2. CASE ~(d \notin Notices /\ ~trip[d].saw /\ ~ctxDone)
    <3>1. trip'[d].at = "done" /\ trip[d].at = "relaying" /\ ~Emitted(d)
      BY <1>3, <1>19, <2>2 DEF RelayEnds, Emitted
    <3>2. ASSUME d \notin Notices, ~ctxDone' PROVE Settled(d)'
      <4>1. trip[d].saw /\ ~ctxDone
        BY <1>2, <2>2, <3>2
      <4>2. Named(d, Settling)
        BY <1>8, <3>1, <3>2, <4>1 DEF CallOK, Relaying
      <4>3. Named(d, Replies) \/ Named(d, {"request"})
        BY <4>2 DEF Named, Settling
      <4>4. Holds(d, Replies)' \/ Holds(d, {"request"})'
        BY <1>7, <3>1, <4>3 DEF Holds
      <4>5. fate'[d] = "ended"
        BY <1>5, <1>19, <4>1 DEF RelayEnds
      <4> QED BY <4>4, <4>5 DEF Settled
    <3> QED BY <3>1, <3>2 DEF CallOK, Early, Relaying, Ending
  <2> QED BY <1>19, <2>1, <2>2 DEF RelayEnds
<1>20. CASE Emitted(d)
  <2>1. /\ trip'[d].at = trip[d].then /\ trip'[d].saw = trip[d].saw /\ fate' = fate
        /\ trip[d].at = "emitting" /\ trip[d].then \in {"done", "relaying"}
        /\ trip[d].out \in Frame /\ trip[d].out.call = d
    BY <1>0, <1>20 DEF Emitted, TypeOK, Trips, OutOK, CallOK
  <2>2. ASSUME NEW kinds
        PROVE  /\ Holds(d, kinds)' => Holds(d, kinds)
               /\ Holds(d, kinds) /\ ~ctxDone => Holds(d, kinds)'
    <3>1. Holds(d, kinds)' <=> Named(d, kinds)'
      BY <2>1 DEF Holds
    <3>2. CASE frames' = Append(frames, trip[d].out)
      <4>1. Named(d, kinds)' <=> Named(d, kinds) \/ trip[d].out.kind \in kinds
        BY <1>1, <2>1, <3>2, NamedAppended
      <4> QED BY <2>1, <3>1, <4>1 DEF Holds
    <3>3. CASE ctxDone /\ UNCHANGED frames
      <4>1. Named(d, kinds)' <=> Named(d, kinds)
        BY <1>1, <3>3, NamedSame
      <4> QED BY <3>1, <3>3, <4>1 DEF Holds
    <3> QED BY <1>20, <3>2, <3>3 DEF Emitted
  <2>3. CASE trip[d].then = "done"
    <3>1. Ending(d) /\ ~Early(d)' /\ ~Relaying(d)' /\ trip'[d].at = "done"
      BY <2>1, <2>3 DEF Early, Relaying, Ending
    <3>2. ASSUME d \notin Notices, ~ctxDone' PROVE Settled(d)'
      <4>1. Settled(d)
        BY <1>2, <3>1, <3>2 DEF CallOK
      <4> QED BY <1>2, <2>1, <2>2, <3>2, <4>1 DEF Settled
    <3> QED BY <3>1, <3>2 DEF CallOK
  <2>4. CASE trip[d].then = "relaying"
    <3>1. Relaying(d) /\ Relaying(d)' /\ ~Early(d)' /\ ~Ending(d)' /\ trip'[d].at = "relaying"
      BY <2>1, <2>4 DEF Early, Relaying, Ending
    <3>2. fate'[d] = "open" /\ (~trip'[d].saw => ~Holds(d, Replies)')
      BY <2>1, <2>2, <3>1 DEF CallOK
    <3>3. d \notin Notices /\ ~ctxDone' /\ trip'[d].saw => Holds(d, Settling)'
      BY <1>2, <2>1, <2>2, <3>1 DEF CallOK
    <3> QED BY <3>1, <3>2, <3>3 DEF CallOK
  <2> QED BY <2>1, <2>3, <2>4
<1> QED BY <1>10, <1>11, <1>12, <1>13, <1>14, <1>15, <1>16, <1>17, <1>18, <1>19, <1>20
        DEF Trip, Upstream

\* So do the other goroutines, and the notification stream has its own exchange.
LEMMA ExchangesKept ==
    ASSUME TypeOK, OutOK, \A c \in Calls : CallOK(c), NotifOK, [Next]_vars
    PROVE  (\A c \in Calls : CallOK(c))' /\ NotifOK'
<1> USE BackendAssumption
<1>0. DOMAIN fate = Calls \cup {None}
  BY DEF TypeOK
<1>1. ctxDone => ctxDone'
  BY DEF ctxDone, Next, Close, CloseFlags, CloseCancels, CloseWaits, CloseEnds, Send,
     Trip, Upstream, Build, TripCancelled, Emitted, DoFails, Response, ReadBody,
     ReadFails, RelayEvent, RelayOversize, RelayEnds, Notif, NotifConnected, NotifEvent,
     NotifEmitted, NotifEnds, NotifWakes, Inbound, InboundTakes, InboundTells,
     InboundWrites, vars
<1>2. CASE \E d \in Calls : Send(d) \/ Trip(d) \/ Upstream(d)
  <2> PICK d \in Calls : Send(d) \/ Trip(d) \/ Upstream(d)
    BY <1>2
  <2>1. CallOK(d)'
    BY OwnStep
  <2>2. /\ \A x \in (Calls \cup {None}) \ {d} : fate'[x] = fate[x]
        /\ notif' = notif /\ shown' = shown /\ inbound' = inbound
    BY <1>0 DEF Ends, Send, Trip, Upstream, Build, TripCancelled, Emitted, DoFails, Response,
       Respond, ReadBody, ReadFails, RelayEvent, RelayOversize, RelayEnds
  <2>3. ASSUME NEW c \in Calls \ {d}, NEW kinds PROVE Named(c, kinds)' <=> Named(c, kinds)
    <3>1. CASE frames' = frames
      BY <2>2, <3>1, NamedSame
    <3>2. CASE Emitted(d) /\ frames' # frames
      <4>1. trip[d].out \in Frame /\ trip[d].out.call = d /\ frames' = Append(frames, trip[d].out)
        BY <3>2 DEF Emitted, OutOK
      <4> QED BY <2>2, <4>1, NamedAppended
    <3> QED BY <3>1, <3>2 DEF Send, Trip, Upstream, Build, TripCancelled, DoFails,
           Response, ReadBody, ReadFails, RelayEvent, RelayOversize, RelayEnds
  <2>4. ASSUME NEW c \in Calls \ {d} PROVE CallOK(c)'
    <3>1. trip'[c] = trip[c]
      BY TripKeeps
    <3> QED BY <1>1, <2>2, <2>3, <3>1, CallKept
  <2>5. NotifOK'
    BY <2>2 DEF NotifOK
  <2> QED BY <2>1, <2>4, <2>5
<1>3. ASSUME trip' = trip, \A c \in Calls : fate'[c] = fate[c],
             \A c \in Calls, kinds \in Judged : Named(c, kinds)' <=> Named(c, kinds)
      PROVE  (\A c \in Calls : CallOK(c))'
  BY <1>1, <1>3, CallKept
<1>4. CASE Notif
  <2>1. trip' = trip /\ shown' = shown /\ inbound' = inbound
    BY <1>4 DEF Notif, NotifConnected, NotifEvent, NotifEmitted, NotifEnds, NotifWakes
  <2>2. \A c \in Calls : fate'[c] = fate[c]
    BY <1>0, <1>4 DEF Notif, NotifConnected, NotifEvent, NotifEmitted, NotifEnds, NotifWakes, Ends
  <2>3. ASSUME NEW c \in Calls, NEW kinds PROVE Named(c, kinds)' <=> Named(c, kinds)
    <3> DEFINE f == [call |-> None, kind |-> "other"]
    <3>1. CASE frames' = frames
      BY <2>1, <3>1, NamedSame
    <3>2. CASE frames' = Append(frames, f)
      <4>1. f \in Frame /\ f.call # c
        BY DEF Frame, Kinds
      <4> HIDE DEF f
      <4> QED BY <2>1, <3>2, <4>1, NamedAppended
    <3> QED BY <1>4, <3>1, <3>2 DEF Notif, NotifConnected, NotifEvent, NotifEmitted, NotifEnds, NotifWakes
  <2>4. NotifOK'
    <3>1. CASE NotifConnected
      <4>1. PICK how \in {"open", "refused", "other", "unreachable", "cut"} :
                 Ends(None, how) /\ notif' = NotifNext(how)
        BY <3>1 DEF NotifConnected
      <4>2. fate'[None] = how
        BY <1>0, <4>1 DEF Ends
      <4> QED BY <4>1, <4>2 DEF NotifOK, NotifNext
    <3>2. CASE NotifEvent \/ NotifEmitted
      BY <3>2 DEF NotifEvent, NotifEmitted, NotifOK
    <3>3. CASE NotifEnds
      <4>1. PICK how \in {"ended", "oversize", "cut"} : notif' = NotifNext(how)
        BY <3>3 DEF NotifEnds
      <4> QED BY <4>1 DEF NotifOK, NotifNext
    <3>4. CASE NotifWakes
      BY <3>4 DEF NotifWakes, NotifOK
    <3> QED BY <1>4, <3>1, <3>2, <3>3, <3>4 DEF Notif
  <2> QED BY <1>3, <2>1, <2>2, <2>3, <2>4
<1>5. CASE Inbound
  <2>1. trip' = trip /\ fate' = fate /\ (notif' = notif \/ notif' = "connecting")
    BY <1>5 DEF Inbound, InboundTakes, InboundTells, InboundWrites
  <2>2. \A c \in Calls, kinds \in Judged : Named(c, kinds)' <=> Named(c, kinds)
    BY <1>5, InboundNamed
  <2> QED BY <1>3, <2>1, <2>2 DEF NotifOK
<1>6. CASE Close \/ UNCHANGED vars
  <2>1. UNCHANGED closeVars
    BY <1>6 DEF Close, CloseFlags, CloseCancels, CloseWaits, CloseEnds, closeVars, vars
  <2>2. \A c \in Calls, kinds \in Judged : Named(c, kinds)' <=> Named(c, kinds)
    BY <2>1, NamedSame DEF closeVars
  <2> QED BY <1>3, <2>1, <2>2 DEF closeVars, NotifOK
<1> QED BY <1>2, <1>4, <1>5, <1>6 DEF Next

\* What the two theorems below rest on: how each exchange ended, and where the
\* frames it settled its request with are.
THEOREM ExchangesCorrect == Spec => []((\A c \in Calls : CallOK(c)) /\ NotifOK)
<1> DEFINE IInv == (\A c \in Calls : CallOK(c)) /\ NotifOK
<1>1. Init => IInv
  <2> SUFFICES ASSUME Init PROVE (\A c \in Calls : CallOK(c)) /\ NotifOK
    OBVIOUS
  <2>0. NotifOK
    BY DEF Init, NotifOK
  <2> SUFFICES ASSUME NEW c \in Calls PROVE CallOK(c)
    BY <2>0
  <2>1. trip[c].at = "unsent" /\ ~trip[c].saw /\ fate[c] = "open"
    BY DEF Init, Unsent
  <2>2. ~Holds(c, Replies)
    <3>1. shown = {} /\ inbound = None /\ Len(frames) = 0
      BY DEF Init
    <3>2. \A kind \in Replies : [call |-> c, kind |-> kind] \in Frame
      BY DEF Replies, Frame, Kinds
    <3> QED BY <2>1, <3>1, <3>2, NoFrameAssumption DEF Holds, Named
  <2> QED BY <2>1, <2>2 DEF CallOK, Early, Relaying, Ending
<1>2. TypeOK /\ OutOK /\ IInv /\ [Next]_vars => IInv'
  BY ExchangesKept
<1> QED BY <1>1, <1>2, HttpTypeCorrect, PTL DEF Spec

\* A request whose exchange is over while the session goes on has an answer or an
\* error frame, save where the code leaves it without: an upstream that accepts
\* it, answers it with a blank body or another message, or uses its id for a
\* request of its own (backend_http.go:264-325).
THEOREM WaitingCorrect == Spec => []NotLeftWaiting
<1>1. (\A c \in Calls : CallOK(c)) => NotLeftWaiting
  <2> SUFFICES ASSUME NEW c \in Calls \ Notices, CallOK(c), trip[c].at = "done", ~ctxDone
               PROVE  \/ Named(c, Replies)
                      \/ fate[c] \in {"accepted", "blank"}
                      \/ fate[c] = "whole" /\ Named(c, {"other"})
                      \/ fate[c] = "ended" /\ Named(c, {"request"})
    BY DEF NotLeftWaiting, Replies
  <2> QED BY DEF CallOK, Ending, Settled, Holds
<1> QED BY <1>1, ExchangesCorrect, PTL

\* The outcome is first marked as a transport failure by an act of the upstream
\* that is one, and what the proxy's own Close cuts is none, except the body of a
\* JSON response (proxy.go:98, backend_http.go:216-325 and 348-415).
THEOREM FailureCorrect == Spec => FailureIsUpstreams
<1> DEFINE IInv == (\A c \in Calls : CallOK(c)) /\ NotifOK
<1> DEFINE Blame(x) ==
       /\ fate'[x] # fate[x]
       /\ \/ fate'[x] \in {"unreachable", "refused", "broken", "oversize"}
          \/ fate'[x] = "ended" /\ x \in Calls \ Notices /\ ~Named(x, {"answer", "failure"})
          \/ fate'[x] = "cut" /\ x \in Calls /\ trip[x].at = "reading"
<1>1. TypeOK /\ OutOK /\ IInv /\ Next /\ ~transport /\ transport' => \E x \in Calls \cup {None} : Blame(x)
  <2> SUFFICES ASSUME TypeOK, IInv, Next, ~transport, transport'
               PROVE  \E x \in Calls \cup {None} : Blame(x)
    OBVIOUS
  <2>0. DOMAIN fate = Calls \cup {None}
    BY DEF TypeOK
  <2>1. ASSUME NEW c \in Calls, Upstream(c) PROVE Blame(c)
    <3>1. ASSUME NEW how, Ends(c, how) PROVE fate'[c] = how
      BY <2>0, <3>1 DEF Ends
    <3>2. CallOK(c)
      OBVIOUS
    <3>3. Early(c) \/ Relaying(c) => fate[c] = "open"
      BY <3>2 DEF CallOK
    <3>4. CASE DoFails(c) \/ RelayOversize(c) \/ ReadFails(c)
      BY <3>1, <3>3, <3>4 DEF DoFails, RelayOversize, ReadFails, Early, Relaying
    <3>5. CASE Response(c)
      <4>1. Ends(c, "refused")
        BY <3>5 DEF Response, Respond
      <4> QED BY <3>1, <3>3, <3>5, <4>1 DEF Response, Early
    <3>6. CASE RelayEnds(c)
      <4>1. c \notin Notices /\ ~trip[c].saw /\ ~ctxDone /\ Relaying(c)
        BY <3>6 DEF RelayEnds, Relaying
      <4>2. fate'[c] = "ended" /\ fate[c] = "open"
        BY <3>1, <3>3, <3>6, <4>1 DEF RelayEnds
      <4>3. ~Named(c, Replies)
        BY <3>2, <4>1 DEF CallOK, Holds
      <4> QED BY <4>1, <4>2, <4>3 DEF Replies
    <3> QED BY <2>1, <3>4, <3>5, <3>6 DEF Upstream, ReadBody, RelayEvent
  <2>2. CASE Notif
    <3>1. NotifEnds /\ Ends(None, "oversize") /\ notif = "relaying"
      BY <2>2 DEF Notif, NotifConnected, NotifEvent, NotifEmitted, NotifEnds, NotifWakes
    <3>2. fate'[None] = "oversize" /\ fate[None] = "open"
      BY <2>0, <3>1 DEF Ends, NotifOK
    <3>3. Blame(None)
      BY <3>2
    <3> QED BY <3>3
  <2>3. ASSUME \/ \E c \in Calls : Send(c) \/ Trip(c)
               \/ Inbound \/ Close
        PROVE  FALSE
    BY <2>3 DEF Send, Trip, Build, TripCancelled, Emitted, Inbound, InboundTakes, InboundTells,
       InboundWrites, Close, CloseFlags, CloseCancels, CloseWaits, CloseEnds, closeVars
  <2> QED BY <2>1, <2>2, <2>3 DEF Next
<1>2. IInv /\ TypeOK /\ OutOK /\ [Next]_vars =>
         [~transport /\ transport' => \E x \in Calls \cup {None} : Blame(x)]_vars
  BY <1>1
<1> QED BY <1>2, HttpTypeCorrect, ExchangesCorrect, PTL DEF Spec, FailureIsUpstreams
=============================================================================
