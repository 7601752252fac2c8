----------------------------- MODULE HttpBackend -----------------------------
(***************************************************************************)
(* The Streamable HTTP upstream of the proxy: proxy/backend_http.go, with  *)
(* the inbound goroutine of proxy/proxy.go that consumes its frames.       *)
(*                                                                         *)
(* Every client frame is POSTed by a goroutine of its own (roundTrip), one *)
(* more goroutine keeps the notification stream open (notifLoop), and all  *)
(* of them put frames on one bounded channel.  Close may be called at any  *)
(* moment: it refuses new goroutines, cancels the context, waits for the   *)
(* goroutines, deletes the session and closes the channel.                 *)
(*                                                                         *)
(* Data.  A frame is who it answers and what it is.  The session id and    *)
(* the protocol version are either known or not.                           *)
(***************************************************************************)
EXTENDS Integers, Sequences, FiniteSets

CONSTANTS
    Calls,       \* the client frames of a session, each POSTed once
    Notices,     \* those that carry no id: the notifications
    Handshake,   \* the initialize request
    Stateless,   \* those that name their own dialect in _meta
    Capacity,    \* of the frames channel (64 in the code)
    MaxEvents,   \* bound: SSE events the upstream sends in all
    None

ASSUME BackendAssumption ==
    /\ Handshake \in Calls \ (Notices \cup Stateless)
    /\ Notices \subseteq Calls
    /\ Stateless \subseteq Calls
    /\ Capacity \in Nat \ {0}
    /\ MaxEvents \in Nat
    /\ None \notin Calls

VARIABLES
    trip,       \* the roundTrip goroutine of each call
    notif,      \* the notifLoop goroutine
    frames,     \* the frames channel
    closing,    \* how far Close is
    sessionID,  \* whether the upstream has assigned a session
    proto,      \* whether SetProto was called
    inbound,    \* the frame the inbound goroutine is handling
    transport,  \* Outcome.Transport, set by onTransport
    fate,       \* history: what became of the exchange of each call, and (None) of the
                \* last one of the notification stream: the upstream's own act
    shown,      \* history: the frames written to the client
    informed,   \* history: the calls sent after the client saw the handshake
    events      \* the SSE events sent so far

vars == <<trip, notif, frames, closing, sessionID, proto, inbound, transport,
          fate, shown, informed, events>>

-----------------------------------------------------------------------------
(* The shapes of the state. *)

\* What a frame is to the call it names: its response, a request of the
\* server's own that happens to carry the same id, a synthesized error frame.
Kinds == {"answer", "request", "other", "failure"}
Frame == [call : Calls \cup {None}, kind : Kinds]

\* None also stands for an inbound goroutine that has no frame.
ASSUME NoFrameAssumption == None \notin Frame

\* A goroutine is parked in "emitting" with the frame it has for the channel
\* and goes on to "then"; saw is sawResponse; session and version are the
\* headers its request carries.
Steps == {"unsent", "building", "waiting", "reading", "relaying", "emitting", "done"}
Trips == [at : Steps, then : Steps, out : Frame \cup {None}, saw : BOOLEAN,
          session : BOOLEAN, version : {"none", "negotiated", "own"}]
Unsent == [at |-> "unsent", then |-> "done", out |-> None, saw |-> FALSE,
           session |-> FALSE, version |-> "none"]

NotifSteps == {"off", "connecting", "relaying", "emitting", "sleeping", "gone"}

\* How an exchange ends: the upstream is not reached, accepts (202, 204), refuses
\* (a status or a content type that is no answer; of the stream, one that ends
\* the loop), sends a whole JSON body or a blank one or one that breaks off or
\* is too long, ends the stream or sends an event over the cap; or the proxy's
\* own Close cuts it.  "open": not yet.  "other": no stream, and no refusal of one.
Fates == {"open", "unreachable", "accepted", "refused", "whole", "blank", "broken", "ended",
          "oversize", "other", "cut"}

\* flagged: closed is set and the session id read; cancelled: in wg.Wait.
CloseSteps == {"open", "flagged", "cancelled", "deleting", "closed"}

TypeOK ==
    /\ trip \in [Calls -> Trips]
    /\ notif \in NotifSteps
    /\ frames \in Seq(Frame) /\ Len(frames) <= Capacity
    /\ closing \in CloseSteps
    /\ sessionID \in BOOLEAN
    /\ proto \in BOOLEAN
    /\ inbound \in Frame \cup {None}
    /\ transport \in BOOLEAN
    /\ fate \in [Calls \cup {None} -> Fates]
    /\ shown \subseteq Frame
    /\ informed \subseteq Calls
    /\ events \in 0..MaxEvents

Init ==
    /\ trip = [c \in Calls |-> Unsent]
    /\ notif = "off"
    /\ frames = <<>>
    /\ closing = "open"
    /\ sessionID = FALSE
    /\ proto = FALSE
    /\ inbound = None
    /\ transport = FALSE
    /\ fate = [x \in Calls \cup {None} |-> "open"]
    /\ shown = {}
    /\ informed = {}
    /\ events = 0

closed  == closing # "open"
ctxDone == closing \in {"cancelled", "deleting", "closed"}

\* The goroutines wg counts.
Live == {c \in Calls : trip[c].at \notin {"unsent", "done"}}
NotifLive == notif \notin {"off", "gone"}

-----------------------------------------------------------------------------
(* roundTrip: one POST. *)

\* What the upstream may send in answer to a call.
Answers(c) == IF c \in Notices THEN {"other"} ELSE {"answer", "request", "other"}

Go(c, step) == trip' = [trip EXCEPT ![c].at = step]

Ends(x, how) == fate' = [fate EXCEPT ![x] = how]

\* Fault: any event passes for the response.
EmitSawAny(c, kind, then) ==
    trip' = [trip EXCEPT ![c].at = "emitting", ![c].then = then,
                         ![c].out = [call |-> c, kind |-> kind], ![c].saw = TRUE]

Emit(c, kind, then) ==
    trip' = [trip EXCEPT ![c].at = "emitting", ![c].then = then,
                         ![c].out = [call |-> c, kind |-> kind],
                         ![c].saw = @ \/ kind \in {"answer", "request"}]

\* The finding and the outcome flag, then the error frame if a client waits.
TransportFailure(c) ==
    /\ transport' = TRUE
    /\ IF c \in Notices THEN Go(c, "done") ELSE Emit(c, "failure", "done")

\* Fault: the closed flag is not looked at.
SendUnguarded(c) ==
    /\ trip[c].at = "unsent"
    /\ Go(c, "building")
    /\ informed' = IF [call |-> Handshake, kind |-> "answer"] \in shown
                     THEN informed \cup {c} ELSE informed
    /\ UNCHANGED <<notif, frames, closing, sessionID, proto, inbound, transport, fate, shown, events>>

\* Send returns at once; after Close it refuses.
Send(c) ==
    /\ trip[c].at = "unsent"
    /\ ~closed
    /\ Go(c, "building")
    /\ informed' = IF [call |-> Handshake, kind |-> "answer"] \in shown
                     THEN informed \cup {c} ELSE informed
    /\ UNCHANGED <<notif, frames, closing, sessionID, proto, inbound, transport, fate, shown, events>>

\* The headers are read under the lock; a stateless call names its own dialect.
Build(c) ==
    /\ trip[c].at = "building"
    /\ trip' = [trip EXCEPT ![c].at = "waiting", ![c].session = sessionID,
                            ![c].version = IF c \in Stateless THEN "own"
                                           ELSE IF proto THEN "negotiated" ELSE "none"]
    /\ UNCHANGED <<notif, frames, closing, sessionID, proto, inbound, transport,
                   fate, shown, informed, events>>

\* client.Do fails: the upstream cannot be reached or breaks the exchange.
DoFails(c) ==
    /\ trip[c].at = "waiting"
    /\ ~ctxDone
    /\ Ends(c, "unreachable")
    /\ TransportFailure(c)
    /\ UNCHANGED <<notif, frames, closing, sessionID, proto, inbound, shown, informed, events>>

\* What a response is once its headers are in: accepted (202, 204), refused (a
\* status that is not 2xx, or an unknown content type), JSON or SSE.
Respond(c) ==
    \/ Ends(c, "accepted") /\ Go(c, "done") /\ UNCHANGED transport
    \/ Ends(c, "refused") /\ TransportFailure(c)
    \/ \E step \in {"reading", "relaying"} : Go(c, step) /\ UNCHANGED <<transport, fate>>

\* The headers of a response arrive; the upstream assigns its session with the
\* handshake (or at any other moment).
Response(c) ==
    /\ trip[c].at = "waiting"
    /\ sessionID' \in {sessionID, TRUE}
    /\ c = Handshake => sessionID'
    /\ Respond(c)
    /\ UNCHANGED <<notif, frames, closing, proto, inbound, shown, informed, events>>

\* The JSON body: one frame, or nothing at all.
ReadBody(c) ==
    /\ trip[c].at = "reading"
    /\ \/ Ends(c, "whole") /\ \E kind \in Answers(c) \ {"request"} : Emit(c, kind, "done")
       \/ Ends(c, "blank") /\ Go(c, "done")
    /\ UNCHANGED <<notif, frames, closing, sessionID, proto, inbound, transport,
                   shown, informed, events>>

\* The body breaks off or exceeds the cap, or the context is cancelled while it
\* is read, which readAllCapped does not tell apart.
ReadFails(c) ==
    /\ trip[c].at = "reading"
    /\ Ends(c, "broken") \/ (ctxDone /\ Ends(c, "cut"))
    /\ TransportFailure(c)
    /\ UNCHANGED <<notif, frames, closing, sessionID, proto, inbound, shown, informed, events>>

\* relaySSE: each event is one frame.
RelayEvent(c) ==
    /\ trip[c].at = "relaying"
    /\ events < MaxEvents
    /\ events' = events + 1
    /\ \E kind \in Answers(c) : Emit(c, kind, "relaying")
    /\ UNCHANGED <<notif, frames, closing, sessionID, proto, inbound, transport,
                   fate, shown, informed>>

\* An event over the cap ends the relay, whatever was relayed before.
RelayOversize(c) ==
    /\ trip[c].at = "relaying"
    /\ Ends(c, "oversize")
    /\ TransportFailure(c)
    /\ UNCHANGED <<notif, frames, closing, sessionID, proto, inbound, shown, informed, events>>

\* Fault: that the session is being closed is not asked.
RelayEndsUnguarded(c) ==
    /\ trip[c].at = "relaying"
    /\ Ends(c, "ended") \/ (ctxDone /\ Ends(c, "cut"))
    /\ IF c \notin Notices /\ ~trip[c].saw
         THEN TransportFailure(c)
         ELSE Go(c, "done") /\ UNCHANGED transport
    /\ UNCHANGED <<notif, frames, closing, sessionID, proto, inbound, shown, informed, events>>

\* The stream ends or breaks, or the cancelled context cuts it: a request it did
\* not answer gets an error frame, unless the session is being closed.
RelayEnds(c) ==
    /\ trip[c].at = "relaying"
    /\ Ends(c, "ended") \/ (ctxDone /\ Ends(c, "cut"))
    /\ IF c \notin Notices /\ ~trip[c].saw /\ ~ctxDone
         THEN TransportFailure(c)
         ELSE Go(c, "done") /\ UNCHANGED transport
    /\ UNCHANGED <<notif, frames, closing, sessionID, proto, inbound, shown, informed, events>>

\* client.Do fails because of the cancelled context: not a word.
TripCancelled(c) ==
    /\ ctxDone
    /\ trip[c].at = "waiting"
    /\ Ends(c, "cut")
    /\ Go(c, "done")
    /\ UNCHANGED <<notif, frames, closing, sessionID, proto, inbound, transport,
                   shown, informed, events>>

\* Fault: emit waits for room whatever happens.
EmittedOnlyWithRoom(c) ==
    /\ trip[c].at = "emitting"
    /\ Len(frames) < Capacity
    /\ frames' = Append(frames, trip[c].out)
    /\ trip' = [trip EXCEPT ![c].at = trip[c].then, ![c].out = None]
    /\ UNCHANGED <<notif, closing, sessionID, proto, inbound, transport,
                   fate, shown, informed, events>>

\* Fault: the channel is not bounded.
EmittedUnbounded(c) ==
    /\ trip[c].at = "emitting"
    /\ frames' = Append(frames, trip[c].out)
    /\ trip' = [trip EXCEPT ![c].at = trip[c].then, ![c].out = None]
    /\ UNCHANGED <<notif, closing, sessionID, proto, inbound, transport,
                   fate, shown, informed, events>>

\* emit: into the channel if there is room, away if the context is done.
Emitted(c) ==
    /\ trip[c].at = "emitting"
    /\ \/ Len(frames) < Capacity /\ frames' = Append(frames, trip[c].out)
       \/ ctxDone /\ UNCHANGED frames
    /\ trip' = [trip EXCEPT ![c].at = trip[c].then, ![c].out = None]
    /\ UNCHANGED <<notif, closing, sessionID, proto, inbound, transport,
                   fate, shown, informed, events>>

-----------------------------------------------------------------------------
(* The notification stream. *)

\* Fault: an event over the cap ends the loop.
NotifNextGivesUp(how) ==
    CASE how = "open"                  -> "relaying"
      [] how \in {"refused", "oversize"} -> "gone"
      [] OTHER                         -> "sleeping"

\* Where the loop goes when its exchange is "how": only a server that says it has
\* no stream (401, 403, 404, 405) ends it.
NotifNext(how) ==
    CASE how = "open"    -> "relaying"
      [] how = "refused" -> "gone"
      [] OTHER           -> "sleeping"

\* notifLoop: the GET, with the headers read under the lock.
NotifConnected ==
    /\ notif = "connecting"
    /\ \E how \in {"open", "refused", "other", "unreachable"} \cup (IF ctxDone THEN {"cut"} ELSE {}) :
          Ends(None, how) /\ notif' = NotifNext(how)
    /\ UNCHANGED <<trip, frames, closing, sessionID, proto, inbound, transport,
                   shown, informed, events>>

NotifEvent ==
    /\ notif = "relaying"
    /\ events < MaxEvents
    /\ events' = events + 1
    /\ notif' = "emitting"
    /\ UNCHANGED <<trip, frames, closing, sessionID, proto, inbound, transport,
                   fate, shown, informed>>

NotifEmitted ==
    /\ notif = "emitting"
    /\ \/ Len(frames) < Capacity /\ frames' = Append(frames, [call |-> None, kind |-> "other"])
       \/ ctxDone /\ UNCHANGED frames
    /\ notif' = "relaying"
    /\ UNCHANGED <<trip, closing, sessionID, proto, inbound, transport,
                   fate, shown, informed, events>>

\* The stream ends or breaks, or is cut; an event over the cap is a transport
\* failure too.
NotifEnds ==
    /\ notif = "relaying"
    /\ \E how \in {"ended", "oversize"} \cup (IF ctxDone THEN {"cut"} ELSE {}) :
          /\ Ends(None, how)
          /\ notif' = NotifNext(how)
          /\ transport' = (transport \/ how = "oversize")
    /\ UNCHANGED <<trip, frames, closing, sessionID, proto, inbound, shown, informed, events>>

\* After two seconds, or at once when the context is done.
NotifWakes ==
    /\ notif = "sleeping"
    /\ \/ ctxDone /\ notif' = "gone" /\ UNCHANGED fate
       \/ ~ctxDone /\ notif' = "connecting" /\ Ends(None, "open")
    /\ UNCHANGED <<trip, frames, closing, sessionID, proto, inbound, transport,
                   shown, informed, events>>

-----------------------------------------------------------------------------
(* The inbound goroutine of the core. *)

\* A response the verifier refuses reaches the client as an error frame.
InboundTakes ==
    /\ inbound = None
    /\ frames # <<>>
    /\ \/ inbound' = Head(frames)
       \/ Head(frames).kind = "answer" /\ inbound' = [Head(frames) EXCEPT !.kind = "failure"]
    /\ frames' = Tail(frames)
    /\ UNCHANGED <<trip, notif, closing, sessionID, proto, transport,
                   fate, shown, informed, events>>

\* The client already has its response: the router drops a second one.
Unsolicited(f) ==
    f.kind \in {"answer", "failure"} /\ {[f EXCEPT !.kind = k] : k \in {"answer", "failure"}} \cap shown # {}

\* A verified handshake: SetProto, then StartNotificationStream (once, and not
\* after Close), both before the client is shown the result.
HandshakeVerified ==
    inbound = [call |-> Handshake, kind |-> "answer"] /\ ~Unsolicited(inbound)

InboundTells ==
    /\ HandshakeVerified
    /\ ~proto
    /\ proto' = TRUE
    /\ notif' = IF notif = "off" /\ ~closed THEN "connecting" ELSE notif
    /\ UNCHANGED <<trip, frames, closing, sessionID, inbound, transport,
                   fate, shown, informed, events>>

\* Fault: the result is written before the backend is told.
InboundWritesFirst ==
    /\ inbound # None
    /\ shown' = shown \cup {inbound}
    /\ inbound' = None
    /\ proto' = (proto \/ HandshakeVerified)
    /\ UNCHANGED <<trip, notif, frames, closing, sessionID, transport, fate, informed, events>>

\* writeFrame: the client sees the frame (or the router dropped it).
InboundWrites ==
    /\ inbound # None
    /\ HandshakeVerified => proto
    /\ shown' = IF Unsolicited(inbound) THEN shown ELSE shown \cup {inbound}
    /\ inbound' = None
    /\ UNCHANGED <<trip, notif, frames, closing, sessionID, proto, transport,
                   fate, informed, events>>

-----------------------------------------------------------------------------
(* Close. *)

closeVars == <<trip, notif, frames, sessionID, proto, inbound, transport,
               fate, shown, informed, events>>

\* No goroutine is started from here on.
CloseFlags ==
    /\ closing = "open"
    /\ closing' = "flagged"
    /\ UNCHANGED closeVars

CloseCancels ==
    /\ closing = "flagged"
    /\ closing' = "cancelled"
    /\ UNCHANGED closeVars

\* wg.Wait.
CloseWaits ==
    /\ closing = "cancelled"
    /\ Live = {} /\ ~NotifLive
    /\ closing' = "deleting"
    /\ UNCHANGED closeVars

\* The DELETE is bounded by its timeout; then the channel is closed.
CloseEnds ==
    /\ closing = "deleting"
    /\ closing' = "closed"
    /\ UNCHANGED closeVars

-----------------------------------------------------------------------------
(* What the goroutines do by themselves, and what the upstream makes them do. *)

Trip(c) == Build(c) \/ TripCancelled(c) \/ Emitted(c)

Upstream(c) ==
    \/ DoFails(c)
    \/ Response(c)
    \/ ReadBody(c)
    \/ ReadFails(c)
    \/ RelayEvent(c)
    \/ RelayOversize(c)
    \/ RelayEnds(c)

Notif   == NotifConnected \/ NotifEvent \/ NotifEmitted \/ NotifEnds \/ NotifWakes
Inbound == InboundTakes \/ InboundTells \/ InboundWrites
Close   == CloseFlags \/ CloseCancels \/ CloseWaits \/ CloseEnds

Next ==
    \/ \E c \in Calls : Send(c) \/ Trip(c) \/ Upstream(c)
    \/ Notif
    \/ Inbound
    \/ Close

Spec == Init /\ [][Next]_vars

\* Goroutines run; reads end once the context is cancelled; the timer fires.
\* Nothing is assumed of the upstream, of the client, or of who reads frames.
Fairness ==
    /\ \A c \in Calls : WF_vars(Trip(c) \/ (ctxDone /\ (ReadFails(c) \/ RelayEnds(c))))
    /\ WF_vars(NotifEmitted \/ NotifWakes \/ (ctxDone /\ (NotifConnected \/ NotifEnds)))
    /\ WF_vars(CloseCancels \/ CloseWaits \/ CloseEnds)

FairSpec == Spec /\ Fairness

-----------------------------------------------------------------------------
(* Properties. *)

\* When Close goes on to delete the session and close the channel, no goroutine
\* is left that could send on it: "no wg.Add after Close has begun wg.Wait"
\* (backend_http.go:41 and 438-460).
NoGoroutineOutlivesClose ==
    closing \in {"deleting", "closed"} => Live = {} /\ ~NotifLive

\* The client is shown a verified handshake only when the backend acts on it:
\* whatever it sends from then on carries the session and the negotiated
\* version, and the notification stream has been asked for (proxy.go:630-645).
HandshakeTakesEffect ==
    /\ [call |-> Handshake, kind |-> "answer"] \in shown => closed \/ notif # "off"
    /\ \A c \in informed : trip[c].at \notin {"unsent", "building"} =>
          trip[c].session /\ trip[c].version # "none"

\* Close returns, though the upstream stalls and nobody takes frames any more:
\* neither a blocked read nor a full channel holds a goroutine back.
CloseReturns == closing = "flagged" ~> closing = "closed"

\* The notification stream is kept open: "opens (and keeps re-opening)"
\* (backend_http.go:348-353).  However the upstream fails to open it, ends it or
\* breaks it, a new attempt follows unless Close comes first; only its word that
\* it has no stream ends the loop.
NotificationsResume ==
    fate[None] \in {"unreachable", "other", "ended", "oversize"} ~> notif = "connecting" \/ ctxDone

\* The frames the client has or is about to have that name a call.
Named(c, kinds) ==
    \E kind \in kinds :
       LET f == [call |-> c, kind |-> kind]
       IN  f \in shown \/ f = inbound \/ \E k \in 1..Len(frames) : f = frames[k]

\* The outcome is first marked as a transport failure ("the session ended on (or
\* saw) an upstream transport failure", proxy.go:98) by an act of the upstream
\* that is one: it is out of reach, refuses, breaks off or exceeds the cap, or
\* ends the stream of a request that is still unanswered.  What the proxy's own
\* Close cuts does not count, with one exception the code makes: the body of a
\* JSON response (backend_http.go:276).
FailureIsUpstreams ==
    [][~transport /\ transport' =>
         \E x \in Calls \cup {None} :
            /\ fate'[x] # fate[x]
            /\ \/ fate'[x] \in {"unreachable", "refused", "broken", "oversize"}
               \/ fate'[x] = "ended" /\ x \in Calls \ Notices /\ ~Named(x, {"answer", "failure"})
               \/ fate'[x] = "cut" /\ x \in Calls /\ trip[x].at = "reading"]_vars

\* A request whose exchange is over while the session goes on has an answer or an
\* error frame, shown or on its way: "so the client is not left waiting on
\* nothing" (backend_http.go:292).  That goes for an upstream out of reach, a
\* refusal, a body that breaks off, and a stream that ends at any point, whatever
\* else it carried.  It does not go, in the code, for an upstream that accepts a
\* request as if it were a notification or answers it with a blank body or
\* another message, nor for a request of the upstream's own with the same id,
\* which passes for the response.
NotLeftWaiting ==
    \A c \in Calls \ Notices :
       trip[c].at = "done" /\ ~ctxDone =>
          \/ Named(c, {"answer", "failure"})
          \/ fate[c] \in {"accepted", "blank"}
          \/ fate[c] = "whole" /\ Named(c, {"other"})
          \/ fate[c] = "ended" /\ Named(c, {"request"})
=============================================================================
