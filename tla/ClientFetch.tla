---------------------------- MODULE ClientFetch ----------------------------
(***************************************************************************)
(* One client.Fetch against a server nobody trusts: the choice of flow and *)
(* its one fallback, pagination under its caps (client/fetch.go), and the  *)
(* two kinds of session that carry the requests, Streamable HTTP and a     *)
(* child's stdio with its reader goroutine (client/client.go).  The headers *)
(* a request carries are left out.                                         *)
(*                                                                         *)
(* What the server writes is nondeterministic.  A message is its id (0 for *)
(* a notification or an id that is no number) and what its result says to  *)
(* the request it answers:                                                 *)
(*   "good"       a handshake's result that confirms the offer or names an *)
(*                era; a page without a cursor                             *)
(*   "newCursor"  a page that names a cursor not named before, "oldCursor" *)
(*                one that names such a cursor again; to a handshake, a    *)
(*                result without the fields                                *)
(*   "hostile"    an era with a control character; a page that is malformed*)
(*                or names an over-long cursor                             *)
(*   "rpcError"   an error response                                        *)
(* Cursors are numbered as they come up, 0 is none.                        *)
(***************************************************************************)
EXTENDS Integers, Sequences, FiniteSets

CONSTANTS
    MaxPages, \* lim.MaxPages
    Capacity  \* of a stdio session's channel (64 in the code)

ASSUME FetchAssumption ==
    /\ MaxPages \in Nat \ {0}
    /\ Capacity \in Nat \ {0}

VARIABLES
    ref,     \* what the caller asks for
    pc,      \* where Fetch is
    attempt, \* sessions fetchOnce has opened: 0, 1 or 2
    flow,    \* of the attempt
    method,  \* of the request being made
    cursor,  \* the cursor of the next page ("" for the first)
    seen,    \* seenCursors
    pages,   \* raw.Pages: which answer a page is, what asked for it and what it names
    verdict, \* of the attempt: its class, whether it wraps errPreCommit, and (history)
             \* whether any attempt met something inadmissible
    earlier, \* the class of the stateless attempt that was fallen back from
    expired, \* ctx is done
    sess,    \* per attempt: the session; sid is the session id it keeps, asked the one its DELETE
             \* names, 0 is none, and given (history) how many ids the server has given it, the
             \* last one being the only one it knows
    reader,  \* per attempt: the goroutine that reads a child's stdout
    held,    \* per attempt: the message the reader wants to send
    chan,    \* per attempt: msgs
    rdErr    \* per attempt: what rdErr holds

fetch == <<ref, pc, attempt, flow, method, cursor, seen, pages, verdict, earlier>>
stdio == <<reader, held, chan, rdErr>>
vars == <<fetch, expired, sess, stdio>>

Flows == {"stateless", "classic"}
Handshake(f) == IF f = "stateless" THEN "server/discover" ELSE "initialize"
Attempts == 1..2
Cursors == 1..MaxPages
Payload == {"good", "newCursor", "oldCursor", "hostile", "rpcError"}
MaxId == MaxPages + 1
Unrelated == [id |-> 0, payload |-> "good"]
Message == {Unrelated} \union [id : 1..MaxId, payload : Payload]
Nothing == [id |-> -1, payload |-> "good"]
Class == {"ok", "transport", "inadmissible"}
Init ==
    /\ ref \in [transport : {"http", "stdio", "other"}, flow : Flows \union {"unset", "other"},
                offer : {"modern", "earlier", "control"}, headers : {"none", "valid", "invalid"}]
    /\ pc = "check"
    /\ attempt = 0
    /\ flow = "none"
    /\ method = "none"
    /\ cursor = 0
    /\ seen = {}
    /\ pages = <<>>
    /\ verdict = [class |-> "ok", pre |-> FALSE, caught |-> FALSE]
    /\ earlier = "ok"
    /\ expired = FALSE
    /\ sess = [a \in Attempts |-> [open |-> FALSE, closed |-> FALSE, nextID |-> 1, given |-> 0,
                                   sid |-> 0, asked |-> 0]]
    /\ reader = [a \in Attempts |-> "none"]
    /\ held = [a \in Attempts |-> Nothing]
    /\ chan = [a \in Attempts |-> <<>>]
    /\ rdErr = [a \in Attempts |-> "ok"]

-----------------------------------------------------------------------------
(***************************************************************************)
(* Fetch and fetchOnce.                                                    *)
(***************************************************************************)

\* The session of the attempt: fetchOnce opens one of its own.
Current == attempt

Verdict(class, pre) ==
    [class |-> class, pre |-> pre, caught |-> verdict.caught \/ class = "inadmissible"]

\* fetchOnce is called for flow f.
BeginAttempt(f) ==
    /\ attempt' = attempt + 1
    /\ flow' = f
    /\ method' = Handshake(f)
    /\ pc' = "open"
    /\ verdict' = Verdict("ok", FALSE)
    /\ cursor' = 0
    /\ seen' = {}
    /\ pages' = <<>>

Refused(class) ==
    /\ pc' = "returned"
    /\ verdict' = Verdict(class, FALSE)
    /\ UNCHANGED <<attempt, flow, method, cursor, seen, pages>>

HeadersRefused == ref.headers = "invalid" \/ (ref.headers = "valid" /\ ref.transport # "http")

\* The caller's input is checked before the first request; then the flow is
\* the pinned one, or follows from the offer.
Check ==
    /\ pc = "check"
    /\ \/ ref.offer = "control" /\ Refused("inadmissible")
       \/ ref.offer # "control" /\ (HeadersRefused \/ ref.flow = "other") /\ Refused("transport")
       \/ /\ ref.offer # "control" /\ ~HeadersRefused
          /\ \/ ref.flow \in Flows /\ BeginAttempt(ref.flow)
             \/ /\ ref.flow = "unset"
                /\ BeginAttempt(IF ref.offer = "modern" THEN "stateless" ELSE "classic")
    /\ UNCHANGED <<ref, earlier, expired, sess, stdio>>

\* The attempt ends with no surface: fetchOnce closes its session.
Fails(class, pre) ==
    /\ pc' = "close"
    /\ verdict' = Verdict(class, pre)
    /\ UNCHANGED <<attempt, flow, method, cursor, seen, pages>>

\* A session is opened for the attempt; a child's reader starts with it.
Open ==
    /\ pc = "open"
    /\ \/ /\ ref.transport \in {"http", "stdio"}
          /\ pc' = "call"
          /\ sess' = [sess EXCEPT ![Current].open = TRUE]
          /\ reader' = [reader EXCEPT ![Current] = IF ref.transport = "stdio" THEN "scanning" ELSE @]
          /\ UNCHANGED <<attempt, flow, method, cursor, seen, pages, verdict>>
       \/ /\ ref.transport \in {"other", "stdio"} \* unknown, or the child does not start
          /\ pc' = "decide"
          /\ verdict' = Verdict("transport", FALSE)
          /\ UNCHANGED <<attempt, flow, method, cursor, seen, pages, sess, reader>>
    /\ UNCHANGED <<ref, earlier, expired, held, chan, rdErr>>

\* Of an HTTP session that keeps an id the deletion is asked for, once, within
\* what is left of the budget: when that is spent the request does not go out,
\* and what becomes of it when it does is not looked at.
AskedToDelete == IF expired THEN 0 ELSE sess[Current].sid

\* The deferred close, of an HTTP session and of a child's: the child is killed,
\* and its reader, if parked on the channel, is let go.  Nobody
\* receives from the channel again, so what it and the reader hold is forgotten.
\* cmd.Wait returns: no process outside the killed group is taken to hold the
\* child's stderr.
Close ==
    /\ pc = "close"
    /\ pc' = "decide"
    /\ sess' = [sess EXCEPT ![Current].closed = TRUE, ![Current].asked = AskedToDelete]
    /\ chan' = [chan EXCEPT ![Current] = [i \in DOMAIN @ |-> Unrelated]]
    /\ held' = [held EXCEPT ![Current] = IF @ = Nothing THEN Nothing ELSE Unrelated]
    /\ UNCHANGED <<ref, attempt, flow, method, cursor, seen, pages, verdict, earlier,
                   expired, reader, rdErr>>

\* Only an offer-driven stateless attempt that failed before its commit point
\* falls back.
MayFallBack == ref.flow = "unset" /\ flow = "stateless" /\ verdict.pre

FallBack ==
    /\ pc = "decide"
    /\ verdict.class # "ok"
    /\ MayFallBack
    /\ earlier' = verdict.class
    /\ BeginAttempt("classic")
    /\ UNCHANGED <<ref, expired, sess, stdio>>

\* Fault: only the last failure is wrapped.
JoinedLast(c, d) == c

\* The class of two joined failures: both are wrapped, and ErrInadmissible is
\* found in either.
Joined(c, d) == IF "inadmissible" \in {c, d} THEN "inadmissible" ELSE "transport"

Return ==
    /\ pc = "decide"
    /\ verdict.class # "ok" => ~MayFallBack
    /\ pc' = "returned"
    /\ verdict' = IF verdict.class = "ok" THEN verdict
                  ELSE [verdict EXCEPT !.class = Joined(@, earlier), !.pre = FALSE]
    /\ UNCHANGED <<ref, attempt, flow, method, cursor, seen, pages, earlier, expired, sess,
                   stdio>>

-----------------------------------------------------------------------------
(***************************************************************************)
(* The flows: what an answer makes of the attempt.                         *)
(***************************************************************************)

\* A failed call, wrapped errPreCommit only by the discover request.
CallFails(class) == Fails(class, method = "server/discover")

\* The next request of the flow.
Proceed(m) ==
    /\ method' = m
    /\ pc' = "call"
    /\ UNCHANGED <<attempt, flow, cursor, seen, pages, verdict>>

\* discover is confirmed, and the attempt commits, only by a result that lists
\* the offered revision.
DiscoverAnswered(p) ==
    \/ p = "good" /\ Proceed("tools/list")
    \/ p # "good" /\ CallFails("transport")

\* initialize names the era of the surface: none is a protocol failure, one
\* that is no header value is inadmissible.
InitializeAnswered(p) ==
    \/ p = "good" /\ Proceed("notifications/initialized")
    \/ p = "hostile" /\ CallFails("inadmissible")
    \/ p \notin {"good", "hostile"} /\ CallFails("transport")

\* More pages are asked for only below the cap.
MorePages(n) ==
    IF n < MaxPages
    THEN pc' = "call" /\ UNCHANGED verdict
    ELSE pc' = "close" /\ verdict' = Verdict("inadmissible", FALSE)

\* Fault: the cursors that were followed are forgotten.
LoopsNever(c) == FALSE

Loops(c) == c \in seen

\* The cursors a page can name.
Named(p) ==
    CASE p = "newCursor" -> {Cardinality(seen) + 1}
      [] p = "oldCursor" -> IF seen = {} THEN {1} ELSE seen
      [] OTHER           -> {}

Keep(id, next) ==
    pages' = Append(pages, [id |-> id, cursor |-> cursor, next |-> next])

\* A page is kept; a cursor it names must be new.
PageAnswered(p, id) ==
    \/ p = "rpcError" /\ CallFails("transport")
    \/ p = "hostile" /\ CallFails("inadmissible")
    \/ /\ p = "good"
       /\ Keep(id, 0)
       /\ pc' = "close"
       /\ UNCHANGED <<attempt, flow, method, cursor, seen, verdict>>
    \/ \E c \in Named(p) :
          \/ Loops(c) /\ CallFails("inadmissible")
          \/ /\ ~Loops(c)
             /\ Keep(id, c)
             /\ cursor' = c
             /\ seen' = seen \union {c}
             /\ MorePages(Len(pages) + 1)
             /\ UNCHANGED <<attempt, flow, method>>

\* The response to the request in hand is message m.
Answered(m) ==
    \/ method = "server/discover" /\ DiscoverAnswered(m.payload)
    \/ method = "initialize" /\ InitializeAnswered(m.payload)
    \/ method = "tools/list" /\ PageAnswered(m.payload, m.id)

-----------------------------------------------------------------------------
(***************************************************************************)
(* The calls of a session.                                                 *)
(***************************************************************************)

\* Fault: the next response is taken for the answer.
IdIgnored(m) == m.id # 0

\* A response answers the last request, whose id it has as a number or as a
\* string.
IdMatches(m) == m.id = sess[Current].nextID - 1

Notifying == method = "notifications/initialized"

\* A request takes the next id; a notification has none.
Send ==
    /\ pc = "call"
    /\ pc' = "await"
    /\ sess' = [sess EXCEPT ![Current].nextID = IF Notifying THEN @ ELSE @ + 1]
    /\ UNCHANGED <<ref, attempt, flow, method, cursor, seen, pages, verdict, earlier, expired,
                   stdio>>

\* A notification is over when it is written (stdio) or accepted (HTTP).
Notified ==
    /\ pc = "await"
    /\ Notifying
    /\ Proceed("tools/list") \/ CallFails("transport")
    /\ UNCHANGED <<ref, earlier, expired, sess, stdio>>

Calling(transport) == pc = "await" /\ ~Notifying /\ ref.transport = transport

\* The server gives the session an id, the first or one in place of the last.
IdGiven == [sess EXCEPT ![Current].given = @ + 1]
IdKept == [IdGiven EXCEPT ![Current].sid = IdGiven[Current].given]

\* Fault: the status is checked before the session id is kept.
HttpHeadStatusFirst ==
    /\ Calling("http")
    /\ \/ sess' \in {sess, IdGiven} /\ CallFails("transport")
       \/ /\ sess' \in {sess, IdKept}
          /\ pc' \in {"body", "stream"}
          /\ UNCHANGED <<attempt, flow, method, cursor, seen, pages, verdict>>
    /\ UNCHANGED <<ref, earlier, expired, stdio>>

\* The head of the HTTP response: a session id is kept whatever the status; a
\* bad status, another content type or no response at all is a failure.
HttpHead ==
    /\ Calling("http")
    /\ sess' \in {sess, IdKept}
    /\ \/ CallFails("transport")
       \/ /\ pc' \in {"body", "stream"}
          /\ UNCHANGED <<attempt, flow, method, cursor, seen, pages, verdict>>
    /\ UNCHANGED <<ref, earlier, expired, stdio>>

\* A JSON body within the cap is one message, which must answer the request.
JsonBody ==
    /\ pc = "body"
    /\ \/ \E m \in Message :
            \/ IdMatches(m) /\ Answered(m)
            \/ ~IdMatches(m) /\ CallFails("transport")
       \/ CallFails("inadmissible")
    /\ UNCHANGED <<ref, earlier, expired, sess, stdio>>

\* Events that are not the response are skipped; the response ends the scan.
StreamEvent ==
    /\ pc = "stream"
    /\ \E m \in Message : IdMatches(m) /\ Answered(m)
    /\ UNCHANGED <<ref, earlier, expired, sess, stdio>>

\* An event or line over the cap, or the end of the stream without a response,
\* whoever cut it.
StreamEnds ==
    /\ pc = "stream"
    /\ CallFails("inadmissible") \/ CallFails("transport")
    /\ UNCHANGED <<ref, earlier, expired, sess, stdio>>

\* The child is gone: the request cannot be written.
WriteFails ==
    /\ Calling("stdio")
    /\ CallFails("transport")
    /\ UNCHANGED <<ref, earlier, expired, sess, stdio>>

\* A message is received from the channel; one that is not the response is
\* skipped.
Receive ==
    /\ Calling("stdio")
    /\ chan[Current] # <<>>
    /\ LET m == Head(chan[Current]) IN
        IF IdMatches(m) THEN Answered(m)
        ELSE UNCHANGED <<pc, attempt, flow, method, cursor, seen, pages, verdict>>
    /\ chan' = [chan EXCEPT ![Current] = Tail(@)]
    /\ UNCHANGED <<ref, earlier, expired, sess, reader, held, rdErr>>

\* The channel is closed and empty: the call fails with what the reader left in
\* rdErr.  A second such call would wait there for ever, context or not.
ReaderGone ==
    /\ Calling("stdio")
    /\ reader[Current] = "ended"
    /\ chan[Current] = <<>>
    /\ \/ rdErr[Current] # "ok" /\ CallFails(rdErr[Current])
       \/ /\ rdErr[Current] = "ok"
          /\ pc' = "stuck"
          /\ UNCHANGED <<attempt, flow, method, cursor, seen, pages, verdict>>
    /\ rdErr' = [rdErr EXCEPT ![Current] = "ok"]
    /\ UNCHANGED <<ref, earlier, expired, sess, reader, held, chan>>

\* Fault: a call over stdio waits for its answer only.
CtxDoneHttp ==
    /\ expired
    /\ pc \in {"await", "body", "stream"}
    /\ ref.transport = "http"
    /\ CallFails("transport")
    /\ UNCHANGED <<ref, earlier, expired, sess, stdio>>

\* Every wait for the server gives up when the context is done.
CtxDone ==
    /\ expired
    /\ pc \in {"await", "body", "stream"}
    /\ CallFails("transport")
    /\ UNCHANGED <<ref, earlier, expired, sess, stdio>>

Expire ==
    /\ ~expired
    /\ expired' = TRUE
    /\ UNCHANGED <<fetch, sess, stdio>>

-----------------------------------------------------------------------------
(***************************************************************************)
(* The reader of a child's stdout.  The child may write anything at any    *)
(* time, asked or not; lines that are no JSON object are passed over.      *)
(***************************************************************************)

\* A line that answers a request of the past is as unrelated as one without id.
ReaderScans(a) ==
    /\ reader[a] = "scanning"
    /\ ~sess[a].closed
    /\ \E m \in Message :
          /\ m # Unrelated => m.id >= sess[a].nextID - 1
          /\ held' = [held EXCEPT ![a] = m]
    /\ reader' = [reader EXCEPT ![a] = "parked"]
    /\ UNCHANGED <<fetch, expired, sess, chan, rdErr>>

ReaderSends(a) ==
    /\ reader[a] = "parked"
    /\ Len(chan[a]) < Capacity
    /\ chan' = [chan EXCEPT ![a] = Append(@, held[a])]
    /\ held' = [held EXCEPT ![a] = Nothing]
    /\ reader' = [reader EXCEPT ![a] = "scanning"]
    /\ UNCHANGED <<fetch, expired, sess, rdErr>>

\* Fault: the send to the channel is no select.
ReaderNotFreed(a) == FALSE /\ UNCHANGED vars

\* close has closed done: a parked reader leaves, without an error to report.
ReaderFreed(a) ==
    /\ reader[a] = "parked"
    /\ sess[a].closed
    /\ held' = [held EXCEPT ![a] = Nothing]
    /\ reader' = [reader EXCEPT ![a] = "freed"]
    /\ UNCHANGED <<fetch, expired, sess, chan, rdErr>>

\* The child's stdout ends, or holds a line over the cap: the error is left in
\* rdErr, which has room for one, and the channel is closed.
ReaderEnds(a) ==
    /\ reader[a] = "scanning"
    /\ rdErr[a] = "ok"
    /\ \E class \in {"transport", "inadmissible"} : rdErr' = [rdErr EXCEPT ![a] = class]
    /\ reader' = [reader EXCEPT ![a] = "ended"]
    /\ UNCHANGED <<fetch, expired, sess, held, chan>>

Client == Check \/ Open \/ Send \/ Receive \/ ReaderGone \/ CtxDone \/ Close \/ FallBack \/ Return

Server == Notified \/ HttpHead \/ JsonBody \/ StreamEvent \/ StreamEnds \/ WriteFails

Reader(a) == ReaderScans(a) \/ ReaderSends(a) \/ ReaderFreed(a) \/ ReaderEnds(a)

Next == Client \/ Server \/ Expire \/ \E a \in Attempts : Reader(a)

\* The server owes nobody an answer: only what the client does by itself, the
\* end of the budget main.go gives every fetch, and what a reader does once its
\* child is killed are sure to happen.
Spec == Init /\ [][Next]_vars

FairSpec ==
    /\ Spec
    /\ WF_vars(Client)
    /\ WF_vars(CtxDone)
    /\ WF_vars(Expire)
    /\ \A a \in Attempts : WF_vars(sess[a].closed /\ Reader(a))

-----------------------------------------------------------------------------
(***************************************************************************)
(* Properties.                                                             *)
(***************************************************************************)

\* A surface that is returned is whole: its pages were asked for one after the
\* other, right after the one request of the handshake, the first without a
\* cursor, each next one with the cursor of the page before, and the last names
\* none; and each is the answer to the very request made for it, not a
\* notification or an answer to something else that was written on the same
\* session (fetch.go:316, client.go:73, :411).
SurfaceIsWhole ==
    pc = "returned" /\ verdict.class = "ok" =>
        /\ pages # <<>>
        /\ pages[1].cursor = 0
        /\ pages[Len(pages)].next = 0
        /\ \A i \in DOMAIN pages : pages[i].id = i + 1
        /\ \A i \in 2..Len(pages) : pages[i].cursor = pages[i - 1].next

\* Something inadmissible met on the way is never reported as a mere transport
\* failure, whichever attempt met it (fetch.go:153).
InadmissibleSurvives ==
    pc = "returned" /\ verdict.caught => verdict.class # "transport"

\* A session is closed before the fallback opens another and before Fetch
\* returns; and unless the budget was spent by then, the id the server gave last,
\* even together with an error status, is the one whose deletion was asked for
\* (client.go:202, :296).  An id the server has replaced is never deleted, and
\* whether the server heard the request nobody knows.
SessionsAreReleased ==
    \A a \in Attempts :
        /\ sess[a].open /\ (a < attempt \/ pc = "returned") => sess[a].closed
        /\ sess[a].closed /\ ~expired => sess[a].asked = sess[a].given

Committed == method = "tools/list"

\* Where the fetch is for its caller, over which flow, and the pages it has.
PromisePhase ==
    CASE pc = "check" -> "idle"
      [] pc = "returned" -> IF verdict.class = "ok" THEN "delivered" ELSE "failed"
      [] pc \notin {"check", "returned"} /\ ~Committed -> "handshake"
      [] OTHER -> IF verdict.class = "ok" THEN "listing" ELSE "failed"

PromiseFlow == IF verdict.class # "ok" /\ (pc = "returned" \/ Committed) THEN "none" ELSE flow

PromiseTaken ==
    IF verdict.class # "ok" THEN <<>>
    ELSE [i \in DOMAIN pages |-> [cursor |-> pages[i].cursor, next |-> pages[i].next]]

\* Fetch implements FetchPromise: a session, its messages and its failures are
\* steps of the promise or none at all.  So no failure after the commit point
\* leads to a second enumeration over the other flow (fetch.go:83-92), no
\* cursor is followed twice and no page is asked for beyond the cap (:319-349).
Promise == INSTANCE FetchPromise WITH
    phase <- PromisePhase, flow <- PromiseFlow, taken <- PromiseTaken

ImplementsPromise == Promise!Spec

\* Fetch returns: whatever the server does or fails to do, the budget ends it
\* (client.go:395, main.go:264).
FetchEnds == <>(pc = "returned")

\* The reader of a killed child leaves, even when it is parked on a channel
\* nobody receives from any more (client.go:358).
ReadersLeave ==
    \A a \in Attempts : sess[a].closed ~> reader[a] \in {"none", "freed", "ended"}
=============================================================================
