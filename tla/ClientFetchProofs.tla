------------------------- MODULE ClientFetchProofs -------------------------
(***************************************************************************)
(* Safety of a fetch, for any page cap and any channel capacity: what is   *)
(* returned, what is reported, what is let go, and that FetchPromise is    *)
(* implemented.                                                            *)
(*                                                                         *)
(* The invariant has five parts.  FlowOK: which requests a flow makes, and *)
(* when an attempt may be abandoned.  ClassOK: where a failure is on       *)
(* record.  ListOK: the pages taken are a chain, and the next one extends  *)
(* it.  IdOK: the ids a session has given out are those of the handshake   *)
(* and of the pages.  ReleaseOK: what a closed session has given back.     *)
(***************************************************************************)
EXTENDS ClientFetch, FiniteSetTheorems, SequenceTheorems, TLAPS

Asked == pc \in {"await", "body", "stream", "stuck"}
Busy == Asked \/ pc \in {"open", "call"}
Over == pc \in {"close", "decide", "returned"}
Handshakes == {"server/discover", "initialize"}
Methods == Handshakes \union {"none", "notifications/initialized", "tools/list"}

Page == [id : Nat, cursor : Nat, next : Nat]

Session == [open : BOOLEAN, closed : BOOLEAN, nextID : Nat, given : Nat, sid : Nat, asked : Nat]

USE DEF Session

FetchTypeOK ==
    /\ pc \in {"check", "open", "call", "await", "body", "stream", "stuck", "close", "decide",
               "returned"}
    /\ attempt \in 0..2
    /\ flow \in Flows \union {"none"}
    /\ method \in Methods
    /\ cursor \in Nat
    /\ pages \in Seq(Page)
    /\ verdict \in [class : Class, pre : BOOLEAN, caught : BOOLEAN]
    /\ earlier \in Class
    /\ sess \in [Attempts -> Session]
    /\ rdErr \in [Attempts -> Class]

\* The second attempt is a classic one, and only a discover may be wrapped
\* errPreCommit.
FlowOK ==
    /\ pc = "check" => attempt = 0 /\ flow = "none" /\ method = "none" /\ earlier = "ok"
    /\ pc \notin {"check", "returned"} => attempt \in 1..2 /\ flow \in Flows
    /\ attempt = 2 => flow = "classic"
    /\ flow = "stateless" => method \in {"server/discover", "tools/list"} /\ earlier = "ok"
    /\ flow = "classic" => method \notin {"server/discover", "none"}
    /\ pc = "open" => method \in Handshakes
    /\ pc \in {"check", "returned"} \/ Busy => ~verdict.pre
    /\ pc = "check" \/ Busy => verdict.class = "ok"
    /\ verdict.pre => method = "server/discover"
    /\ method = "none" => pc \in {"check", "returned"}

\* Something inadmissible is the attempt's verdict, or that of the one before.
ClassOK ==
    /\ pc = "check" => ~verdict.caught
    /\ verdict.caught => "inadmissible" \in {verdict.class, earlier}
    /\ pc = "returned" /\ verdict.caught => verdict.class # "transport"

ListOK ==
    /\ \A i \in DOMAIN pages : pages[i].id = i + 1 /\ pages[i].cursor = i - 1
    /\ \A i \in DOMAIN pages : i < Len(pages) \/ Busy => pages[i].next = i
    /\ Busy => cursor = Len(pages) /\ seen = 1..Len(pages) /\ Len(pages) < MaxPages
    /\ method # "tools/list" => pages = <<>>
    /\ Over /\ verdict.class = "ok" =>
        method = "tools/list" /\ pages # <<>> /\ pages[Len(pages)].next = 0

\* Ids: one for the handshake, one for each page.
IdOK ==
    /\ \A a \in Attempts : a > attempt => sess[a].nextID = 1
    /\ Busy => sess[attempt].nextID = (IF method \in Handshakes THEN 1 ELSE Len(pages) + 2)
                                        + (IF Asked /\ ~Notifying THEN 1 ELSE 0)

ReleaseOK ==
    \A a \in Attempts :
        /\ sess[a].sid = sess[a].given
        /\ sess[a].closed /\ ~expired => sess[a].asked = sess[a].given
        /\ sess[a].open /\ ~sess[a].closed => a = attempt /\ pc \in {"call", "await", "body",
                                                                      "stream", "stuck", "close"}
        /\ sess[a].closed => a < attempt \/ (a = attempt /\ pc \in {"decide", "returned"})

FetchInv == FetchTypeOK /\ FlowOK /\ ClassOK /\ ListOK /\ IdOK /\ ReleaseOK

-----------------------------------------------------------------------------
(***************************************************************************)
(* The moves of a fetch.  Whatever the transport, an answer or its absence *)
(* makes the fetch do one of a few things.                                 *)
(***************************************************************************)

ByAnswer == Asked /\ UNCHANGED <<ref, earlier, sess>>

AdvanceMove ==
    /\ ByAnswer
    /\ \/ method = "server/discover" /\ Proceed("tools/list")
       \/ method = "initialize" /\ Proceed("notifications/initialized")
       \/ pc = "await" /\ Notifying /\ Proceed("tools/list")

FailMove ==
    /\ ByAnswer
    /\ \E class \in {"transport", "inadmissible"} : CallFails(class)

LastPageMove ==
    /\ ByAnswer
    /\ method = "tools/list"
    /\ Keep(sess[Current].nextID - 1, 0)
    /\ pc' = "close"
    /\ UNCHANGED <<attempt, flow, method, cursor, seen, verdict>>

\* The page names the one cursor that can be new.
NextPageMove ==
    /\ ByAnswer
    /\ method = "tools/list"
    /\ Keep(sess[Current].nextID - 1, Len(pages) + 1)
    /\ cursor' = Len(pages) + 1
    /\ seen' = seen \union {Len(pages) + 1}
    /\ MorePages(Len(pages) + 1)
    /\ UNCHANGED <<attempt, flow, method>>

StuckMove ==
    /\ pc = "await"
    /\ ~Notifying
    /\ pc' = "stuck"
    /\ UNCHANGED <<ref, attempt, flow, method, cursor, seen, pages, verdict, earlier, sess>>

NoMove == UNCHANGED <<fetch, sess>>

OwnMove == Check \/ Open \/ Close \/ FallBack \/ Return \/ Send

Move == OwnMove \/ HttpHead \/ AdvanceMove \/ FailMove \/ LastPageMove \/ NextPageMove
            \/ StuckMove \/ NoMove

\* A cursor that is not followed yet is the next number.
LEMMA NewCursor ==
    ASSUME FetchInv, Busy, NEW p, NEW c \in Named(p), ~Loops(c)
    PROVE  c = Len(pages) + 1
<1>1. Len(pages) \in Nat /\ seen = 1..Len(pages)
  BY DEF FetchInv, FetchTypeOK, ListOK
<1>2. Cardinality(seen) = Len(pages)
  <2>1. Cardinality(1..Len(pages)) = IF 1 > Len(pages) THEN 0 ELSE Len(pages) - 1 + 1
    BY <1>1, FS_Interval
  <2> QED BY <1>1, <2>1
<1>3. CASE p = "newCursor"
  BY <1>2, <1>3 DEF Named
<1>4. CASE p = "oldCursor"
  <2>1. seen = {}
    BY <1>4 DEF Named, Loops
  <2>2. Len(pages) = 0
    BY <1>1, <2>1
  <2> QED BY <1>4, <2>1, <2>2 DEF Named
<1>5. CASE p \notin {"newCursor", "oldCursor"}
  BY <1>5 DEF Named
<1> QED BY <1>3, <1>4, <1>5

\* What the answer to a request leads to.
LEMMA AnsweredMoves ==
    ASSUME FetchInv, ByAnswer, NEW m, IdMatches(m), Answered(m)
    PROVE  Move
<1>1. CASE method = "server/discover"
  BY <1>1 DEF Answered, DiscoverAnswered, Move, AdvanceMove, FailMove
<1>2. CASE method = "initialize"
  BY <1>2 DEF Answered, InitializeAnswered, Move, AdvanceMove, FailMove
<1>3. CASE method = "tools/list"
  <2>1. PageAnswered(m.payload, m.id) /\ m.id = sess[Current].nextID - 1
    BY <1>3 DEF Answered, IdMatches
  <2>2. CASE \E class \in {"transport", "inadmissible"} : CallFails(class)
    BY <2>2 DEF Move, FailMove
  <2>3. CASE /\ Keep(m.id, 0)
             /\ pc' = "close"
             /\ UNCHANGED <<attempt, flow, method, cursor, seen, verdict>>
    BY <1>3, <2>1, <2>3 DEF Move, LastPageMove
  <2>4. ASSUME NEW c \in Named(m.payload), ~Loops(c), Keep(m.id, c), cursor' = c,
               seen' = seen \union {c}, MorePages(Len(pages) + 1),
               UNCHANGED <<attempt, flow, method>>
        PROVE  Move
    <3>1. c = Len(pages) + 1
      BY <2>4, NewCursor DEF ByAnswer, Busy
    <3> QED BY <1>3, <2>1, <2>4, <3>1 DEF Move, NextPageMove
  <2> QED BY <2>1, <2>2, <2>3, <2>4 DEF PageAnswered
<1> QED BY <1>1, <1>2, <1>3 DEF Answered

\* Every step is a move, and leaves errors of their class in rdErr.
LEMMA Moves ==
    ASSUME FetchInv, [Next]_vars
    PROVE  Move /\ rdErr' \in [Attempts -> Class]
<1> USE DEF FetchInv, FetchTypeOK
<1>1. CASE OwnMove
  BY <1>1 DEF OwnMove, Move, Check, Open, Close, FallBack, Return, Send, stdio
<1>2. CASE HttpHead
  BY <1>2 DEF HttpHead, Move, stdio
<1>3. CASE Notified
  BY <1>3 DEF Notified, Move, AdvanceMove, FailMove, ByAnswer, Asked, stdio
<1>4. CASE JsonBody
  <2>1. ByAnswer /\ rdErr' = rdErr
    BY <1>4 DEF JsonBody, ByAnswer, Asked, stdio
  <2>2. ASSUME NEW m \in Message, IdMatches(m), Answered(m)
        PROVE  Move
    BY <2>1, <2>2, AnsweredMoves
  <2>3. CASE \E class \in {"transport", "inadmissible"} : CallFails(class)
    BY <2>1, <2>3 DEF Move, FailMove
  <2> QED BY <1>4, <2>1, <2>2, <2>3 DEF JsonBody
<1>5. CASE StreamEvent
  <2>1. ByAnswer /\ rdErr' = rdErr
    BY <1>5 DEF StreamEvent, ByAnswer, Asked, stdio
  <2> QED BY <1>5, <2>1, AnsweredMoves DEF StreamEvent
<1>6. CASE StreamEnds \/ WriteFails \/ CtxDone
  BY <1>6 DEF StreamEnds, WriteFails, CtxDone, Calling, Move, FailMove, ByAnswer, Asked, stdio
<1>7. CASE Receive
  <2>1. ByAnswer /\ rdErr' = rdErr
    BY <1>7 DEF Receive, Calling, ByAnswer, Asked
  <2> DEFINE m == Head(chan[Current])
  <2>2. CASE IdMatches(m)
    <3>1. Answered(m)
      BY <1>7, <2>2 DEF Receive
    <3> HIDE DEF m
    <3> QED BY <2>1, <2>2, <3>1, AnsweredMoves
  <2>3. CASE ~IdMatches(m)
    BY <1>7, <2>1, <2>3 DEF Receive, Move, NoMove, fetch
  <2> QED BY <2>1, <2>2, <2>3
<1>8. CASE ReaderGone
  <2>1. rdErr' \in [Attempts -> Class]
    BY <1>8 DEF ReaderGone, Class
  <2>2. CASE rdErr[Current] = "ok"
    BY <1>8, <2>1, <2>2 DEF ReaderGone, Calling, Move, StuckMove
  <2>3. CASE rdErr[Current] # "ok"
    <3>1. pc = "await" /\ attempt \in Attempts
      BY <1>8 DEF ReaderGone, Calling, FlowOK, Attempts
    <3>2. rdErr[Current] \in {"transport", "inadmissible"}
      BY <2>3, <3>1 DEF Current, Class
    <3> QED BY <1>8, <2>1, <2>3, <3>1, <3>2 DEF ReaderGone, Move, FailMove, ByAnswer, Asked
  <2> QED BY <2>1, <2>2, <2>3
<1>9. CASE Expire
  BY <1>9 DEF Expire, stdio, Move, NoMove
<1>10. CASE \E a \in Attempts : Reader(a)
  BY <1>10 DEF Reader, ReaderScans, ReaderSends, ReaderFreed, ReaderEnds, Move, NoMove, Class
<1>11. CASE UNCHANGED vars
  BY <1>11 DEF vars, stdio, Move, NoMove
<1> QED BY <1>1, <1>2, <1>3, <1>4, <1>5, <1>6, <1>7, <1>8, <1>9, <1>10, <1>11
        DEF Next, Client, Server, OwnMove

-----------------------------------------------------------------------------
(***************************************************************************)
(* The invariant is inductive.                                             *)
(***************************************************************************)

LEMMA InitHolds == Init => FetchInv
<1> SUFFICES ASSUME Init PROVE FetchInv
  OBVIOUS
<1>1. /\ pc = "check" /\ attempt = 0 /\ flow = "none" /\ method = "none"
      /\ cursor = 0 /\ pages = <<>> /\ earlier = "ok"
      /\ verdict.class = "ok" /\ verdict.pre = FALSE /\ verdict.caught = FALSE
  BY DEF Init
<1>2. FetchTypeOK
  <2>1. pages \in Seq(Page)
    BY <1>1, EmptySeq
  <2>2. verdict \in [class : Class, pre : BOOLEAN, caught : BOOLEAN]
    BY DEF Init, Class
  <2>3. sess \in [Attempts -> Session]
    BY DEF Init
  <2>4. rdErr \in [Attempts -> Class]
    BY DEF Init, Class
  <2> QED BY <1>1, <2>1, <2>2, <2>3, <2>4 DEF FetchTypeOK, Methods, Class
<1>3. FlowOK
  <2>1. pc = "check" /\ attempt = 0 /\ flow = "none" /\ method = "none" /\ earlier = "ok"
    BY <1>1
  <2>2. ~verdict.pre /\ verdict.class = "ok"
    BY <1>1
  <2> QED BY <2>1, <2>2 DEF FlowOK, Busy, Asked
<1>4. ClassOK
  BY <1>1 DEF ClassOK
<1>5. ListOK
  <2>1. Len(pages) = 0 /\ DOMAIN pages = 1..Len(pages)
    BY <1>1, <1>2, EmptySeq, LenProperties DEF FetchTypeOK
  <2> QED BY <1>1, <2>1 DEF ListOK, Busy, Asked, Over
<1>6. IdOK /\ ReleaseOK
  BY <1>1 DEF Init, IdOK, ReleaseOK, Busy, Asked
<1> QED BY <1>2, <1>3, <1>4, <1>5, <1>6 DEF FetchInv

\* What a verdict is made of.
LEMMA VerdictTyped ==
    ASSUME FetchInv, NEW class \in Class, NEW pre \in BOOLEAN
    PROVE  /\ Verdict(class, pre) \in [class : Class, pre : BOOLEAN, caught : BOOLEAN]
           /\ Verdict(class, pre).class = class
           /\ Verdict(class, pre).pre = pre
           /\ Verdict(class, pre).caught <=> verdict.caught \/ class = "inadmissible"
<1>1. (verdict.caught \/ class = "inadmissible") \in BOOLEAN
  OBVIOUS
<1> QED BY <1>1 DEF Verdict

\* An attempt is begun for one of the two flows, with nothing taken yet.
LEMMA Begun ==
    ASSUME FetchInv, NEW f \in Flows, BeginAttempt(f)
    PROVE  /\ pc' = "open" /\ attempt' = attempt + 1 /\ flow' = f
           /\ method' \in Handshakes
           /\ f = "stateless" => method' = "server/discover"
           /\ f = "classic" => method' = "initialize"
           /\ pages' = <<>> /\ cursor' = 0 /\ seen' = {}
           /\ verdict'.class = "ok" /\ verdict'.pre = FALSE
           /\ verdict'.caught <=> verdict.caught
           /\ verdict' \in [class : Class, pre : BOOLEAN, caught : BOOLEAN]
<1>1. "ok" \in Class /\ FALSE \in BOOLEAN
  BY DEF Class
<1> QED BY <1>1, VerdictTyped DEF BeginAttempt, Handshake, Handshakes, Flows

\* A failure leaves the pages and the flow alone.
LEMMA Failed ==
    ASSUME FetchInv, NEW class \in {"transport", "inadmissible"}, CallFails(class)
    PROVE  /\ pc' = "close"
           /\ UNCHANGED <<attempt, flow, method, cursor, seen, pages>>
           /\ verdict'.class = class
           /\ verdict'.pre <=> method = "server/discover"
           /\ verdict'.caught <=> verdict.caught \/ class = "inadmissible"
           /\ verdict' \in [class : Class, pre : BOOLEAN, caught : BOOLEAN]
<1>1. class \in Class /\ (method = "server/discover") \in BOOLEAN
  BY DEF Class
<1> QED BY <1>1, VerdictTyped DEF CallFails, Fails

\* Where Fetch goes from its check: it begins a flow or returns a failure.
LEMMA Checked ==
    ASSUME FetchInv, Check
    PROVE  /\ UNCHANGED <<earlier, sess>>
           /\ \/ \E class \in {"transport", "inadmissible"} : Refused(class)
              \/ \E f \in Flows : BeginAttempt(f)
BY DEF Check, Flows

\* The page an answer adds has the id of its request, the cursor before it and
\* its place in the chain.
LEMMA PageTaken ==
    ASSUME FetchInv, Asked, method = "tools/list", NEW next \in Nat,
           Keep(sess[Current].nextID - 1, next)
    PROVE  /\ pages' \in Seq(Page)
           /\ Len(pages') = Len(pages) + 1
           /\ Len(pages) \in Nat /\ DOMAIN pages = 1..Len(pages)
           /\ DOMAIN pages' = 1..Len(pages) + 1
           /\ \A i \in 1..Len(pages) : pages'[i] = pages[i]
           /\ pages'[Len(pages) + 1].id = Len(pages) + 2
           /\ pages'[Len(pages) + 1].cursor = Len(pages)
           /\ pages'[Len(pages) + 1].next = next
<1>1. pages \in Seq(Page) /\ Len(pages) \in Nat
  BY LenProperties DEF FetchInv, FetchTypeOK
<1>2. cursor = Len(pages) /\ sess[Current].nextID - 1 = Len(pages) + 2
  BY <1>1 DEF FetchInv, ListOK, IdOK, Busy, Handshakes, Notifying, Current
<1> DEFINE p == [id |-> Len(pages) + 2, cursor |-> Len(pages), next |-> next]
<1>3. p \in Page /\ p.id = Len(pages) + 2 /\ p.cursor = Len(pages) /\ p.next = next
  BY <1>1 DEF Page
<1>4. pages' = Append(pages, p)
  BY <1>2 DEF Keep
<1> HIDE DEF p
<1>5. /\ pages' \in Seq(Page)
      /\ Len(pages') = Len(pages) + 1
      /\ \A i \in 1..Len(pages) : pages'[i] = pages[i]
      /\ pages'[Len(pages) + 1] = p
  BY <1>1, <1>3, <1>4, AppendProperties
<1>6. DOMAIN pages = 1..Len(pages) /\ DOMAIN pages' = 1..Len(pages')
  BY <1>1, <1>5, LenProperties
<1> QED BY <1>1, <1>3, <1>5, <1>6

\* Asking for more keeps the verdict; going over the cap is inadmissible.
LEMMA MoreTaken ==
    ASSUME FetchInv, NEW n, MorePages(n)
    PROVE  \/ n < MaxPages /\ pc' = "call" /\ verdict' = verdict
           \/ /\ pc' = "close"
              /\ verdict' \in [class : Class, pre : BOOLEAN, caught : BOOLEAN]
              /\ verdict'.class = "inadmissible" /\ verdict'.pre = FALSE /\ verdict'.caught
<1>1. CASE n < MaxPages
  BY <1>1 DEF MorePages
<1>2. CASE ~(n < MaxPages)
  <2>1. "inadmissible" \in Class /\ FALSE \in BOOLEAN
    BY DEF Class
  <2> QED BY <1>2, <2>1, VerdictTyped DEF MorePages
<1> QED BY <1>1, <1>2

\* A failure that is returned is inadmissible if either attempt's was.
LEMMA Returned ==
    ASSUME FetchInv, Return
    PROVE  /\ pc = "decide" /\ pc' = "returned"
           /\ UNCHANGED <<attempt, flow, method, cursor, seen, pages, earlier, sess>>
           /\ verdict' \in [class : Class, pre : BOOLEAN, caught : BOOLEAN]
           /\ verdict'.caught = verdict.caught
           /\ verdict'.pre = FALSE
           /\ verdict.class = "ok" => verdict'.class = "ok"
           /\ verdict.class # "ok" =>
                verdict'.class = IF "inadmissible" \in {verdict.class, earlier}
                                   THEN "inadmissible" ELSE "transport"
<1> USE DEF FetchInv, FetchTypeOK
<1>1. CASE verdict.class = "ok"
  BY <1>1 DEF Return, FlowOK, ListOK, Over
<1>2. CASE verdict.class # "ok"
  <2>1. Joined(verdict.class, earlier) \in Class
    BY DEF Joined, Class
  <2> QED BY <1>2, <2>1 DEF Return, Joined
<1> QED BY <1>1, <1>2

\* The id a session keeps is the one it has just been given.
LEMMA KeptId ==
    ASSUME sess \in [Attempts -> Session], Current \in Attempts
    PROVE  IdKept = [sess EXCEPT ![Current] = [sess[Current] EXCEPT !.given = @ + 1,
                                                                    !.sid = sess[Current].given + 1]]
<1>1. IdGiven = [sess EXCEPT ![Current] = [sess[Current] EXCEPT !.given = @ + 1]]
  BY DEF IdGiven
<1>2. IdGiven[Current].given = sess[Current].given + 1
  BY <1>1
<1>3. IdKept = [sess EXCEPT ![Current] = [IdGiven[Current] EXCEPT !.sid = sess[Current].given + 1]]
  BY <1>1, <1>2 DEF IdKept
<1> QED BY <1>1, <1>3

\* A session changes with its own attempt only.
LEMMA SessionStep ==
    ASSUME FetchInv, Move
    PROVE  sess' \in [Attempts -> Session]
<1> USE DEF FetchInv, FetchTypeOK
<1>1. pc \notin {"check", "returned"} => Current \in Attempts
  BY DEF FlowOK, Current, Attempts
<1>2. CASE Open
  <2>1. CASE sess' = [sess EXCEPT ![Current].open = TRUE]
    BY <1>1, <1>2, <2>1 DEF Open
  <2>2. CASE sess' = sess
    BY <2>2
  <2> QED BY <1>2, <2>1, <2>2 DEF Open
<1>3. CASE Close
  BY <1>1, <1>3 DEF Close, AskedToDelete
<1>4. CASE Send
  <2>1. (IF Notifying THEN sess[Current].nextID ELSE sess[Current].nextID + 1) \in Nat
    BY <1>1, <1>4 DEF Send
  <2> QED BY <1>1, <1>4, <2>1 DEF Send
<1>5. CASE HttpHead
  <2>1. pc \notin {"check", "returned"}
    BY <1>5 DEF HttpHead, Calling
  <2>2. sess' = sess \/ sess' = IdKept
    BY <1>5 DEF HttpHead
  <2>3. Current \in Attempts /\ sess \in [Attempts -> Session] /\ sess[Current].given + 1 \in Nat
    BY <1>1, <2>1
  <2> DEFINE s == [sess[Current] EXCEPT !.given = @ + 1, !.sid = sess[Current].given + 1]
  <2>4. IdKept = [sess EXCEPT ![Current] = s]
    BY <2>3, KeptId
  <2>5. s \in Session
    BY <2>3
  <2> HIDE DEF s
  <2>6. IdKept \in [Attempts -> Session]
    BY <2>3, <2>4, <2>5
  <2> QED BY <2>2, <2>6
<1>6. CASE sess' = sess
  BY <1>6
<1>7. QED
  BY <1>2, <1>3, <1>4, <1>5, <1>6
     DEF Move, OwnMove, Check, FallBack, Return, AdvanceMove, FailMove, LastPageMove,
         NextPageMove, ByAnswer, StuckMove, NoMove

\* What a move does to the attempt, its flow and its verdict.
LEMMA FlowStep ==
    ASSUME FetchInv, Move, rdErr' \in [Attempts -> Class]
    PROVE  FetchTypeOK' /\ FlowOK' /\ ClassOK'
<1> USE DEF FetchInv, FetchTypeOK
<1> DEFINE Goal == FetchTypeOK' /\ FlowOK' /\ ClassOK'
<1>0. sess' \in [Attempts -> Session]
  BY SessionStep
<1>1. CASE Check
  <2>0. UNCHANGED <<earlier, sess>>
    BY <1>1, Checked
  <2>1. ASSUME NEW class \in {"transport", "inadmissible"}, Refused(class)
        PROVE  Goal
    <3>1. class \in Class /\ FALSE \in BOOLEAN
      BY DEF Class
    <3> QED BY <1>0, <1>1, <2>0, <2>1, <3>1, VerdictTyped
            DEF Refused, Check, FlowOK, ClassOK, Busy, Asked
  <2>2. ASSUME NEW f \in Flows, BeginAttempt(f)
        PROVE  Goal
    <3>1. pages' \in Seq(Page)
      BY <2>2, Begun, EmptySeq
    <3>2. pc = "check"
      BY <1>1 DEF Check
    <3>3. attempt = 0 /\ earlier = "ok" /\ ~verdict.caught
      BY <3>2 DEF FlowOK, ClassOK
    <3>4. /\ pc' = "open" /\ attempt' = attempt + 1 /\ flow' = f /\ method' \in Handshakes
          /\ f = "stateless" => method' = "server/discover"
          /\ f = "classic" => method' = "initialize"
          /\ cursor' = 0 /\ verdict'.class = "ok" /\ verdict'.pre = FALSE
          /\ verdict'.caught <=> verdict.caught
          /\ verdict' \in [class : Class, pre : BOOLEAN, caught : BOOLEAN]
      BY <2>2, Begun, Zenon
    <3>5. attempt' = 1 /\ earlier' = "ok" /\ ~verdict'.caught
      BY <2>0, <3>3, <3>4
    <3>6. FetchTypeOK'
      <4> HIDE DEF FetchInv, FetchTypeOK
      <4> QED BY <1>0, <3>1, <3>4, <3>5 DEF FetchTypeOK, Flows, Handshakes, Methods, Class
    <3>7. FlowOK' /\ ClassOK'
      <4> HIDE DEF FetchInv, FetchTypeOK
      <4> QED BY <3>4, <3>5 DEF FlowOK, ClassOK, Busy, Asked, Flows, Handshakes
    <3> QED BY <3>6, <3>7
  <2> QED BY <1>1, <2>1, <2>2, Checked
<1>2. CASE Open
  <2>1. CASE verdict' = verdict /\ pc' = "call"
    BY <1>0, <1>2, <2>1 DEF Open, FlowOK, ClassOK, Busy, Asked
  <2>2. CASE verdict' = Verdict("transport", FALSE) /\ pc' = "decide"
    <3>1. "transport" \in Class /\ FALSE \in BOOLEAN
      BY DEF Class
    <3> QED BY <1>0, <1>2, <2>2, <3>1, VerdictTyped DEF Open, FlowOK, ClassOK, Busy, Asked
  <2> QED BY <1>2, <2>1, <2>2 DEF Open
<1>3. CASE Close
  BY <1>0, <1>3 DEF Close, FlowOK, ClassOK, Busy, Asked
<1>4. CASE FallBack
  <2>1. BeginAttempt("classic") /\ "classic" \in Flows
    BY <1>4 DEF FallBack, Flows
  <2>2. pages' \in Seq(Page)
    BY <2>1, Begun, EmptySeq
  <2>3. attempt = 1 /\ earlier = "ok"
    BY <1>4 DEF FallBack, MayFallBack, FlowOK
  <2>4. /\ pc' = "open" /\ attempt' = 2 /\ flow' = "classic" /\ method' = "initialize"
        /\ verdict'.class = "ok" /\ ~verdict'.pre /\ (verdict'.caught <=> verdict.caught)
        /\ verdict' \in [class : Class, pre : BOOLEAN, caught : BOOLEAN] /\ cursor' = 0
    <3>1. /\ pc' = "open" /\ attempt' = attempt + 1 /\ flow' = "classic"
          /\ method' = "initialize" /\ cursor' = 0
          /\ verdict'.class = "ok" /\ verdict'.pre = FALSE
          /\ verdict'.caught <=> verdict.caught
          /\ verdict' \in [class : Class, pre : BOOLEAN, caught : BOOLEAN]
      BY <2>1, Begun, Zenon
    <3> QED BY <2>3, <3>1
  <2>5. earlier' = verdict.class /\ verdict.class # "ok" /\ pc = "decide"
        /\ UNCHANGED sess
    BY <1>4 DEF FallBack
  <2>6. FetchTypeOK'
    <3>1. earlier' \in Class
      BY <2>5
    <3> HIDE DEF FetchInv, FetchTypeOK
    <3> QED BY <1>0, <2>2, <2>4, <3>1 DEF FetchTypeOK, Flows, Handshakes, Methods
  <2>7. FlowOK'
    BY <2>4 DEF FlowOK, Busy, Asked, Flows, Handshakes
  <2>8. ClassOK'
    BY <2>3, <2>4, <2>5 DEF ClassOK
  <2> QED BY <2>6, <2>7, <2>8
<1>5. CASE Return
  BY <1>0, <1>5, Returned DEF FlowOK, ClassOK, Busy, Asked, Class
<1>6. CASE Send
  BY <1>0, <1>6 DEF Send, FlowOK, ClassOK, Busy, Asked
<1>7. ASSUME NEW class \in {"transport", "inadmissible"}, CallFails(class), Asked,
             UNCHANGED earlier
      PROVE  Goal
  BY <1>0, <1>7, Failed DEF FlowOK, ClassOK, Busy, Asked
<1>8. CASE HttpHead
  <2>1. CASE CallFails("transport")
    BY <1>7, <1>8, <2>1 DEF HttpHead, Calling, Asked
  <2>2. CASE pc' \in {"body", "stream"}
              /\ UNCHANGED <<attempt, flow, method, cursor, seen, pages, verdict>>
    BY <1>0, <1>8, <2>2 DEF HttpHead, Calling, FlowOK, ClassOK, Busy, Asked
  <2> QED BY <1>8, <2>1, <2>2 DEF HttpHead
<1>9. CASE AdvanceMove
  BY <1>0, <1>9 DEF AdvanceMove, ByAnswer, Proceed, FlowOK, ClassOK, Busy, Asked, Notifying,
                    Methods, Flows
<1>10. CASE FailMove
  BY <1>7, <1>10 DEF FailMove, ByAnswer
<1>11. CASE LastPageMove
  <2>1. pages' \in Seq(Page)
    BY <1>11, PageTaken DEF LastPageMove, ByAnswer
  <2> QED BY <1>0, <1>11, <2>1 DEF LastPageMove, ByAnswer, FlowOK, ClassOK, Busy, Asked
<1>12. CASE NextPageMove
  <2>1. Len(pages) \in Nat
    BY LenProperties
  <2>2. pages' \in Seq(Page)
    <3>1. /\ Asked /\ method = "tools/list" /\ Len(pages) + 1 \in Nat
          /\ Keep(sess[Current].nextID - 1, Len(pages) + 1)
      BY <1>12, <2>1 DEF NextPageMove, ByAnswer
    <3> HIDE DEF FetchInv, FetchTypeOK
    <3> QED BY <3>1, PageTaken
  <2>3. CASE pc' = "call" /\ verdict' = verdict
    BY <1>0, <1>12, <2>1, <2>2, <2>3 DEF NextPageMove, ByAnswer, FlowOK, ClassOK, Busy, Asked
  <2>4. CASE /\ pc' = "close"
             /\ verdict' \in [class : Class, pre : BOOLEAN, caught : BOOLEAN]
             /\ verdict'.class = "inadmissible" /\ verdict'.pre = FALSE /\ verdict'.caught
    BY <1>0, <1>12, <2>1, <2>2, <2>4 DEF NextPageMove, ByAnswer, FlowOK, ClassOK, Busy, Asked
  <2> QED BY <1>12, <2>3, <2>4, MoreTaken DEF NextPageMove
<1>13. CASE StuckMove
  BY <1>0, <1>13 DEF StuckMove, FlowOK, ClassOK, Busy, Asked
<1>14. CASE NoMove
  BY <1>0, <1>14 DEF NoMove, fetch, FlowOK, ClassOK, Busy, Asked
<1> QED BY <1>1, <1>2, <1>3, <1>4, <1>5, <1>6, <1>8, <1>9, <1>10, <1>11, <1>12, <1>13, <1>14
        DEF Move, OwnMove

\* A step that adds no page, asks for none anew and ends with no new verdict
\* "ok" leaves the list in order.
LEMMA ListKept ==
    ASSUME FetchInv, UNCHANGED <<pages, method>>,
           Busy' => Busy /\ UNCHANGED <<cursor, seen>>,
           Over' /\ verdict'.class = "ok" => Over /\ verdict.class = "ok"
    PROVE  ListOK'
BY DEF FetchInv, ListOK

\* So does one that begins to ask for pages when there is none.
LEMMA ListBegun ==
    ASSUME pages' = <<>>, cursor' = 0, seen' = {}, ~Over'
    PROVE  ListOK'
<1>1. Len(pages') = 0 /\ DOMAIN pages' = {}
  OBVIOUS
<1>2. 0 < MaxPages /\ 1..0 = {}
  BY FetchAssumption
<1> QED BY <1>1, <1>2 DEF ListOK

LEMMA ListStep ==
    ASSUME FetchInv, Move
    PROVE  ListOK'
<1>1. CASE Check
  <2>1. ASSUME NEW class \in {"transport", "inadmissible"}, Refused(class)
        PROVE  ListOK'
    <3>1. verdict'.class = class
      BY <2>1, VerdictTyped DEF Refused, Class
    <3> QED BY <2>1, <3>1, ListKept DEF Refused, Busy, Asked
  <2>2. ASSUME NEW f \in Flows, BeginAttempt(f)
        PROVE  ListOK'
    BY <2>2, ListBegun DEF BeginAttempt, Over
  <2> QED BY <1>1, <2>1, <2>2, Checked
<1>2. CASE Open
  <2>1. CASE verdict' = Verdict("transport", FALSE) /\ pc' = "decide"
    <3>1. verdict'.class = "transport"
      BY <2>1, VerdictTyped DEF Class
    <3> QED BY <1>2, <2>1, <3>1, ListKept DEF Open, Busy, Asked
  <2>2. CASE pc' = "call"
    BY <1>2, <2>2, ListKept DEF Open, Busy, Over
  <2> QED BY <1>2, <2>1, <2>2 DEF Open
<1>3. CASE Close
  BY <1>3, ListKept DEF Close, Busy, Asked, Over
<1>4. CASE FallBack
  BY <1>4, ListBegun DEF FallBack, BeginAttempt, Over
<1>5. CASE Return
  BY <1>5, Returned, ListKept DEF Busy, Asked, Over
<1>6. CASE Send
  BY <1>6, ListKept DEF Send, Busy, Asked, Over
<1>7. ASSUME NEW class \in {"transport", "inadmissible"}, CallFails(class)
      PROVE  ListOK'
  BY <1>7, Failed, ListKept DEF Busy, Asked
<1>8. CASE HttpHead
  <2>1. CASE pc' \in {"body", "stream"}
              /\ UNCHANGED <<attempt, flow, method, cursor, seen, pages, verdict>>
    BY <1>8, <2>1, ListKept DEF HttpHead, Calling, Busy, Asked, Over
  <2> QED BY <1>7, <1>8, <2>1 DEF HttpHead
<1>9. CASE AdvanceMove
  <2>1. method # "tools/list" /\ Busy /\ pages' = pages /\ cursor' = cursor /\ seen' = seen
        /\ pc' = "call"
    BY <1>9 DEF AdvanceMove, ByAnswer, Busy, Proceed, Notifying
  <2>2. pages = <<>> /\ cursor = Len(pages) /\ seen = 1..Len(pages)
    BY <2>1 DEF FetchInv, ListOK
  <2>3. Len(pages) = 0 /\ 1..0 = {}
    BY <2>2
  <2> QED BY <2>1, <2>2, <2>3, ListBegun DEF Over
<1>10. CASE FailMove
  BY <1>7, <1>10 DEF FailMove
<1>11. ASSUME ByAnswer, method = "tools/list", NEW next \in Nat,
              Keep(sess[Current].nextID - 1, next), method' = method,
              next = 0 => pc' = "close",
              next # 0 => /\ next = Len(pages) + 1 /\ cursor' = next
                          /\ seen' = seen \union {next} /\ MorePages(next)
       PROVE  ListOK'
  <2>1. /\ Len(pages') = Len(pages) + 1 /\ Len(pages) \in Nat
        /\ DOMAIN pages = 1..Len(pages) /\ DOMAIN pages' = 1..Len(pages) + 1
        /\ \A i \in 1..Len(pages) : pages'[i] = pages[i]
        /\ pages'[Len(pages) + 1].id = Len(pages) + 2
        /\ pages'[Len(pages) + 1].cursor = Len(pages)
        /\ pages'[Len(pages) + 1].next = next
    BY <1>11, PageTaken DEF ByAnswer
  <2>2. Busy /\ seen = 1..Len(pages)
        /\ \A i \in 1..Len(pages) : pages[i].id = i + 1 /\ pages[i].cursor = i - 1
                                    /\ pages[i].next = i
    BY <1>11, <2>1 DEF ByAnswer, Busy, FetchInv, ListOK
  <2>3. /\ \A i \in DOMAIN pages' : pages'[i].id = i + 1 /\ pages'[i].cursor = i - 1
        /\ \A i \in DOMAIN pages' : i < Len(pages') => pages'[i].next = i
        /\ pages' # <<>>
    BY <2>1, <2>2
  <2>4. CASE next = 0
    <3>1. pc' = "close" /\ method' = "tools/list" /\ pages'[Len(pages')].next = 0
      BY <1>11, <2>1, <2>4
    <3>2. ~Busy'
      BY <3>1 DEF Busy, Asked
    <3> QED BY <2>3, <3>1, <3>2 DEF ListOK
  <2>5. CASE next # 0
    <3>1. seen' = 1..Len(pages') /\ cursor' = Len(pages')
      <4>1. 1..(Len(pages) + 1) = (1..Len(pages)) \union {Len(pages) + 1}
        BY <2>1
      <4> QED BY <1>11, <2>1, <2>2, <2>5, <4>1
    <3>2. \A i \in DOMAIN pages' : pages'[i].next = i
      BY <1>11, <2>1, <2>3, <2>5
    <3>3. (Busy' => Len(pages') < MaxPages) /\ (Over' => verdict'.class # "ok")
      BY <1>11, <2>1, <2>5, MoreTaken DEF Busy, Asked, Over
    <3> QED BY <1>11, <2>3, <3>1, <3>2, <3>3 DEF ListOK
  <2> QED BY <2>4, <2>5
<1>12. CASE LastPageMove
  BY <1>11, <1>12 DEF LastPageMove
<1>13. CASE NextPageMove
  <2>1. Len(pages) + 1 \in Nat /\ Len(pages) + 1 # 0
    BY LenProperties DEF FetchInv, FetchTypeOK
  <2> QED BY <1>11, <1>13, <2>1 DEF NextPageMove
<1>14. CASE StuckMove \/ NoMove
  BY <1>14, ListKept DEF StuckMove, NoMove, fetch, Busy, Asked, Over
<1> QED BY <1>1, <1>2, <1>3, <1>4, <1>5, <1>6, <1>8, <1>9, <1>10, <1>12, <1>13, <1>14
        DEF Move, OwnMove

\* The ids a session has given out, after a move.
LEMMA IdStep ==
    ASSUME FetchInv, Move, FetchTypeOK', FlowOK', ListOK'
    PROVE  IdOK'
<1> USE DEF FetchInv
<1>0. /\ sess \in [Attempts -> Session]
      /\ attempt \in 0..2
      /\ pc \notin {"check", "returned"} => attempt \in Attempts /\ Current = attempt
  BY DEF FetchTypeOK, FlowOK, Attempts, Current
<1>1. ASSUME NEW f \in Flows, BeginAttempt(f), UNCHANGED sess
      PROVE  IdOK'
  <2>1. /\ pc' = "open" /\ attempt' = attempt + 1 /\ method' \in Handshakes
    BY <1>1, Begun, Zenon
  <2>2. attempt' \in Attempts
    BY <1>0, <2>1 DEF FetchTypeOK, FlowOK, Attempts
  <2> QED BY <1>0, <1>1, <2>1, <2>2 DEF IdOK, Busy, Asked, Attempts
<1>2. ASSUME UNCHANGED attempt, ~Busy',
             \A a \in Attempts : a > attempt => sess'[a].nextID = sess[a].nextID
      PROVE  IdOK'
  BY <1>2 DEF IdOK
<1>3. ASSUME UNCHANGED <<attempt, method, pages>>, Busy' => Busy /\ (Asked' <=> Asked),
             \A a \in Attempts : sess'[a].nextID = sess[a].nextID
      PROVE  IdOK'
  <2>1. \A a \in Attempts : a > attempt' => sess'[a].nextID = 1
    BY <1>3 DEF IdOK
  <2>2. CASE Busy'
    <3>1. Busy /\ attempt \in Attempts
      BY <1>0, <1>3, <2>2 DEF Busy, Asked
    <3>2. sess'[attempt'].nextID = sess[attempt].nextID /\ (Notifying' <=> Notifying)
      BY <1>3, <3>1 DEF Notifying
    <3> QED BY <1>3, <2>1, <2>2, <3>1, <3>2 DEF IdOK
  <2> QED BY <2>1, <2>2 DEF IdOK
<1>4. CASE Check
  BY <1>1, <1>2, <1>4, Checked DEF Refused, Busy, Asked
<1>5. CASE Open
  <2>1. \A a \in Attempts : sess'[a].nextID = sess[a].nextID
    <3>1. CASE sess' = [sess EXCEPT ![Current].open = TRUE]
      BY <1>0, <1>5, <3>1 DEF Open
    <3>2. CASE sess' = sess
      BY <3>2
    <3> QED BY <1>5, <3>1, <3>2 DEF Open
  <2> QED BY <1>3, <1>5, <2>1 DEF Open, Busy, Asked
<1>6. CASE Close
  <2>1. \A a \in Attempts : sess'[a].nextID = sess[a].nextID
    BY <1>0, <1>6 DEF Close, AskedToDelete
  <2> QED BY <1>3, <1>6, <2>1 DEF Close, Busy, Asked
<1>7. CASE FallBack
  BY <1>1, <1>7 DEF FallBack, Flows
<1>8. CASE Return
  BY <1>2, <1>8, Returned DEF Busy, Asked
<1>9. CASE Send
  <2>1. /\ pc = "call" /\ pc' = "await" /\ UNCHANGED <<attempt, method, pages>>
        /\ sess'[attempt].nextID = IF Notifying THEN sess[attempt].nextID
                                   ELSE sess[attempt].nextID + 1
        /\ \A a \in Attempts : a > attempt => sess'[a].nextID = sess[a].nextID
    BY <1>0, <1>9 DEF Send
  <2>2. sess[attempt].nextID = IF method \in Handshakes THEN 1 ELSE Len(pages) + 2
    BY <2>1 DEF IdOK, Busy, Asked
  <2>3. Len(pages) \in Nat
    BY LenProperties DEF FetchTypeOK
  <2> QED BY <2>1, <2>2, <2>3 DEF IdOK, Busy, Asked, Notifying
<1>10. CASE HttpHead
  <2>1. \A a \in Attempts : sess'[a].nextID = sess[a].nextID
    <3>1. Current \in Attempts /\ (sess' = sess \/ sess' = IdKept)
      BY <1>0, <1>10 DEF HttpHead, Calling
    <3>2. \A a \in Attempts : IdKept[a].nextID = sess[a].nextID
      <4> DEFINE c == Current
      <4>1. c \in Attempts /\ sess \in [Attempts -> Session]
        BY <1>0, <3>1
      <4> DEFINE s == [sess[c] EXCEPT !.given = @ + 1, !.sid = sess[c].given + 1]
      <4>2. IdKept = [sess EXCEPT ![c] = s]
        BY <4>1, KeptId
      <4>3. s.nextID = sess[c].nextID
        BY <4>1
      <4> HIDE DEF c, s
      <4> QED BY <4>1, <4>2, <4>3
    <3> QED BY <3>1, <3>2
  <2>2. CASE CallFails("transport")
    BY <1>2, <2>1, <2>2, Failed DEF Busy, Asked
  <2>3. CASE pc' \in {"body", "stream"}
              /\ UNCHANGED <<attempt, flow, method, cursor, seen, pages, verdict>>
    BY <1>3, <1>10, <2>1, <2>3 DEF HttpHead, Calling, Busy, Asked
  <2> QED BY <1>10, <2>2, <2>3 DEF HttpHead
<1>11. CASE AdvanceMove
  <2>1. /\ Asked /\ pc' = "call" /\ UNCHANGED <<attempt, pages, sess>>
        /\ method # "tools/list" /\ method' \notin Handshakes
        /\ Notifying \/ method \in Handshakes
    BY <1>11 DEF AdvanceMove, ByAnswer, Proceed, Notifying, Handshakes
  <2>2. Len(pages) = 0
    BY <2>1 DEF ListOK
  <2>3. sess[attempt].nextID = 2
    BY <2>1, <2>2 DEF IdOK, Busy, Notifying, Handshakes
  <2> QED BY <2>1, <2>2, <2>3 DEF IdOK, Busy, Asked
<1>12. CASE FailMove
  BY <1>2, <1>12, Failed DEF FailMove, ByAnswer, Busy, Asked
<1>13. CASE LastPageMove
  BY <1>2, <1>13 DEF LastPageMove, ByAnswer, Busy, Asked
<1>14. CASE NextPageMove
  <2>1. CASE ~Busy'
    BY <1>2, <1>14, <2>1 DEF NextPageMove, ByAnswer
  <2>2. CASE Busy'
    <3>1. Len(pages) \in Nat /\ Len(pages') = Len(pages) + 1
      <4>1. Len(pages) + 1 \in Nat
        BY LenProperties DEF FetchTypeOK
      <4> QED BY <1>14, <4>1, PageTaken DEF NextPageMove, ByAnswer
    <3>2. pc' = "call" /\ UNCHANGED <<attempt, method, sess>> /\ method = "tools/list" /\ Asked
      BY <1>14, <2>2, MoreTaken DEF NextPageMove, ByAnswer, Busy, Asked
    <3>3. sess[attempt].nextID = Len(pages) + 3
      BY <3>1, <3>2 DEF IdOK, Busy, Notifying, Handshakes
    <3> QED BY <3>1, <3>2, <3>3 DEF IdOK, Busy, Asked, Handshakes
  <2> QED BY <2>1, <2>2
<1>15. CASE StuckMove \/ NoMove
  BY <1>3, <1>15 DEF StuckMove, NoMove, fetch, Busy, Asked
<1> QED BY <1>4, <1>5, <1>6, <1>7, <1>8, <1>9, <1>10, <1>11, <1>12, <1>13, <1>14, <1>15
        DEF Move, OwnMove

\* A budget that is spent stays spent.
LEMMA BudgetOnlyEnds ==
    ASSUME [Next]_vars
    PROVE  (expired => expired') /\ (Close => UNCHANGED expired)
<1>1. Expire => expired'
  BY DEF Expire
<1>2. Client => UNCHANGED expired
  BY DEF Client, Check, Open, Send, Receive, ReaderGone, CtxDone, Close, FallBack, Return
<1>3. Server => UNCHANGED expired
  BY DEF Server, Notified, HttpHead, JsonBody, StreamEvent, StreamEnds, WriteFails
<1>4. \A a \in Attempts : Reader(a) => UNCHANGED expired
  BY DEF Reader, ReaderScans, ReaderSends, ReaderFreed, ReaderEnds
<1>5. Close => UNCHANGED expired
  BY DEF Close
<1> QED BY <1>1, <1>2, <1>3, <1>4, <1>5 DEF Next, vars

LEMMA ReleaseStep ==
    ASSUME FetchInv, Move, expired => expired', Close => UNCHANGED expired
    PROVE  ReleaseOK'
<1> USE DEF FetchInv
<1>0. /\ sess \in [Attempts -> Session]
      /\ attempt \in 0..2
      /\ pc \notin {"check", "returned"} => attempt \in Attempts /\ Current = attempt
  BY DEF FetchTypeOK, FlowOK, Attempts, Current
<1>1. ASSUME NEW f \in Flows, BeginAttempt(f), UNCHANGED sess, pc \in {"check", "decide"}
      PROVE  ReleaseOK'
  <2>1. attempt' = attempt + 1 /\ pc' = "open"
    BY <1>1 DEF BeginAttempt
  <2> QED BY <1>0, <1>1, <2>1 DEF ReleaseOK, Attempts
<1>2. ASSUME UNCHANGED <<attempt, sess>>,
             pc \in {"call", "await", "body", "stream", "stuck", "close"} =>
                 pc' \in {"call", "await", "body", "stream", "stuck", "close"},
             pc \in {"decide", "returned"} => pc' \in {"decide", "returned"}
      PROVE  ReleaseOK'
  BY <1>2 DEF ReleaseOK
<1>3. CASE Check
  BY <1>1, <1>2, <1>3, Checked DEF Check, Refused
<1>4. CASE Open
  <2>1. CASE pc' = "call" /\ sess' = [sess EXCEPT ![Current].open = TRUE]
    BY <1>0, <1>4, <2>1 DEF Open, ReleaseOK
  <2>2. CASE pc' = "decide" /\ UNCHANGED sess
    BY <1>2, <1>4, <2>2 DEF Open
  <2> QED BY <1>4, <2>1, <2>2 DEF Open
<1>5. CASE Close
  BY <1>0, <1>5 DEF Close, AskedToDelete, ReleaseOK
<1>6. CASE FallBack
  BY <1>1, <1>6 DEF FallBack, Flows
<1>7. CASE Return
  BY <1>2, <1>7, Returned
<1>8. CASE Send
  BY <1>0, <1>8 DEF Send, ReleaseOK
<1>9. CASE HttpHead
  <2>1. pc = "await" /\ pc' \in {"body", "stream", "close"} /\ UNCHANGED attempt
    BY <1>9, Failed DEF HttpHead, Calling
  <2>2. sess' = sess \/ sess' = IdKept
    BY <1>9 DEF HttpHead
  <2>3. \A a \in Attempts :
           /\ sess'[a].open = sess[a].open /\ sess'[a].closed = sess[a].closed
           /\ a # attempt => sess'[a] = sess[a]
           /\ sess'[a].sid = sess'[a].given
    BY <1>0, <2>1, <2>2 DEF ReleaseOK, IdKept, IdGiven, Session
  <2>4. \A a \in Attempts : sess[a].closed => a # attempt
    BY <1>0, <2>1 DEF ReleaseOK
  <2> QED BY <1>0, <2>1, <2>3, <2>4 DEF ReleaseOK, Session
<1>10. CASE AdvanceMove
  BY <1>2, <1>10 DEF AdvanceMove, ByAnswer, Asked, Proceed
<1>11. CASE FailMove
  BY <1>2, <1>11, Failed DEF FailMove, ByAnswer, Asked
<1>12. CASE LastPageMove
  BY <1>2, <1>12 DEF LastPageMove, ByAnswer, Asked
<1>13. CASE NextPageMove
  BY <1>2, <1>13, MoreTaken DEF NextPageMove, ByAnswer, Asked
<1>14. CASE StuckMove \/ NoMove
  BY <1>2, <1>14 DEF StuckMove, NoMove, fetch
<1> QED BY <1>3, <1>4, <1>5, <1>6, <1>7, <1>8, <1>9, <1>10, <1>11, <1>12, <1>13, <1>14
        DEF Move, OwnMove

LEMMA FetchStep == FetchInv /\ [Next]_vars => FetchInv'
<1> SUFFICES ASSUME FetchInv, [Next]_vars
             PROVE  FetchInv'
  OBVIOUS
<1>1. Move /\ rdErr' \in [Attempts -> Class]
  BY Moves
<1>2. FetchTypeOK' /\ FlowOK' /\ ClassOK'
  BY <1>1, FlowStep
<1>3. (expired => expired') /\ (Close => UNCHANGED expired)
  BY BudgetOnlyEnds
<1>4. ListOK' /\ ReleaseOK'
  BY <1>1, <1>3, ListStep, ReleaseStep
<1> QED BY <1>1, <1>2, <1>4, IdStep DEF FetchInv

LEMMA FetchInvHolds == Spec => []FetchInv
BY InitHolds, FetchStep, PTL DEF Spec

-----------------------------------------------------------------------------
(***************************************************************************)
(* What a fetch promises.                                                  *)
(***************************************************************************)

\* A surface that is returned is a chain of pages from no cursor to no cursor,
\* each the answer to the request made for it (fetch.go:316, client.go:73,
\* :411).
THEOREM SurfaceCorrect == Spec => []SurfaceIsWhole
<1>1. ASSUME FetchInv
      PROVE  SurfaceIsWhole
  <2> SUFFICES ASSUME pc = "returned", verdict.class = "ok"
               PROVE  /\ pages # <<>>
                      /\ pages[1].cursor = 0
                      /\ pages[Len(pages)].next = 0
                      /\ \A i \in DOMAIN pages : pages[i].id = i + 1
                      /\ \A i \in 2..Len(pages) : pages[i].cursor = pages[i - 1].next
    BY DEF SurfaceIsWhole
  <2>1. Len(pages) \in Nat /\ DOMAIN pages = 1..Len(pages) /\ (pages # <<>> => Len(pages) > 0)
    BY <1>1, LenProperties, EmptySeq DEF FetchInv, FetchTypeOK
  <2>2. pages # <<>> /\ pages[Len(pages)].next = 0
    BY <1>1 DEF FetchInv, ListOK, Over
  <2>3. /\ \A i \in 1..Len(pages) : pages[i].id = i + 1 /\ pages[i].cursor = i - 1
        /\ \A i \in 1..Len(pages) : i < Len(pages) => pages[i].next = i
    BY <1>1, <2>1 DEF FetchInv, ListOK
  <2> QED BY <2>1, <2>2, <2>3
<1> QED BY <1>1, FetchInvHolds, PTL

\* What an attempt met that is inadmissible is what Fetch reports, over a
\* fallback too (fetch.go:153).
THEOREM InadmissibleCorrect == Spec => []InadmissibleSurvives
<1>1. FetchInv => InadmissibleSurvives
  BY DEF FetchInv, ClassOK, InadmissibleSurvives
<1> QED BY <1>1, FetchInvHolds, PTL

\* An attempt's session is closed before the next one is opened and before Fetch
\* returns, and while there is budget left the id it was given last is the one
\* whose deletion it asks for, whatever the status that id came with
\* (client.go:202, :296).
THEOREM SessionsReleased == Spec => []SessionsAreReleased
<1>1. ASSUME FetchInv
      PROVE  SessionsAreReleased
  BY <1>1 DEF FetchInv, FetchTypeOK, ReleaseOK, SessionsAreReleased
<1> QED BY <1>1, FetchInvHolds, PTL

-----------------------------------------------------------------------------
(***************************************************************************)
(* The refinement.                                                         *)
(***************************************************************************)

Link == [cursor : Nat, next : Nat]

\* What the promise sees of pages.
LEMMA SeenPages ==
    ASSUME NEW ps \in Seq(Page), NEW links,
           links = [i \in DOMAIN ps |-> [cursor |-> ps[i].cursor, next |-> ps[i].next]]
    PROVE  /\ links \in Seq(Link)
           /\ Len(links) = Len(ps) /\ Len(ps) \in Nat
           /\ DOMAIN links = 1..Len(ps) /\ DOMAIN ps = 1..Len(ps)
           /\ \A i \in 1..Len(ps) : links[i] = [cursor |-> ps[i].cursor, next |-> ps[i].next]
<1>1. Len(ps) \in Nat /\ DOMAIN ps = 1..Len(ps)
  BY LenProperties
<1>2. \A i \in 1..Len(ps) : ps[i] \in Page
  BY <1>1, ElementOfSeq
<1>3. links \in [1..Len(ps) -> Link]
  BY <1>1, <1>2 DEF Page, Link
<1>4. links \in Seq(Link)
  <2>1. Seq(Link) = UNION {[1..n -> Link] : n \in Nat}
    BY SeqDef
  <2> QED BY <1>1, <1>3, <2>1, Zenon
<1>5. Len(links) = Len(ps)
  BY <1>1, <1>3, <1>4, LenProperties
<1> QED BY <1>1, <1>3, <1>4, <1>5

LEMMA TakenPages ==
    ASSUME FetchTypeOK, verdict.class = "ok"
    PROVE  /\ PromiseTaken \in Seq(Link)
           /\ Len(PromiseTaken) = Len(pages) /\ Len(pages) \in Nat
           /\ DOMAIN PromiseTaken = 1..Len(pages) /\ DOMAIN pages = 1..Len(pages)
           /\ \A i \in 1..Len(pages) :
                PromiseTaken[i] = [cursor |-> pages[i].cursor, next |-> pages[i].next]
<1>1. PromiseTaken = [i \in DOMAIN pages |-> [cursor |-> pages[i].cursor,
                                              next |-> pages[i].next]]
  BY DEF PromiseTaken
<1>2. pages \in Seq(Page)
  BY DEF FetchTypeOK
<1> QED BY <1>1, <1>2, SeenPages

LEMMA SeenNone ==
    ASSUME NEW ps, ps = <<>>
    PROVE  [i \in DOMAIN ps |-> [cursor |-> ps[i].cursor, next |-> ps[i].next]] = <<>>
<1> DEFINE links == [i \in DOMAIN ps |-> [cursor |-> ps[i].cursor, next |-> ps[i].next]]
<1>1. ps \in Seq(Page) /\ Len(ps) = 0
  BY EmptySeq
<1>2. links \in Seq(Link) /\ Len(links) = 0
  BY <1>1, SeenPages
<1> HIDE DEF links
<1>3. links = <<>>
  BY <1>2, EmptySeq
<1> QED BY <1>3 DEF links

\* Before a listing there is nothing to see, in this state or the next.
LEMMA NothingTaken ==
    ASSUME ListOK, method # "tools/list"
    PROVE  PromiseTaken = <<>>
<1>1. pages = <<>>
  BY DEF ListOK
<1> QED BY <1>1, SeenNone, Zenon DEF PromiseTaken

LEMMA NothingTakenNext ==
    ASSUME ListOK', method' # "tools/list"
    PROVE  PromiseTaken' = <<>>
<1>1. pages' = <<>>
  BY DEF ListOK
<1> QED BY <1>1, SeenNone, Zenon DEF PromiseTaken

\* What the promise sees is unchanged.
LEMMA Stutters ==
    ASSUME UNCHANGED <<PromisePhase, PromiseFlow, PromiseTaken>>
    PROVE  UNCHANGED Promise!promise
BY DEF Promise!promise

\* A page added to a listing is a page taken.
LEMMA TakesPage ==
    ASSUME FetchInv, FetchTypeOK', ListOK', ByAnswer, method = "tools/list",
           NEW next \in 0..Len(pages) + 1, Keep(sess[Current].nextID - 1, next),
           UNCHANGED <<flow, method>>, verdict' = verdict, pc' \in {"call", "close"}
    PROVE  Promise!TakePage
<1>1. Busy /\ verdict.class = "ok" /\ verdict'.class = "ok"
  BY DEF ByAnswer, Busy, FetchInv, FlowOK
<1>2. /\ Len(pages') = Len(pages) + 1 /\ Len(pages) \in Nat
      /\ \A i \in 1..Len(pages) : pages'[i] = pages[i]
      /\ pages'[Len(pages) + 1].cursor = Len(pages)
      /\ pages'[Len(pages) + 1].next = next
  <2>1. Len(pages) \in Nat
    BY <1>1, TakenPages DEF FetchInv
  <2>2. next \in Nat
    BY <2>1
  <2> QED BY <2>2, PageTaken DEF ByAnswer
<1>3. Len(pages) < MaxPages /\ MaxPages \in Nat
      /\ \A i \in 1..Len(pages) : pages[i].cursor = i - 1 /\ pages[i].next = i
  BY <1>1, TakenPages, FetchAssumption DEF FetchInv, ListOK
<1> DEFINE p == [cursor |-> Len(pages), next |-> next]
<1>4. p \in Promise!Page /\ p \in Link
      /\ p.cursor = Len(pages)
  BY <1>2, <1>3 DEF Promise!Page, Cursors, Link
<1>5. /\ PromiseTaken \in Seq(Link) /\ Len(PromiseTaken) = Len(pages)
      /\ DOMAIN PromiseTaken = 1..Len(pages)
      /\ \A i \in 1..Len(pages) : PromiseTaken[i] = [cursor |-> i - 1, next |-> i]
  BY <1>1, <1>3, TakenPages DEF FetchInv
<1>6. PromiseTaken' = Append(PromiseTaken, p)
  <2>1. /\ PromiseTaken' = [i \in DOMAIN pages' |-> [cursor |-> pages'[i].cursor,
                                                     next |-> pages'[i].next]]
        /\ pages' \in Seq(Page)
    BY <1>1 DEF PromiseTaken, FetchTypeOK
  <2>2. /\ PromiseTaken' \in Seq(Link)
        /\ Len(PromiseTaken') = Len(pages')
        /\ \A i \in 1..Len(pages') :
             PromiseTaken'[i] = [cursor |-> pages'[i].cursor, next |-> pages'[i].next]
    BY <2>1, SeenPages
  <2>3. /\ Append(PromiseTaken, p) \in Seq(Link)
        /\ Len(Append(PromiseTaken, p)) = Len(pages) + 1
        /\ \A i \in 1..Len(pages) : Append(PromiseTaken, p)[i] = PromiseTaken[i]
        /\ Append(PromiseTaken, p)[Len(pages) + 1] = p
    BY <1>4, <1>5, AppendProperties
  <2>4. \A i \in 1..Len(pages') : PromiseTaken'[i] = Append(PromiseTaken, p)[i]
    <3>1. PromiseTaken'[Len(pages) + 1] = p
      BY <1>2, <2>2
    <3>2. \A i \in 1..Len(pages) : PromiseTaken'[i] = [cursor |-> i - 1, next |-> i]
      BY <1>2, <1>3, <2>2
    <3> QED BY <1>2, <1>5, <2>3, <3>1, <3>2
  <2> QED BY <1>2, <2>2, <2>3, <2>4, SeqEqual
<1>7. PromiseTaken # <<>> => PromiseTaken[Len(PromiseTaken)].next = Len(pages) /\ Len(pages) # 0
  BY <1>2, <1>5, EmptySeq
<1>8. p.cursor = IF PromiseTaken = <<>> THEN 0 ELSE PromiseTaken[Len(PromiseTaken)].next
  BY <1>4, <1>5, <1>7
<1>9. \A i \in DOMAIN PromiseTaken : PromiseTaken[i].cursor # p.cursor
  BY <1>2, <1>4, <1>5
<1>10. /\ PromisePhase = "listing" /\ PromisePhase' = "listing"
       /\ PromiseFlow' = PromiseFlow
  BY <1>1 DEF PromisePhase, PromiseFlow, Committed, ByAnswer, Asked
<1> HIDE DEF p
<1> QED BY <1>3, <1>4, <1>5, <1>6, <1>7, <1>8, <1>9, <1>10 DEF Promise!TakePage

\* A step of the listing's end, or of a handshake, that changes nothing of the
\* promise.
LEMMA Unseen ==
    ASSUME UNCHANGED <<flow, method, pages>>, verdict'.class = verdict.class,
           pc \notin {"check", "returned"}, pc' \notin {"check", "returned"}
    PROVE  UNCHANGED Promise!promise
<1>1. UNCHANGED <<PromisePhase, PromiseFlow, PromiseTaken>>
  BY DEF PromisePhase, PromiseFlow, PromiseTaken, Committed
<1> QED BY <1>1, Stutters

\* A failed request ends a listing; in a handshake the promise does not see it.
LEMMA FailurePromised ==
    ASSUME FetchInv, ListOK', FetchTypeOK', Asked,
           NEW class \in {"transport", "inadmissible"}, verdict'.class = class,
           UNCHANGED <<flow, method>>, pc' = "close"
    PROVE  [Promise!Next]_Promise!promise
<1>1. verdict.class = "ok"
  BY DEF FetchInv, FlowOK, Busy
<1>2. PromiseTaken' = <<>>
  BY DEF PromiseTaken
<1>3. CASE method = "tools/list"
  <2>1. PromisePhase = "listing" /\ PromisePhase' = "failed" /\ PromiseFlow' = "none"
    BY <1>1, <1>3 DEF PromisePhase, PromiseFlow, Committed, Asked
  <2> QED BY <1>2, <2>1 DEF Promise!Next, Promise!Fail
<1>4. CASE method # "tools/list"
  <2>1. PromiseTaken = <<>>
    BY <1>4, NothingTaken DEF FetchInv
  <2>2. UNCHANGED <<PromisePhase, PromiseFlow>>
    BY <1>1, <1>4 DEF PromisePhase, PromiseFlow, Committed, Asked
  <2> QED BY <1>2, <2>1, <2>2, Stutters
<1> QED BY <1>3, <1>4

\* Every step of a fetch is one of the promise, or none.
LEMMA PromiseStep ==
    ASSUME FetchInv, FetchInv', Move
    PROVE  [Promise!Next]_Promise!promise
<1> USE DEF FetchInv
<1> DEFINE Goal == [Promise!Next]_Promise!promise
<1>1. CASE Check
  <2>1. /\ pc = "check" /\ PromisePhase = "idle" /\ PromiseTaken = <<>>
    BY <1>1, NothingTaken DEF Check, FlowOK, PromisePhase
  <2>2. ASSUME NEW class \in {"transport", "inadmissible"}, Refused(class)
        PROVE  Goal
    <3>1. pc' = "returned" /\ verdict'.class = class
      BY <2>2, VerdictTyped DEF Refused, Class
    <3>2. PromisePhase' = "failed" /\ PromiseFlow' = "none" /\ PromiseTaken' = <<>>
      BY <3>1 DEF PromisePhase, PromiseFlow, PromiseTaken
    <3> QED BY <2>1, <3>2 DEF Promise!Next, Promise!Fail
  <2>3. ASSUME NEW f \in Flows, BeginAttempt(f)
        PROVE  Goal
    <3>1. pc' = "open" /\ flow' = f /\ method' \in Handshakes /\ verdict'.class = "ok"
      BY <2>3, Begun, Zenon
    <3>2. PromiseTaken' = <<>>
      BY <3>1, NothingTakenNext DEF Handshakes
    <3>3. PromisePhase' = "handshake" /\ PromiseFlow' = f
      BY <3>1 DEF PromisePhase, PromiseFlow, Committed, Handshakes
    <3> QED BY <2>1, <3>2, <3>3 DEF Promise!Next, Promise!Start, Flows
  <2> QED BY <1>1, <2>2, <2>3, Checked
<1>2. CASE Open
  <2>1. pc = "open" /\ method # "tools/list" /\ UNCHANGED <<flow, method>>
        /\ pc' \in {"call", "decide"}
    BY <1>2 DEF Open, FlowOK, Handshakes
  <2>2. PromiseTaken = <<>> /\ PromiseTaken' = <<>>
    BY <2>1, NothingTaken, NothingTakenNext
  <2>3. UNCHANGED <<PromisePhase, PromiseFlow>>
    BY <2>1 DEF PromisePhase, PromiseFlow, Committed
  <2> QED BY <2>2, <2>3, Stutters
<1>3. CASE Close \/ Send
  BY <1>3, Unseen DEF Close, Send
<1>4. CASE FallBack
  <2>1. /\ pc = "decide" /\ verdict.class # "ok" /\ method = "server/discover"
        /\ flow = "stateless" /\ pc' = "open" /\ flow' = "classic" /\ method' = "initialize"
    BY <1>4 DEF FallBack, MayFallBack, BeginAttempt, Handshake, FlowOK
  <2>2. PromiseTaken = <<>> /\ PromiseTaken' = <<>>
    BY <2>1, NothingTaken, NothingTakenNext
  <2>3. PromisePhase = "handshake" /\ PromisePhase' = "handshake"
        /\ PromiseFlow = "stateless" /\ PromiseFlow' = "classic"
    BY <2>1 DEF PromisePhase, PromiseFlow, Committed
  <2> QED BY <2>2, <2>3 DEF Promise!Next, Promise!FallBack
<1>5. CASE Return
  <2>1. pc = "decide" /\ pc' = "returned" /\ UNCHANGED <<flow, method, pages>>
    BY <1>5, Returned
  <2>2. CASE verdict.class = "ok"
    <3>1. verdict'.class = "ok"
      BY <1>5, <2>2, Returned
    <3>2. method = "tools/list" /\ pages # <<>> /\ pages[Len(pages)].next = 0
      BY <2>1, <2>2 DEF ListOK, Over
    <3>3. PromisePhase = "listing" /\ PromisePhase' = "delivered"
          /\ UNCHANGED <<PromiseFlow, PromiseTaken>>
      BY <2>1, <2>2, <3>1, <3>2
         DEF PromisePhase, PromiseFlow, PromiseTaken, Committed
    <3>4. PromiseTaken # <<>> /\ PromiseTaken[Len(PromiseTaken)].next = 0
      <4>1. Len(pages) > 0
        BY <3>2, EmptySeq DEF FetchTypeOK
      <4> QED BY <2>2, <3>2, <4>1, TakenPages
    <3> QED BY <3>3, <3>4 DEF Promise!Next, Promise!Deliver
  <2>3. CASE verdict.class # "ok"
    <3>1. verdict'.class # "ok"
      BY <1>5, <2>3, Returned
    <3>2. /\ PromisePhase \in {"handshake", "failed"}
          /\ PromisePhase = "failed" => PromiseFlow = "none"
          /\ PromiseTaken = <<>>
      BY <2>1, <2>3 DEF PromisePhase, PromiseFlow, PromiseTaken, Committed
    <3>3. PromisePhase' = "failed" /\ PromiseFlow' = "none" /\ PromiseTaken' = <<>>
      BY <2>1, <3>1 DEF PromisePhase, PromiseFlow, PromiseTaken
    <3> QED BY <3>2, <3>3, Stutters DEF Promise!Next, Promise!Fail
  <2> QED BY <2>2, <2>3
<1>6. CASE HttpHead
  <2>1. CASE CallFails("transport")
    <3>1. Asked
      BY <1>6 DEF HttpHead, Calling, Asked
    <3> QED BY <2>1, <3>1, Failed, FailurePromised
  <2>2. CASE pc' \in {"body", "stream"}
              /\ UNCHANGED <<attempt, flow, method, cursor, seen, pages, verdict>>
    BY <1>6, <2>2, Unseen DEF HttpHead, Calling
  <2> QED BY <1>6, <2>1, <2>2 DEF HttpHead
<1>7. CASE AdvanceMove
  <2>1. /\ Asked /\ pc' = "call" /\ UNCHANGED <<flow, pages, verdict>>
        /\ method # "tools/list"
        /\ method' \in {"tools/list", "notifications/initialized"}
    BY <1>7 DEF AdvanceMove, ByAnswer, Proceed, Notifying
  <2>2. CASE method' = "tools/list"
    <3>1. PromisePhase = "handshake" /\ PromisePhase' = "listing"
          /\ UNCHANGED <<PromiseFlow, PromiseTaken>>
      BY <2>1, <2>2 DEF PromisePhase, PromiseFlow, PromiseTaken, Committed, Asked, FlowOK, Busy
    <3> QED BY <3>1 DEF Promise!Next, Promise!Commit
  <2>3. CASE method' # "tools/list"
    <3>1. UNCHANGED <<PromisePhase, PromiseFlow, PromiseTaken>>
      BY <2>1, <2>3 DEF PromisePhase, PromiseFlow, PromiseTaken, Committed, Asked
    <3> QED BY <3>1, Stutters
  <2> QED BY <2>2, <2>3
<1>8. CASE FailMove
  BY <1>8, Failed, FailurePromised DEF FailMove, ByAnswer
<1>9. CASE LastPageMove
  <2>1. 0 \in 0..Len(pages) + 1
    BY LenProperties DEF FetchTypeOK
  <2> QED BY <1>9, <2>1, TakesPage DEF LastPageMove, Promise!Next
<1>10. CASE NextPageMove
  <2>1. Len(pages) + 1 \in 0..Len(pages) + 1
    BY LenProperties DEF FetchTypeOK
  <2>2. CASE pc' = "call" /\ verdict' = verdict
    BY <1>10, <2>1, <2>2, TakesPage DEF NextPageMove, Promise!Next
  <2>3. CASE pc' = "close" /\ verdict'.class = "inadmissible"
    BY <1>10, <2>3, FailurePromised DEF NextPageMove, ByAnswer
  <2> QED BY <1>10, <2>2, <2>3, MoreTaken DEF NextPageMove
<1>11. CASE StuckMove
  BY <1>11, Unseen DEF StuckMove
<1>12. CASE NoMove
  <2>1. UNCHANGED <<PromisePhase, PromiseFlow, PromiseTaken>>
    BY <1>12 DEF NoMove, fetch, PromisePhase, PromiseFlow, PromiseTaken, Committed
  <2> QED BY <2>1, Stutters
<1> QED BY <1>1, <1>2, <1>3, <1>4, <1>5, <1>6, <1>7, <1>8, <1>9, <1>10, <1>11, <1>12
        DEF Move, OwnMove

\* A fetch takes its surface over one flow, committed once, from the first page
\* to the one without a cursor, or ends without one (fetch.go:83-92, :319-349).
THEOREM PromiseImplemented == Spec => ImplementsPromise
<1>1. Init => Promise!Init
  <2> SUFFICES ASSUME Init
               PROVE  Promise!Init
    OBVIOUS
  <2>1. FetchInv /\ pc = "check" /\ flow = "none" /\ method = "none" /\ verdict.class = "ok"
    BY InitHolds DEF Init
  <2>2. PromiseTaken = <<>>
    BY <2>1, NothingTaken DEF FetchInv
  <2> QED BY <2>1, <2>2 DEF Promise!Init, PromisePhase, PromiseFlow
<1>2. FetchInv /\ FetchInv' /\ [Next]_vars => [Promise!Next]_Promise!promise
  BY Moves, PromiseStep
<1> QED BY <1>1, <1>2, FetchInvHolds, PTL DEF Spec, ImplementsPromise, Promise!Spec

=============================================================================
