---------------------------- MODULE FetchPromise ----------------------------
(***************************************************************************)
(* What client.Fetch promises, without sessions, transports or messages: a *)
(* surface is taken over one flow, from the handshake to the page that has *)
(* no cursor; the flow may be given up for the other one only while its    *)
(* handshake has not committed; anything else ends the fetch without a     *)
(* surface.                                                                *)
(***************************************************************************)
EXTENDS Integers, Sequences

CONSTANTS
    MaxPages, \* pages a surface may have
    Cursors   \* cursors a page may name

VARIABLES
    phase, \* "idle", "handshake", "listing", "delivered" or "failed"
    flow,  \* of the handshake or the listing
    taken  \* the pages: which cursor asked for each, and which one it names

promise == <<phase, flow, taken>>

Page == [cursor : Cursors \union {0}, next : Cursors \union {0}]

Start ==
    /\ phase = "idle"
    /\ phase' = "handshake"
    /\ flow' \in {"stateless", "classic"}
    /\ UNCHANGED taken

\* The stateless handshake may be given up, once, for the classic one.
FallBack ==
    /\ phase = "handshake"
    /\ flow = "stateless"
    /\ flow' = "classic"
    /\ UNCHANGED <<phase, taken>>

Commit ==
    /\ phase = "handshake"
    /\ phase' = "listing"
    /\ UNCHANGED <<flow, taken>>

\* A page is asked for with the cursor the page before it named, and no cursor
\* is followed twice.
TakePage ==
    /\ phase = "listing"
    /\ Len(taken) < MaxPages
    /\ taken # <<>> => taken[Len(taken)].next # 0
    /\ \E p \in Page :
        /\ p.cursor = IF taken = <<>> THEN 0 ELSE taken[Len(taken)].next
        /\ \A i \in DOMAIN taken : taken[i].cursor # p.cursor
        /\ taken' = Append(taken, p)
    /\ UNCHANGED <<phase, flow>>

Deliver ==
    /\ phase = "listing"
    /\ taken # <<>>
    /\ taken[Len(taken)].next = 0
    /\ phase' = "delivered"
    /\ UNCHANGED <<flow, taken>>

Fail ==
    /\ phase \in {"idle", "handshake", "listing"}
    /\ phase' = "failed"
    /\ flow' = "none"
    /\ taken' = <<>>

Init ==
    /\ phase = "idle"
    /\ flow = "none"
    /\ taken = <<>>

Next == Start \/ FallBack \/ Commit \/ TakePage \/ Deliver \/ Fail

Spec == Init /\ [][Next]_promise
=============================================================================
