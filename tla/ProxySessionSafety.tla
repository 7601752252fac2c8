------------------------- MODULE ProxySessionSafety -------------------------
(***************************************************************************)
(* The safety theorems of ProxySession.  The steps are classified once by  *)
(* what they do to the maps and the enumerations (HeapSteps) and once by   *)
(* what they do to the gate (GateSteps); each invariant is then proved     *)
(* from the classification it needs.                                       *)
(***************************************************************************)
EXTENDS ProxySessionProofs, FiniteSetTheorems

-----------------------------------------------------------------------------
(* What a step does to the in-flight map, the cursors and the enumerations. *)

heapVars == <<pending, cursors, enums>>

\* A request other than tools/list joins the in-flight map.
TracksOther(i) ==
    /\ CanTrack(i)
    /\ \E m \in Methods \ {"tools/list"}, era \in Eras \cup {None} :
          pending' = [pending EXCEPT ![i] = [method |-> m, era |-> era, enum |-> None]]
    /\ UNCHANGED <<cursors, enums>>

\* A tools/list joins the map, with a dialect or under the handshake's era.
TracksList(i) ==
    /\ CanTrack(i)
    /\ \E c \in Cursors \cup {None}, d \in Eras \cup {None} : ClientList(i, c, d)

\* A request leaves the map and no cursor is issued.
Untracks(i) ==
    /\ Untrack(i)
    /\ UNCHANGED cursors
    /\ \/ UNCHANGED enums
       \/ enums' = Collect(enums, pending', cursors)

\* Every step leaves the maps alone, tracks or untracks one request, or
\* answers a tools/list with a page.
LEMMA HeapSteps ==
    ASSUME TypeOK, [Next]_vars
    PROVE  \/ UNCHANGED heapVars
           \/ \E i \in Ids : TracksOther(i) \/ TracksList(i) \/ Untracks(i)
           \/ \E i \in Ids, page \in Pages : ServerToolsPage(i, page)
<1> DEFINE Goal == \/ UNCHANGED heapVars
                   \/ \E i \in Ids : TracksOther(i) \/ TracksList(i) \/ Untracks(i)
                   \/ \E i \in Ids, page \in Pages : ServerToolsPage(i, page)
<1>1. CASE ClientFrame
  <2>1. CASE ClientNotification
    BY <2>1 DEF ClientNotification, core, heapVars
  <2>2. ASSUME NEW i \in Ids, NEW n, NEW era,
               \/ ClientUntrackable(i)
               \/ ClientUnreadableParams(i)
               \/ ClientCallRefused(i, n)
               \/ ClientListInadmissible(i)
               \/ ClientListDrifted(i, era)
        PROVE  UNCHANGED heapVars
    BY <2>2 DEF ClientUntrackable, ClientUnreadableParams, ClientCallRefused,
                ClientListInadmissible, ClientListDrifted, ListRefused, RefusePlainly,
                core, heapVars
  <2>3. ASSUME NEW i \in Ids, NEW n, NEW era \in Eras \cup {None},
               \/ ClientInitialize(i)
               \/ ClientDiscover(i, era)
               \/ ClientOther(i)
               \/ ClientCall(i, n)
        PROVE  TracksOther(i)
    <3>1. ASSUME NEW m \in Methods \ {"tools/list"}, NEW v \in Eras \cup {None},
                 CanTrack(i), Track(i, m, v)
          PROVE  TracksOther(i)
      BY <3>1 DEF Track, TracksOther
    <3> QED
      BY <2>3, <3>1 DEF ClientInitialize, ClientDiscover, ClientOther, ClientCall, Methods
  <2>4. ASSUME NEW i \in Ids, NEW c \in Cursors \cup {None}, NEW d \in Eras \cup {None},
               ClientList(i, c, d)
        PROVE  TracksList(i)
    BY <2>4 DEF TracksList, ClientList
  <2> QED
    BY <1>1, <2>1, <2>2, <2>3, <2>4 DEF ClientFrame
<1>2. CASE ServerFrame
  <2>1. CASE ServerUnverifiable \/ ServerMethod
    BY <2>1 DEF ServerUnverifiable, ServerMethod, core, heapVars
  <2>2. ASSUME NEW i \in Ids, NEW h,
               \/ ServerError(i)
               \/ ServerOther(i)
               \/ ServerMalformed(i)
               \/ ServerInitialize(i, h)
               \/ ServerDiscover(i, h)
               \/ ServerDiscoverUntagged(i)
        PROVE  Untracks(i)
    BY <2>2 DEF ServerError, ServerOther, ServerUnjudged, ServerMalformed, ServerInitialize,
                ServerDiscover, ServerDiscoverUntagged, ServerHandshake, Untracks
  <2> QED
    BY <1>2, <2>1, <2>2 DEF ServerFrame
<1>3. CASE ClientFinish \/ ServerFinish \/ UNCHANGED vars
  BY <1>3 DEF ClientFinish, ServerFinish, core, vars, heapVars
<1> QED
  BY <1>1, <1>2, <1>3 DEF Next

-----------------------------------------------------------------------------
(* Enumerations are linear.                                                 *)

\* A fresh enumeration is one neither map points to.
LEMMA FreshEnum ==
    ASSUME TypeOK, NEW x \in FreeEnums
    PROVE  /\ x \in EnumIds
           /\ \A i \in Ids : pending[i].enum # x
           /\ \A c \in Cursors : cursors[c] # x
BY DEF FreeEnums, Referenced

\* The enumeration of a listed request: taken from the cursor, or fresh.
LEMMA ListOwner ==
    ASSUME TypeOK, OwnersOK, LinearEnumerations, NEW i \in Ids, TracksList(i)
    PROVE  \E e \in EnumIds, era \in Eras, orphan \in BOOLEAN :
             /\ pending' = [pending EXCEPT ![i] = [method |-> "tools/list", era |-> era, enum |-> e]]
             /\ pending[i] = NoReq
             /\ \A j \in Ids : pending[j].enum # e
             /\ \A c \in Cursors : cursors'[c] \in {cursors[c], None} /\ cursors'[c] # e
             /\ \/ enums' = Collect(enums, pending', cursors')
                \/ enums' = Collect([enums EXCEPT ![e] = [Blank EXCEPT !.era = era, !.orphan = orphan]],
                                    pending', cursors')
             /\ ~Warn => era \in {handshakeEra, LockEra}
             /\ era \in {handshakeEra, LockEra} \/ outcome'.drift
<1>1. PICK c \in Cursors \cup {None}, d \in Eras \cup {None} : ClientList(i, c, d)
  BY DEF TracksList
<1> DEFINE era    == IF d = None THEN handshakeEra ELSE d
           known  == c # None /\ cursors[c] # None
           e      == IF known THEN cursors[c] ELSE CHOOSE x \in FreeEnums : TRUE
           orphan == c # None
           fresh  == [Blank EXCEPT !.era = era, !.orphan = orphan]
           heap   == IF known THEN enums ELSE [enums EXCEPT ![e] = fresh]
<1>2. era \in Eras
  BY <1>1, SessionAssumption DEF ClientList, TypeOK
<1>3. TrackList(i, c, era)
  BY <1>1 DEF ClientList
<1>4. known \/ FreeEnums # {}
  BY <1>3 DEF TrackList
<1>5. /\ e \in EnumIds
      /\ \A j \in Ids : pending[j].enum # e
      /\ ~known => \A k \in Cursors : cursors[k] # e
      /\ known => c \in Cursors /\ \A k \in Cursors : cursors[k] = e => k = c
  <2>1. CASE known
    <3>1. c \in Cursors /\ e = cursors[c] /\ e \in EnumIds
      BY <2>1 DEF TypeOK
    <3>2. \A j \in Ids : pending[j].enum # e
      BY <2>1, <3>1, SessionAssumption DEF LinearEnumerations
    <3>3. \A k \in Cursors : cursors[k] = e => k = c
      BY <2>1, <3>1 DEF LinearEnumerations
    <3> QED
      BY <2>1, <3>1, <3>2, <3>3
  <2>2. CASE ~known
    <3>1. e \in FreeEnums
      BY <1>4, <2>2
    <3> HIDE DEF e, known
    <3> QED
      BY <2>2, <3>1, FreshEnum
  <2> QED
    BY <2>1, <2>2
<1>6. pending' = [pending EXCEPT ![i] = [method |-> "tools/list", era |-> era, enum |-> e]]
  BY <1>3 DEF TrackList
<1>7. cursors' = IF known THEN [cursors EXCEPT ![c] = None] ELSE cursors
  BY <1>3 DEF TrackList
<1>8. enums' = Collect(heap, pending', cursors')
  BY <1>3 DEF TrackList
<1>9. \A k \in Cursors : cursors'[k] \in {cursors[k], None} /\ cursors'[k] # e
  <2> HIDE DEF e
  <2> QED
    BY <1>5, <1>7, SessionAssumption DEF TypeOK
<1>10. pending[i] = NoReq
  BY DEF TracksList, CanTrack
<1>11. ~Warn => era \in {handshakeEra, LockEra}
  BY <1>1, SessionAssumption DEF ClientList, ListDrifts, resolveDrift
<1>12. orphan \in BOOLEAN
  OBVIOUS
<1>13. \/ enums' = Collect(enums, pending', cursors')
       \/ enums' = Collect([enums EXCEPT ![e] = [Blank EXCEPT !.era = era, !.orphan = orphan]],
                           pending', cursors')
  BY <1>8
<1>14. era \in {handshakeEra, LockEra} \/ outcome'.drift
  BY <1>1, SessionAssumption DEF ClientList, ListDrifts, resolveDrift, Recorded, TypeOK
<1> HIDE DEF e, era, orphan
<1> QED
  BY <1>2, <1>5, <1>6, <1>9, <1>10, <1>11, <1>12, <1>13, <1>14

\* The verdict on a page that answers request i.
PageVerdict(i, page) == verifyToolsPage(enums[pending[i].enum], page)

\* What a page does to the two maps and to its enumeration.
LEMMA PageOwner ==
    ASSUME TypeOK, OwnersOK, NEW i \in Ids, NEW page \in Pages, ServerToolsPage(i, page)
    PROVE  /\ pending[i].enum \in EnumIds
           /\ pending' = [pending EXCEPT ![i] = NoReq]
           /\ \/ cursors' = cursors
              \/ /\ ~PageVerdict(i, page).refuse
                 /\ page.next \in Cursors
                 /\ Cardinality(TrackedCursors) < MaxTrackedCursors
                 /\ cursors' = [cursors EXCEPT ![page.next] = pending[i].enum]
<1>1. pending[i].enum \in EnumIds
  BY DEF ServerToolsPage, OwnersOK
<1>2. pending' = [pending EXCEPT ![i] = NoReq]
  BY DEF ServerToolsPage, Untrack
<1>3. cursors' = IF Continues(page, PageVerdict(i, page))
                   THEN [cursors EXCEPT ![page.next] = pending[i].enum] ELSE cursors
  BY DEF ServerToolsPage, PageVerdict
<1>4. Continues(page, PageVerdict(i, page)) =>
        /\ ~PageVerdict(i, page).refuse
        /\ page.next \in Cursors
        /\ Cardinality(TrackedCursors) < MaxTrackedCursors
  BY DEF Continues, Pages
<1> QED
  BY <1>1, <1>2, <1>3, <1>4

\* No step gives an enumeration a second owner.
LEMMA LinearStep ==
    ASSUME TypeOK, OwnersOK, LinearEnumerations, [Next]_vars
    PROVE  LinearEnumerations'
<1>1. CASE UNCHANGED heapVars
  BY <1>1 DEF heapVars, LinearEnumerations
<1>2. ASSUME NEW i \in Ids, TracksOther(i)
      PROVE  LinearEnumerations'
  BY <1>2 DEF TracksOther, LinearEnumerations, TypeOK
<1>3. ASSUME NEW i \in Ids, Untracks(i)
      PROVE  LinearEnumerations'
  BY <1>3 DEF Untracks, Untrack, NoReq, LinearEnumerations, TypeOK
<1>4. ASSUME NEW i \in Ids, TracksList(i)
      PROVE  LinearEnumerations'
  <2>1. PICK e \in EnumIds, era \in Eras :
               /\ pending' = [pending EXCEPT ![i] = [method |-> "tools/list", era |-> era, enum |-> e]]
               /\ \A j \in Ids : pending[j].enum # e
               /\ \A c \in Cursors : cursors'[c] \in {cursors[c], None} /\ cursors'[c] # e
    BY <1>4, ListOwner
  <2>2. /\ pending'[i].enum = e
        /\ \A j \in Ids \ {i} : pending'[j] = pending[j]
    BY <2>1 DEF TypeOK
  <2>3. \A j, k \in Ids :
          pending'[j].enum # None /\ pending'[j].enum = pending'[k].enum => j = k
    BY <2>1, <2>2 DEF LinearEnumerations
  <2>4. \A c, d \in Cursors : cursors'[c] # None /\ cursors'[c] = cursors'[d] => c = d
    BY <2>1 DEF LinearEnumerations
  <2>5. \A j \in Ids, c \in Cursors :
          pending'[j].enum # None => pending'[j].enum # cursors'[c]
    BY <2>1, <2>2 DEF LinearEnumerations
  <2> QED
    BY <2>3, <2>4, <2>5 DEF LinearEnumerations
<1>5. ASSUME NEW i \in Ids, NEW page \in Pages, ServerToolsPage(i, page)
      PROVE  LinearEnumerations'
  <2> DEFINE e == pending[i].enum
  <2>1. /\ e \in EnumIds
        /\ pending' = [pending EXCEPT ![i] = NoReq]
        /\ \/ cursors' = cursors
           \/ page.next \in Cursors /\ cursors' = [cursors EXCEPT ![page.next] = e]
    BY <1>5, PageOwner
  <2>2. /\ pending'[i].enum = None
        /\ \A j \in Ids \ {i} : pending'[j] = pending[j] /\ pending[j].enum # e
        /\ \A c \in Cursors : cursors[c] # e
    BY <2>1, SessionAssumption DEF LinearEnumerations, NoReq, TypeOK
  <2>3. \A c \in Cursors : \/ cursors'[c] = cursors[c]
                           \/ cursors'[c] = e /\ c = page.next
    BY <2>1 DEF TypeOK
  <2>4. \A j, k \in Ids :
          pending'[j].enum # None /\ pending'[j].enum = pending'[k].enum => j = k
    BY <2>2 DEF LinearEnumerations
  <2>5. \A c, d \in Cursors : cursors'[c] # None /\ cursors'[c] = cursors'[d] => c = d
    BY <2>2, <2>3 DEF LinearEnumerations
  <2>6. \A j \in Ids, c \in Cursors :
          pending'[j].enum # None => pending'[j].enum # cursors'[c]
    BY <2>2, <2>3 DEF LinearEnumerations
  <2> QED
    BY <2>4, <2>5, <2>6 DEF LinearEnumerations
<1> QED
  BY <1>1, <1>2, <1>3, <1>4, <1>5, HeapSteps

\* An enumeration never has two owners, whatever the client pipelines and the
\* upstream answers (single-use cursors, proxy.go:476-478 and 611-612).
THEOREM LinearCorrect == Spec => []LinearEnumerations
<1>1. Init => LinearEnumerations
  BY DEF Init, LinearEnumerations, NoReq
<1>2. TypeOK /\ OwnersOK /\ LinearEnumerations /\ [Next]_vars => LinearEnumerations'
  BY LinearStep
<1> QED
  BY <1>1, <1>2, TypeCorrect, PTL DEF Spec

-----------------------------------------------------------------------------
(* Verdicts.                                                                *)

\* A page that is not refused breaks no rule and declares only what the policy
\* forwards; one without drift declares only what is locked.
LEMMA VettedPage ==
    ASSUME NEW en, NEW page \in Pages, ~verifyToolsPage(en, page).refuse
    PROVE  /\ ~PageInadmissible(en, page)
           /\ \A n \in Listed(page.tools) : page.tools[n] \in Forwardable
           /\ ~verifyToolsPage(en, page).drift =>
                 \A n \in Listed(page.tools) : page.tools[n] = "locked"
<1>1. ~PageInadmissible(en, page)
  BY DEF verifyToolsPage, inadmissibleVerdict
<1>2. CASE PageDrifts(en, page)
  <2>1. verifyToolsPage(en, page) = resolveDrift(NewPromptText(page))
    BY <1>1, <1>2 DEF verifyToolsPage
  <2>2. Warn /\ ~NewPromptText(page) /\ verifyToolsPage(en, page).drift
    BY <2>1 DEF resolveDrift
  <2>3. ASSUME NEW n \in Listed(page.tools)
        PROVE  page.tools[n] \in {"locked", "benign"}
    BY <2>2, <2>3 DEF NewPromptText, Listed, Pages, ToolMaps, Declarations
  <2> QED
    BY <1>1, <2>2, <2>3 DEF Forwardable
<1>3. CASE ~PageDrifts(en, page)
  <2>1. \A n \in Listed(page.tools) : page.tools[n] = "locked"
    BY <1>3 DEF PageDrifts
  <2> QED
    BY <1>1, <2>1 DEF Forwardable
<1> QED
  BY <1>2, <1>3

\* A handshake that is not refused changed no instructions, and in strict mode
\* runs under the locked era.
LEMMA VettedHandshake ==
    ASSUME NEW flow, NEW h \in Handshakes, ~verifyHandshake(flow, h).refuse
    PROVE  h.instr = "locked" /\ (~Warn => h.era = LockEra)
BY DEF verifyHandshake, inadmissibleVerdict, forwardVerdict, resolveDrift, Handshakes

-----------------------------------------------------------------------------
(* The gate on tools/call.                                                  *)

\* What a client frame leaves alone: the verified list only ever shrinks to
\* nothing, and a call is admitted only for a verified tool.
LEMMA ClientGate ==
    ASSUME TypeOK, ClientFrame
    PROVE  /\ presented' = presented
           /\ \/ callable' = callable /\ clientStep'.name = None
              \/ callable' = {} /\ clientStep'.name = None
              \/ callable' = callable /\ clientStep'.name \in callable
<1>1. presented' = presented
  BY DEF ClientFrame
<1>2. ForwardUpstream(None) \/ ReplyToClient => clientStep'.name = None
  BY DEF ForwardUpstream, ReplyToClient
<1>3. CASE ClientNotification
  BY <1>1, <1>2, <1>3 DEF ClientNotification
<1>4. ASSUME NEW i \in Ids, NEW n, NEW c, NEW era,
             \/ ClientUntrackable(i)
             \/ ClientUnreadableParams(i)
             \/ ClientCallRefused(i, n)
             \/ ClientInitialize(i)
             \/ ClientDiscover(i, era)
             \/ ClientOther(i)
             \/ ClientList(i, c, era)
      PROVE  callable' = callable /\ clientStep'.name = None
  BY <1>2, <1>4 DEF ClientUntrackable, ClientUnreadableParams, ClientCallRefused, RefusePlainly,
                    ClientInitialize, ClientDiscover, ClientOther, ClientList, Track
<1>5. ASSUME NEW i \in Ids, NEW era, ClientListInadmissible(i) \/ ClientListDrifted(i, era)
      PROVE  callable' = {} /\ clientStep'.name = None
  BY <1>2, <1>5 DEF ClientListInadmissible, ClientListDrifted, ListRefused, Callable,
                    inadmissibleVerdict
<1>6. ASSUME NEW i \in Ids, NEW n, ClientCall(i, n)
      PROVE  callable' = callable /\ clientStep'.name \in callable
  BY <1>6 DEF ClientCall, Track, ForwardUpstream
<1> QED
  BY <1>1, <1>3, <1>4, <1>5, <1>6 DEF ClientFrame

\* What an upstream frame does to the verified list: nothing, or it revokes it,
\* or a vetted page joins it.
LEMMA ServerGate ==
    ASSUME TypeOK, OwnersOK, ServerFrame
    PROVE  /\ clientStep' = clientStep
           /\ \/ callable' \in {callable, {}} /\ presented' = presented
              \/ callable' = {} /\ presented' \in ToolMaps
              \/ \E page \in Pages :
                    /\ callable' = callable \cup Listed(page.tools)
                    /\ presented' = Merge(page.tools, presented)
                    /\ \A n \in Listed(page.tools) : page.tools[n] \in Forwardable
<1>1. clientStep' = clientStep
  BY DEF ServerFrame
<1>2. CASE ServerUnverifiable \/ ServerMethod
  BY <1>1, <1>2 DEF ServerUnverifiable, ServerMethod
<1>3. ASSUME NEW i \in Ids, NEW h,
             \/ ServerError(i)
             \/ ServerOther(i)
             \/ ServerMalformed(i)
             \/ ServerInitialize(i, h)
             \/ ServerDiscover(i, h)
             \/ ServerDiscoverUntagged(i)
      PROVE  callable' \in {callable, {}} /\ presented' = presented
  BY <1>3 DEF ServerError, ServerOther, ServerUnjudged, ServerMalformed, ServerInitialize,
              ServerDiscover, ServerDiscoverUntagged, ServerHandshake, Callable
<1>4. ASSUME NEW i \in Ids, NEW page \in Pages, ServerToolsPage(i, page)
      PROVE  \/ callable' = {} /\ presented' \in ToolMaps
             \/ /\ callable' = callable \cup Listed(page.tools)
                /\ presented' = Merge(page.tools, presented)
                /\ \A n \in Listed(page.tools) : page.tools[n] \in Forwardable
  <2> DEFINE en == enums[pending[i].enum]
             vd == verifyToolsPage(en, page)
  <2>1. callable' = Callable(vd, Listed(page.tools))
    BY <1>4 DEF ServerToolsPage
  <2>2. presented' = IF page.readable /\ en.pages < MaxPages
                       THEN Merge(page.tools, presented) ELSE presented
    BY <1>4 DEF ServerToolsPage
  <2>3. CASE vd.refuse
    <3>1. presented' \in ToolMaps
      BY <1>4, ToolsPageType, <1>1 DEF TypeOK, ServerToolsPage, ServerFrame, OwnersOK
    <3> QED
      BY <2>1, <2>3, <3>1 DEF Callable
  <2>4. CASE ~vd.refuse
    <3>1. ~PageInadmissible(en, page)
      BY <2>4, VettedPage
    <3>2. en.pages \in Nat
      BY <1>4 DEF TypeOK, Enumerations, OwnersOK, ServerToolsPage
    <3>3. MaxPages \in Nat
      BY SessionAssumption
    <3>4. page.readable /\ ~(en.pages + 1 > MaxPages)
      BY <3>1 DEF PageInadmissible
    <3>5. en.pages < MaxPages
      BY <3>2, <3>3, <3>4
    <3> QED
      BY <2>1, <2>2, <2>4, <3>4, <3>5, VettedPage DEF Callable
  <2> QED
    BY <2>3, <2>4
<1> QED
  BY <1>1, <1>2, <1>3, <1>4 DEF ServerFrame

\* Every step of a session is a step of the gate, or leaves the gate alone.
LEMMA GateSteps ==
    ASSUME TypeOK, OwnersOK, [Next]_vars
    PROVE  [Gate!GateNext]_(Gate!gateVars)
<1> USE DEF Gate!GateNext, Gate!gateVars
<1>1. presented \in [Names -> Declarations] /\ callable \subseteq Names
  BY DEF TypeOK, ToolMaps
<1>2. CASE ClientFrame
  <2>1. clientStep.name = None
    BY <1>2 DEF ClientFrame, ClientIdle
  <2>2. CASE callable' = callable /\ clientStep'.name = None
    BY <1>2, <2>1, <2>2, ClientGate
  <2>3. CASE callable' = {} /\ clientStep'.name = None
    BY <1>1, <1>2, <2>1, <2>3, ClientGate DEF Gate!Refuse
  <2>4. CASE callable' = callable /\ clientStep'.name \in callable
    BY <1>1, <1>2, <2>1, <2>4, ClientGate DEF Gate!Admit
  <2> QED
    BY <1>2, <2>2, <2>3, <2>4, ClientGate
<1>3. CASE ServerFrame
  <2>1. clientStep' = clientStep
    BY <1>3, ServerGate
  <2>2. CASE callable' = callable /\ presented' = presented
    BY <2>1, <2>2
  <2>3. CASE callable' = {} /\ (presented' = presented \/ presented' \in ToolMaps)
    BY <1>1, <2>1, <2>3 DEF Gate!Refuse, ToolMaps
  <2>4. ASSUME NEW page \in Pages,
               callable' = callable \cup Listed(page.tools),
               presented' = Merge(page.tools, presented),
               \A n \in Listed(page.tools) : page.tools[n] \in Forwardable
        PROVE  Gate!Accept(Listed(page.tools)) /\ Listed(page.tools) \in SUBSET Names
    <3>1. presented' \in [Names -> Declarations]
      BY <2>4, MergeType DEF TypeOK, Pages, ToolMaps
    <3>2. \A n \in Names : presented'[n] = IF n \in Listed(page.tools)
                                             THEN page.tools[n] ELSE presented[n]
      BY <2>4 DEF Merge
    <3> QED
      BY <2>1, <2>4, <3>1, <3>2 DEF Gate!Accept, Listed
  <2> QED
    BY <1>3, <2>2, <2>3, <2>4, ServerGate
<1>4. CASE ClientFinish
  BY <1>4 DEF ClientFinish, ClientIdle, Gate!Leave
<1>5. CASE ServerFinish \/ UNCHANGED vars
  BY <1>5 DEF ServerFinish, vars
<1> QED
  BY <1>2, <1>3, <1>4, <1>5 DEF Next

\* A session implements the abstract gate of ToolGate: tools become callable
\* only by a page the policy forwards, all of them stop being callable on any
\* refusal, and a call is admitted only for a callable tool (proxy.go:420-431,
\* verify.go:36-46 and 299).
THEOREM GateImplemented == Spec => ImplementsToolGate
<1>1. Init => Gate!GateInit
  BY DEF Init, Gate!GateInit, NoTools, ClientIdle
<1>2. TypeOK /\ OwnersOK /\ [Next]_vars => [Gate!GateNext]_(Gate!gateVars)
  BY GateSteps
<1> QED
  BY <1>1, <1>2, TypeCorrect, PTL DEF Spec, ImplementsToolGate, Gate!GateSpec

\* A tool is callable only while the declaration last presented for it is one
\* the policy forwards, for any number of requests, pages and tools.
THEOREM CallableCorrect == Spec => []CallableIsCurrent
<1>1. Init => CallableIsCurrent
  BY DEF Init, CallableIsCurrent
<1>2. TypeOK /\ OwnersOK /\ CallableIsCurrent /\ [Next]_vars => CallableIsCurrent'
  <2> SUFFICES ASSUME TypeOK, OwnersOK, CallableIsCurrent, [Next]_vars
               PROVE  CallableIsCurrent'
    OBVIOUS
  <2>1. callable \subseteq Names
    BY DEF TypeOK
  <2>2. [Gate!GateNext]_(Gate!gateVars)
    BY GateSteps
  <2> QED
    BY <2>1, <2>2 DEF Gate!GateNext, Gate!gateVars, Gate!Accept, Gate!Refuse, Gate!Admit,
                      Gate!Leave, CallableIsCurrent
<1> QED
  BY <1>1, <1>2, TypeCorrect, PTL DEF Spec

-----------------------------------------------------------------------------
(* The era of the session and what the enumerations have read.              *)

\* In strict mode neither the session, nor a frame on its way to the client,
\* nor the backend is under an era other than the locked one.
EraOK == ~Warn => {handshakeEra, serverStep.proto, backend.proto} \subseteq {None, LockEra}

\* An enumeration worth continuing: not poisoned; unless a warning was
\* forwarded for it, it has listed locked declarations only; and in strict mode
\* it runs under the locked era.
Sound(en) ==
    /\ ~en.poisoned
    /\ ~en.warned => \A n \in Names : en.tools[n] \in {"absent", "locked"}
    /\ ~Warn => en.era \in {None, LockEra}

EnumsSound == \A e \in EnumIds : Sound(enums[e])

\* Collecting garbage leaves sound enumerations sound.
LEMMA CollectSound ==
    ASSUME NEW heap, NEW p, NEW cs,
           \A e \in EnumIds : e \in Referenced(p, cs) => Sound(heap[e])
    PROVE  \A e \in EnumIds : Sound(Collect(heap, p, cs)[e])
<1>1. Sound(Blank)
  BY DEF Sound, Blank, NoTools
<1> QED
  BY <1>1 DEF Collect

\* Extending an enumeration by a page that is not refused keeps it sound.
LEMMA ExtendedSound ==
    ASSUME NEW en \in Enumerations, NEW page \in Pages, Sound(en),
           ~verifyToolsPage(en, page).refuse
    PROVE  Sound(Extended(en, page, verifyToolsPage(en, page)))
<1> DEFINE vd  == verifyToolsPage(en, page)
           ext == Extended(en, page, vd)
<1>1. ~ext.poisoned
  BY DEF Extended, Sound
<1>2. ext.era = en.era
  BY DEF Extended
<1>3. ASSUME ~ext.warned
      PROVE  \A n \in Names : ext.tools[n] \in {"absent", "locked"}
  <2>1. ~en.warned /\ ~vd.drift
    BY <1>3 DEF Extended
  <2>2. \A n \in Listed(page.tools) : page.tools[n] = "locked"
    BY <2>1, VettedPage
  <2>3. ext.tools = Merge(page.tools, en.tools)
    BY DEF Extended
  <2> QED
    BY <2>1, <2>2, <2>3 DEF Merge, Sound
<1> HIDE DEF ext
<1>4. Sound(ext)
  BY <1>1, <1>2, <1>3 DEF Sound
<1> QED
  BY <1>4 DEF ext

\* No step leaves the locked era in strict mode.
LEMMA EraStep ==
    ASSUME TypeOK, OwnersOK, EraOK, [Next]_vars
    PROVE  EraOK'
<1> SUFFICES ASSUME ~Warn PROVE EraOK'
  BY DEF EraOK
<1>1. UNCHANGED <<handshakeEra, serverStep, backend>> => EraOK'
  BY DEF EraOK
<1>2. ASSUME handshakeEra' \in {handshakeEra, LockEra}, backend' = backend,
             serverStep'.proto \in {serverStep.proto, None, LockEra}
      PROVE  EraOK'
  BY <1>2 DEF EraOK
<1>3. CASE ClientFrame
  <2>1. ASSUME NEW i \in Ids, NEW n, NEW c, NEW era,
               \/ ClientNotification
               \/ ClientUntrackable(i)
               \/ ClientUnreadableParams(i)
               \/ ClientInitialize(i)
               \/ ClientDiscover(i, era)
               \/ ClientOther(i)
               \/ ClientCallRefused(i, n)
               \/ ClientCall(i, n)
               \/ ClientListInadmissible(i)
               \/ ClientListDrifted(i, era)
               \/ ClientList(i, c, era)
        PROVE  handshakeEra' = handshakeEra
    BY <2>1 DEF ClientNotification, ClientUntrackable, ClientUnreadableParams, ClientInitialize,
                ClientDiscover, ClientOther, ClientCallRefused, ClientCall, RefusePlainly, Track,
                ClientListInadmissible, ClientListDrifted, ListRefused, ClientList, core
  <2>2. CASE ClientNotification
    BY <1>1, <1>3, <2>2 DEF ClientFrame, ClientNotification, core
  <2> QED
    BY <1>1, <1>3, <2>1, <2>2 DEF ClientFrame
<1>4. CASE ServerFrame
  <2>1. backend' = backend
    BY <1>4 DEF ServerFrame
  <2>2. [ServerIdle EXCEPT !.op = "forward"].proto = None
    BY DEF ServerIdle
  <2>3. \A code : [ServerIdle EXCEPT !.op = "reply", !.code = code].proto = None
    BY DEF ServerIdle
  <2>4. \A t : [ServerIdle EXCEPT !.op = "forward", !.tools = t].proto = None
    BY DEF ServerIdle
  <2>5. CASE ServerUnverifiable \/ ServerMethod
    BY <1>2, <2>1, <2>2, <2>5 DEF ServerUnverifiable, ServerMethod, ForwardRaw, core
  <2>6. ASSUME NEW i \in Ids, ServerError(i) \/ ServerOther(i) \/ ServerMalformed(i)
        PROVE  EraOK'
    BY <1>2, <2>1, <2>2, <2>3, <2>6
       DEF ServerError, ServerOther, ServerUnjudged, ServerMalformed, ForwardRaw, RefuseResponse
  <2>7. ASSUME NEW i \in Ids, NEW h, NEW vd, ServerHandshake(i, h, vd),
               ~vd.refuse => h.era = LockEra
        PROVE  EraOK'
    <3>1. handshakeEra' \in {handshakeEra, LockEra}
      BY <2>7 DEF ServerHandshake
    <3>2. CASE vd.refuse
      BY <1>2, <2>1, <2>3, <2>7, <3>1, <3>2 DEF ServerHandshake, RefuseResponse
    <3>3. CASE ~vd.refuse
      <4>1. serverStep'.proto \in {None, h.era}
        BY <2>7, <3>3 DEF ServerHandshake, ServerIdle
      <4> QED
        BY <1>2, <2>1, <2>7, <3>1, <3>3, <4>1
    <3> QED
      BY <3>2, <3>3
  <2>8. ASSUME NEW i \in Ids, NEW h \in Handshakes, ServerInitialize(i, h) \/ ServerDiscover(i, h)
        PROVE  EraOK'
    <3>1. \A flow : ~verifyHandshake(flow, h).refuse => h.era = LockEra
      BY VettedHandshake
    <3> QED
      BY <2>7, <2>8, <3>1 DEF ServerInitialize, ServerDiscover
  <2>9. ASSUME NEW i \in Ids, ServerDiscoverUntagged(i)
        PROVE  EraOK'
    BY <2>7, <2>9 DEF ServerDiscoverUntagged, inadmissibleVerdict
  <2>10. ASSUME NEW i \in Ids, NEW page, ServerToolsPage(i, page)
         PROVE  EraOK'
    <3>1. handshakeEra' = handshakeEra /\ serverStep'.proto = None
      BY <2>3, <2>4, <2>10 DEF ServerToolsPage, RefuseResponse
    <3> QED
      BY <1>2, <2>1, <3>1
  <2> QED
    BY <1>4, <2>5, <2>6, <2>8, <2>9, <2>10 DEF ServerFrame
<1>5. CASE ServerFinish
  BY <1>5, SessionAssumption DEF ServerFinish, ServerIdle, EraOK, core
<1>6. CASE ClientFinish \/ UNCHANGED vars
  BY <1>1, <1>6 DEF ClientFinish, vars, core
<1> QED
  BY <1>3, <1>4, <1>5, <1>6 DEF Next

\* No step makes an enumeration that is still pointed to unsound.
LEMMA SoundStep ==
    ASSUME TypeOK, OwnersOK, LinearEnumerations, EraOK, EnumsSound, [Next]_vars
    PROVE  EnumsSound'
<1>1. UNCHANGED enums => EnumsSound'
  BY DEF EnumsSound
<1>2. \A p, cs : enums' = Collect(enums, p, cs) => EnumsSound'
  BY CollectSound DEF EnumsSound
<1>3. ASSUME NEW i \in Ids, TracksOther(i) \/ Untracks(i)
      PROVE  EnumsSound'
  BY <1>1, <1>2, <1>3 DEF TracksOther, Untracks
<1>4. ASSUME NEW i \in Ids, TracksList(i)
      PROVE  EnumsSound'
  <2>1. PICK e \in EnumIds, era \in Eras, orphan \in BOOLEAN :
               /\ \/ enums' = Collect(enums, pending', cursors')
                  \/ enums' = Collect([enums EXCEPT ![e] = [Blank EXCEPT !.era = era,
                                                                         !.orphan = orphan]],
                                      pending', cursors')
               /\ ~Warn => era \in {handshakeEra, LockEra}
    BY <1>4, ListOwner
  <2> DEFINE fresh == [Blank EXCEPT !.era = era, !.orphan = orphan]
  <2>2. ~Warn => era \in {None, LockEra}
    BY <2>1 DEF EraOK
  <2>3. Sound(fresh)
    BY <2>2 DEF Sound, Blank, NoTools
  <2> HIDE DEF fresh
  <2>4. \A x \in EnumIds : Sound([enums EXCEPT ![e] = fresh][x])
    BY <2>3 DEF EnumsSound, TypeOK
  <2>5. enums' = Collect([enums EXCEPT ![e] = fresh], pending', cursors') => EnumsSound'
    BY <2>4, CollectSound DEF EnumsSound
  <2> QED
    BY <1>2, <2>1, <2>5 DEF fresh
<1>5. ASSUME NEW i \in Ids, NEW page \in Pages, ServerToolsPage(i, page)
      PROVE  EnumsSound'
  <2> DEFINE e    == pending[i].enum
             en   == enums[e]
             vd   == verifyToolsPage(en, page)
             ext  == Extended(en, page, vd)
             heap == [enums EXCEPT ![e] = ext]
  <2>1. e \in EnumIds
    BY <1>5, PageOwner
  <2>2. enums' = Collect(heap, pending', cursors')
    BY <1>5 DEF ServerToolsPage
  <2>3. CASE vd.refuse
    <3>1. /\ pending' = [pending EXCEPT ![i] = NoReq]
          /\ cursors' = cursors
      BY <1>5, <2>3, PageOwner DEF PageVerdict
    <3>2. e \notin Referenced(pending', cursors')
      <4>1. \A j \in Ids : pending'[j].enum # e
        <5>1. pending'[i].enum = None /\ e # None
          BY <2>1, <3>1, SessionAssumption DEF NoReq, TypeOK
        <5>2. \A j \in Ids \ {i} : pending'[j] = pending[j] /\ pending[j].enum # e
          BY <3>1, <5>1 DEF LinearEnumerations, TypeOK
        <5> QED
          BY <5>1, <5>2
      <4>2. \A c \in Cursors : cursors'[c] # e
        BY <2>1, <3>1, SessionAssumption DEF LinearEnumerations
      <4> HIDE DEF e
      <4> QED
        BY <4>1, <4>2 DEF Referenced
    <3>3. \A x \in EnumIds : x \in Referenced(pending', cursors') => heap[x] = enums[x]
      BY <2>1, <3>2 DEF TypeOK
    <3> HIDE DEF heap
    <3> QED
      BY <2>2, <3>3, CollectSound DEF EnumsSound
  <2>4. CASE ~vd.refuse
    <3>1. Sound(ext)
      BY <2>1, <2>4, ExtendedSound DEF EnumsSound, TypeOK
    <3> HIDE DEF ext
    <3>2. \A x \in EnumIds : Sound(heap[x])
      BY <2>1, <3>1 DEF EnumsSound, TypeOK
    <3> HIDE DEF heap
    <3> QED
      BY <2>2, <3>2, CollectSound DEF EnumsSound
  <2> QED
    BY <2>3, <2>4
<1> QED
  BY <1>1, <1>3, <1>4, <1>5, HeapSteps DEF heapVars

\* The inductive invariant behind the three theorems that follow.
LEMMA SessionInvariant == Spec => [](EraOK /\ EnumsSound)
<1>1. Init => EraOK /\ EnumsSound
  BY DEF Init, EraOK, EnumsSound, Sound, Blank, NoTools, ServerIdle
<1>2. TypeOK /\ OwnersOK /\ LinearEnumerations /\ EraOK /\ EnumsSound /\ [Next]_vars
        => (EraOK /\ EnumsSound)'
  BY EraStep, SoundStep
<1> QED
  BY <1>1, <1>2, TypeCorrect, LinearCorrect, PTL DEF Spec

\* A refused page ends its enumeration: no cursor and no request in flight
\* reaches a poisoned one (verify.go:58 and 409), so no verdict can follow.
THEOREM PoisonCorrect == Spec => []NoPoisonedContinuation
<1>1. EnumsSound => NoPoisonedContinuation
  BY DEF EnumsSound, Sound, NoPoisonedContinuation
<1> QED
  BY <1>1, SessionInvariant, PTL

\* Under the strict policy no part of a session leaves the locked era
\* (verifyHandshake and prepareToolsList, the lock's protocol.era).
THEOREM StrictEraCorrect == Spec => []StrictEra
<1>1. EraOK /\ EnumsSound => StrictEra
  BY DEF EraOK, EnumsSound, Sound, StrictEra
<1> QED
  BY <1>1, SessionInvariant, PTL

\* The rollup check is redundant: an enumeration that passes every other check
\* of the completion verdict has exactly the locked surface (verify.go:440-452).
THEOREM RollupCorrect == Spec => []RollupNeverDisagrees
<1>1. TypeOK /\ OwnersOK /\ EnumsSound => RollupNeverDisagrees
  <2> SUFFICES ASSUME TypeOK, OwnersOK, EnumsSound,
                      NEW i \in Ids, pending[i].method = "tools/list",
                      NEW page \in Pages,
                      ClaimsClean(enums[pending[i].enum], page)
               PROVE  RollupAgrees(enums[pending[i].enum], page)
    BY DEF RollupNeverDisagrees
  <2> DEFINE en == enums[pending[i].enum]
             m  == Merge(page.tools, en.tools)
  <2>1. pending[i].enum \in EnumIds
    BY DEF OwnersOK
  <2>2. en \in Enumerations /\ Sound(en)
    BY <2>1 DEF TypeOK, EnumsSound
  <2>3. \A n \in Listed(page.tools) : page.tools[n] = "locked"
    BY DEF ClaimsClean, PageDrifts
  <2>4. LockNames \subseteq Listed(m)
    BY DEF ClaimsClean, PageDrifts
  <2>5. m \in ToolMaps
    BY <2>2, MergeType DEF Pages, Enumerations
  <2>6. \A n \in Names : m[n] \in {"absent", "locked"}
    BY <2>2, <2>3 DEF Merge, Sound, ClaimsClean
  <2> HIDE DEF m
  <2>7. \A n \in Names : m[n] = IF n \in LockNames THEN "locked" ELSE "absent"
    BY <2>4, <2>5, <2>6 DEF Listed, ToolMaps, DeclarationsOf
  <2>8. m = LockedTools
    BY <2>5, <2>7 DEF LockedTools, ToolMaps
  <2> QED
    BY <2>8 DEF RollupAgrees, m
<1> QED
  BY <1>1, TypeCorrect, SessionInvariant, PTL

-----------------------------------------------------------------------------
(* What the exit code reports, and what the client is shown.                *)

\* The outcome flags are never taken back.
LEMMA OutcomeGrows ==
    ASSUME TypeOK, [Next]_vars
    PROVE  /\ outcome.drift => outcome'.drift
           /\ outcome.inadmissible => outcome'.inadmissible
<1>1. UNCHANGED outcome => /\ outcome.drift => outcome'.drift
                           /\ outcome.inadmissible => outcome'.inadmissible
  OBVIOUS
<1>2. \A vd : outcome' = Recorded(vd) => /\ outcome.drift => outcome'.drift
                                         /\ outcome.inadmissible => outcome'.inadmissible
  BY DEF Recorded, TypeOK
<1>3. CASE ClientFrame
  <2>1. CASE ClientNotification
    BY <1>1, <2>1 DEF ClientNotification
  <2>2. ASSUME NEW i \in Ids, NEW n, NEW c, NEW era,
               \/ ClientUntrackable(i)
               \/ ClientUnreadableParams(i)
               \/ ClientInitialize(i)
               \/ ClientDiscover(i, era)
               \/ ClientOther(i)
               \/ ClientCallRefused(i, n)
               \/ ClientCall(i, n)
               \/ ClientListInadmissible(i)
               \/ ClientListDrifted(i, era)
               \/ ClientList(i, c, era)
        PROVE  UNCHANGED outcome \/ \E vd : outcome' = Recorded(vd)
    BY <2>2 DEF ClientUntrackable, ClientUnreadableParams, ClientInitialize, ClientDiscover,
                ClientOther, ClientCallRefused, ClientCall, RefusePlainly, Track,
                ClientListInadmissible, ClientListDrifted, ListRefused, ClientList
  <2> QED
    BY <1>1, <1>2, <1>3, <2>1, <2>2 DEF ClientFrame
<1>4. CASE ServerFrame
  <2>1. CASE ServerUnverifiable \/ ServerMethod
    BY <1>1, <1>2, <2>1 DEF ServerUnverifiable, ServerMethod
  <2>2. ASSUME NEW i \in Ids, NEW h, NEW page,
               \/ ServerError(i)
               \/ ServerOther(i)
               \/ ServerMalformed(i)
               \/ ServerInitialize(i, h)
               \/ ServerDiscover(i, h)
               \/ ServerDiscoverUntagged(i)
               \/ ServerToolsPage(i, page)
        PROVE  UNCHANGED outcome \/ \E vd : outcome' = Recorded(vd)
    BY <2>2 DEF ServerError, ServerOther, ServerUnjudged, ServerMalformed, ServerInitialize,
                ServerDiscover, ServerDiscoverUntagged, ServerHandshake, ServerToolsPage
  <2> QED
    BY <1>1, <1>2, <1>4, <2>1, <2>2 DEF ServerFrame
<1>5. CASE ClientFinish
  BY <1>1, <1>5 DEF ClientFinish, TypeOK
<1>6. CASE ServerFinish \/ UNCHANGED vars
  BY <1>1, <1>6 DEF ServerFinish, vars
<1> QED
  BY <1>3, <1>4, <1>5, <1>6 DEF Next

\* The declarations a step presents are the old ones, or those of a page whose
\* verdict it records.
LEMMA PresentedSteps ==
    ASSUME TypeOK, OwnersOK, [Next]_vars
    PROVE  \/ presented' = presented
           \/ \E i \in Ids, page \in Pages :
                 /\ ServerToolsPage(i, page)
                 /\ presented' = Merge(page.tools, presented)
<1>1. CASE ClientFrame \/ ClientFinish \/ ServerFinish \/ UNCHANGED vars
  BY <1>1 DEF ClientFrame, ClientFinish, ServerFinish, vars
<1>2. CASE ServerFrame
  <2>1. ASSUME NEW i \in Ids, NEW h,
               \/ ServerUnverifiable
               \/ ServerMethod
               \/ ServerError(i)
               \/ ServerOther(i)
               \/ ServerMalformed(i)
               \/ ServerInitialize(i, h)
               \/ ServerDiscover(i, h)
               \/ ServerDiscoverUntagged(i)
        PROVE  presented' = presented
    BY <2>1 DEF ServerUnverifiable, ServerMethod, ServerError, ServerOther, ServerUnjudged,
                ServerMalformed, ServerInitialize, ServerDiscover, ServerDiscoverUntagged,
                ServerHandshake
  <2>2. CASE ServerUnverifiable \/ ServerMethod
    BY <2>2 DEF ServerUnverifiable, ServerMethod
  <2>3. ASSUME NEW i \in Ids, NEW page \in Pages, ServerToolsPage(i, page)
        PROVE  presented' \in {presented, Merge(page.tools, presented)}
    BY <2>3 DEF ServerToolsPage
  <2> QED
    BY <1>2, <2>1, <2>2, <2>3 DEF ServerFrame
<1> QED
  BY <1>1, <1>2 DEF Next

\* An era that is not the locked one joins the enumerations with a recorded drift.
LEMMA EnumEras ==
    ASSUME TypeOK, OwnersOK, LinearEnumerations, [Next]_vars, ~outcome'.drift,
           handshakeEra \in {None, LockEra}, \A e \in EnumIds : enums[e].era \in {None, LockEra}
    PROVE  \A e \in EnumIds : enums'[e].era \in {None, LockEra}
<1> DEFINE Goal == \A e \in EnumIds : enums'[e].era \in {None, LockEra}
<1>1. UNCHANGED enums => Goal
  OBVIOUS
<1>2. ASSUME NEW heap, NEW p, NEW cs, enums' = Collect(heap, p, cs),
             \A e \in EnumIds : heap[e].era \in {None, LockEra}
      PROVE  Goal
  <2>1. Blank.era = None
    BY DEF Blank
  <2>2. \A e \in EnumIds : enums'[e] \in {heap[e], Blank}
    BY <1>2 DEF Collect
  <2> QED
    BY <1>2, <2>1, <2>2
<1>3. ASSUME NEW i \in Ids, TracksOther(i) \/ Untracks(i)
      PROVE  Goal
  BY <1>1, <1>2, <1>3 DEF TracksOther, Untracks
<1>4. ASSUME NEW i \in Ids, TracksList(i)
      PROVE  Goal
  <2>1. PICK e \in EnumIds, era \in Eras, orphan \in BOOLEAN :
               /\ \/ enums' = Collect(enums, pending', cursors')
                  \/ enums' = Collect([enums EXCEPT ![e] = [Blank EXCEPT !.era = era,
                                                                         !.orphan = orphan]],
                                      pending', cursors')
               /\ era \in {handshakeEra, LockEra} \/ outcome'.drift
    BY <1>4, ListOwner
  <2> DEFINE fresh == [Blank EXCEPT !.era = era, !.orphan = orphan]
             heap  == [enums EXCEPT ![e] = fresh]
  <2>2. fresh.era \in {None, LockEra}
    BY <2>1 DEF Blank
  <2>3. enums' = Collect(enums, pending', cursors') \/ enums' = Collect(heap, pending', cursors')
    BY <2>1
  <2> HIDE DEF fresh
  <2>4. \A x \in EnumIds : heap[x].era \in {None, LockEra}
    BY <2>2 DEF TypeOK
  <2> HIDE DEF heap
  <2> QED
    BY <1>2, <2>3, <2>4
<1>5. ASSUME NEW i \in Ids, NEW page \in Pages, ServerToolsPage(i, page)
      PROVE  Goal
  <2> DEFINE e    == pending[i].enum
             ext  == Extended(enums[e], page, verifyToolsPage(enums[e], page))
             heap == [enums EXCEPT ![e] = ext]
  <2>1. e \in EnumIds /\ enums' = Collect(heap, pending', cursors')
    BY <1>5, PageOwner DEF ServerToolsPage
  <2>2. ext.era = enums[e].era
    BY DEF Extended
  <2> HIDE DEF ext
  <2>3. \A x \in EnumIds : heap[x].era \in {None, LockEra}
    BY <2>1, <2>2 DEF TypeOK
  <2> HIDE DEF heap
  <2> QED
    BY <1>2, <2>1, <2>3
<1> QED
  BY <1>1, <1>3, <1>4, <1>5, HeapSteps DEF heapVars

\* A verdict on a handshake that records no drift found the locked era and the
\* locked flow, and the code of a refusal is one its flags record.
LEMMA HandshakeVerdict ==
    ASSUME NEW flow \in {"classic", "stateless"}, NEW h \in Handshakes
    PROVE  LET vd == verifyHandshake(flow, h) IN
           /\ ~vd.refuse /\ ~vd.drift => h.era = LockEra /\ LockFlow \in {"", flow}
           /\ vd.code = "drift" => vd.drift
           /\ vd.code = "inadmissible" => vd.inadmissible
BY DEF verifyHandshake, inadmissibleVerdict, forwardVerdict, resolveDrift

\* Drift of the era or the flow that was forwarded, and refusals, are recorded.
SurfaceReported ==
    /\ EraDrifted \/ FlowDrifted \/ serverStep.code = "drift" => outcome.drift
    /\ serverStep.code = "inadmissible" => outcome.inadmissible

\* No step forwards another era or flow, or refuses, without a record.
LEMMA ReportedStep ==
    ASSUME TypeOK, OwnersOK, LinearEnumerations, SurfaceReported, [Next]_vars
    PROVE  SurfaceReported'
<1>1. /\ outcome.drift => outcome'.drift
      /\ outcome.inadmissible => outcome'.inadmissible
  BY OutcomeGrows
<1>2. ASSUME ~outcome'.drift
      PROVE  /\ {handshakeEra, serverStep.proto, backend.proto} \subseteq {None, LockEra}
             /\ \A e \in EnumIds : enums'[e].era \in {None, LockEra}
             /\ ~FlowDrifted
  <2>1. ~EraDrifted /\ ~FlowDrifted
    BY <1>1, <1>2 DEF SurfaceReported
  <2>2. /\ {handshakeEra, serverStep.proto, backend.proto} \subseteq {None, LockEra}
        /\ \A e \in EnumIds : enums[e].era \in {None, LockEra}
    BY <2>1 DEF EraDrifted
  <2> QED
    BY <1>2, <2>1, <2>2, EnumEras
<1>3. ASSUME /\ ~outcome'.drift =>
                  /\ {handshakeEra', serverStep'.proto, backend'.proto} \subseteq {None, LockEra}
                  /\ ~FlowDrifted'
             /\ serverStep'.code = "drift" => outcome'.drift
             /\ serverStep'.code = "inadmissible" => outcome'.inadmissible
      PROVE  SurfaceReported'
  <2>1. ~outcome'.drift => ~EraDrifted'
    BY <1>2, <1>3 DEF EraDrifted
  <2> QED
    BY <1>3, <2>1 DEF SurfaceReported
<1>4. UNCHANGED <<handshakeEra, serverStep, backend>> => SurfaceReported'
  BY <1>1, <1>2, <1>3 DEF SurfaceReported, FlowDrifted
<1>5. ASSUME handshakeEra' = handshakeEra, backend' = backend,
             serverStep'.proto = None, ~serverStep'.listen,
             serverStep'.code = "drift" => outcome'.drift,
             serverStep'.code = "inadmissible" => outcome'.inadmissible
      PROVE  SurfaceReported'
  <2>1. ~outcome'.drift => ~FlowDrifted'
    BY <1>2, <1>5 DEF FlowDrifted
  <2> QED
    BY <1>2, <1>3, <1>5, <2>1
<1>6. CASE ClientFrame
  <2>1. ASSUME NEW i \in Ids, NEW n, NEW c, NEW era,
               \/ ClientNotification
               \/ ClientUntrackable(i)
               \/ ClientUnreadableParams(i)
               \/ ClientInitialize(i)
               \/ ClientDiscover(i, era)
               \/ ClientOther(i)
               \/ ClientCallRefused(i, n)
               \/ ClientCall(i, n)
               \/ ClientListInadmissible(i)
               \/ ClientListDrifted(i, era)
               \/ ClientList(i, c, era)
        PROVE  handshakeEra' = handshakeEra
    BY <2>1 DEF ClientNotification, ClientUntrackable, ClientUnreadableParams, ClientInitialize,
                ClientDiscover, ClientOther, ClientCallRefused, ClientCall, RefusePlainly, Track,
                ClientListInadmissible, ClientListDrifted, ListRefused, ClientList, core
  <2>2. CASE ClientNotification
    BY <1>4, <1>6, <2>2 DEF ClientFrame, ClientNotification, core
  <2> QED
    BY <1>4, <1>6, <2>1, <2>2 DEF ClientFrame
<1>7. CASE ServerFrame
  <2>1. backend' = backend
    BY <1>7 DEF ServerFrame
  <2>2. LET s == [ServerIdle EXCEPT !.op = "forward"]
        IN  s.proto = None /\ ~s.listen /\ s.code = "none"
    BY DEF ServerIdle
  <2>3. \A code : LET s == [ServerIdle EXCEPT !.op = "reply", !.code = code]
                  IN  s.proto = None /\ ~s.listen /\ s.code = code
    BY DEF ServerIdle
  <2>4. \A t : LET s == [ServerIdle EXCEPT !.op = "forward", !.tools = t]
               IN  s.proto = None /\ ~s.listen /\ s.code = "none"
    BY DEF ServerIdle
  <2>5. CASE ServerUnverifiable
    BY <1>4, <2>1, <2>5 DEF ServerUnverifiable, core
  <2>6. CASE ServerMethod
    BY <1>5, <2>1, <2>2, <2>6 DEF ServerMethod, ForwardRaw, core
  <2>7. ASSUME NEW i \in Ids, ServerError(i) \/ ServerOther(i)
        PROVE  SurfaceReported'
    BY <1>5, <2>1, <2>2, <2>7 DEF ServerError, ServerOther, ServerUnjudged, ForwardRaw
  <2>8. ASSUME NEW vd, outcome' = Recorded(vd), RefuseResponse(vd), handshakeEra' = handshakeEra,
               vd.code = "drift" => vd.drift, vd.code = "inadmissible" => vd.inadmissible
        PROVE  SurfaceReported'
    <3>1. /\ vd.drift => outcome'.drift
          /\ vd.inadmissible => outcome'.inadmissible
      BY <2>8 DEF Recorded, TypeOK
    <3>2. serverStep'.proto = None /\ ~serverStep'.listen /\ serverStep'.code = vd.code
      BY <2>3, <2>8 DEF RefuseResponse
    <3> QED
      BY <1>5, <2>1, <2>8, <3>1, <3>2
  <2>9. /\ inadmissibleVerdict.code = "inadmissible" /\ inadmissibleVerdict.inadmissible
        /\ inadmissibleVerdict.refuse
    BY DEF inadmissibleVerdict
  <2>10. ASSUME NEW i \in Ids, ServerMalformed(i)
         PROVE  SurfaceReported'
    BY <2>8, <2>9, <2>10 DEF ServerMalformed
  <2>11. ASSUME NEW i \in Ids, ServerDiscoverUntagged(i)
         PROVE  SurfaceReported'
    BY <2>8, <2>9, <2>11 DEF ServerDiscoverUntagged, ServerHandshake
  <2>12. ASSUME NEW i \in Ids, NEW h \in Handshakes, NEW flow \in {"classic", "stateless"},
                ServerHandshake(i, h, verifyHandshake(flow, h)),
                flow = "classic" <=> pending[i].method = "initialize"
         PROVE  SurfaceReported'
    <3> DEFINE vd == verifyHandshake(flow, h)
    <3>1. /\ ~vd.refuse /\ ~vd.drift => h.era = LockEra /\ LockFlow \in {"", flow}
          /\ vd.code = "drift" => vd.drift
          /\ vd.code = "inadmissible" => vd.inadmissible
      BY HandshakeVerdict
    <3>2. /\ outcome' = Recorded(vd)
          /\ handshakeEra' = IF vd.refuse THEN handshakeEra ELSE h.era
          /\ IF vd.refuse THEN RefuseResponse(vd)
             ELSE serverStep' = [ServerIdle EXCEPT
                    !.op = "forward", !.instr = h.instr, !.listen = TRUE,
                    !.proto = IF pending[i].method = "initialize" THEN h.era ELSE None]
      BY <2>12 DEF ServerHandshake
    <3> HIDE DEF vd
    <3>3. CASE vd.refuse
      BY <2>8, <3>1, <3>2, <3>3
    <3>4. CASE ~vd.refuse
      <4>1. /\ serverStep'.code = "none"
            /\ serverStep'.proto = IF flow = "classic" THEN h.era ELSE None
        BY <2>12, <3>2, <3>4 DEF ServerIdle
      <4>2. h.era # None
        BY SessionAssumption DEF Handshakes
      <4>3. ASSUME ~outcome'.drift
            PROVE  /\ {handshakeEra', serverStep'.proto, backend'.proto} \subseteq {None, LockEra}
                   /\ ~FlowDrifted'
        <5>1. ~vd.drift
          BY <3>2, <4>3 DEF Recorded, TypeOK
        <5>2. h.era = LockEra /\ LockFlow \in {"", flow}
          BY <3>1, <3>4, <5>1
        <5>3. handshakeEra' = LockEra /\ serverStep'.proto \in {None, LockEra}
          BY <3>2, <3>4, <4>1, <5>2
        <5>4. ~FlowDrifted /\ backend.proto \in {None, LockEra}
          BY <1>2, <4>3
        <5>5. /\ LockFlow = "stateless" => serverStep'.proto = None
              /\ LockFlow = "classic" => serverStep'.proto # None
          BY <4>1, <4>2, <5>2
        <5>6. ~FlowDrifted'
          BY <2>1, <5>4, <5>5 DEF FlowDrifted
        <5> QED
          BY <2>1, <5>3, <5>4, <5>6
      <4> QED
        BY <1>3, <4>1, <4>3
    <3> QED
      BY <3>3, <3>4
  <2>13. ASSUME NEW i \in Ids, NEW h \in Handshakes, ServerInitialize(i, h) \/ ServerDiscover(i, h)
         PROVE  SurfaceReported'
    BY <2>12, <2>13 DEF ServerInitialize, ServerDiscover
  <2>14. ASSUME NEW i \in Ids, NEW page \in Pages, ServerToolsPage(i, page)
         PROVE  SurfaceReported'
    <3> DEFINE vd == verifyToolsPage(enums[pending[i].enum], page)
    <3>1. /\ vd.code = "drift" => vd.drift
          /\ vd.code = "inadmissible" => vd.inadmissible
      BY DEF verifyToolsPage, inadmissibleVerdict, forwardVerdict, resolveDrift
    <3>2. /\ outcome' = Recorded(vd) /\ handshakeEra' = handshakeEra
          /\ IF vd.refuse THEN RefuseResponse(vd)
             ELSE serverStep' = [ServerIdle EXCEPT !.op = "forward", !.tools = page.tools]
      BY <2>14 DEF ServerToolsPage
    <3> HIDE DEF vd
    <3>3. CASE vd.refuse
      BY <2>8, <3>1, <3>2, <3>3
    <3>4. CASE ~vd.refuse
      BY <1>5, <2>1, <2>4, <3>2, <3>4
    <3> QED
      BY <3>3, <3>4
  <2> QED
    BY <1>7, <2>5, <2>6, <2>7, <2>10, <2>11, <2>13, <2>14 DEF ServerFrame
<1>8. CASE ServerFinish
  <2>1. /\ serverStep' = ServerIdle /\ handshakeEra' = handshakeEra
        /\ backend'.proto = IF serverStep.proto = None THEN backend.proto ELSE serverStep.proto
        /\ backend'.listening = (backend.listening \/ serverStep.listen)
    BY <1>8 DEF ServerFinish, core
  <2>2. ServerIdle.proto = None /\ ~ServerIdle.listen /\ ServerIdle.code = "none"
    BY DEF ServerIdle
  <2>3. ~outcome'.drift => ~FlowDrifted'
    BY <1>2, <2>1, <2>2, SessionAssumption DEF FlowDrifted
  <2> QED
    BY <1>2, <1>3, <2>1, <2>2, <2>3
<1>9. CASE ClientFinish \/ UNCHANGED vars
  BY <1>4, <1>9 DEF ClientFinish, vars, core
<1> QED
  BY <1>6, <1>7, <1>8, <1>9 DEF Next

\* The declarations pages presented are the locked ones, or the exit code is
\* not clean.
ToolsReported ==
    (\E n \in Names : presented[n] \notin {"absent", "locked"})
        => outcome.drift \/ outcome.inadmissible

\* The exit code is not clean once any page presented a declaration other than
\* the locked one, nor while anything runs on an era or a flow that was only
\* warned about, nor with a refusal on its way to the client (Outcome,
\* proxy.go:95-99).
THEOREM DriftCorrect == Spec => []DriftIsReported
<1>1. Init => ToolsReported /\ SurfaceReported
  BY DEF Init, ToolsReported, SurfaceReported, EraDrifted, FlowDrifted, NoTools, Blank, ServerIdle
<1>2. TypeOK /\ OwnersOK /\ ToolsReported /\ [Next]_vars => ToolsReported'
  <2> SUFFICES ASSUME TypeOK, OwnersOK, ToolsReported, [Next]_vars,
                      NEW n \in Names, presented'[n] \notin {"absent", "locked"}
               PROVE  outcome'.drift \/ outcome'.inadmissible
    BY DEF ToolsReported
  <2>1. CASE presented[n] \notin {"absent", "locked"}
    BY <2>1, OutcomeGrows DEF ToolsReported
  <2>2. CASE presented[n] \in {"absent", "locked"}
    <3>1. PICK i \in Ids, page \in Pages :
                 /\ ServerToolsPage(i, page)
                 /\ presented' = Merge(page.tools, presented)
      BY <2>2, PresentedSteps
    <3> DEFINE en == enums[pending[i].enum]
               vd == verifyToolsPage(en, page)
    <3>2. n \in Listed(page.tools) /\ page.tools[n] # "locked"
      BY <2>2, <3>1 DEF Merge
    <3>3. PageDrifts(en, page)
      BY <3>2 DEF PageDrifts
    <3>4. vd.drift \/ vd.inadmissible
      BY <3>3 DEF verifyToolsPage, inadmissibleVerdict, resolveDrift
    <3>5. outcome' = Recorded(vd)
      BY <3>1 DEF ServerToolsPage
    <3> HIDE DEF vd
    <3> QED
      BY <3>4, <3>5 DEF Recorded, TypeOK
  <2> QED
    BY <2>1, <2>2
<1>3. TypeOK /\ OwnersOK /\ LinearEnumerations /\ SurfaceReported /\ [Next]_vars => SurfaceReported'
  BY ReportedStep
<1>4. ToolsReported /\ SurfaceReported => DriftIsReported
  BY DEF ToolsReported, SurfaceReported, DriftIsReported
<1> QED
  BY <1>1, <1>2, <1>3, <1>4, TypeCorrect, LinearCorrect, PTL DEF Spec

\* Nothing the inbound goroutine writes after its unlock carries changed
\* instructions or a declaration the policy refuses (proxy.go:630-644).
THEOREM WrittenCorrect == Spec => []WrittenSurfaceIsVetted
<1>1. Init => WrittenSurfaceIsVetted
  BY DEF Init, WrittenSurfaceIsVetted, ServerIdle
<1>2. WrittenSurfaceIsVetted /\ [Next]_vars => WrittenSurfaceIsVetted'
  <2> SUFFICES ASSUME WrittenSurfaceIsVetted, [Next]_vars
               PROVE  WrittenSurfaceIsVetted'
    OBVIOUS
  <2>1. serverStep' = serverStep => WrittenSurfaceIsVetted'
    BY DEF WrittenSurfaceIsVetted
  <2>2. serverStep'.op # "forward" => WrittenSurfaceIsVetted'
    BY DEF WrittenSurfaceIsVetted
  <2>3. serverStep'.instr # "changed" /\ serverStep'.tools = NoTools => WrittenSurfaceIsVetted'
    BY DEF WrittenSurfaceIsVetted, NoTools, Listed
  <2>4. ForwardRaw => WrittenSurfaceIsVetted'
    BY <2>3 DEF ForwardRaw, ServerIdle
  <2>5. \A vd : RefuseResponse(vd) => WrittenSurfaceIsVetted'
    BY <2>2 DEF RefuseResponse, ServerIdle
  <2>6. CASE ClientFrame \/ ClientFinish \/ UNCHANGED vars
    BY <2>1, <2>6 DEF ClientFrame, ClientFinish, vars
  <2>7. CASE ServerFinish
    BY <2>2, <2>7 DEF ServerFinish, ServerIdle
  <2>8. CASE ServerFrame
    <3>1. CASE ServerUnverifiable \/ ServerMethod
      BY <2>1, <2>4, <3>1 DEF ServerUnverifiable, ServerMethod
    <3>2. ASSUME NEW i \in Ids, ServerError(i) \/ ServerOther(i) \/ ServerMalformed(i)
          PROVE  WrittenSurfaceIsVetted'
      BY <2>4, <2>5, <3>2 DEF ServerError, ServerOther, ServerUnjudged, ServerMalformed
    <3>3. ASSUME NEW i \in Ids, NEW h, NEW vd, ServerHandshake(i, h, vd),
                 ~vd.refuse => h.instr = "locked"
          PROVE  WrittenSurfaceIsVetted'
      <4>1. CASE vd.refuse
        BY <2>5, <3>3, <4>1 DEF ServerHandshake
      <4>2. CASE ~vd.refuse
        <5>1. serverStep'.instr = "locked" /\ serverStep'.tools = NoTools
          BY <3>3, <4>2 DEF ServerHandshake, ServerIdle
        <5> QED
          BY <2>3, <5>1
      <4> QED
        BY <4>1, <4>2
    <3>4. ASSUME NEW i \in Ids, NEW h \in Handshakes, ServerInitialize(i, h) \/ ServerDiscover(i, h)
          PROVE  WrittenSurfaceIsVetted'
      BY <3>3, <3>4, VettedHandshake DEF ServerInitialize, ServerDiscover
    <3>5. ASSUME NEW i \in Ids, ServerDiscoverUntagged(i)
          PROVE  WrittenSurfaceIsVetted'
      BY <3>3, <3>5 DEF ServerDiscoverUntagged, inadmissibleVerdict
    <3>6. ASSUME NEW i \in Ids, NEW page \in Pages, ServerToolsPage(i, page)
          PROVE  WrittenSurfaceIsVetted'
      <4> DEFINE vd == verifyToolsPage(enums[pending[i].enum], page)
      <4>1. CASE vd.refuse
        BY <2>5, <3>6, <4>1 DEF ServerToolsPage
      <4>2. CASE ~vd.refuse
        <5>1. serverStep'.instr = "none" /\ serverStep'.tools = page.tools
          BY <3>6, <4>2 DEF ServerToolsPage, ServerIdle
        <5>2. \A n \in Listed(page.tools) : page.tools[n] \in Forwardable
          BY <4>2, VettedPage
        <5> QED
          BY <5>1, <5>2 DEF WrittenSurfaceIsVetted
      <4> QED
        BY <4>1, <4>2
    <3> QED
      BY <2>8, <3>1, <3>2, <3>4, <3>5, <3>6 DEF ServerFrame
  <2> QED
    BY <2>6, <2>7, <2>8 DEF Next
<1> QED
  BY <1>1, <1>2, PTL DEF Spec

-----------------------------------------------------------------------------
(* The two tables.                                                          *)

\* Both tables are finite and within their caps.
TablesFinite ==
    /\ IsFiniteSet(Tracked) /\ Cardinality(Tracked) <= MaxPending
    /\ IsFiniteSet(TrackedCursors) /\ Cardinality(TrackedCursors) <= MaxTrackedCursors

\* A set that loses elements, or gains one while it has room, stays in its cap.
LEMMA CapKept ==
    ASSUME NEW S, NEW T, NEW x, NEW cap \in Nat,
           IsFiniteSet(S), Cardinality(S) <= cap,
           T \subseteq S \/ (T \subseteq S \cup {x} /\ Cardinality(S) < cap)
    PROVE  IsFiniteSet(T) /\ Cardinality(T) <= cap
<1>1. Cardinality(S) \in Nat
  BY FS_CardinalityType
<1>2. CASE T \subseteq S
  <2>1. IsFiniteSet(T) /\ Cardinality(T) <= Cardinality(S)
    BY <1>2, FS_Subset
  <2>2. Cardinality(T) \in Nat
    BY <2>1, FS_CardinalityType
  <2> QED
    BY <1>1, <2>1, <2>2
<1>3. CASE T \subseteq S \cup {x} /\ Cardinality(S) < cap
  <2>1. /\ IsFiniteSet(S \cup {x})
        /\ Cardinality(S \cup {x}) \in {Cardinality(S), Cardinality(S) + 1}
    BY FS_AddElement
  <2>2. IsFiniteSet(T) /\ Cardinality(T) <= Cardinality(S \cup {x})
    BY <1>3, <2>1, FS_Subset
  <2>3. Cardinality(T) \in Nat
    BY <2>2, FS_CardinalityType
  <2> QED
    BY <1>1, <1>3, <2>1, <2>2, <2>3
<1> QED
  BY <1>2, <1>3

\* The in-flight map and the cursor table never outgrow their caps, for any
\* number of ids and cursors (proxy.go:372 and 611).
THEOREM TablesCorrect == Spec => []TablesBounded
<1>1. Init => TablesFinite
  <2> SUFFICES ASSUME Init PROVE TablesFinite
    OBVIOUS
  <2>1. Tracked = {} /\ TrackedCursors = {}
    BY DEF Init, Tracked, TrackedCursors
  <2>2. MaxPending \in Nat /\ MaxTrackedCursors \in Nat
    BY SessionAssumption
  <2> QED
    BY <2>1, <2>2, FS_EmptySet DEF TablesFinite
<1>2. TypeOK /\ OwnersOK /\ LinearEnumerations /\ TablesFinite /\ [Next]_vars => TablesFinite'
  <2> SUFFICES ASSUME TypeOK, OwnersOK, LinearEnumerations, TablesFinite, [Next]_vars
               PROVE  TablesFinite'
    OBVIOUS
  <2>1. MaxPending \in Nat /\ MaxTrackedCursors \in Nat
    BY SessionAssumption
  <2>2. ASSUME NEW i, NEW c,
               \/ Tracked' \subseteq Tracked
               \/ Tracked' \subseteq Tracked \cup {i} /\ Cardinality(Tracked) < MaxPending,
               \/ TrackedCursors' \subseteq TrackedCursors
               \/ /\ TrackedCursors' \subseteq TrackedCursors \cup {c}
                  /\ Cardinality(TrackedCursors) < MaxTrackedCursors
        PROVE  TablesFinite'
    <3>1. IsFiniteSet(Tracked') /\ Cardinality(Tracked') <= MaxPending
      BY <2>1, <2>2, CapKept DEF TablesFinite
    <3>2. IsFiniteSet(TrackedCursors') /\ Cardinality(TrackedCursors') <= MaxTrackedCursors
      BY <2>1, <2>2, CapKept DEF TablesFinite
    <3> QED
      BY <3>1, <3>2 DEF TablesFinite
  <2>3. CASE UNCHANGED heapVars
    BY <2>3 DEF heapVars, TablesFinite, Tracked, TrackedCursors
  <2>4. ASSUME NEW i \in Ids, TracksOther(i)
        PROVE  TablesFinite'
    <3>1. Tracked' \subseteq Tracked \cup {i} /\ TrackedCursors' = TrackedCursors
      BY <2>4 DEF TracksOther, Tracked, TrackedCursors, TypeOK
    <3>2. Cardinality(Tracked) < MaxPending
      BY <2>4 DEF TracksOther, CanTrack
    <3> QED
      BY <2>2, <3>1, <3>2
  <2>5. ASSUME NEW i \in Ids, TracksList(i)
        PROVE  TablesFinite'
    <3>1. PICK e \in EnumIds, era \in Eras :
            /\ pending' = [pending EXCEPT ![i] = [method |-> "tools/list", era |-> era, enum |-> e]]
            /\ \A c \in Cursors : cursors'[c] \in {cursors[c], None}
      BY <2>5, ListOwner
    <3>2. Tracked' \subseteq Tracked \cup {i} /\ TrackedCursors' \subseteq TrackedCursors
      BY <3>1 DEF Tracked, TrackedCursors, TypeOK
    <3>3. Cardinality(Tracked) < MaxPending
      BY <2>5 DEF TracksList, CanTrack
    <3> QED
      BY <2>2, <3>2, <3>3
  <2>6. ASSUME NEW i \in Ids, Untracks(i)
        PROVE  TablesFinite'
    <3>1. Tracked' \subseteq Tracked /\ TrackedCursors' = TrackedCursors
      BY <2>6 DEF Untracks, Untrack, Tracked, TrackedCursors, TypeOK
    <3> QED
      BY <2>2, <3>1
  <2>7. ASSUME NEW i \in Ids, NEW page \in Pages, ServerToolsPage(i, page)
        PROVE  TablesFinite'
    <3>1. /\ pending' = [pending EXCEPT ![i] = NoReq]
          /\ \/ cursors' = cursors
             \/ /\ Cardinality(TrackedCursors) < MaxTrackedCursors
                /\ cursors' = [cursors EXCEPT ![page.next] = pending[i].enum]
      BY <2>7, PageOwner
    <3>2. Tracked' \subseteq Tracked
      BY <3>1 DEF Tracked, TypeOK
    <3>3. \/ TrackedCursors' \subseteq TrackedCursors
          \/ /\ TrackedCursors' \subseteq TrackedCursors \cup {page.next}
             /\ Cardinality(TrackedCursors) < MaxTrackedCursors
      BY <3>1 DEF TrackedCursors, TypeOK
    <3> QED
      BY <2>2, <3>2, <3>3
  <2> QED
    BY <2>3, <2>4, <2>5, <2>6, <2>7, HeapSteps
<1>3. TablesFinite => TablesBounded
  BY DEF TablesFinite, TablesBounded
<1> QED
  BY <1>1, <1>2, <1>3, TypeCorrect, LinearCorrect, PTL DEF Spec
=============================================================================
