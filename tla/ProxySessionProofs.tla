------------------------- MODULE ProxySessionProofs -------------------------
(***************************************************************************)
(* Theorems about ProxySession, for every client, every upstream and every *)
(* value of the constants.                                                 *)
(***************************************************************************)
EXTENDS ProxySession, TLAPS

-----------------------------------------------------------------------------
(* The operators the model is built from.                                   *)

\* No tools at all is a tool map.
LEMMA NoToolsType == NoTools \in ToolMaps
BY DEF NoTools, ToolMaps, Declarations, DeclarationsOf

\* Merging two tool maps gives a tool map that lists what either lists.
LEMMA MergeType ==
    ASSUME NEW t \in ToolMaps, NEW u \in ToolMaps
    PROVE  /\ Merge(t, u) \in ToolMaps
           /\ Listed(Merge(t, u)) = Listed(t) \cup Listed(u)
BY DEF Merge, Listed, ToolMaps

\* The blank record is an enumeration.
LEMMA BlankType == Blank \in Enumerations
BY NoToolsType DEF Blank, Enumerations

\* Collecting garbage keeps a heap a heap.
LEMMA CollectType ==
    ASSUME NEW heap \in [EnumIds -> Enumerations], NEW p, NEW cs
    PROVE  Collect(heap, p, cs) \in [EnumIds -> Enumerations]
BY BlankType DEF Collect

\* The enumeration a page extends is still one.
LEMMA ExtendedType ==
    ASSUME NEW en \in Enumerations, NEW page \in Pages, NEW vd
    PROVE  Extended(en, page, vd) \in Enumerations
<1> DEFINE warned   == en.warned \/ (vd.drift /\ ~vd.refuse)
           poisoned == en.poisoned \/ vd.refuse
           seen     == IF page.next = None THEN en.seen ELSE en.seen \cup {page.next}
           tools    == Merge(page.tools, en.tools)
<1>1. tools \in ToolMaps
  BY MergeType DEF Pages, Enumerations
<1>2. warned \in BOOLEAN /\ poisoned \in BOOLEAN
  OBVIOUS
<1>3. seen \in SUBSET Cursors
  BY DEF Pages, Enumerations
<1> QED
  BY <1>1, <1>2, <1>3 DEF Extended, Enumerations

-----------------------------------------------------------------------------
(* Type correctness. *)

\* What a verdict is made of.
Verdicts == [refuse : BOOLEAN, code : Codes, drift : BOOLEAN, inadmissible : BOOLEAN]

\* The verdicts of the verifier are records of Booleans with a code.
LEMMA VerdictTypes ==
    /\ forwardVerdict \in Verdicts
    /\ inadmissibleVerdict \in Verdicts
    /\ \A np \in BOOLEAN : resolveDrift(np) \in Verdicts
BY DEF forwardVerdict, inadmissibleVerdict, resolveDrift, Verdicts, Codes

\* What the two verifying functions return is a verdict.
LEMMA verifyTypes ==
    /\ \A flow, h : verifyHandshake(flow, h) \in Verdicts
    /\ \A en, page : verifyToolsPage(en, page) \in Verdicts
<1>1. \A np : resolveDrift(np) \in Verdicts
  BY DEF resolveDrift, Verdicts, Codes
<1> QED
  BY VerdictTypes, <1>1 DEF verifyHandshake, verifyToolsPage

\* Recording a verdict keeps the outcome an outcome.
LEMMA RecordedType ==
    ASSUME TypeOK, NEW vd \in Verdicts
    PROVE  Recorded(vd) \in [drift : BOOLEAN, inadmissible : BOOLEAN, transport : BOOLEAN]
<1>1. /\ (outcome.drift \/ vd.drift) \in BOOLEAN
      /\ (outcome.inadmissible \/ vd.inadmissible) \in BOOLEAN
  OBVIOUS
<1> QED
  BY <1>1 DEF Recorded, TypeOK

\* The names of a page are names, and so is what stays callable.
LEMMA CallableType ==
    ASSUME TypeOK, NEW vd, NEW S \in SUBSET Names
    PROVE  Callable(vd, S) \in SUBSET Names
BY DEF Callable, TypeOK

\* The three things a client goroutine may be left with.
LEMMA ClientStepTypes ==
    /\ ClientIdle \in ClientSteps
    /\ \A n \in Names \cup {None} : [op |-> "send", name |-> n] \in ClientSteps
    /\ [op |-> "reply", name |-> None] \in ClientSteps
BY DEF ClientIdle, ClientSteps

\* The values that mark nothing in flight and nothing to do are well typed.
LEMMA RestTypes == NoReq \in Requests /\ ServerIdle \in ServerSteps
BY NoToolsType DEF NoReq, Requests, ServerIdle, ServerSteps, Codes

\* A session starts well typed.
LEMMA InitType == Init => TypeOK
<1> SUFFICES ASSUME Init PROVE TypeOK
  OBVIOUS
<1>1. /\ pending \in [Ids -> Requests]
      /\ cursors \in [Cursors -> EnumIds \cup {None}]
      /\ enums \in [EnumIds -> Enumerations]
  BY RestTypes, BlankType DEF Init
<1>2. /\ handshakeEra \in Eras \cup {None}
      /\ everClean \in BOOLEAN
      /\ callable \subseteq Names
      /\ presented \in ToolMaps
  BY NoToolsType DEF Init
<1>3. /\ outcome \in [drift : BOOLEAN, inadmissible : BOOLEAN, transport : BOOLEAN]
      /\ backend \in [proto : Eras \cup {None}, listening : BOOLEAN]
  BY DEF Init
<1>4. clientStep \in ClientSteps /\ serverStep \in ServerSteps
  BY ClientStepTypes, RestTypes DEF Init
<1> QED
  BY <1>1, <1>2, <1>3, <1>4 DEF TypeOK

\* A client frame keeps every variable well typed.
LEMMA ClientFrameType ==
    ASSUME TypeOK, ClientFrame
    PROVE  TypeOK'
<1> USE SessionAssumption DEF Methods
<1>1. /\ serverStep' = serverStep /\ backend' = backend /\ presented' = presented
  BY DEF ClientFrame
<1>2. \A n \in Names \cup {None} : ForwardUpstream(n) => clientStep' \in ClientSteps
  BY ClientStepTypes DEF ForwardUpstream
<1>3. ReplyToClient => clientStep' \in ClientSteps
  BY ClientStepTypes DEF ReplyToClient
<1>4. RefusePlainly => TypeOK'
  BY <1>1, <1>3 DEF RefusePlainly, TypeOK, core
<1>5. ASSUME NEW i \in Ids, NEW m \in Methods, NEW era \in Eras \cup {None},
             NEW n \in Names \cup {None}, Track(i, m, era), ForwardUpstream(n)
      PROVE  TypeOK'
  <2>1. [method |-> m, era |-> era, enum |-> None] \in Requests
    BY DEF Requests
  <2>2. pending' \in [Ids -> Requests]
    BY <1>5, <2>1 DEF Track, TypeOK
  <2> QED
    BY <1>1, <1>2, <1>5, <2>2 DEF Track, TypeOK
<1>6. CASE ClientNotification
  BY <1>1, <1>2, <1>6 DEF ClientNotification, core, TypeOK
<1>7. ASSUME NEW i \in Ids, ClientUntrackable(i) \/ ClientUnreadableParams(i)
      PROVE  TypeOK'
  BY <1>4, <1>7 DEF ClientUntrackable, ClientUnreadableParams
<1>8. ASSUME NEW i \in Ids, ClientInitialize(i) \/ ClientOther(i)
      PROVE  TypeOK'
  BY <1>5, <1>8 DEF ClientInitialize, ClientOther
<1>9. ASSUME NEW i \in Ids, NEW era \in Eras \cup {None}, ClientDiscover(i, era)
      PROVE  TypeOK'
  BY <1>5, <1>9 DEF ClientDiscover
<1>10. ASSUME NEW i \in Ids, NEW n \in Names, ClientCallRefused(i, n) \/ ClientCall(i, n)
       PROVE  TypeOK'
  BY <1>4, <1>5, <1>10 DEF ClientCallRefused, ClientCall
<1>11. ASSUME NEW vd \in Verdicts, ListRefused(vd)
       PROVE  TypeOK'
  <2>1. Callable(vd, {}) \in SUBSET Names
    BY CallableType
  <2> QED
    BY <1>1, <1>3, <1>11, <2>1, RecordedType DEF ListRefused, core, TypeOK
<1>12. ASSUME NEW i \in Ids, NEW era \in Eras,
              ClientListInadmissible(i) \/ ClientListDrifted(i, era)
       PROVE  TypeOK'
  BY <1>11, <1>12, VerdictTypes DEF ClientListInadmissible, ClientListDrifted
<1>13. ASSUME NEW i \in Ids, NEW c \in Cursors \cup {None}, NEW d \in Eras \cup {None},
              ClientList(i, c, d)
       PROVE  TypeOK'
  <2> DEFINE era   == IF d = None THEN handshakeEra ELSE d
             known == c # None /\ cursors[c] # None
             e     == IF known THEN cursors[c] ELSE CHOOSE x \in FreeEnums : TRUE
             fresh == [Blank EXCEPT !.era = era, !.orphan = c # None]
             heap  == IF known THEN enums ELSE [enums EXCEPT ![e] = fresh]
  <2>1. era \in Eras
    BY <1>13 DEF ClientList, TypeOK
  <2>2. TrackList(i, c, era)
    BY <1>13 DEF ClientList
  <2>3. e \in EnumIds
    BY <2>2 DEF TrackList, FreeEnums, TypeOK
  <2>4. fresh \in Enumerations
    <3>1. (c # None) \in BOOLEAN
      OBVIOUS
    <3> QED
      BY <2>1, <3>1, NoToolsType DEF Blank, Enumerations
  <2>5. heap \in [EnumIds -> Enumerations]
    BY <2>3, <2>4 DEF TypeOK
  <2>6. enums' = Collect(heap, pending', cursors')
    BY <2>2 DEF TrackList
  <2>7. enums' \in [EnumIds -> Enumerations]
    BY <2>5, <2>6, CollectType
  <2>8. pending' = [pending EXCEPT ![i] = [method |-> "tools/list", era |-> era, enum |-> e]]
    BY <2>2 DEF TrackList
  <2>9. pending' \in [Ids -> Requests]
    BY <2>1, <2>3, <2>8 DEF TypeOK, Requests
  <2>10. cursors' \in [Cursors -> EnumIds \cup {None}]
    BY <2>2 DEF TrackList, TypeOK
  <2>11. outcome' \in [drift : BOOLEAN, inadmissible : BOOLEAN, transport : BOOLEAN]
    BY <1>13, RecordedType, VerdictTypes DEF ClientList, TypeOK
  <2>12. /\ clientStep' \in ClientSteps
         /\ handshakeEra' = handshakeEra /\ everClean' = everClean /\ callable' = callable
    BY <1>2, <1>13 DEF ClientList
  <2> QED
    BY <1>1, <2>7, <2>9, <2>10, <2>11, <2>12 DEF TypeOK
<1> QED
  BY <1>6, <1>7, <1>8, <1>9, <1>10, <1>12, <1>13 DEF ClientFrame

\* The frames the inbound goroutine may be left with.
LEMMA ServerStepTypes ==
    /\ [ServerIdle EXCEPT !.op = "forward"] \in ServerSteps
    /\ \A code \in Codes : [ServerIdle EXCEPT !.op = "reply", !.code = code] \in ServerSteps
    /\ \A t \in ToolMaps : [ServerIdle EXCEPT !.op = "forward", !.tools = t] \in ServerSteps
    /\ \A instr \in {"none", "locked", "changed"}, era \in Eras \cup {None} :
          [ServerIdle EXCEPT !.op = "forward", !.instr = instr, !.listen = TRUE, !.proto = era]
             \in ServerSteps
BY NoToolsType DEF ServerIdle, ServerSteps, Codes

\* A handshake result keeps every variable well typed.
LEMMA HandshakeType ==
    ASSUME TypeOK, NEW i \in Ids, NEW h \in Handshakes, NEW vd \in Verdicts,
           h.instr = "unreadable" => vd.refuse,
           ServerHandshake(i, h, vd), UNCHANGED <<clientStep, backend>>
    PROVE  TypeOK'
<1>1. pending' \in [Ids -> Requests]
  BY RestTypes DEF ServerHandshake, Untrack, TypeOK
<1>2. handshakeEra' \in Eras \cup {None}
  BY DEF ServerHandshake, Handshakes, TypeOK
<1>3. callable' \subseteq Names
  BY CallableType DEF ServerHandshake
<1>4. outcome' \in [drift : BOOLEAN, inadmissible : BOOLEAN, transport : BOOLEAN]
  BY RecordedType DEF ServerHandshake
<1>5. serverStep' \in ServerSteps
  <2>1. CASE vd.refuse
    BY <2>1, ServerStepTypes DEF ServerHandshake, RefuseResponse, Verdicts
  <2>2. CASE ~vd.refuse
    <3> DEFINE era == IF pending[i].method = "initialize" THEN h.era ELSE None
    <3>1. era \in Eras \cup {None} /\ h.instr \in {"none", "locked", "changed"}
      BY <2>2 DEF Handshakes
    <3>2. serverStep' = [ServerIdle EXCEPT !.op = "forward", !.instr = h.instr,
                                           !.listen = TRUE, !.proto = era]
      BY <2>2 DEF ServerHandshake
    <3> HIDE DEF era
    <3> QED
      BY <3>1, <3>2, ServerStepTypes
  <2> QED
    BY <2>1, <2>2
<1> QED
  BY <1>1, <1>2, <1>3, <1>4, <1>5 DEF ServerHandshake, TypeOK

\* A tools/list page keeps every variable well typed.
LEMMA ToolsPageType ==
    ASSUME TypeOK, NEW i \in Ids, NEW page \in Pages,
           ServerToolsPage(i, page), UNCHANGED <<clientStep, backend>>,
           pending[i].enum \in EnumIds
    PROVE  TypeOK'
<1> DEFINE e  == pending[i].enum
           en == enums[e]
           vd == verifyToolsPage(en, page)
           heap == [enums EXCEPT ![e] = Extended(en, page, vd)]
<1>1. vd \in Verdicts
  BY verifyTypes
<1>2. en \in Enumerations
  BY DEF TypeOK
<1>3. pending' \in [Ids -> Requests]
  BY RestTypes DEF ServerToolsPage, Untrack, TypeOK
<1>4. cursors' \in [Cursors -> EnumIds \cup {None}]
  BY DEF ServerToolsPage, Continues, TypeOK, Pages
<1>5. enums' \in [EnumIds -> Enumerations]
  <2>1. Extended(en, page, vd) \in Enumerations
    BY <1>2, ExtendedType
  <2>2. heap \in [EnumIds -> Enumerations]
    BY <2>1 DEF TypeOK
  <2>3. enums' = Collect(heap, pending', cursors')
    BY DEF ServerToolsPage
  <2> QED
    BY <2>2, <2>3, CollectType
<1>6. everClean' \in BOOLEAN
  <2>1. everClean' = (everClean \/ (~vd.refuse /\ ClaimsClean(en, page)))
    BY DEF ServerToolsPage
  <2> QED
    BY <2>1
<1>7. callable' \subseteq Names
  <2>1. Listed(page.tools) \in SUBSET Names
    BY DEF Listed
  <2>2. callable' = Callable(vd, Listed(page.tools))
    BY DEF ServerToolsPage
  <2> QED
    BY <2>1, <2>2, CallableType
<1>8. outcome' \in [drift : BOOLEAN, inadmissible : BOOLEAN, transport : BOOLEAN]
  <2>1. outcome' = Recorded(vd)
    BY DEF ServerToolsPage
  <2> QED
    BY <1>1, <2>1, RecordedType
<1>9. serverStep' \in ServerSteps
  <2>1. CASE vd.refuse
    <3>1. serverStep' = [ServerIdle EXCEPT !.op = "reply", !.code = vd.code]
      BY <2>1 DEF ServerToolsPage, RefuseResponse
    <3>2. vd.code \in Codes
      BY <1>1 DEF Verdicts
    <3> QED
      BY <3>1, <3>2, ServerStepTypes
  <2>2. CASE ~vd.refuse
    <3>1. serverStep' = [ServerIdle EXCEPT !.op = "forward", !.tools = page.tools]
      BY <2>2 DEF ServerToolsPage
    <3>2. page.tools \in ToolMaps
      BY DEF Pages
    <3> QED
      BY <3>1, <3>2, ServerStepTypes
  <2> QED
    BY <2>1, <2>2
<1>10. presented' \in ToolMaps
  <2>1. Merge(page.tools, presented) \in ToolMaps
    BY MergeType DEF Pages, TypeOK
  <2> QED
    BY <2>1 DEF ServerToolsPage, TypeOK
<1>11. handshakeEra' = handshakeEra
  BY DEF ServerToolsPage
<1> QED
  BY <1>3, <1>4, <1>5, <1>6, <1>7, <1>8, <1>9, <1>10, <1>11 DEF TypeOK

-----------------------------------------------------------------------------
(* Which requests own an enumeration, and the typing theorem.               *)

\* A request in flight owns an enumeration if and only if it is a tools/list.
OwnersOK == \A i \in Ids : pending[i].enum \in EnumIds <=> pending[i].method = "tools/list"

\* Nothing is in flight when a session starts.
LEMMA OwnersInit == Init => OwnersOK
<1>1. NoReq.enum \notin EnumIds /\ NoReq.method # "tools/list"
  BY SessionAssumption DEF NoReq
<1>2. Init => \A i \in Ids : pending[i] = NoReq
  BY DEF Init
<1> QED
  BY <1>1, <1>2 DEF OwnersOK

\* A client frame tracks an enumeration for tools/list and for nothing else.
LEMMA OwnersClient ==
    ASSUME TypeOK, OwnersOK, ClientFrame
    PROVE  OwnersOK'
<1> USE SessionAssumption DEF Methods
<1>1. UNCHANGED pending => OwnersOK'
  BY DEF OwnersOK
<1>2. ASSUME NEW i \in Ids, NEW m \in Methods \ {"tools/list"}, NEW era, Track(i, m, era)
      PROVE  OwnersOK'
  <2>1. pending' = [pending EXCEPT ![i] = [method |-> m, era |-> era, enum |-> None]]
    BY <1>2 DEF Track
  <2> QED
    BY <2>1 DEF OwnersOK, TypeOK
<1>3. CASE ClientNotification
  BY <1>1, <1>3 DEF ClientNotification, core
<1>4. ASSUME NEW i \in Ids, NEW n, NEW era,
             \/ ClientUntrackable(i)
             \/ ClientUnreadableParams(i)
             \/ ClientCallRefused(i, n)
             \/ ClientListInadmissible(i)
             \/ ClientListDrifted(i, era)
      PROVE  OwnersOK'
  BY <1>1, <1>4 DEF ClientUntrackable, ClientUnreadableParams, ClientCallRefused,
                    ClientListInadmissible, ClientListDrifted, ListRefused, RefusePlainly, core
<1>5. ASSUME NEW i \in Ids, ClientInitialize(i) \/ ClientOther(i)
      PROVE  OwnersOK'
  BY <1>2, <1>5 DEF ClientInitialize, ClientOther
<1>6. ASSUME NEW i \in Ids, NEW n, NEW era,
             ClientCall(i, n) \/ ClientDiscover(i, era)
      PROVE  OwnersOK'
  BY <1>2, <1>6 DEF ClientCall, ClientDiscover
<1>7. ASSUME NEW i \in Ids, NEW c, NEW d, c \in Cursors \cup {None}, ClientList(i, c, d)
      PROVE  OwnersOK'
  <2> DEFINE era   == IF d = None THEN handshakeEra ELSE d
             known == c # None /\ cursors[c] # None
             e     == IF known THEN cursors[c] ELSE CHOOSE x \in FreeEnums : TRUE
  <2>1. TrackList(i, c, era)
    BY <1>7 DEF ClientList
  <2>2. e \in EnumIds
    BY <1>7, <2>1 DEF TrackList, FreeEnums, TypeOK
  <2>3. pending' = [pending EXCEPT ![i] = [method |-> "tools/list", era |-> era, enum |-> e]]
    BY <2>1 DEF TrackList
  <2> QED
    BY <2>2, <2>3 DEF OwnersOK, TypeOK
<1> QED
  BY <1>3, <1>4, <1>5, <1>6, <1>7 DEF ClientFrame

\* An upstream frame gives no request an enumeration.
LEMMA OwnersServer ==
    ASSUME TypeOK, OwnersOK, ServerFrame
    PROVE  OwnersOK'
<1>1. UNCHANGED pending => OwnersOK'
  BY DEF OwnersOK
<1>2. ASSUME NEW i \in Ids, Untrack(i)
      PROVE  OwnersOK'
  BY <1>2, SessionAssumption DEF Untrack, NoReq, OwnersOK, TypeOK
<1>3. CASE ServerUnverifiable \/ ServerMethod
  BY <1>1, <1>3 DEF ServerUnverifiable, ServerMethod, core
<1>4. ASSUME NEW i \in Ids, ServerError(i) \/ ServerOther(i) \/ ServerMalformed(i)
      PROVE  OwnersOK'
  BY <1>2, <1>4 DEF ServerError, ServerOther, ServerUnjudged, ServerMalformed
<1>5. ASSUME NEW i \in Ids, NEW h,
             ServerInitialize(i, h) \/ ServerDiscover(i, h) \/ ServerDiscoverUntagged(i)
      PROVE  OwnersOK'
  BY <1>2, <1>5 DEF ServerInitialize, ServerDiscover, ServerDiscoverUntagged, ServerHandshake
<1>6. ASSUME NEW i \in Ids, NEW page, ServerToolsPage(i, page)
      PROVE  OwnersOK'
  BY <1>2, <1>6 DEF ServerToolsPage
<1> QED
  BY <1>3, <1>4, <1>5, <1>6 DEF ServerFrame

\* An upstream frame keeps every variable well typed.
LEMMA ServerFrameType ==
    ASSUME TypeOK, OwnersOK, ServerFrame
    PROVE  TypeOK'
<1>1. UNCHANGED <<clientStep, backend>>
  BY DEF ServerFrame
<1>2. ForwardRaw => serverStep' \in ServerSteps
  BY ServerStepTypes DEF ForwardRaw
<1>3. Recorded(inadmissibleVerdict)
        \in [drift : BOOLEAN, inadmissible : BOOLEAN, transport : BOOLEAN]
  BY RecordedType, VerdictTypes
<1>4. \A p, cs : Collect(enums, p, cs) \in [EnumIds -> Enumerations]
  BY CollectType DEF TypeOK
<1>5. ASSUME NEW i \in Ids, Untrack(i)
      PROVE  pending' \in [Ids -> Requests]
  BY <1>5, RestTypes DEF Untrack, TypeOK
<1>6. CASE ServerUnverifiable
  BY <1>1, <1>3, <1>6 DEF ServerUnverifiable, core, TypeOK
<1>7. CASE ServerMethod
  BY <1>1, <1>2, <1>7 DEF ServerMethod, core, TypeOK
<1>8. ASSUME NEW i \in Ids, ServerError(i) \/ ServerOther(i)
      PROVE  TypeOK'
  BY <1>1, <1>2, <1>4, <1>5, <1>8 DEF ServerError, ServerOther, ServerUnjudged, TypeOK
<1>9. ASSUME NEW i \in Ids, ServerMalformed(i)
      PROVE  TypeOK'
  <2>1. serverStep' \in ServerSteps
    BY <1>9, ServerStepTypes DEF ServerMalformed, RefuseResponse, inadmissibleVerdict, Codes
  <2> QED
    BY <1>1, <1>3, <1>4, <1>5, <1>9, <2>1 DEF ServerMalformed, TypeOK
<1>10. ASSUME NEW i \in Ids, NEW h \in Handshakes, ServerInitialize(i, h) \/ ServerDiscover(i, h)
       PROVE  TypeOK'
  <2>1. \A flow : h.instr = "unreadable" => verifyHandshake(flow, h).refuse
    BY DEF verifyHandshake, inadmissibleVerdict
  <2>2. CASE ServerInitialize(i, h)
    BY <1>1, <2>1, <2>2, HandshakeType, verifyTypes DEF ServerInitialize
  <2>3. CASE ServerDiscover(i, h)
    BY <1>1, <2>1, <2>3, HandshakeType, verifyTypes DEF ServerDiscover
  <2> QED
    BY <1>10, <2>2, <2>3
<1>11. ASSUME NEW i \in Ids, ServerDiscoverUntagged(i)
       PROVE  TypeOK'
  <2> DEFINE h == [era |-> LockEra, supported |-> TRUE, instr |-> "unreadable"]
  <2>1. h \in Handshakes /\ inadmissibleVerdict.refuse
    BY SessionAssumption DEF Handshakes, inadmissibleVerdict
  <2>2. ServerHandshake(i, h, inadmissibleVerdict)
    BY <1>11 DEF ServerDiscoverUntagged
  <2> HIDE DEF h
  <2> QED
    BY <1>1, <2>1, <2>2, HandshakeType, VerdictTypes
<1>12. ASSUME NEW i \in Ids, NEW page \in Pages, ServerToolsPage(i, page)
       PROVE  TypeOK'
  <2>1. pending[i].enum \in EnumIds
    BY <1>12 DEF ServerToolsPage, OwnersOK
  <2> QED
    BY <1>1, <1>12, <2>1, ToolsPageType
<1> QED
  BY <1>6, <1>7, <1>8, <1>9, <1>10, <1>11, <1>12 DEF ServerFrame

\* Finishing a frame touches neither map, and keeps every variable well typed.
LEMMA FinishType ==
    ASSUME TypeOK, ClientFinish \/ ServerFinish
    PROVE  TypeOK'
<1>1. CASE ClientFinish
  BY <1>1, ClientStepTypes DEF ClientFinish, core, TypeOK
<1>2. CASE ServerFinish
  <2> DEFINE listening == backend.listening \/ serverStep.listen
             proto == IF serverStep.proto = None THEN backend.proto ELSE serverStep.proto
  <2>1. listening \in BOOLEAN
    OBVIOUS
  <2>2. proto \in Eras \cup {None}
    BY DEF TypeOK, ServerSteps
  <2>3. backend' \in [proto : Eras \cup {None}, listening : BOOLEAN]
    BY <1>2, <2>1, <2>2 DEF ServerFinish
  <2> QED
    BY <1>2, <2>3, RestTypes DEF ServerFinish, core, TypeOK
<1> QED
  BY <1>1, <1>2

\* Every state the session reaches is well typed, and a request in flight owns
\* an enumeration exactly when it is a tools/list (the in-flight map and the
\* enumeration pointer of proxy.go:366-418).
THEOREM TypeCorrect == Spec => [](TypeOK /\ OwnersOK)
<1>1. Init => TypeOK /\ OwnersOK
  BY InitType, OwnersInit
<1>2. TypeOK /\ OwnersOK /\ [Next]_vars => (TypeOK /\ OwnersOK)'
  <2> SUFFICES ASSUME TypeOK, OwnersOK, [Next]_vars
               PROVE  (TypeOK /\ OwnersOK)'
    OBVIOUS
  <2>1. CASE ClientFrame
    BY <2>1, ClientFrameType, OwnersClient
  <2>2. CASE ServerFrame
    BY <2>2, ServerFrameType, OwnersServer
  <2>3. CASE ClientFinish \/ ServerFinish
    BY <2>3, FinishType DEF ClientFinish, ServerFinish, core, OwnersOK
  <2>4. CASE UNCHANGED vars
    BY <2>4 DEF vars, TypeOK, OwnersOK
  <2> QED
    BY <2>1, <2>2, <2>3, <2>4 DEF Next
<1> QED
  BY <1>1, <1>2, PTL DEF Spec
=============================================================================
