------------------------ MODULE ConformanceGradeProofs ------------------------
(***************************************************************************)
(* What the grader may conclude from a capture, for any servers, losses    *)
(* and planted defects, and walks of up to the code's eight pages.         *)
(*                                                                         *)
(* IInv says what a capture can hold.  From it follow, in this order, that *)
(* a dead target is not graded, that a walk passes only when it is whole,  *)
(* that every violation reported is the server's, and that every violation *)
(* answered is reported.  With Complete, which says that a server that     *)
(* answers everything was asked everything, what is flagged is exact.      *)
(***************************************************************************)
EXTENDS ConformanceGrade, FiniteSetTheorems, WellFoundedInduction, TLAPS

-----------------------------------------------------------------------------
(* Operators: the plans, the names of the probes, bounds of sets of pages. *)

LEMMA PlanFacts ==
    /\ DOMAIN Plan = 1..Len(Plan) /\ Len(Plan) \in {8, 10}
    /\ ~stateless =>
        /\ Len(Plan) = 10 /\ Plan[1] = "H1.init" /\ Plan[2] = "T1" /\ Plan[3] = "V1.noheader"
        /\ Plan[4] = "T2.badcursor" /\ Plan[5] = "B1.batch" /\ Plan[6] = "S1.nosession"
        /\ Plan[7] = "H2.newer" /\ Plan[8] = "H3.cold" /\ Plan[9] = "D1.discover" /\ Plan[10] = "G1.get"
    /\ stateless =>
        /\ Len(Plan) = 8 /\ Plan[1] = "D1.discover" /\ Plan[2] = "D2.nometa" /\ Plan[3] = "H1.init"
        /\ Plan[4] = "T1" /\ Plan[5] = "T2.badcursor" /\ Plan[6] = "B1.batch"
        /\ Plan[7] = "V2.mismatch" /\ Plan[8] = "G1.get"
<1>1. CASE stateless
  BY <1>1 DEF Plan, StatelessPlan
<1>2. CASE ~stateless
  BY <1>2 DEF Plan, ClassicPlan
<1> QED BY <1>1, <1>2

\* The plan's own probes, the walk aside.
Entries == {Plan[i] : i \in 1..Len(Plan)} \ {"T1"}

LEMMA EntryNames ==
    /\ ~stateless => Entries = {"H1.init", "V1.noheader", "T2.badcursor", "B1.batch", "S1.nosession",
                                "H2.newer", "H3.cold", "D1.discover", "G1.get"}
    /\ stateless => Entries = {"D1.discover", "D2.nometa", "H1.init", "T2.badcursor", "B1.batch",
                               "V2.mismatch", "G1.get"}
<1> DEFINE all == {Plan[i] : i \in 1..Len(Plan)}
<1>1. CASE stateless
  <2>1. \A i \in 1..8 : i = 1 \/ i = 2 \/ i = 3 \/ i = 4 \/ i = 5 \/ i = 6 \/ i = 7 \/ i = 8
    OBVIOUS
  <2>2. all = {Plan[1], Plan[2], Plan[3], Plan[4], Plan[5], Plan[6], Plan[7], Plan[8]}
    BY <1>1, <2>1, PlanFacts
  <2>3. all = {"D1.discover", "D2.nometa", "H1.init", "T1", "T2.badcursor", "B1.batch", "V2.mismatch",
               "G1.get"}
    <3> HIDE DEF all
    <3> QED BY <1>1, <2>2, PlanFacts
  <2> QED BY <1>1, <2>3 DEF Entries
<1>2. CASE ~stateless
  <2>1. \A i \in 1..10 : i = 1 \/ i = 2 \/ i = 3 \/ i = 4 \/ i = 5 \/ i = 6 \/ i = 7 \/ i = 8 \/ i = 9 \/ i = 10
    OBVIOUS
  <2>2. all = {Plan[1], Plan[2], Plan[3], Plan[4], Plan[5], Plan[6], Plan[7], Plan[8], Plan[9], Plan[10]}
    BY <1>2, <2>1, PlanFacts
  <2>3. all = {"H1.init", "T1", "V1.noheader", "T2.badcursor", "B1.batch", "S1.nosession", "H2.newer",
               "H3.cold", "D1.discover", "G1.get"}
    <3> HIDE DEF all
    <3> QED BY <1>2, <2>2, PlanFacts
  <2> QED BY <1>2, <2>3 DEF Entries
<1> QED BY <1>1, <1>2

LEMMA NamesOfPages ==
    ASSUME NEW k \in 0..MaxPages - 1
    PROVE  /\ PageProbe(k) \notin Entries
           /\ PageProbe(k) \notin {"T1", "H1.init", "D1.discover", "D2.nometa", "H2.newer", "S1.nosession",
                                   "B1.batch", "T2.badcursor", "V1.noheader", "V2.mismatch", "G1.get"}
           /\ stateless => (PageProbe(k) = "H3.cold" <=> k = 0)
           /\ \A j \in 0..MaxPages - 1 : PageProbe(j) = PageProbe(k) => j = k
<1>1. k \in 0..7 /\ MaxPages \in 1..8
  BY HarnessAssumption
<1>2. /\ PageNames[1] = "T1.page0" /\ PageNames[2] = "T1.page1" /\ PageNames[3] = "T1.page2"
      /\ PageNames[4] = "T1.page3" /\ PageNames[5] = "T1.page4" /\ PageNames[6] = "T1.page5"
      /\ PageNames[7] = "T1.page6" /\ PageNames[8] = "T1.page7"
  BY DEF PageNames
<1>3. \A i, j \in 1..8 : PageNames[i] = PageNames[j] => i = j
  BY <1>2
<1>4. \A i \in 1..8 :
         PageNames[i] \notin {"T1", "H1.init", "D1.discover", "D2.nometa", "H2.newer", "S1.nosession",
                              "B1.batch", "T2.badcursor", "V1.noheader", "V2.mismatch", "G1.get", "H3.cold"}
  BY <1>2
<1>5. \A i \in 1..8 : PageNames[i] \notin Entries
  <2>1. CASE stateless
    BY <1>2, <2>1, EntryNames
  <2>2. CASE ~stateless
    BY <1>2, <2>2, EntryNames
  <2> QED BY <2>1, <2>2
<1>6. stateless => "H3.cold" \notin Entries
  BY EntryNames
<1>7. /\ k + 1 \in 1..8 /\ \A j \in 0..MaxPages - 1 : j + 1 \in 1..8 /\ (j + 1 = k + 1 => j = k)
      /\ (k = 0 <=> k + 1 = 1)
  BY <1>1
<1> QED BY <1>3, <1>4, <1>5, <1>6, <1>7 DEF PageProbe

\* A set of numbers has a least one, and a finite one a greatest.
LEMMA LeastOne ==
    ASSUME NEW S \in SUBSET Nat, S # {}
    PROVE  Min(S) \in S /\ \A i \in S : Min(S) <= i
<1>1. PICK least \in S : \A i \in S : ~(<<i, least>> \in OpToRel(<, Nat))
  BY NatLessThanWellFounded, WFMin
<1>2. OpToRel(<, Nat) = {ss \in Nat \X Nat : ss[1] < ss[2]}
  BY Zenon DEF OpToRel
<1>3. \A i \in S : ~(<<i, least>> \in {ss \in Nat \X Nat : ss[1] < ss[2]})
  BY <1>1, <1>2, Zenon
<1>4. \A i \in S : least <= i
  <2> TAKE i \in S
  <2>1. i \in Nat /\ least \in Nat
    OBVIOUS
  <2>2. ~(i < least)
    BY <1>3, <2>1
  <2> QED BY <2>1, <2>2
<1> QED BY <1>4 DEF Min

LEMMA GreatestOne ==
    ASSUME NEW n \in Nat, NEW S \in SUBSET (0..n), S # {}
    PROVE  Max(S) \in S /\ \A i \in S : i <= Max(S)
<1> DEFINE R == {n - i : i \in S}
<1>1. \A i \in S : i \in 0..n /\ n - i \in Nat
  OBVIOUS
<1>2. R \in SUBSET Nat /\ R # {}
  BY <1>1
<1>3. Min(R) \in R /\ \A r \in R : Min(R) <= r
  <2> HIDE DEF R
  <2> QED BY <1>2, LeastOne
<1>4. PICK g \in S : Min(R) = n - g
  BY <1>3
<1>5. \A i \in S : i <= g
  <2> TAKE i \in S
  <2>1. n - i \in R
    OBVIOUS
  <2>2. n - g <= n - i
    BY <1>3, <1>4, <2>1
  <2> QED BY <1>1, <2>2
<1>6. \A i \in S : g >= i
  BY <1>1, <1>5
<1>7. Max(S) \in S /\ \A i \in S : Max(S) >= i
  BY <1>6 DEF Max
<1> QED BY <1>1, <1>7

-----------------------------------------------------------------------------
(* The inductive invariant. *)

Claims == Range(Eras) \cup {"none", "unknown", "2024-10-07"}

\* What a server can answer, and what is recorded of an exchange without answer.
Messages ==
    [wire : {"answered"}, ok : BOOLEAN, body : {"none", "result", "error", "batch"}, code : Int,
     version : Claims, supported : SUBSET Range(Eras), info : {"absent", "incomplete", "full"},
     caps : {"absent", "none", "tools"}, names : Seq(Nat), cursor : Nat, cacheable : BOOLEAN,
     complete : BOOLEAN, sid : BOOLEAN, stream : BOOLEAN]

Unheard ==
    [wire : {"dead", "silent", "cut"}, ok : BOOLEAN, body : {"none"}, code : {0},
     version : {"none"}, supported : {{}}, info : {"absent"},
     caps : {"absent"}, names : {<<>>}, cursor : {0}, cacheable : {FALSE},
     complete : {FALSE}, sid : BOOLEAN, stream : {FALSE}]

Sane == target \in Targets /\ planted \subseteq Defects(target) /\ (http => mode # "silent")

\* An exchange of the capture: no request of HTTP stays pending, and a stateless
\* server that mints session ids is one with that defect.
Capturable(e) ==
    /\ e \in Messages \cup Unheard
    /\ http => e.wire # "silent"
    /\ stateless /\ e.sid => has("mints")

PageIndices == 0..MaxPages - 1

Captured ==
    /\ DOMAIN cap \subseteq Entries \cup {PageProbe(k) : k \in PageIndices}
    /\ \A p \in DOMAIN cap : Capturable(cap[p])

\* The walk's place in the plan.
WalkAt == IF stateless THEN 4 ELSE 2

\* The identity exchange comes first, the pages in their order and each on the
\* cursor of the one before, and what depends on an answer after it.
Ordered ==
    /\ at \in 1..Len(Plan) + 1
    /\ page \in PageIndices
    /\ at # 1 \/ DOMAIN cap # {} => recorded(Identity)
    /\ at < WalkAt => page = 0
    /\ \A k \in PageIndices :
          /\ k < page => recorded(PageProbe(k)) /\ cap[PageProbe(k)].cursor # 0
          /\ recorded(PageProbe(k)) => k <= page /\ (at <= WalkAt => k < page)
    /\ Probing /\ at # 1 => Sent(Plan[at], cap)
    /\ \A p \in {"S1.nosession", "V2.mismatch"} : recorded(p) => Sent(p, cap)

\* What was answered is what the server answers to the probe.
Heard ==
    /\ \A p \in DOMAIN cap \cap Entries :
          cap[p].wire = "answered" => cap[p] = Answer(p, 0)
    /\ \A k \in PageIndices :
          recorded(PageProbe(k)) /\ cap[PageProbe(k)].wire = "answered" =>
              cap[PageProbe(k)] = Answer(PageProbe(k), k)

\* The report is of the capture as it is.
Reported == done => ~Probing /\ report = Cells

IInv == Sane /\ Captured /\ Ordered /\ Heard /\ Reported

-----------------------------------------------------------------------------
(* What the server answers, field by field. *)

LEMMA TargetFacts ==
    ASSUME Sane
    PROVE  /\ target.era \in Range(Eras) /\ target.kind \in {"http", "stdio"}
           /\ target.tools \in BOOLEAN /\ target.session \in BOOLEAN
           /\ target.speaks \in SUBSET Range(Eras) /\ target.era \in target.speaks
           /\ target.pages \in Nat \ {0}
           /\ target.session => http /\ ~stateless /\ target.era # "2024-11-05"
<1>1. /\ target \in [era : Range(Eras), kind : {"http", "stdio"}, tools : BOOLEAN,
                     session : BOOLEAN, speaks : SUBSET Range(Eras), pages : Nat \ {0}]
      /\ target.era \in target.speaks
      /\ target.session => target.kind = "http" /\ target.era \in {Eras[i] : i \in 2..4}
  BY HarnessAssumption DEF Sane
<1>2. Eras[2] = "2025-03-26" /\ Eras[3] = "2025-06-18" /\ Eras[4] = "2025-11-25"
  BY DEF Eras
<1>3. \A i \in 2..4 : Eras[i] # "2024-11-05" /\ Eras[i] # StatelessEra
  BY <1>2 DEF StatelessEra
<1> QED BY <1>1, <1>3 DEF http, stateless

LEMMA EraNames ==
    Range(Eras) = {"2024-11-05", "2025-03-26", "2025-06-18", "2025-11-25", "2026-07-28"}
<1>1. /\ DOMAIN Eras = 1..5 /\ Eras[1] = "2024-11-05" /\ Eras[2] = "2025-03-26" /\ Eras[3] = "2025-06-18"
      /\ Eras[4] = "2025-11-25" /\ Eras[5] = "2026-07-28"
  BY DEF Eras
<1>2. Range(Eras) = {Eras[i] : i \in 1..5}
  BY <1>1 DEF Range
<1>3. \A i \in 1..5 : i = 1 \/ i = 2 \/ i = 3 \/ i = 4 \/ i = 5
  OBVIOUS
<1>4. {Eras[i] : i \in 1..5} = {Eras[1], Eras[2], Eras[3], Eras[4], Eras[5]}
  BY <1>3
<1> QED BY <1>1, <1>2, <1>4

LEMMA NoMessageFacts ==
    /\ NoMessage \in Messages /\ NoMessage.ok /\ NoMessage.body = "none" /\ NoMessage.supported = {}
    /\ NoMessage.info = "absent" /\ NoMessage.caps = "absent" /\ NoMessage.cursor = 0
    /\ NoMessage.names = <<>> /\ ~NoMessage.complete /\ ~NoMessage.sid /\ ~NoMessage.stream
    /\ NoMessage.version = "none" /\ ~NoMessage.cacheable
BY DEF NoMessage, Messages, Claims

LEMMA RefusalFacts ==
    ASSUME NEW code \in Int
    PROVE  LET e == Refusal(code) IN
           e \in Messages /\ e.ok /\ e.body = "error" /\ e.code = code /\ ~e.sid /\ ~e.stream /\ e.cursor = 0
BY NoMessageFacts DEF Refusal, Messages

LEMMA ResultFacts ==
    /\ Result \in Messages /\ Result.ok /\ Result.body = "result" /\ Result.supported = {}
    /\ Result.info = "absent" /\ Result.caps = "absent" /\ Result.cursor = 0 /\ ~Result.sid /\ ~Result.stream
    /\ Result.complete = (stateless /\ ~has("incomplete"))
BY NoMessageFacts DEF Result, Messages, stateless, has

LEMMA IdentifiedFacts ==
    ASSUME Sane
    PROVE  LET e == Identified(Result) IN
           /\ e \in Messages /\ e.ok /\ e.body = "result" /\ e.supported = {} /\ ~e.sid /\ ~e.stream
           /\ e.complete = (stateless /\ ~has("incomplete"))
           /\ e.info = IF has("noInfo") THEN "absent" ELSE IF has("anonymous") THEN "incomplete" ELSE "full"
           /\ e.caps = IF target.tools THEN "tools" ELSE "none"
BY ResultFacts DEF Identified, Messages

LEMMA DiscoveredFacts ==
    ASSUME Sane
    PROVE  LET e == Discovered IN
           /\ e \in Messages /\ e.ok /\ e.body = "result" /\ e.supported = target.speaks /\ ~e.sid /\ ~e.stream
           /\ e.complete = (stateless /\ ~has("incomplete"))
           /\ e.info = IF has("noInfo") THEN "absent" ELSE IF has("anonymous") THEN "incomplete" ELSE "full"
           /\ e.caps = IF target.tools THEN "tools" ELSE "none"
<1>1. target.speaks \in SUBSET Range(Eras)
  BY TargetFacts
<1> DEFINE m == Identified(Result)
<1>2. /\ m \in Messages /\ m.ok /\ m.body = "result" /\ ~m.sid /\ ~m.stream
      /\ m.complete = (stateless /\ ~has("incomplete"))
      /\ m.info = IF has("noInfo") THEN "absent" ELSE IF has("anonymous") THEN "incomplete" ELSE "full"
      /\ m.caps = IF target.tools THEN "tools" ELSE "none"
  BY IdentifiedFacts
<1>3. Discovered = [m EXCEPT !.supported = target.speaks]
  BY DEF Discovered
<1> HIDE DEF m
<1> QED BY <1>1, <1>2, <1>3 DEF Messages

LEMMA InitializedFacts ==
    ASSUME Sane, NEW offer \in Range(Eras)
    PROVE  LET e == Initialized(offer) IN
           /\ e \in Messages /\ e.ok /\ e.body = "result" /\ e.sid = target.session /\ ~e.stream
           /\ ~e.complete
           /\ e.info = IF has("noInfo") THEN "absent" ELSE IF has("anonymous") THEN "incomplete" ELSE "full"
           /\ e.caps = IF target.tools THEN "tools" ELSE "none"
           /\ e.version = IF has("unknown") /\ offer = StatelessEra THEN "unknown"
                          ELSE IF has("wrongEra") /\ offer = target.era THEN "2024-10-07"
                          ELSE IF offer \in target.speaks THEN offer ELSE target.era
<1> DEFINE m == Identified(Result)
           version == IF has("unknown") /\ offer = StatelessEra THEN "unknown"
                      ELSE IF has("wrongEra") /\ offer = target.era THEN "2024-10-07"
                      ELSE IF offer \in target.speaks THEN offer ELSE target.era
<1>1. target.session \in BOOLEAN /\ version \in Claims
  BY TargetFacts DEF Claims
<1>2. /\ m \in Messages /\ m.ok /\ m.body = "result" /\ ~m.stream
      /\ m.info = IF has("noInfo") THEN "absent" ELSE IF has("anonymous") THEN "incomplete" ELSE "full"
      /\ m.caps = IF target.tools THEN "tools" ELSE "none"
  BY IdentifiedFacts
<1>3. Initialized(offer) = [m EXCEPT !.complete = FALSE, !.sid = target.session, !.version = version]
  BY DEF Initialized
<1> HIDE DEF m, version
<1> QED BY <1>1, <1>2, <1>3 DEF Messages, version

LEMMA ListedFacts ==
    ASSUME Sane, NEW k \in Nat
    PROVE  LET e == Listed(k) IN
           /\ e \in Messages /\ e.ok /\ ~e.sid /\ ~e.stream
           /\ ~target.tools => e.body = "error" /\ e.code = -32601 /\ e.cursor = 0
           /\ target.tools =>
                 /\ e.body = "result" /\ e.complete = (stateless /\ ~has("incomplete"))
                 /\ has("nameless") => e.names = <<0>>
                 /\ ~has("nameless") /\ has("duplicates") /\ (k > 0 \/ target.pages = 1) =>
                       e.names = <<k + 1, 1>>
                 /\ ~has("nameless") /\ ~(has("duplicates") /\ (k > 0 \/ target.pages = 1)) =>
                       e.names = <<k + 1>>
                 /\ e.cursor = IF has("loops") THEN 1 ELSE IF k + 1 < target.pages THEN k + 1 ELSE 0
                 /\ e.cacheable = (stateless /\ ~has("uncacheable"))
<1> DEFINE names == IF has("nameless") THEN <<0>>
                    ELSE IF has("duplicates") /\ (k > 0 \/ target.pages = 1)
                         THEN <<k + 1, 1>> ELSE <<k + 1>>
           cursor == IF has("loops") THEN 1 ELSE IF k + 1 < target.pages THEN k + 1 ELSE 0
           cacheable == stateless /\ ~has("uncacheable")
<1>1. names \in Seq(Nat) /\ cursor \in Nat /\ cacheable \in BOOLEAN
  BY DEF stateless, has
<1>2. CASE ~target.tools
  BY <1>2, RefusalFacts DEF Listed
<1>3. CASE target.tools
  <2>1. Listed(k) = [Result EXCEPT !.names = names, !.cursor = cursor, !.cacheable = cacheable]
    BY <1>3 DEF Listed
  <2> HIDE DEF names, cursor, cacheable
  <2>2. LET e == Listed(k) IN
        /\ e \in Messages /\ e.ok /\ ~e.sid /\ ~e.stream /\ e.body = "result"
        /\ e.complete = (stateless /\ ~has("incomplete"))
        /\ e.names = names /\ e.cursor = cursor /\ e.cacheable = cacheable
    BY <1>1, <2>1, ResultFacts DEF Messages
  <2> QED BY <1>3, <2>2 DEF names, cursor, cacheable
<1> QED BY <1>2, <1>3

\* A page can be asked for when the one before has been recorded.
Askable(k) == k \in PageIndices /\ (k # 0 => recorded(PageProbe(k - 1)))

LEMMA AskedIsNumber ==
    ASSUME Captured, NEW k, Askable(k)
    PROVE  Asked(k) \in Nat
<1>1. CASE k = 0
  BY <1>1 DEF Asked
<1>2. CASE k # 0
  <2> DEFINE e == cap[PageProbe(k - 1)]
  <2>1. e \in Messages \cup Unheard
    BY <1>2 DEF Askable, Captured, Capturable, recorded
  <2> HIDE DEF e
  <2>2. e \in Messages => e.cursor \in Nat
    BY DEF Messages
  <2>3. e \in Unheard => e.cursor \in Nat
    BY DEF Unheard
  <2> QED BY <1>2, <2>1, <2>2, <2>3 DEF Asked, e
<1> QED BY <1>1, <1>2

LEMMA ListedAnswers ==
    ASSUME Sane
    PROVE  \A k \in Nat : Listed(k) \in Messages /\ ~Listed(k).sid
<1> SUFFICES ASSUME NEW k \in Nat
             PROVE  Listed(k) \in Messages /\ ~Listed(k).sid
  OBVIOUS
<1> DEFINE e == Listed(k)
<1>1. e \in Messages /\ ~e.sid
  BY ListedFacts
<1> QED BY <1>1

LEMMA ClassicAnswerFacts ==
    ASSUME Sane, Captured, NEW p, NEW k, Askable(k)
    PROVE  ClassicAnswer(p, k) \in Messages
<1>1. target.era \in Range(Eras) /\ StatelessEra \in Range(Eras)
  BY TargetFacts, EraNames DEF StatelessEra
<1>2. Initialized(target.era) \in Messages /\ Initialized(StatelessEra) \in Messages
  BY <1>1, InitializedFacts
<1>3. Discovered \in Messages /\ Result \in Messages
  BY DiscoveredFacts, ResultFacts
<1>4. /\ Refusal(-32601) \in Messages /\ Refusal(-32600) \in Messages /\ Refusal(-32602) \in Messages
      /\ Refusal(-32000) \in Messages
  BY RefusalFacts
<1>5. [Refusal(-32000) EXCEPT !.ok = FALSE] \in Messages
  <2> DEFINE e == Refusal(-32000)
  <2>1. e \in Messages
    BY <1>4
  <2> HIDE DEF e
  <2>2. [e EXCEPT !.ok = FALSE] \in Messages
    BY <2>1 DEF Messages
  <2> QED BY <2>2 DEF e
<1>6. Accepted \in Messages /\ [NoMessage EXCEPT !.stream = TRUE] \in Messages
  BY NoMessageFacts DEF Accepted, Messages
<1>7. Listed(0) \in Messages /\ Listed(Asked(k)) \in Messages
  BY AskedIsNumber, ListedAnswers
<1> QED BY <1>2, <1>3, <1>4, <1>5, <1>6, <1>7 DEF ClassicAnswer

LEMMA StatelessAnswerFacts ==
    ASSUME Sane, Captured, stateless, NEW p, NEW k, Askable(k)
    PROVE  StatelessAnswer(p, k) \in Messages /\ ~StatelessAnswer(p, k).sid
<1> DEFINE Fine(e) == e \in Messages /\ ~e.sid
           streamed == [NoMessage EXCEPT !.stream = has("streams"), !.ok = has("streams")]
<1>1. Fine(Initialized("2025-11-25"))
  BY TargetFacts, EraNames, InitializedFacts
<1>2. Fine(Discovered)
  BY DiscoveredFacts
<1>3. /\ Fine(Refusal(-32601)) /\ Fine(Refusal(-32600)) /\ Fine(Refusal(-32602))
      /\ Fine(Refusal(-32004)) /\ Fine(Refusal(-32022))
  BY RefusalFacts
<1>4. Fine(Accepted) /\ Fine(streamed)
  <2>1. has("streams") \in BOOLEAN
    BY DEF has
  <2> QED BY <2>1, NoMessageFacts DEF Accepted, Messages
<1>5. Fine(Listed(0)) /\ Fine(Listed(Asked(k)))
  BY AskedIsNumber, ListedAnswers
<1>6. StatelessAnswer(p, k) \in
        {Initialized("2025-11-25"), Discovered, Refusal(-32601), Refusal(-32600), Refusal(-32602),
         Refusal(-32004), Refusal(-32022), Accepted, streamed, Listed(0), Listed(Asked(k))}
  BY DEF StatelessAnswer
<1> HIDE DEF streamed
<1> QED BY <1>1, <1>2, <1>3, <1>4, <1>5, <1>6

\* The answer to any probe can be recorded.
LEMMA AnswerFacts ==
    ASSUME Sane, Captured, NEW p, NEW k, Askable(k)
    PROVE  /\ Answer(p, k) \in Messages
           /\ stateless /\ Answer(p, k).sid => has("mints")
<1>1. CASE ~stateless
  BY <1>1, ClassicAnswerFacts DEF Answer
<1>2. CASE stateless
  <2> DEFINE e == StatelessAnswer(p, k)
             b == e.sid \/ has("mints")
  <2>1. e \in Messages /\ ~e.sid
    BY <1>2, StatelessAnswerFacts
  <2>2. Answer(p, k) = [e EXCEPT !.sid = b]
    BY <1>2 DEF Answer
  <2>3. b \in BOOLEAN /\ (b => has("mints"))
    BY <2>1
  <2> HIDE DEF e, b
  <2> QED BY <2>1, <2>2, <2>3 DEF Messages
<1> QED BY <1>1, <1>2

-----------------------------------------------------------------------------
(* A capture only grows, and what was answered before does not depend on it. *)

Grows == /\ UNCHANGED <<target, planted>>
         /\ \A q \in DOMAIN cap : q \in DOMAIN cap' /\ cap'[q] = cap[q]

LEMMA ListedStands ==
    ASSUME UNCHANGED <<target, planted>>, NEW k
    PROVE  Listed(k)' = Listed(k)
<1>1. stateless' = stateless /\ \A d : has(d)' = has(d)
  BY DEF stateless, has
<1>2. Result' = Result
  BY <1>1 DEF Result
<1>3. Refusal(-32601)' = Refusal(-32601)
  BY DEF Refusal, NoMessage
<1>4. ASSUME NEW d PROVE has(d)' = has(d)
  BY DEF has
<1>5. target' = target /\ planted' = planted
  OBVIOUS
<1>6. CASE ~target.tools
  BY <1>6, <1>5, <1>3 DEF Listed
<1>7. CASE target.tools
  <2> DEFINE names == IF has("nameless") THEN <<0>>
                    ELSE IF has("duplicates") /\ (k > 0 \/ target.pages = 1)
                         THEN <<k + 1, 1>> ELSE <<k + 1>>
           cursor == IF has("loops") THEN 1 ELSE IF k + 1 < target.pages THEN k + 1 ELSE 0
           cacheable == stateless /\ ~has("uncacheable")
  <2>1. names' = names
     BY <1>5 DEF has
  <2>2. cursor' = cursor
     BY <1>5 DEF has
  <2>3. cacheable' = cacheable
     BY <1>5 DEF has, stateless
  <2>4. Listed(k) = [Result EXCEPT !.names = names, !.cursor = cursor, !.cacheable = cacheable]
    BY <1>7 DEF Listed
  <2>5. Listed(k)' = [Result' EXCEPT !.names = names', !.cursor = cursor', !.cacheable = cacheable']
    BY <1>7, <1>5 DEF Listed
  <2> HIDE DEF names, cursor, cacheable
  <2> QED BY <2>1, <2>2, <2>3, <2>4, <2>5, <1>2
<1> QED BY <1>6, <1>7

LEMMA InitializedStands ==
    ASSUME UNCHANGED <<target, planted>>, NEW offer
    PROVE  Initialized(offer)' = Initialized(offer) /\ Discovered' = Discovered /\ Result' = Result
<1> DEFINE version == IF has("unknown") /\ offer = StatelessEra THEN "unknown"
                      ELSE IF has("wrongEra") /\ offer = target.era THEN "2024-10-07"
                      ELSE IF offer \in target.speaks THEN offer ELSE target.era
           info == IF has("noInfo") THEN "absent" ELSE IF has("anonymous") THEN "incomplete" ELSE "full"
           caps == IF target.tools THEN "tools" ELSE "none"
           m == Identified(Result)
<1>1. target' = target /\ planted' = planted
  OBVIOUS
<1>2. version' = version
  BY <1>1 DEF has
<1>3. info' = info
  BY <1>1 DEF has
<1>4. caps' = caps
  BY <1>1
<1>5. Result' = Result
  BY <1>1 DEF Result, stateless, has
<1>6. m = [Result EXCEPT !.info = info, !.caps = caps]
  BY DEF Identified
<1>7. m' = [Result' EXCEPT !.info = info', !.caps = caps']
  BY DEF Identified
<1>8. m' = m
  <2> HIDE DEF info, caps, m
  <2> QED BY <1>3, <1>4, <1>5, <1>6, <1>7
<1>9. Discovered = [m EXCEPT !.supported = target.speaks] /\ Discovered' = [m' EXCEPT !.supported = target'.speaks]
  BY DEF Discovered
<1>10. /\ Initialized(offer) = [m EXCEPT !.complete = FALSE, !.sid = target.session, !.version = version]
       /\ Initialized(offer)' = [m' EXCEPT !.complete = FALSE, !.sid = target'.session, !.version = version']
  BY DEF Initialized
<1> HIDE DEF m, version, info, caps
<1> QED BY <1>1, <1>2, <1>5, <1>8, <1>9, <1>10

LEMMA ClassicStands ==
    ASSUME Grows, ~stateless, NEW p, NEW k, Askable(k), recorded("H1.init")
    PROVE  ClassicAnswer(p, k)' = ClassicAnswer(p, k)
<1>1. target' = target /\ planted' = planted
  BY DEF Grows
<1>2. cap'["H1.init"] = cap["H1.init"]
  BY DEF Grows, recorded
<1>3. Asked(k)' = Asked(k)
  <2>1. CASE k = 0
    BY <2>1 DEF Asked
  <2>2. CASE k # 0
    <3>1. PageProbe(k - 1)' = PageProbe(k - 1)
      BY <1>1 DEF PageProbe, stateless
    <3>2. cap'[PageProbe(k - 1)] = cap[PageProbe(k - 1)]
      BY <2>2 DEF Grows, Askable, recorded
    <3> QED BY <2>2, <3>1, <3>2 DEF Asked
  <2> QED BY <2>1, <2>2
<1>4. Admitted(p)' <=> Admitted(p)
  BY <1>1, <1>2 DEF Admitted, has, Fresh, stateless
<1>5. /\ Listed(0)' = Listed(0)
      /\ \A j : Listed(j)' = Listed(j)
  BY <1>1, ListedStands
<1>6. Listed(Asked(k))' = Listed(Asked(k))
  BY <1>3, <1>5
<1>7. /\ Initialized(target.era)' = Initialized(target.era)
      /\ Initialized(StatelessEra)' = Initialized(StatelessEra)
      /\ Discovered' = Discovered /\ Result' = Result
  BY <1>1, InitializedStands
<1> QED BY <1>1, <1>4, <1>5, <1>6, <1>7 DEF ClassicAnswer, has, Refusal, NoMessage, Accepted

LEMMA StatelessStands ==
    ASSUME Grows, stateless, NEW p, NEW k, Askable(k), p = "D1.discover" \/ recorded("D1.discover")
    PROVE  StatelessAnswer(p, k)' = StatelessAnswer(p, k)
<1>1. target' = target /\ planted' = planted
  BY DEF Grows
<1>2. /\ \A j : Listed(j)' = Listed(j)
      /\ Initialized("2025-11-25")' = Initialized("2025-11-25")
      /\ Discovered' = Discovered
  BY <1>1, ListedStands, InitializedStands
<1>3. CASE p = "D1.discover"
  BY <1>2, <1>3 DEF StatelessAnswer
<1>4. CASE recorded("D1.discover")
  <2>1. cap'["D1.discover"] = cap["D1.discover"]
    BY <1>4 DEF Grows, recorded
  <2>2. Mismatch(cap)' = Mismatch(cap)
    BY <2>1 DEF Mismatch, Unlisted
  <2>3. Asked(k)' = Asked(k)
    <3>1. CASE k = 0
      BY <3>1 DEF Asked
    <3>2. CASE k # 0
      <4>1. PageProbe(k - 1)' = PageProbe(k - 1)
        BY <1>1 DEF PageProbe, stateless
      <4>2. cap'[PageProbe(k - 1)] = cap[PageProbe(k - 1)]
        BY <3>2 DEF Grows, Askable, recorded
      <4> QED BY <3>2, <4>1, <4>2 DEF Asked
    <3> QED BY <3>1, <3>2
  <2>4. Listed(Asked(k))' = Listed(Asked(k)) /\ Listed(0)' = Listed(0)
    BY <1>2, <2>3
  <2>5. /\ (has("streams"))' = has("streams")
        /\ [NoMessage EXCEPT !.stream = has("streams"), !.ok = has("streams")]'
            = [NoMessage EXCEPT !.stream = has("streams"), !.ok = has("streams")]
    BY <1>1 DEF has, NoMessage
  <2> QED BY <1>1, <1>2, <2>2, <2>4, <2>5 DEF StatelessAnswer, has, Refusal, NoMessage, Accepted
<1> QED BY <1>3, <1>4

\* An answer stays what it was as the capture grows.
LEMMA AnswersStand ==
    ASSUME Grows, NEW p, NEW k, Askable(k), p = Identity \/ recorded(Identity)
    PROVE  Answer(p, k)' = Answer(p, k)
<1>1. target' = target /\ planted' = planted
  BY DEF Grows
<1>2. CASE stateless
  <2> DEFINE e == StatelessAnswer(p, k)
  <2>1. e' = e
    BY <1>2, StatelessStands DEF Identity
  <2>2. Answer(p, k) = [e EXCEPT !.sid = e.sid \/ has("mints")]
    BY <1>2 DEF Answer
  <2>3. Answer(p, k)' = [e' EXCEPT !.sid = e'.sid \/ has("mints")']
    BY <1>1, <1>2 DEF Answer, stateless
  <2>4. has("mints")' = has("mints")
    BY <1>1 DEF has
  <2> HIDE DEF e
  <2> QED BY <2>1, <2>2, <2>3, <2>4
<1>3. CASE ~stateless /\ p = "H1.init"
  BY <1>1, <1>3, InitializedStands DEF Answer, ClassicAnswer, stateless
<1>4. CASE ~stateless /\ recorded("H1.init")
  BY <1>1, <1>4, ClassicStands DEF Answer, stateless
<1> QED BY <1>2, <1>3, <1>4 DEF Identity

\* Only the walk's requests depend on the page it is at.
LEMMA AnswerOffTheWalk ==
    ASSUME NEW i \in 1..Len(Plan), Plan[i] # "T1", NEW k
    PROVE  Answer(Plan[i], k) = Answer(Plan[i], 0)
<1> DEFINE p == Plan[i]
<1>1. CASE stateless
  <2>1. p \in {"D1.discover", "D2.nometa", "H1.init", "T2.badcursor", "B1.batch", "V2.mismatch", "G1.get"}
    BY <1>1, PlanFacts
  <2>2. StatelessAnswer(p, k) = StatelessAnswer(p, 0)
    <3> HIDE DEF p
    <3> QED BY <2>1 DEF StatelessAnswer
  <2> QED BY <1>1, <2>2 DEF Answer
<1>2. CASE ~stateless
  <2>1. p \in {"H1.init", "V1.noheader", "T2.badcursor", "B1.batch", "S1.nosession", "H2.newer",
               "H3.cold", "D1.discover", "G1.get"}
    BY <1>2, PlanFacts
  <2>2. ClassicAnswer(p, k) = ClassicAnswer(p, 0)
    <3> HIDE DEF p
    <3> QED BY <2>1 DEF ClassicAnswer
  <2> QED BY <1>2, <2>2 DEF Answer
<1> QED BY <1>1, <1>2

-----------------------------------------------------------------------------
(* The grade of a capture depends on the target and the capture alone. *)

LEMMA CellsStand ==
    ASSUME UNCHANGED <<target, planted, cap>>
    PROVE  Cells' = Cells
<1>1. target' = target /\ cap' = cap
  OBVIOUS
<1>2. stateless' = stateless /\ http' = http
  BY <1>1 DEF stateless, http
<1>3. ASSUME NEW p PROVE recorded(p)' = recorded(p)
  BY <1>1 DEF recorded
<1>4. ASSUME NEW k PROVE PageProbe(k)' = PageProbe(k)
  BY <1>2 DEF PageProbe
<1>5. Walked' = Walked
  BY <1>3, <1>4 DEF Walked
<1>6. ASSUME NEW k PROVE PageGrade(k)' = PageGrade(k)
  BY <1>1, <1>4, <1>5 DEF PageGrade
<1>7. T1Tools' = T1Tools
  BY <1>1, <1>4, <1>5, <1>6 DEF T1Tools
<1>8. ASSUME NEW c PROVE ToolsCell(c)' = ToolsCell(c)
  BY <1>1, <1>3, <1>7 DEF ToolsCell, Graded
<1>9. ASSUME NEW p PROVE ToolsCapability(p)' = ToolsCapability(p)
  BY <1>1, <1>3 DEF ToolsCapability
<1>10. Negotiated' = Negotiated
  BY <1>1, <1>3 DEF Negotiated
<1>11. ClassicCellNames' = ClassicCellNames /\ StatelessCellNames' = StatelessCellNames
  <2>1. recorded("V1.noheader")' = recorded("V1.noheader")
    BY <1>3
  <2>2. VersionHeader' = VersionHeader
    BY <1>1 DEF VersionHeader
  <2>3. ClassicCellNames' = ClassicCellNames
    BY <1>1, <1>2, <1>10, <2>1, <2>2 DEF ClassicCellNames
  <2>4. StatelessCellNames' = StatelessCellNames
    BY <1>2 DEF StatelessCellNames
  <2> QED BY <2>3, <2>4
<1>12. ASSUME NEW c PROVE ClassicCell(c)' = ClassicCell(c)
  <2>1. V1Header' = V1Header
    BY <1>1, <1>2, <1>3, <1>10 DEF V1Header
  <2>2. S1Session' = S1Session
    BY <1>1, <1>2, <1>3 DEF S1Session, Graded
  <2>3. ASSUME NEW e PROVE H1Classic(e)' = H1Classic(e) /\ B1Batch(e)' = B1Batch(e)
    BY <1>1 DEF H1Classic, B1Batch
  <2> QED BY <1>1, <1>3, <1>8, <1>9, <2>1, <2>2, <2>3 DEF ClassicCell, Graded
<1>13. ASSUME NEW c PROVE StatelessCell(c)' = StatelessCell(c)
  <2>1. S2NoSession' = S2NoSession
    BY <1>1, <1>2 DEF S2NoSession
  <2>2. R1ResultType' = R1ResultType
    BY <1>1 DEF R1ResultType
  <2>3. ASSUME NEW e PROVE G1Stateless(e)' = G1Stateless(e) /\ B1Batch(e)' = B1Batch(e)
    BY <1>1 DEF G1Stateless, B1Batch
  <2>4. ToolsCapability("D1.discover")' = ToolsCapability("D1.discover")
    BY <1>9
  <2>5. ToolsCell(c)' = ToolsCell(c)
    BY <1>8
  <2>6. /\ recorded(c)' = recorded(c) /\ recorded("H3.cold")' = recorded("H3.cold")
        /\ recorded("D1.discover")' = recorded("D1.discover")
    BY <1>3
  <2>7. B1Batch(cap[c])' = B1Batch(cap[c]) /\ G1Stateless(cap[c])' = G1Stateless(cap[c])
    BY <1>1, <2>3
  <2> QED BY <1>1, <2>1, <2>2, <2>4, <2>5, <2>6, <2>7 DEF StatelessCell, Graded
<1> QED BY <1>2, <1>11, <1>12, <1>13 DEF Cells

-----------------------------------------------------------------------------
(* The invariant holds: one lemma for the probe at hand, one for what is sent *)
(* next, one for a recorded exchange. *)

\* The probe at hand: the walk's is a new one, the others are not pages.
LEMMA ProbeFacts ==
    ASSUME IInv, Probing
    PROVE  /\ at \in 1..Len(Plan) /\ ~done /\ page \in PageIndices /\ Askable(page)
           /\ (at = WalkAt <=> Plan[at] = "T1")
           /\ at = 1 => Probe = Identity
           /\ at = WalkAt => Probe = PageProbe(page) /\ ~recorded(Probe)
           /\ at # WalkAt => /\ Probe = Plan[at] /\ Probe \in Entries
                             /\ \A k \in PageIndices : Probe # PageProbe(k)
           /\ Probe \in Entries \cup {PageProbe(k) : k \in PageIndices}
           /\ at # 1 => recorded(Identity)
<1>1. at \in 1..Len(Plan) /\ ~done /\ page \in PageIndices
  <2>1. at \in 1..Len(Plan) + 1 /\ page \in PageIndices /\ ~done
    BY DEF IInv, Ordered, Reported
  <2>2. Len(Plan) \in {8, 10}
    BY PlanFacts
  <2> QED BY <2>1, <2>2 DEF Probing
<1>2. at = WalkAt <=> Plan[at] = "T1"
  <2>1. CASE stateless
    <3>1. at \in {1, 2, 3, 4, 5, 6, 7, 8}
      BY <1>1, <2>1, PlanFacts
    <3> QED BY <2>1, <3>1, PlanFacts DEF WalkAt
  <2>2. CASE ~stateless
    <3>1. at \in {1, 2, 3, 4, 5, 6, 7, 8, 9, 10}
      BY <1>1, <2>2, PlanFacts
    <3> QED BY <2>2, <3>1, PlanFacts DEF WalkAt
  <2> QED BY <2>1, <2>2
<1>3. at = 1 => Probe = Identity
  <2>1. Plan[1] = Identity /\ Identity # "T1"
    BY PlanFacts DEF Identity
  <2> QED BY <2>1 DEF Probe
<1>4. at = WalkAt => Probe = PageProbe(page) /\ ~recorded(Probe)
  <2>1. ASSUME at = WalkAt, recorded(PageProbe(page)) PROVE FALSE
    <3>1. at <= WalkAt
      BY <2>1, <1>1
    <3>2. page < page
      BY <1>1, <2>1, <3>1 DEF IInv, Ordered
    <3> QED BY <1>1, <3>2 DEF PageIndices
  <2> QED BY <1>2, <2>1 DEF Probe
<1>5. at # WalkAt => Probe = Plan[at] /\ Probe \in Entries
  <2> SUFFICES ASSUME at # WalkAt PROVE Probe = Plan[at] /\ Probe \in Entries
    OBVIOUS
  <2>1. Probe = Plan[at]
    BY <1>2 DEF Probe
  <2>2. Plan[at] \in Entries
    BY <1>1, <1>2 DEF Entries
  <2> QED BY <2>1, <2>2
<1>6. at # WalkAt => \A k \in PageIndices : Probe # PageProbe(k)
  <2> SUFFICES ASSUME at # WalkAt, NEW k \in PageIndices PROVE Probe # PageProbe(k)
    OBVIOUS
  <2> QED BY <1>5, NamesOfPages DEF PageIndices
<1>7. at # 1 => recorded(Identity)
  BY DEF IInv, Ordered
<1>8. Askable(page)
  <2> SUFFICES ASSUME page # 0 PROVE recorded(PageProbe(page - 1))
    BY <1>1 DEF Askable
  <2>1. page - 1 \in PageIndices /\ page - 1 < page
    BY <1>1, HarnessAssumption DEF PageIndices
  <2> QED BY <2>1 DEF IInv, Ordered
<1>9. Probe \in Entries \cup {PageProbe(k) : k \in PageIndices}
  BY <1>1, <1>4, <1>5
<1> QED BY <1>1, <1>2, <1>3, <1>4, <1>5, <1>6, <1>7, <1>8, <1>9

\* What is sent next comes later in the plan and may be sent.
LEMMA NextEntryFacts ==
    ASSUME at \in 1..Len(Plan), NEW c
    PROVE  /\ NextEntry(c) \in at + 1..Len(Plan) + 1
           /\ NextEntry(c) <= Len(Plan) => Sent(Plan[NextEntry(c)], c)
<1> DEFINE later == {i \in at + 1..Len(Plan) : Sent(Plan[i], c)}
<1>1. Len(Plan) \in Nat
  BY PlanFacts
<1>2. CASE later = {}
  <2>1. NextEntry(c) = Len(Plan) + 1
    BY <1>2 DEF NextEntry
  <2> QED BY <1>1, <2>1
<1>3. CASE later # {}
  <2>1. later \in SUBSET Nat
    BY <1>1
  <2>2. NextEntry(c) = Min(later)
    BY <1>3 DEF NextEntry
  <2>3. Min(later) \in later
    <3> HIDE DEF later
    <3> QED BY <1>3, <2>1, LeastOne
  <2> QED BY <1>1, <2>2, <2>3
<1> QED BY <1>2, <1>3

\* What does not depend on the capture.
LEMMA Frames ==
    ASSUME UNCHANGED <<target, planted>>
    PROVE  /\ stateless' = stateless /\ http' = http /\ Plan' = Plan /\ Identity' = Identity
           /\ WalkAt' = WalkAt /\ Fresh' = Fresh
           /\ \A k : PageProbe(k)' = PageProbe(k)
           /\ \A e : Capturable(e)' = Capturable(e)
           /\ \A p, c : Sent(p, c)' = Sent(p, c)
<1>1. target' = target /\ planted' = planted
  OBVIOUS
<1>2. stateless' = stateless /\ http' = http
  BY <1>1 DEF stateless, http
<1>3. Plan' = Plan /\ Identity' = Identity /\ WalkAt' = WalkAt /\ Fresh' = Fresh
  BY <1>2 DEF Plan, Identity, WalkAt, StatelessPlan, ClassicPlan, Fresh
<1>4. ASSUME NEW k PROVE PageProbe(k)' = PageProbe(k)
  BY <1>2 DEF PageProbe
<1>5. ASSUME NEW e PROVE Capturable(e)' = Capturable(e)
  BY <1>1, <1>2 DEF Capturable, has
<1>6. ASSUME NEW p, NEW c PROVE Sent(p, c)' = Sent(p, c)
  BY <1>1, <1>2 DEF Sent, VersionHeader
<1> QED BY <1>2, <1>3, <1>4, <1>5, <1>6

LEMMA RecordGrows ==
    ASSUME IInv, Probing, NEW e, Record(Probe, e)
    PROVE  /\ Grows
           /\ DOMAIN cap' = DOMAIN cap \cup {Probe}
           /\ ~recorded(Probe) => cap'[Probe] = e
           /\ \A q : recorded(q)' <=> recorded(q) \/ q = Probe
<1>1. cap' = [q \in DOMAIN cap \cup {Probe} |-> IF recorded(q) THEN cap[q] ELSE e]
  BY DEF Record
<1>2. DOMAIN cap' = DOMAIN cap \cup {Probe}
  BY <1>1
<1>3. \A q \in DOMAIN cap : q \in DOMAIN cap' /\ cap'[q] = cap[q]
  BY <1>1 DEF recorded
<1>4. ~recorded(Probe) => cap'[Probe] = e
  BY <1>1
<1>5. UNCHANGED <<target, planted>>
  BY DEF Record
<1>6. \A q : recorded(q)' <=> recorded(q) \/ q = Probe
  BY <1>2 DEF recorded
<1> QED BY <1>2, <1>3, <1>4, <1>5, <1>6 DEF Grows

LEMMA RecordCaptured ==
    ASSUME IInv, Probing, NEW e, Record(Probe, e), Capturable(e)
    PROVE  Sane' /\ Captured' /\ Reported'
<1>1. UNCHANGED <<target, planted, mode, report>>
  BY DEF Record
<1>2. Sane'
  BY <1>1 DEF IInv, Sane, Defects, http
<1>3. Captured'
  <2>1. cap' = [q \in DOMAIN cap \cup {Probe} |-> IF recorded(q) THEN cap[q] ELSE e]
    BY DEF Record
  <2>2. Probe \in Entries \cup {PageProbe(k) : k \in PageIndices}
    BY ProbeFacts
  <2>3. DOMAIN cap' \subseteq Entries \cup {PageProbe(k) : k \in PageIndices}
    BY <2>1, <2>2 DEF IInv, Captured
  <2>4. \A p \in DOMAIN cap' : Capturable(cap'[p])
    BY <2>1 DEF IInv, Captured, recorded
  <2>5. \A k : PageProbe(k)' = PageProbe(k)
    BY <1>1, Frames
  <2>6. \A p \in DOMAIN cap' : Capturable(cap[p])'
    BY <1>1, <2>4 DEF Capturable, stateless, http, has
  <2>7. (DOMAIN cap \subseteq Entries \cup {PageProbe(k) : k \in PageIndices})'
    <3>1. Entries' = Entries
      <4>1. Plan' = Plan
        BY <1>1, Frames
      <4> QED BY <4>1 DEF Entries
    <3> QED BY <2>3, <2>5, <3>1 DEF PageIndices
  <2> QED BY <2>6, <2>7 DEF Captured
<1>4. Reported'
  <2>1. ~done
    BY ProbeFacts
  <2> QED BY <1>1, <2>1 DEF Reported, done
<1> QED BY <1>2, <1>3, <1>4

\* Once the identity exchange is recorded, what may be sent stays so.
LEMMA SentStands ==
    ASSUME Grows, recorded(Identity), NEW p, Sent(p, cap), stateless => p # "S1.nosession",
           ~stateless => p # "V2.mismatch"
    PROVE  Sent(p, cap)'
<1>1. target' = target /\ cap'[Identity] = cap[Identity]
  BY DEF Grows, recorded
<1>2. stateless => Unlisted(cap)' = Unlisted(cap)
  BY <1>1 DEF Unlisted, Identity
<1> QED BY <1>1, <1>2 DEF Sent, Identity, VersionHeader, http

\* What is chosen next in the capture as it becomes.
LEMMA NextSent ==
    ASSUME Grows, at \in 1..Len(Plan), at' = NextEntry(cap')
    PROVE  at' \in at + 1..Len(Plan) + 1 /\ (Probing' => Sent(Plan[at], cap)')
<1>1. /\ NextEntry(cap') \in at + 1..Len(Plan) + 1
      /\ NextEntry(cap') <= Len(Plan) => Sent(Plan[NextEntry(cap')], cap')
  BY NextEntryFacts
<1>2. target' = target /\ Plan' = Plan
  BY Frames DEF Grows
<1>3. Probing' => Sent(Plan[at'], cap')
  BY <1>1, <1>2 DEF Probing
<1>4. Sent(Plan[at'], cap') => Sent(Plan[at], cap)'
  BY <1>2 DEF Sent, VersionHeader, http, Unlisted
<1> QED BY <1>1, <1>3, <1>4

LEMMA RecordOrdered ==
    ASSUME IInv, Probing, NEW e, Record(Probe, e)
    PROVE  Ordered'
<1>1. /\ Grows
      /\ ~recorded(Probe) => cap'[Probe] = e
      /\ \A q : recorded(q)' <=> recorded(q) \/ q = Probe
  BY RecordGrows
<1>2. /\ at \in 1..Len(Plan) /\ page \in PageIndices /\ (at = 1 => Probe = Identity)
      /\ at # 1 => recorded(Identity)
      /\ at = WalkAt <=> Plan[at] = "T1"
      /\ at = WalkAt => Probe = PageProbe(page) /\ ~recorded(Probe)
      /\ at # WalkAt => Probe = Plan[at] /\ Probe \in Entries /\ \A k \in PageIndices : Probe # PageProbe(k)
  BY ProbeFacts
<1>3. /\ Plan' = Plan /\ Identity' = Identity /\ WalkAt' = WalkAt /\ stateless' = stateless
      /\ \A k \in PageIndices : PageProbe(k)' = PageProbe(k)
  <2>1. UNCHANGED <<target, planted>>
    BY DEF Record
  <2> QED BY <2>1, Frames
<1>4. Len(Plan) \in Nat /\ WalkAt \in {2, 4} /\ at \in Nat /\ page \in Nat
  BY <1>2, PlanFacts DEF WalkAt, PageIndices
<1>5. /\ \A q : recorded(q) => cap'[q] = cap[q]
      /\ recorded(Identity)'
  BY <1>1, <1>2, <1>3 DEF Grows, recorded
\* Either the walk goes on or the next entry is chosen.
<1>6. \/ at' = at /\ at = WalkAt /\ page' = page + 1 /\ page + 1 < MaxPages /\ e.cursor # 0
      \/ at' = NextEntry(cap') /\ page' = page
  BY <1>2 DEF Record, Advance
<1>7. at' = NextEntry(cap') => at' \in at + 1..Len(Plan) + 1 /\ (Probing' => Sent(Plan[at], cap)')
  BY <1>1, <1>2, NextSent
<1>8. at' \in 1..Len(Plan)' + 1 /\ at' >= at
  BY <1>2, <1>3, <1>4, <1>6, <1>7
<1>9. page' \in PageIndices /\ page' >= page
  BY <1>2, <1>4, <1>6, HarnessAssumption DEF PageIndices
<1>10. at' < WalkAt' => page' = 0
  BY <1>3, <1>4, <1>6, <1>8 DEF IInv, Ordered
<1>11. ASSUME NEW k \in PageIndices, k < page'
       PROVE  recorded(PageProbe(k))' /\ cap'[PageProbe(k)].cursor # 0
  <2>1. CASE k < page
    <3>1. recorded(PageProbe(k)) /\ cap[PageProbe(k)].cursor # 0
      BY <2>1 DEF IInv, Ordered
    <3> QED BY <1>1, <1>3, <1>5, <3>1
  <2>2. CASE ~(k < page)
    <3>1. page' = page + 1 /\ k = page /\ at = WalkAt /\ e.cursor # 0
      BY <1>4, <1>6, <1>11, <2>2 DEF PageIndices
    <3> QED BY <1>1, <1>2, <1>3, <3>1
  <2> QED BY <2>1, <2>2
<1>12. ASSUME NEW k \in PageIndices, recorded(PageProbe(k))'
       PROVE  k <= page' /\ (at' <= WalkAt' => k < page')
  <2>1. CASE recorded(PageProbe(k))
    <3>1. k <= page /\ (at <= WalkAt => k < page)
      BY <2>1 DEF IInv, Ordered
    <3> QED BY <1>3, <1>4, <1>8, <1>9, <3>1 DEF PageIndices
  <2>2. CASE ~recorded(PageProbe(k))
    <3>1. PageProbe(k) = Probe /\ at = WalkAt
      BY <1>1, <1>2, <1>12, <1>3, <2>2
    <3>2. k = page
      BY <1>2, <3>1, NamesOfPages DEF PageIndices
    <3> QED BY <1>3, <1>4, <1>6, <1>7, <3>1, <3>2 DEF PageIndices
  <2> QED BY <2>1, <2>2
<1>13. (Probing /\ at # 1 => Sent(Plan[at], cap))'
  <2>1. CASE at' = at /\ at = WalkAt
    BY <1>2, <1>3, <2>1 DEF Sent
  <2> QED BY <1>6, <1>7, <2>1
<1>14. ASSUME NEW p \in {"S1.nosession", "V2.mismatch"}, recorded(p)'
       PROVE  Sent(p, cap)'
  <2>1. p \in Entries /\ \A k \in PageIndices : p # PageProbe(k)
    <3>1. \A k \in PageIndices : p # PageProbe(k)
      BY NamesOfPages DEF PageIndices
    <3>2. p \in Entries
      BY <1>1, <1>2, <1>14, <3>1 DEF IInv, Captured, recorded
    <3> QED BY <3>1, <3>2
  <2>2. (stateless => p # "S1.nosession") /\ (~stateless => p # "V2.mismatch") /\ p # Identity
    BY <2>1, EntryNames DEF Identity
  <2>3. Sent(p, cap) /\ recorded(Identity)
    <3>1. CASE recorded(p)
      BY <3>1 DEF IInv, Ordered, recorded
    <3>2. CASE ~recorded(p)
      <4>1. p = Probe
        BY <1>1, <1>14, <3>2
      <4>2. at # 1 /\ Plan[at] = p
        BY <1>2, <2>1, <2>2, <4>1
      <4> QED BY <4>2 DEF IInv, Ordered
    <3> QED BY <3>1, <3>2
  <2> QED BY <1>1, <2>2, <2>3, SentStands
<1> QED BY <1>3, <1>5, <1>8, <1>9, <1>10, <1>11, <1>12, <1>13, <1>14 DEF Ordered, PageIndices

LEMMA RecordHeard ==
    ASSUME IInv, Probing, NEW e, Record(Probe, e), e.wire = "answered" => e = Answer(Probe, page)
    PROVE  Heard'
<1>1. /\ Grows
      /\ ~recorded(Probe) => cap'[Probe] = e
      /\ \A q : recorded(q)' <=> recorded(q) \/ q = Probe
  BY RecordGrows
<1>2. /\ at \in 1..Len(Plan) /\ page \in PageIndices /\ (at = 1 => Probe = Identity)
      /\ at # 1 => recorded(Identity)
      /\ at = WalkAt <=> Plan[at] = "T1"
      /\ at = WalkAt => Probe = PageProbe(page) /\ ~recorded(Probe)
      /\ at # WalkAt => Probe = Plan[at] /\ Probe \in Entries /\ \A k \in PageIndices : Probe # PageProbe(k)
      /\ Askable(page)
  BY ProbeFacts
<1>3. /\ Plan' = Plan /\ \A k \in PageIndices : PageProbe(k)' = PageProbe(k)
  <2>1. UNCHANGED <<target, planted>>
    BY DEF Record
  <2> QED BY <2>1, Frames
<1>4. Entries' = Entries
  BY <1>3 DEF Entries
<1>5. Askable(0)
  BY HarnessAssumption DEF Askable, PageIndices
<1>6. \A q : recorded(q) => cap'[q] = cap[q] /\ recorded(Identity)
  BY <1>1 DEF Grows, recorded, IInv, Ordered
<1>7. ASSUME NEW p, p \in Entries, recorded(p)', cap'[p].wire = "answered"
      PROVE  cap'[p] = Answer(p, 0)'
  <2>1. cap'[p] = Answer(p, 0) /\ (p = Identity \/ recorded(Identity))
    <3>1. CASE recorded(p)
      <4>1. cap'[p] = cap[p] /\ recorded(Identity)
        BY <1>6, <3>1
      <4>2. cap[p] = Answer(p, 0)
        BY <1>7, <3>1, <4>1 DEF IInv, Heard, recorded
      <4> QED BY <4>1, <4>2
    <3>2. CASE ~recorded(p)
      <4>1. p = Probe /\ cap'[p] = e
        BY <1>1, <1>7, <3>2
      <4>2. at # WalkAt /\ Plan[at] = p
        <5>1. at = WalkAt => FALSE
          BY <1>2, <1>7, <4>1, NamesOfPages DEF PageIndices
        <5> QED BY <1>2, <4>1, <5>1
      <4>3. cap'[p] = Answer(p, page)
        BY <1>7, <4>1
      <4>4. Answer(p, page) = Answer(p, 0)
        BY <1>2, <4>2, AnswerOffTheWalk
      <4> QED BY <1>2, <4>1, <4>3, <4>4
    <3> QED BY <3>1, <3>2
  <2>2. Answer(p, 0)' = Answer(p, 0)
    BY <1>1, <1>5, <2>1, AnswersStand
  <2> QED BY <2>1, <2>2
<1>8. ASSUME NEW k \in PageIndices, recorded(PageProbe(k))', cap'[PageProbe(k)].wire = "answered"
      PROVE  cap'[PageProbe(k)] = Answer(PageProbe(k), k)'
  <2> DEFINE p == PageProbe(k)
  <2>1. p' = p
    BY <1>3
  <2>2. /\ cap'[p] = Answer(p, k) /\ Askable(k) 
        /\ p = Identity \/ recorded(Identity)
    <3>1. CASE recorded(p)
      <4>1. cap'[p] = cap[p] /\ recorded(Identity)
        BY <1>6, <3>1
      <4>2. cap[p] = Answer(p, k)
        BY <1>8, <3>1, <4>1 DEF IInv, Heard
      <4>3. Askable(k)
        <5> SUFFICES ASSUME k # 0 PROVE recorded(PageProbe(k - 1))
          BY DEF Askable
        <5>1. k <= page
          BY <3>1 DEF IInv, Ordered
        <5>2. k - 1 \in PageIndices /\ k - 1 < page
          BY <1>2, <5>1, HarnessAssumption DEF PageIndices
        <5> QED BY <5>2 DEF IInv, Ordered
      <4> QED BY <4>1, <4>2, <4>3
    <3>2. CASE ~recorded(p)
      <4>1. p = Probe /\ cap'[p] = e
        BY <1>1, <1>8, <2>1, <3>2
      <4>2. at = WalkAt /\ p = PageProbe(page)
        BY <1>2, <4>1
      <4>3. k = page
        BY <1>2, <4>2, NamesOfPages DEF PageIndices
      <4> QED BY <1>2, <1>8, <4>1, <4>3, <4>2 DEF WalkAt
    <3> QED BY <3>1, <3>2
  <2>3. Answer(p, k)' = Answer(p, k)
    <3>1. \A q : q = p => Answer(q, k)' = Answer(q, k)
      BY <1>1, <2>2, AnswersStand
    <3> QED BY <2>1, <3>1 
  <2> QED BY <2>2, <2>3
<1> QED BY <1>3, <1>4, <1>7, <1>8 DEF Heard, PageIndices, recorded

LEMMA RecordKeeps ==
    ASSUME IInv, Probing, NEW e, Record(Probe, e), Capturable(e),
           e.wire = "answered" => e = Answer(Probe, page)
    PROVE  IInv'
BY RecordCaptured, RecordOrdered, RecordHeard DEF IInv

\* The steps that leave the capture alone.
LEMMA CaptureKept ==
    ASSUME IInv, UNCHANGED <<target, planted, page, cap>>, http => mode' # "silent",
           \/ UNCHANGED at
           \/ Probing /\ recorded(Identity) /\ at >= WalkAt /\ Plan[at] # "T1" /\ at' = NextEntry(cap)
    PROVE  Sane' /\ Captured' /\ Ordered' /\ Heard'
<1>1. /\ stateless' = stateless /\ http' = http /\ Plan' = Plan /\ Identity' = Identity /\ WalkAt' = WalkAt
      /\ \A k : PageProbe(k)' = PageProbe(k)
      /\ \A e : Capturable(e)' = Capturable(e)
  BY Frames
<1>2. target' = target /\ planted' = planted /\ page' = page /\ cap' = cap
  OBVIOUS
<1>3. Entries' = Entries
  BY <1>1 DEF Entries
<1>4. Grows
  BY <1>2 DEF Grows
<1>5. Sane'
  BY <1>2 DEF IInv, Sane, Defects, http
<1>6. Captured'
  <2>1. \A p \in DOMAIN cap : Capturable(cap[p])'
    BY <1>2 DEF IInv, Captured, Capturable, stateless, http, has
  <2> QED BY <1>1, <1>2, <1>3, <2>1 DEF IInv, Captured, PageIndices
<1>7. Heard'
  <2>1. Askable(0)
    BY HarnessAssumption DEF Askable, PageIndices
  <2>2. ASSUME NEW p \in DOMAIN cap \cap Entries, cap[p].wire = "answered"
        PROVE  cap[p] = Answer(p, 0)'
    <3>1. recorded(Identity)
      BY DEF IInv, Ordered
    <3>2. Answer(p, 0)' = Answer(p, 0)
      BY <1>4, <2>1, <3>1, AnswersStand
    <3> QED BY <2>2, <3>2 DEF IInv, Heard
  <2>3. ASSUME NEW k \in PageIndices, recorded(PageProbe(k)), cap[PageProbe(k)].wire = "answered"
        PROVE  cap[PageProbe(k)] = Answer(PageProbe(k), k)'
    <3> DEFINE p == PageProbe(k)
    <3>1. Askable(k)
      <4> SUFFICES ASSUME k # 0 PROVE recorded(PageProbe(k - 1))
        BY DEF Askable
      <4>1. k <= page
        BY <2>3 DEF IInv, Ordered
      <4>2. k - 1 \in PageIndices /\ k - 1 < page
        BY <4>1, HarnessAssumption DEF PageIndices, IInv, Ordered
      <4> QED BY <4>2 DEF IInv, Ordered
    <3>2. recorded(Identity)
      BY <2>3 DEF IInv, Ordered, recorded
    <3>3. p' = p
      BY <1>1
    <3>4. \A q : Answer(q, k)' = Answer(q, k)
      BY <1>4, <3>1, <3>2, AnswersStand
    <3>5. cap[p] = Answer(p, k)
      BY <2>3 DEF IInv, Heard
    <3> QED BY <3>3, <3>4, <3>5
  <2> QED BY <1>1, <1>2, <1>3, <2>2, <2>3 DEF Heard, PageIndices, recorded
<1>8. Ordered'
  <2>1. \A p : Sent(p, cap)' = Sent(p, cap)
    BY <1>2 DEF Sent, VersionHeader, http, Unlisted
  <2>2. CASE at' = at
    <3>1. (Probing /\ at # 1 => Sent(Plan[at], cap))'
      BY <1>1, <2>1, <2>2 DEF IInv, Ordered, Probing
    <3>2. \A p \in {"S1.nosession", "V2.mismatch"} : recorded(p)' => Sent(p, cap)'
      BY <1>2, <2>1 DEF IInv, Ordered, recorded
    <3> QED BY <1>1, <1>2, <2>2, <3>1, <3>2 DEF IInv, Ordered, PageIndices, recorded
  <2>3. CASE Probing /\ recorded(Identity) /\ at >= WalkAt /\ Plan[at] # "T1" /\ at' = NextEntry(cap)
    <3>1. at \in 1..Len(Plan) /\ at # WalkAt
      BY <2>3, ProbeFacts
    <3>2. at' \in at + 1..Len(Plan) + 1 /\ (Probing' => Sent(Plan[at], cap)')
      BY <1>2, <1>4, <2>3, <3>1, NextSent
    <3>3. Len(Plan) \in Nat /\ WalkAt \in {2, 4}
      BY PlanFacts DEF WalkAt
    <3>4. at' \in 1..Len(Plan) + 1 /\ at' > WalkAt
      BY <2>3, <3>1, <3>2, <3>3
    <3>5. \A p \in {"S1.nosession", "V2.mismatch"} : recorded(p)' => Sent(p, cap)'
      BY <1>2, <2>1 DEF IInv, Ordered, recorded
    <3>6. page \in PageIndices /\ \A k \in PageIndices :
             /\ k < page => recorded(PageProbe(k)) /\ cap[PageProbe(k)].cursor # 0
             /\ recorded(PageProbe(k)) => k <= page
      BY DEF IInv, Ordered
    <3>7. ~(at' <= WalkAt) /\ ~(at' < WalkAt)
      BY <3>3, <3>4
    <3> QED BY <1>1, <1>2, <2>3, <3>2, <3>4, <3>5, <3>6, <3>7 DEF Ordered, PageIndices, recorded
  <2> QED BY <2>2, <2>3
<1> QED BY <1>5, <1>6, <1>7, <1>8

\* An exchange that did not arrive can be recorded, and counts as no answer.
LEMMA LostFacts ==
    ASSUME Sane, NEW w \in {"dead", "silent"}, http => w = "dead"
    PROVE  Capturable(Lost(w)) /\ Lost(w).wire # "answered"
<1>1. Lost(w) \in Unheard /\ Lost(w).wire = w /\ ~Lost(w).sid
  BY DEF Lost, NoMessage, Unheard
<1> QED BY <1>1 DEF Capturable

LEMMA MislaidFacts ==
    ASSUME Sane, NEW p, NEW a \in Messages, stateless /\ a.sid => has("mints"),
           NEW e \in Mislaid(p, a)
    PROVE  Capturable(e) /\ (e.wire = "answered" => e = a)
<1>1. a.sid \in BOOLEAN
  BY DEF Messages
<1>2. CASE e = Lost("dead") \/ (e = Lost("silent") /\ ~http)
  BY <1>2, LostFacts
<1>3. CASE e = [Lost("dead") EXCEPT !.sid = a.sid]
  <2>1. e \in Unheard /\ e.wire = "dead" /\ e.sid = a.sid
    BY <1>1, <1>3 DEF Lost, NoMessage, Unheard
  <2> QED BY <2>1 DEF Capturable
<1>4. CASE e = Cut(a)
  <2>1. e \in Unheard /\ e.wire = "cut" /\ e.sid = a.sid
    BY <1>1, <1>4 DEF Cut, NoMessage, Unheard
  <2> QED BY <2>1 DEF Capturable
<1>5. CASE e = a
  BY <1>5 DEF Capturable, Messages
<1> QED BY <1>2, <1>3, <1>4, <1>5 DEF Mislaid

LEMMA InitInvariant == Init => IInv
<1> SUFFICES ASSUME Init PROVE IInv
  OBVIOUS
<1>1. cap = <<>> /\ DOMAIN cap = {} /\ at = 1 /\ page = 0 /\ report = <<>> /\ mode = "up"
  BY DEF Init
<1>2. Sane
  BY DEF Init, Sane
<1>3. Captured /\ Heard /\ Reported
  BY <1>1 DEF Captured, Heard, Reported, done, recorded
<1>4. Ordered
  <2>1. Len(Plan) \in Nat /\ WalkAt \in {2, 4} /\ 0 \in PageIndices
    BY PlanFacts, HarnessAssumption DEF WalkAt, PageIndices
  <2> QED BY <1>1, <2>1 DEF Ordered, recorded, PageIndices
<1> QED BY <1>2, <1>3, <1>4 DEF IInv

LEMMA NextInvariant == IInv /\ [Next]_vars => IInv'
<1> SUFFICES ASSUME IInv, [Next]_vars PROVE IInv'
  OBVIOUS
<1>1. CASE Answered
  <2>1. Probing /\ Record(Probe, Answer(Probe, page))
    BY <1>1 DEF Answered
  <2>2. Askable(page)
    BY <2>1, ProbeFacts
  <2> DEFINE e == Answer(Probe, page)
  <2>3. e \in Messages /\ (stateless /\ e.sid => has("mints"))
    BY <2>2, AnswerFacts DEF IInv
  <2>4. Capturable(e)
    BY <2>3 DEF Capturable, Messages
  <2> QED BY <2>1, <2>4, RecordKeeps
<1>2. CASE ExchangeLost
  <2>1. Probing
    BY <1>2 DEF ExchangeLost
  <2>2. PICK e \in Mislaid(Probe, Answer(Probe, page)) : Record(Probe, e)
    BY <1>2 DEF ExchangeLost
  <2>3. Askable(page)
    BY <2>1, ProbeFacts
  <2> DEFINE a == Answer(Probe, page)
  <2>4. a \in Messages /\ (stateless /\ a.sid => has("mints"))
    BY <2>3, AnswerFacts DEF IInv
  <2>5. Capturable(e) /\ (e.wire = "answered" => e = a)
    BY <2>2, <2>4, MislaidFacts DEF IInv
  <2> QED BY <2>1, <2>2, <2>5, RecordKeeps
<1>3. CASE Unanswered
  <2>1. Probing /\ Record(Probe, Lost("silent")) /\ ~http
    BY <1>3 DEF Unanswered, IInv, Sane
  <2>2. Capturable(Lost("silent")) /\ Lost("silent").wire # "answered"
    BY <2>1, LostFacts DEF IInv
  <2> QED BY <2>1, <2>2, RecordKeeps
<1>4. CASE Failed
  <2>1. Probing /\ Record(Probe, Lost("dead"))
    BY <1>4 DEF Failed
  <2>2. Capturable(Lost("dead")) /\ Lost("dead").wire # "answered"
    BY LostFacts DEF IInv
  <2> QED BY <2>1, <2>2, RecordKeeps
<1>5. CASE DialFails
  <2>1. /\ Probing /\ ~stateless /\ Probe \in {"H2.newer", "H3.cold", "D1.discover"}
        /\ UNCHANGED <<target, planted, mode, page, cap, report>> /\ at' = NextEntry(cap)
    BY <1>5 DEF DialFails, Fresh
  <2>2. Probe \notin {PageProbe(k) : k \in PageIndices}
    <3>1. ASSUME NEW k \in PageIndices PROVE Probe # PageProbe(k)
      <4>1. PageProbe(k) \notin Entries
        BY NamesOfPages DEF PageIndices
      <4>2. Probe \in Entries
        BY <2>1, EntryNames
      <4> QED BY <4>1, <4>2
    <3> QED BY <3>1
  <2>3. at # WalkAt /\ at \in 1..Len(Plan) /\ Plan[at] # "T1" /\ Probe # "H1.init"
    BY <2>1, <2>2, ProbeFacts
  <2>4. at # 1 /\ at >= WalkAt /\ recorded(Identity)
    <3>1. at # 1
      BY <2>1, ProbeFacts DEF Identity
    <3>2. at >= WalkAt
      BY <2>1, <2>3, <3>1, PlanFacts DEF WalkAt
    <3> QED BY <2>1, <3>1, <3>2, ProbeFacts
  <2>5. http => mode' # "silent"
    BY <2>1 DEF IInv, Sane
  <2>6. Sane' /\ Captured' /\ Ordered' /\ Heard'
    BY <2>1, <2>3, <2>4, <2>5, CaptureKept
  <2>7. ~done
    BY <2>1, ProbeFacts
  <2> QED BY <2>1, <2>6, <2>7 DEF IInv, Reported, done
<1>6. CASE Turns
  <2>1. /\ Probing /\ UNCHANGED <<target, planted, at, page, cap, report>>
        /\ http => mode' # "silent"
    BY <1>6 DEF Turns
  <2>2. Sane' /\ Captured' /\ Ordered' /\ Heard'
    BY <2>1, CaptureKept
  <2>3. ~done
    BY <2>1, ProbeFacts
  <2> QED BY <2>1, <2>2, <2>3 DEF IInv, Reported, done
<1>7. CASE ChildExits
  <2>1. /\ Probing /\ UNCHANGED <<target, planted, mode, at, page, cap, report>>
        /\ http => mode' # "silent"
    BY <1>7 DEF ChildExits, IInv, Sane
  <2>2. Sane' /\ Captured' /\ Ordered' /\ Heard'
    BY <2>1, CaptureKept
  <2>3. ~done
    BY <2>1, ProbeFacts
  <2> QED BY <2>1, <2>2, <2>3 DEF IInv, Reported, done
<1>8. CASE GradeCapture
  <2>1. /\ ~Probing /\ UNCHANGED <<target, planted, mode, at, page, cap>> /\ report' = Cells
        /\ http => mode' # "silent"
    BY <1>8 DEF GradeCapture, IInv, Sane
  <2>2. Sane' /\ Captured' /\ Ordered' /\ Heard'
    BY <2>1, CaptureKept
  <2>3. Cells' = Cells
    BY <2>1, CellsStand
  <2>4. ~Probing'
    <3>1. Plan' = Plan
      BY <2>1, Frames
    <3> QED BY <2>1, <3>1 DEF Probing
  <2> QED BY <2>1, <2>2, <2>3, <2>4 DEF IInv, Reported
<1>9. CASE UNCHANGED vars
  <2>1. UNCHANGED <<target, planted, mode, at, page, cap, report>> /\ (http => mode' # "silent")
    BY <1>9 DEF vars, IInv, Sane
  <2>2. Sane' /\ Captured' /\ Ordered' /\ Heard'
    BY <2>1, CaptureKept
  <2>3. Cells' = Cells
    BY <2>1, CellsStand
  <2>4. Probing' = Probing
    <3>1. Plan' = Plan
      BY <2>1, Frames
    <3> QED BY <2>1, <3>1 DEF Probing
  <2> QED BY <2>1, <2>2, <2>3, <2>4 DEF IInv, Reported, done
<1> QED BY <1>1, <1>2, <1>3, <1>4, <1>5, <1>6, <1>7, <1>8, <1>9 DEF Next, Server

\* The capture holds the identity exchange first, the pages of one walk in
\* their order, and nothing a server did not answer to the probe it is kept
\* under; the report is of that capture (probe.go, grade.go).
THEOREM CaptureInvariant == Spec => []IInv
<1>1. Init => IInv
  BY InitInvariant
<1>2. IInv /\ [Next]_vars => IInv'
  BY NextInvariant
<1> QED BY <1>1, <1>2, PTL DEF Spec

-----------------------------------------------------------------------------
(* The cells one by one. *)

LEMMA ClassicCells ==
    /\ ClassicCell("H1.init") = Graded("H1.init", H1Classic(cap["H1.init"]))
    /\ ClassicCell("H2.newer") = Graded("H2.newer", H2Newer(cap["H2.newer"]))
    /\ ClassicCell("H3.cold") = Graded("H3.cold", H3Classic(cap["H3.cold"]))
    /\ ClassicCell("D1.discover") = Graded("D1.discover", D1Classic(cap["D1.discover"]))
    /\ ClassicCell("V1.header") = V1Header
    /\ ClassicCell("V1.noheader") = "obs"
    /\ ClassicCell("S1.session") = S1Session
    /\ ClassicCell("T1.tools") = IF ToolsCapability("H1.init") THEN T1Tools ELSE "na"
    /\ ClassicCell("T2.badcursor") =
          IF ToolsCapability("H1.init") THEN Graded("T2.badcursor", T2BadCursor(cap["T2.badcursor"])) ELSE "na"
    /\ ClassicCell("B1.batch") = Graded("B1.batch", B1Batch(cap["B1.batch"]))
    /\ ClassicCell("G1.get") = IF target.era = "2024-11-05" THEN "na" ELSE "obs"
    /\ ClassicCell("I1.identity") = Graded("H1.init", I1Identity(cap["H1.init"]))
BY DEF ClassicCell, ToolsCells, ToolsCell

LEMMA StatelessCells ==
    /\ StatelessCell("D1.discover") = Graded("D1.discover", D1Stateless(cap["D1.discover"]))
    /\ StatelessCell("D2.nometa") = Graded("D2.nometa", Withheld(cap["D2.nometa"]))
    /\ StatelessCell("H1.init") = Graded("H1.init", H1Stateless(cap["H1.init"]))
    /\ StatelessCell("S2.nosession") = S2NoSession
    /\ StatelessCell("B1.batch") = Graded("B1.batch", B1Batch(cap["B1.batch"]))
    /\ StatelessCell("R1.resulttype") = R1ResultType
    /\ StatelessCell("G1.get") = Graded("G1.get", G1Stateless(cap["G1.get"]))
    /\ StatelessCell("I1.identity") = Graded("D1.discover", I1Identity(cap["D1.discover"]))
    /\ StatelessCell("H3.cold") =
          IF ToolsCapability("D1.discover") THEN Graded("H3.cold", Served(cap["H3.cold"])) ELSE "na"
    /\ StatelessCell("V2.mismatch") =
          IF ToolsCapability("D1.discover") THEN Graded("V2.mismatch", V2Mismatch(cap["V2.mismatch"])) ELSE "na"
    /\ StatelessCell("C1.cacheable") =
          IF ToolsCapability("D1.discover") THEN Graded("H3.cold", C1Cacheable(cap["H3.cold"])) ELSE "na"
    /\ StatelessCell("T1.tools") = IF ToolsCapability("D1.discover") THEN T1Tools ELSE "na"
    /\ StatelessCell("T2.badcursor") =
          IF ToolsCapability("D1.discover") THEN Graded("T2.badcursor", T2BadCursor(cap["T2.badcursor"])) ELSE "na"
BY DEF StatelessCell, ToolsCells, ToolsCell

\* The report gives every cell of the target's era its grade.
LEMMA CellsAre ==
    /\ ~stateless => DOMAIN Cells = ClassicCellNames /\ \A c \in ClassicCellNames : Cells[c] = ClassicCell(c)
    /\ stateless => DOMAIN Cells = StatelessCellNames /\ \A c \in StatelessCellNames : Cells[c] = StatelessCell(c)
BY DEF Cells

-----------------------------------------------------------------------------
(* A dead target. *)

\* An exchange that broke off before it could be classified.
Broken(e) == e \in Unheard /\ e.wire \in {"dead", "cut"}

LEMMA BrokenFacts ==
    ASSUME NEW e, Broken(e)
    PROVE  /\ Unreached(e) /\ ~Succeeded(e) /\ ~Refused(e) /\ ~e.stream
           /\ e.wire = "dead" => TransportErr(e)
BY DEF Broken, Unheard, Unreached, Succeeded, Refused, TransportErr

LEMMA BrokenGrades ==
    ASSUME NEW e, Broken(e)
    PROVE  /\ H1Classic(e) = IF e.wire = "dead" THEN "unreached" ELSE "must"
           /\ H2Newer(e) = IF e.wire = "dead" THEN "unreached" ELSE "must"
           /\ D1Stateless(e) = IF e.wire = "dead" THEN "unreached" ELSE "must"
           /\ H3Classic(e) = "unreached" /\ D1Classic(e) = "unreached" /\ Served(e) = "unreached"
           /\ Withheld(e) = "unreached" /\ B1Batch(e) = "unreached" /\ T2BadCursor(e) = "unreached"
           /\ I1Identity(e) = "unreached" /\ H1Stateless(e) = "unreached" /\ V2Mismatch(e) = "unreached"
           /\ C1Cacheable(e) = "unreached" /\ G1Stateless(e) = "obs"
<1>1. Unreached(e) /\ ~Succeeded(e) /\ ~Refused(e) /\ ~e.stream
  BY BrokenFacts
<1>2. TransportErr(e) <=> e.wire = "dead"
  BY DEF Broken, TransportErr
<1>3. /\ H1Classic(e) = IF e.wire = "dead" THEN "unreached" ELSE "must"
      /\ H2Newer(e) = IF e.wire = "dead" THEN "unreached" ELSE "must"
      /\ D1Stateless(e) = IF e.wire = "dead" THEN "unreached" ELSE "must"
  BY <1>1, <1>2 DEF H1Classic, H2Newer, D1Stateless
<1>4. /\ H3Classic(e) = "unreached" /\ D1Classic(e) = "unreached" /\ Served(e) = "unreached"
      /\ Withheld(e) = "unreached" /\ T2BadCursor(e) = "unreached" /\ H1Stateless(e) = "unreached"
      /\ V2Mismatch(e) = "unreached"
  BY <1>1 DEF H3Classic, D1Classic, Served, Withheld, T2BadCursor, H1Stateless, V2Mismatch
<1>5. B1Batch(e) = "unreached"
  BY <1>1 DEF B1Batch
<1>6. I1Identity(e) = "unreached" /\ C1Cacheable(e) = "unreached" /\ G1Stateless(e) = "obs"
  BY <1>1 DEF I1Identity, C1Cacheable, G1Stateless
<1> QED BY <1>3, <1>4, <1>5, <1>6

\* What a cell of broken exchanges says: a violation only if one was cut, or
\* named a session.
LEMMA BrokenCells ==
    ASSUME \A p \in DOMAIN cap : Broken(cap[p]), NEW c \in DOMAIN Cells
    PROVE  /\ Cells[c] \in {"unreached", "obs", "na", "must"}
           /\ Cells[c] = "must" => \E p \in DOMAIN cap : cap[p].wire = "cut" \/ cap[p].sid
<1> DEFINE tainted == \E p \in DOMAIN cap : cap[p].wire = "cut" \/ cap[p].sid
           Outcomes == {"unreached", "obs", "na"} \cup (IF tainted THEN {"must"} ELSE {})
<1>1. ASSUME NEW p, recorded(p)
      PROVE  Broken(cap[p]) /\ (cap[p].wire # "dead" => tainted)
  <2>1. p \in DOMAIN cap /\ Broken(cap[p])
    BY <1>1 DEF recorded
  <2> QED BY <2>1 DEF Broken
<1>2. ASSUME NEW p
      PROVE  /\ Graded(p, H1Classic(cap[p])) \in Outcomes /\ Graded(p, H2Newer(cap[p])) \in Outcomes
             /\ Graded(p, D1Stateless(cap[p])) \in Outcomes
             /\ Graded(p, H3Classic(cap[p])) \in Outcomes /\ Graded(p, D1Classic(cap[p])) \in Outcomes
             /\ Graded(p, Served(cap[p])) \in Outcomes /\ Graded(p, Withheld(cap[p])) \in Outcomes
             /\ Graded(p, B1Batch(cap[p])) \in Outcomes /\ Graded(p, T2BadCursor(cap[p])) \in Outcomes
             /\ Graded(p, I1Identity(cap[p])) \in Outcomes /\ Graded(p, H1Stateless(cap[p])) \in Outcomes
             /\ Graded(p, V2Mismatch(cap[p])) \in Outcomes /\ Graded(p, C1Cacheable(cap[p])) \in Outcomes
             /\ Graded(p, G1Stateless(cap[p])) \in Outcomes
  <2>1. CASE recorded(p)
    <3> DEFINE e == cap[p]
    <3>1. Broken(e) /\ (e.wire # "dead" => tainted)
      BY <1>1, <2>1
    <3> HIDE DEF e, tainted
    <3> QED BY <2>1, <3>1, BrokenGrades DEF Graded, e
  <2>2. CASE ~recorded(p)
    BY <2>2 DEF Graded
  <2> QED BY <2>1, <2>2
<1>3. T1Tools \in Outcomes
  <2>1. ASSUME NEW k \in Walked PROVE PageGrade(k) = "unreached"
    <3>1. Unreached(cap[PageProbe(k)]) /\ ~Succeeded(cap[PageProbe(k)]) /\ ~Refused(cap[PageProbe(k)])
      BY <1>1, BrokenFacts DEF Walked
    <3> QED BY <3>1 DEF PageGrade
  <2> DEFINE flawed == {k \in Walked : PageGrade(k) # "pass"}
  <2>2. CASE Walked = {}
    BY <2>2 DEF T1Tools
  <2>3. CASE Walked # {}
    <3>1. flawed # {} /\ flawed \in SUBSET Nat
      BY <2>1, <2>3, HarnessAssumption DEF Walked
    <3>2. Min(flawed) \in flawed
      <4> HIDE DEF flawed
      <4> QED BY <3>1, LeastOne
    <3>3. PageGrade(Min(flawed)) = "unreached"
      BY <2>1, <3>2
    <3> QED BY <2>3, <3>1, <3>3 DEF T1Tools
  <2> QED BY <2>2, <2>3
<1>4. S1Session \in Outcomes /\ V1Header \in Outcomes
  <2>1. Negotiated = "none"
    BY <1>1, BrokenFacts DEF Negotiated
  <2>2. S1Session \in Outcomes
    BY <1>2 DEF S1Session
  <2>3. V1Header \in Outcomes
    BY <2>1 DEF V1Header
  <2> QED BY <2>2, <2>3
<1>5. S2NoSession \in Outcomes
  <2>1. \A p \in DOMAIN cap : Unreached(cap[p])
    BY <1>1, BrokenFacts DEF recorded
  <2>2. (\E p \in DOMAIN cap : cap[p].sid) => tainted
    OBVIOUS
  <2> QED BY <2>1, <2>2 DEF S2NoSession
<1>6. R1ResultType \in Outcomes
  <2>1. {p \in DOMAIN cap \ {"H1.init"} : Succeeded(cap[p])} = {}
    BY <1>1, BrokenFacts DEF recorded
  <2> QED BY <2>1 DEF R1ResultType
<1>7. {"unreached", "obs", "na"} \subseteq Outcomes
  OBVIOUS
<1>8. Cells[c] \in Outcomes
  <2> HIDE DEF Outcomes
  <2>1. CASE ~stateless
    <3>1. c \in ClassicCellNames /\ Cells[c] = ClassicCell(c)
      BY <2>1, CellsAre
    <3>2. \A d \in {"H1.init", "H2.newer", "H3.cold", "D1.discover", "V1.header", "V1.noheader", "S1.session",
                    "T1.tools", "T2.badcursor", "B1.batch", "G1.get", "I1.identity"} : ClassicCell(d) \in Outcomes
      BY <1>2, <1>3, <1>4, <1>7, ClassicCells
    <3> QED BY <3>1, <3>2 DEF ClassicCellNames, ToolsCells
  <2>2. CASE stateless
    <3>1. c \in StatelessCellNames /\ Cells[c] = StatelessCell(c)
      BY <2>2, CellsAre
    <3>2. \A d \in {"D1.discover", "D2.nometa", "H1.init", "S2.nosession", "B1.batch", "R1.resulttype", "G1.get",
                    "I1.identity", "H3.cold", "V2.mismatch", "C1.cacheable", "T1.tools", "T2.badcursor"} :
             StatelessCell(d) \in Outcomes
      BY <1>2, <1>3, <1>5, <1>6, <1>7, StatelessCells
    <3> QED BY <3>1, <3>2 DEF StatelessCellNames, ToolsCells
  <2> QED BY <2>1, <2>2
<1> QED BY <1>8

LEMMA DeadLemma == IInv => DeadIsUngraded
<1> SUFFICES ASSUME IInv, done PROVE DeadIsUngraded
  BY DEF DeadIsUngraded
<1>1. report = Cells
  BY DEF IInv, Reported
<1> DEFINE outcomes == {report[c] : c \in DOMAIN report}
<1>2. ASSUME \A p \in DOMAIN cap : Broken(cap[p])
      PROVE  "pass" \notin outcomes /\ "should" \notin outcomes
  <2>1. \A c \in DOMAIN report : report[c] \in {"unreached", "obs", "na", "must"}
    BY <1>1, <1>2, BrokenCells
  <2> QED BY <2>1
<1>3. ASSUME \A p \in DOMAIN cap : cap[p] = Lost("dead")
      PROVE  VerdictOf(report) = "UNGRADED"
  <2>1. \A p \in DOMAIN cap : Broken(cap[p]) /\ cap[p].wire = "dead" /\ ~cap[p].sid
    <3> DEFINE e == Lost("dead")
    <3>1. Broken(e) /\ e.wire = "dead" /\ ~e.sid
      BY DEF Lost, NoMessage, Broken, Unheard
    <3> HIDE DEF e
    <3>2. \A p \in DOMAIN cap : cap[p] = e
      BY <1>3 DEF e
    <3> QED BY <3>1, <3>2
  <2>2. "must" \notin outcomes
    <3>1. \A c \in DOMAIN report : report[c] # "must"
      BY <1>1, <2>1, BrokenCells
    <3> QED BY <3>1
  <2>3. outcomes \cap {"must", "should", "pass"} = {}
    BY <1>2, <2>1, <2>2
  <2> QED BY <2>3 DEF VerdictOf
<1>4. ASSUME http, \A p \in DOMAIN cap : cap[p].wire # "answered"
      PROVE  ~Validates(report)
  <2>1. \A p \in DOMAIN cap : Broken(cap[p])
    BY <1>4 DEF IInv, Captured, Capturable, Broken, Messages, Unheard
  <2>2. VerdictOf(report) \in {"UNGRADED", "NONCONFORMANT"}
    <3> HIDE DEF outcomes
    <3>1. outcomes \cap {"must", "should", "pass"} = {} \/ "must" \in outcomes
      BY <1>2, <2>1
    <3>2. VerdictOf(report) =
            CASE outcomes \cap {"must", "should", "pass"} = {} -> "UNGRADED"
              [] "must" \in outcomes -> "NONCONFORMANT"
              [] "must" \notin outcomes /\ "should" \in outcomes -> "CONFORMANT*"
              [] OTHER -> "CONFORMANT"
      BY DEF VerdictOf, outcomes
    <3> QED BY <1>2, <2>1, <3>1, <3>2
  <2> QED BY <2>2 DEF Validates
<1> QED BY <1>3, <1>4 DEF DeadIsUngraded

\* A target that no exchange reached is not graded, and over HTTP a claim is
\* upheld only by an answer (grade.go: "a dead target must never read as
\* conformant"), whatever the servers, their defects and the losses.
THEOREM DeadUngraded == Spec => []DeadIsUngraded
BY CaptureInvariant, DeadLemma, PTL

-----------------------------------------------------------------------------
(* The walk. *)

\* Only an answer succeeds.
LEMMA OnlyAnswersSucceed ==
    ASSUME Captured, NEW p, recorded(p), Succeeded(cap[p])
    PROVE  cap[p] \in Messages /\ cap[p].wire = "answered" /\ ~Unreached(cap[p]) /\ ~Refused(cap[p])
<1> DEFINE e == cap[p]
<1>1. e \in Messages \cup Unheard
  BY DEF Captured, Capturable, recorded
<1> HIDE DEF e
<1>2. e \in Unheard => e.body = "none"
  BY DEF Unheard
<1>3. e \in Messages => e.wire = "answered"
  BY DEF Messages
<1>4. Succeeded(e)
  BY DEF e
<1>5. e \in Messages /\ e.wire = "answered"
  BY <1>1, <1>2, <1>3, <1>4 DEF Succeeded
<1>6. ~Unreached(e) /\ ~Refused(e)
  BY <1>4, <1>5 DEF Unreached, Refused
<1> QED BY <1>5, <1>6 DEF e

\* A page that succeeded is the server's page the walk asked for.
LEMMA PageHeard ==
    ASSUME IInv, NEW k \in Walked, Succeeded(cap[PageProbe(k)])
    PROVE  LET e == cap[PageProbe(k)]
               n == Asked(k)
           IN  /\ n \in Nat /\ target.tools
               /\ has("nameless") => e.names = <<0>>
               /\ ~has("nameless") /\ has("duplicates") /\ (n > 0 \/ target.pages = 1) => e.names = <<n + 1, 1>>
               /\ ~has("nameless") /\ ~(has("duplicates") /\ (n > 0 \/ target.pages = 1)) => e.names = <<n + 1>>
               /\ e.cursor = IF has("loops") THEN 1 ELSE IF n + 1 < target.pages THEN n + 1 ELSE 0
               /\ e.complete = (stateless /\ ~has("incomplete"))
               /\ e.cacheable = (stateless /\ ~has("uncacheable"))
               /\ ~(stateless /\ k = 0 /\ has("gated"))
<1> DEFINE p == PageProbe(k)
           e == cap[p]
           n == Asked(k)
<1>1. k \in PageIndices /\ recorded(p)
  BY DEF Walked, PageIndices
<1>2. Sane /\ Captured
  BY DEF IInv
<1>3. e \in Messages /\ e.wire = "answered"
  BY <1>1, <1>2, OnlyAnswersSucceed
<1>4. e = Answer(p, k)
  BY <1>1, <1>3 DEF IInv, Heard
<1>5. Askable(k)
  <2> SUFFICES ASSUME k # 0 PROVE recorded(PageProbe(k - 1))
    BY <1>1 DEF Askable
  <2>1. k <= page
    BY <1>1 DEF IInv, Ordered
  <2>2. k - 1 \in PageIndices /\ k - 1 < page
    BY <1>1, <2>1, HarnessAssumption DEF PageIndices, IInv, Ordered
  <2> QED BY <2>2 DEF IInv, Ordered
<1>6. n \in Nat
  BY <1>2, <1>5, AskedIsNumber
<1> DEFINE l == Listed(n)
<1>7. /\ l \in Messages
      /\ ~target.tools => l.body = "error"
      /\ target.tools =>
           /\ l.body = "result" /\ l.complete = (stateless /\ ~has("incomplete"))
           /\ has("nameless") => l.names = <<0>>
           /\ ~has("nameless") /\ has("duplicates") /\ (n > 0 \/ target.pages = 1) => l.names = <<n + 1, 1>>
           /\ ~has("nameless") /\ ~(has("duplicates") /\ (n > 0 \/ target.pages = 1)) => l.names = <<n + 1>>
           /\ l.cursor = IF has("loops") THEN 1 ELSE IF n + 1 < target.pages THEN n + 1 ELSE 0
           /\ l.cacheable = (stateless /\ ~has("uncacheable"))
  <2> HIDE DEF n
  <2> QED BY <1>2, <1>6, ListedFacts
<1>8. e.body = "result"
  BY DEF Succeeded
<1>9. /\ e.body = l.body /\ e.names = l.names /\ e.cursor = l.cursor /\ e.complete = l.complete
      /\ e.cacheable = l.cacheable /\ ~(stateless /\ k = 0 /\ has("gated"))
  <2>1. CASE ~stateless
    <3>1. p \notin {"H1.init", "H2.newer", "D1.discover", "G1.get", "B1.batch", "T2.badcursor",
                    "V1.noheader", "S1.nosession", "H3.cold"}
      BY <1>1, <2>1, NamesOfPages, EntryNames DEF PageIndices
    <3>2. ClassicAnswer(p, k) = IF ~Admitted(p) THEN [Refusal(-32000) EXCEPT !.ok = FALSE] ELSE l
      <4> HIDE DEF p, l
      <4> QED BY <3>1 DEF ClassicAnswer, l
    <3>3. [Refusal(-32000) EXCEPT !.ok = FALSE].body = "error"
      BY DEF Refusal, NoMessage
    <3>4. e = l
      <4> HIDE DEF l, e, p
      <4> QED BY <1>4, <1>8, <2>1, <3>2, <3>3 DEF Answer
    <3> QED BY <2>1, <3>4
  <2>2. CASE stateless
    <3>1. p \notin {"D1.discover", "D2.nometa", "H1.init", "T2.badcursor", "B1.batch", "V2.mismatch", "G1.get"}
      BY <1>1, <2>2, NamesOfPages DEF PageIndices
    <3>2. p = "H3.cold" <=> k = 0
      BY <1>1, <2>2, NamesOfPages DEF PageIndices
    <3> DEFINE s == StatelessAnswer(p, k)
    <3>3. s = IF p = "H3.cold" /\ has("gated") THEN Refusal(-32600) ELSE l
      <4> HIDE DEF p, l
      <4> QED BY <3>1 DEF StatelessAnswer, l
    <3>4. e = [s EXCEPT !.sid = s.sid \/ has("mints")]
      BY <1>4, <2>2 DEF Answer
    <3>5. s \in Messages
      BY <1>2, <1>5, <2>2, StatelessAnswerFacts
    <3>6. e.body = s.body /\ e.names = s.names /\ e.cursor = s.cursor /\ e.complete = s.complete
          /\ e.cacheable = s.cacheable
      <4> HIDE DEF s, e
      <4> QED BY <3>4, <3>5 DEF Messages
    <3>7. Refusal(-32600).body = "error"
      BY DEF Refusal, NoMessage
    <3>8. ~(p = "H3.cold" /\ has("gated"))
      <4> HIDE DEF s, e, p, l
      <4> QED BY <1>8, <3>3, <3>6, <3>7
    <3>9. s = l
      BY <3>3, <3>8
    <3> HIDE DEF s, e, p, l
    <3> QED BY <2>2, <3>2, <3>6, <3>8, <3>9
  <2> QED BY <2>1, <2>2
<1> HIDE DEF l, e, n, p
<1>10. target.tools
  BY <1>7, <1>8, <1>9
<1> QED BY <1>6, <1>7, <1>9, <1>10 DEF e, n, p

\* The recorded pages are those up to the last one, each but the last with a
\* cursor.
LEMMA WalkedFacts ==
    ASSUME IInv, NEW k \in Walked
    PROVE  /\ k \in Nat /\ k \in PageIndices
           /\ \A j \in 0..k : j \in Walked
           /\ k # 0 => cap[PageProbe(k - 1)].cursor # 0 /\ Asked(k) = cap[PageProbe(k - 1)].cursor
           /\ Asked(0) = 0
<1>1. k \in PageIndices /\ recorded(PageProbe(k)) /\ k \in Nat
  BY HarnessAssumption DEF Walked, PageIndices
<1>2. k <= page /\ page \in PageIndices
  BY <1>1 DEF IInv, Ordered
<1>3. ASSUME NEW j \in 0..k PROVE j \in Walked
  <2>1. CASE j = k
    BY <2>1
  <2>2. CASE j # k
    <3>1. j \in PageIndices /\ j < page
      BY <1>1, <1>2, <2>2, HarnessAssumption DEF PageIndices
    <3>2. recorded(PageProbe(j))
      BY <3>1 DEF IInv, Ordered
    <3> QED BY <3>1, <3>2 DEF Walked, PageIndices
  <2> QED BY <2>1, <2>2
<1>4. ASSUME k # 0 PROVE cap[PageProbe(k - 1)].cursor # 0
  <2>1. k - 1 \in PageIndices /\ k - 1 < page
    BY <1>1, <1>2, <1>4, HarnessAssumption DEF PageIndices
  <2> QED BY <2>1 DEF IInv, Ordered
<1> QED BY <1>1, <1>3, <1>4 DEF Asked

\* The cell of the walk passes when every page does, and the last has no cursor.
LEMMA WalkPasses ==
    ASSUME IInv, T1Tools = "pass"
    PROVE  /\ Walked # {} /\ Max(Walked) \in Walked /\ \A k \in Walked : k <= Max(Walked)
           /\ \A k \in Walked : PageGrade(k) = "pass"
           /\ cap[PageProbe(Max(Walked))].cursor = 0
<1> DEFINE flawed == {k \in Walked : PageGrade(k) # "pass"}
<1>1. Walked # {}
  BY DEF T1Tools
<1>2. flawed = {}
  <2> SUFFICES ASSUME flawed # {} PROVE FALSE
    OBVIOUS
  <2>1. flawed \in SUBSET Nat
    BY HarnessAssumption DEF Walked
  <2>2. Min(flawed) \in flawed
    <3> HIDE DEF flawed
    <3> QED BY <2>1, LeastOne
  <2>3. T1Tools = PageGrade(Min(flawed))
    BY <1>1 DEF T1Tools
  <2> QED BY <2>2, <2>3
<1>3. cap[PageProbe(Max(Walked))].cursor = 0
  BY <1>1, <1>2 DEF T1Tools
<1>4. Walked \in SUBSET (0..MaxPages - 1) /\ MaxPages - 1 \in Nat
  BY HarnessAssumption DEF Walked
<1>5. Max(Walked) \in Walked /\ \A k \in Walked : k <= Max(Walked)
  BY <1>1, <1>4, GreatestOne
<1> QED BY <1>1, <1>2, <1>3, <1>5

LEMMA PagePasses ==
    ASSUME IInv, NEW k \in Walked, PageGrade(k) = "pass"
    PROVE  LET e == cap[PageProbe(k)] IN
           /\ Succeeded(e) /\ 0 \notin Range(e.names) /\ IsInjective(e.names)
           /\ \A j \in Walked : j < k => Range(cap[PageProbe(j)].names) \cap Range(e.names) = {}
<1> DEFINE e == cap[PageProbe(k)]
           before == {cap[PageProbe(j)] : j \in {i \in Walked : i < k}}
           listed == UNION {Range(b.names) : b \in before}
           flaw == \/ 0 \in Range(e.names)
                   \/ ~IsInjective(e.names)
                   \/ Range(e.names) \cap listed # {}
                   \/ e.cursor # 0 /\ \E b \in before : b.cursor = e.cursor
<1>1. recorded(PageProbe(k)) /\ Captured
  BY DEF Walked, IInv
<1>2. PageGrade(k) =
        CASE Unreached(e) -> "unreached"
          [] Refused(e)   -> "must"
          [] Succeeded(e) -> IF flaw THEN "must" ELSE "pass"
  BY DEF PageGrade
<1>3. Succeeded(e) /\ ~flaw
  <2> HIDE DEF flaw
  <2>1. Succeeded(e)
    BY <1>2 DEF Refused
  <2>2. ~Unreached(e) /\ ~Refused(e)
    BY <1>1, <2>1, OnlyAnswersSucceed
  <2> QED BY <1>2, <2>1, <2>2
<1>4. ASSUME NEW j \in Walked, j < k
      PROVE  Range(cap[PageProbe(j)].names) \cap Range(e.names) = {}
  <2>1. cap[PageProbe(j)] \in before
    BY <1>4
  <2>2. Range(cap[PageProbe(j)].names) \subseteq listed
    BY <2>1
  <2>3. Range(e.names) \cap listed = {}
    BY <1>3
  <2> QED BY <2>2, <2>3
<1> QED BY <1>3, <1>4

\* The names of a page.
LEMMA RangeOfOne == \A x, y : /\ Range(<<x>>) = {x} /\ Range(<<x, y>>) = {x, y}
                              /\ ~IsInjective(<<x, x>>)
<1> TAKE x, y
<1>1. Range(<<x>>) = {x}
  BY DEF Range
<1>2. Range(<<x, y>>) = {x, y}
  BY DEF Range
<1>3. ~IsInjective(<<x, x>>)
  <2> DEFINE f == <<x, x>>
  <2>1. 1 \in DOMAIN f /\ 2 \in DOMAIN f /\ f[1] = f[2] /\ 1 # 2
    OBVIOUS
  <2> HIDE DEF f
  <2>2. ~IsInjective(f)
    BY <2>1 DEF IsInjective
  <2> QED BY <2>2 DEF f
<1> QED BY <1>1, <1>2, <1>3

\* A walk that passes is one of all the pages, by a server that lists its tools
\* as it should.
LEMMA WholeWalk ==
    ASSUME IInv, T1Tools = "pass"
    PROVE  /\ ~has("nameless") /\ ~has("loops") /\ ~has("duplicates") /\ (stateless => ~has("gated"))
           /\ \A k \in Walked : cap[PageProbe(k)].names = <<k + 1>>
           /\ Walked = 0..target.pages - 1
<1> DEFINE m == Max(Walked)
           names(k) == cap[PageProbe(k)].names
           cursor(k) == cap[PageProbe(k)].cursor
<1>1. m \in Walked /\ (\A k \in Walked : k <= m) /\ cursor(m) = 0
  BY WalkPasses
<1>2. m \in Nat /\ (\A j \in 0..m : j \in Walked) /\ Asked(0) = 0
  BY <1>1, WalkedFacts
<1>3. Walked = 0..m
  <2>1. \A k \in Walked : k \in Nat
    BY WalkedFacts
  <2> HIDE DEF m
  <2>2. \A k \in Walked : k \in 0..m
    BY <1>1, <1>2, <2>1
  <2>3. \A k \in 0..m : k \in Walked
    BY <1>2
  <2> QED BY <2>2, <2>3
<1>4. target.pages \in Nat \ {0}
  BY TargetFacts DEF IInv
<1>5. ASSUME NEW k \in Walked
      PROVE  /\ Succeeded(cap[PageProbe(k)]) /\ 0 \notin Range(names(k)) /\ IsInjective(names(k))
             /\ \A j \in Walked : j < k => Range(names(j)) \cap Range(names(k)) = {}
  <2>1. PageGrade(k) = "pass"
    BY WalkPasses
  <2> QED BY <2>1, PagePasses
<1>6. ASSUME NEW k \in Walked
      PROVE  /\ Asked(k) \in Nat
             /\ has("nameless") => names(k) = <<0>>
             /\ ~has("nameless") /\ has("duplicates") /\ (Asked(k) > 0 \/ target.pages = 1) =>
                   names(k) = <<Asked(k) + 1, 1>>
             /\ ~has("nameless") /\ ~(has("duplicates") /\ (Asked(k) > 0 \/ target.pages = 1)) =>
                   names(k) = <<Asked(k) + 1>>
             /\ cursor(k) = IF has("loops") THEN 1 ELSE IF Asked(k) + 1 < target.pages THEN Asked(k) + 1 ELSE 0
             /\ ~(stateless /\ k = 0 /\ has("gated"))
  BY <1>5, PageHeard
<1> HIDE DEF names, cursor
<1>7. 0 \in Walked
  BY <1>2
<1>8. ~has("nameless")
  <2> SUFFICES ASSUME has("nameless") PROVE FALSE
    OBVIOUS
  <2>1. names(0) = <<0>>
    BY <1>6, <1>7
  <2>2. Range(<<0>>) = {0}
    BY RangeOfOne
  <2>3. 0 \notin Range(names(0))
    BY <1>5, <1>7
  <2> QED BY <2>1, <2>2, <2>3
<1>9. ~has("loops")
  BY <1>1, <1>6
<1>10. stateless => ~has("gated")
  BY <1>6, <1>7
<1>11. ASSUME NEW k \in Walked, k # 0 PROVE Asked(k) = cursor(k - 1) /\ cursor(k - 1) # 0 /\ k - 1 \in Walked
  <2>1. k \in Nat /\ \A j \in 0..k : j \in Walked
    BY WalkedFacts
  <2>2. k - 1 \in 0..k
    BY <1>11, <2>1
  <2>3. Asked(k) = cap[PageProbe(k - 1)].cursor /\ cap[PageProbe(k - 1)].cursor # 0
    BY <1>11, WalkedFacts
  <2> QED BY <2>1, <2>2, <2>3 DEF cursor
<1>12. \A k \in Walked : Asked(k) = k
  <2> DEFINE astray == {k \in Walked : Asked(k) # k}
  <2> SUFFICES ASSUME astray # {} PROVE FALSE
    OBVIOUS
  <2>1. astray \in SUBSET Nat
    BY <1>2, <1>3
  <2> DEFINE k == Min(astray)
  <2>2. k \in astray /\ \A i \in astray : k <= i
    <3> HIDE DEF astray
    <3> QED BY <2>1, LeastOne
  <2> HIDE DEF k
  <2>3. k \in Walked /\ Asked(k) # k /\ k \in Nat
    BY <2>1, <2>2
  <2>4. k # 0
    BY <1>2, <2>3
  <2>5. Asked(k) = cursor(k - 1) /\ cursor(k - 1) # 0 /\ k - 1 \in Walked
    BY <1>11, <2>3, <2>4
  <2>6. Asked(k - 1) = k - 1
    BY <2>2, <2>3, <2>5
  <2>7. cursor(k - 1) = IF Asked(k - 1) + 1 < target.pages THEN Asked(k - 1) + 1 ELSE 0
    BY <1>6, <1>9, <2>5
  <2> QED BY <2>3, <2>5, <2>6, <2>7
<1>13. ASSUME NEW k \in Walked PROVE cursor(k) = IF k + 1 < target.pages THEN k + 1 ELSE 0
  BY <1>6, <1>9, <1>12
<1>14. m = target.pages - 1
  <2>1. ~(m + 1 < target.pages)
    BY <1>1, <1>2, <1>13
  <2>2. CASE m = 0
    BY <1>4, <2>1, <2>2
  <2>3. CASE m # 0
    <3>1. m - 1 \in Walked /\ cursor(m - 1) # 0
      BY <1>1, <1>11, <2>3
    <3>2. m < target.pages
      BY <1>2, <1>13, <3>1
    <3> QED BY <1>2, <1>4, <2>1, <3>2
  <2> QED BY <2>2, <2>3
<1>15. ~has("duplicates")
  <2> SUFFICES ASSUME has("duplicates") PROVE FALSE
    OBVIOUS
  <2>1. CASE target.pages = 1
    <3>1. names(0) = <<1, 1>>
      BY <1>2, <1>6, <1>7, <1>8, <2>1
    <3> QED BY <1>5, <1>7, <3>1, RangeOfOne
  <2>2. CASE target.pages # 1
    <3>1. 1 \in Walked
      BY <1>3, <1>4, <1>14, <2>2
    <3>2. names(0) = <<1>>
      BY <1>2, <1>6, <1>7, <1>8, <2>2
    <3>3. names(1) = <<2, 1>>
      BY <1>6, <1>8, <1>12, <3>1
    <3>4. Range(names(0)) \cap Range(names(1)) = {}
      BY <1>5, <1>7, <3>1
    <3>5. Range(<<1>>) = {1} /\ Range(<<2, 1>>) = {2, 1}
      BY RangeOfOne
    <3> QED BY <3>2, <3>3, <3>4, <3>5
  <2> QED BY <2>1, <2>2
<1>16. \A k \in Walked : names(k) = <<k + 1>>
  BY <1>6, <1>8, <1>12, <1>15
<1> QED BY <1>3, <1>8, <1>9, <1>10, <1>14, <1>15, <1>16 DEF names

LEMMA WalkLemma == IInv => WalkPassIsWhole
<1> SUFFICES ASSUME IInv, done, report["T1.tools"] = "pass" PROVE WalkPassIsWhole
  BY DEF WalkPassIsWhole
<1>1. report = Cells
  BY DEF IInv, Reported
<1>2. T1Tools = "pass"
  <2>1. CASE stateless
    <3>1. report["T1.tools"] = StatelessCell("T1.tools")
      BY <1>1, <2>1, CellsAre DEF StatelessCellNames, ToolsCells
    <3> QED BY <3>1, StatelessCells
  <2>2. CASE ~stateless
    <3>1. report["T1.tools"] = ClassicCell("T1.tools")
      BY <1>1, <2>2, CellsAre DEF ClassicCellNames, ToolsCells
    <3> QED BY <3>1, ClassicCells
  <2> QED BY <2>1, <2>2
<1>3. /\ ~has("nameless") /\ ~has("loops") /\ ~has("duplicates") /\ (stateless => ~has("gated"))
      /\ \A k \in Walked : cap[PageProbe(k)].names = <<k + 1>>
      /\ Walked = 0..target.pages - 1
  BY <1>2, WholeWalk
<1>4. ~stateless => ~has("gated")
  BY DEF IInv, Sane, Defects, stateless, has
<1>5. planted \cap {"duplicates", "nameless", "loops", "gated"} = {}
  BY <1>3, <1>4 DEF has
<1> DEFINE walked == {cap[p].names : p \in {PageProbe(k) : k \in Walked}}
<1>6. walked = {<<k + 1>> : k \in Walked}
  BY <1>3
<1>7. UNION {Range(names) : names \in walked} = {k + 1 : k \in Walked}
  <2>1. \A k \in Walked : Range(<<k + 1>>) = {k + 1}
    BY RangeOfOne
  <2>2. UNION {Range(names) : names \in walked} = UNION {Range(<<k + 1>>) : k \in Walked}
    BY <1>6
  <2>3. UNION {Range(<<k + 1>>) : k \in Walked} = UNION {{k + 1} : k \in Walked}
    BY <2>1
  <2>4. UNION {{k + 1} : k \in Walked} = {k + 1 : k \in Walked}
    OBVIOUS
  <2> QED BY <2>2, <2>3, <2>4
<1>8. {k + 1 : k \in Walked} = 1..target.pages
  <2>1. target.pages \in Nat
    BY TargetFacts DEF IInv
  <2>2. \A n \in 1..target.pages : n - 1 \in Walked /\ n = (n - 1) + 1
    BY <1>3, <2>1
  <2>3. \A k \in Walked : k + 1 \in 1..target.pages
    BY <1>3, <2>1
  <2> QED BY <2>2, <2>3
<1> QED BY <1>5, <1>7, <1>8 DEF WalkPassIsWhole

\* A walk passes only when it has seen the server's whole list, every tool
\* once: whatever is lost on the way, and within any page bound, a list cut
\* short never passes (grade.go, gradeT1Tools).
THEOREM WalkPassesWhole == Spec => []WalkPassIsWhole
BY CaptureInvariant, WalkLemma, PTL

-----------------------------------------------------------------------------
(* What the server answered, probe by probe. *)

\* Two exchanges with the same answer, the session id aside.
SameAnswer(e, s) ==
    /\ e.ok = s.ok /\ e.body = s.body /\ e.code = s.code /\ e.version = s.version
    /\ e.supported = s.supported /\ e.info = s.info /\ e.caps = s.caps /\ e.names = s.names
    /\ e.cursor = s.cursor /\ e.cacheable = s.cacheable /\ e.complete = s.complete /\ e.stream = s.stream

\* An answered exchange has been reached, and is refused unless it succeeded.
Classified(e) ==
    /\ e \in Messages /\ ~TransportErr(e) /\ ~Unreached(e)
    /\ Succeeded(e) <=> e.body = "result" /\ e.ok
    /\ Refused(e) <=> ~Succeeded(e)

LEMMA AnsweredFacts ==
    ASSUME Captured, NEW p, recorded(p), cap[p].wire = "answered"
    PROVE  Classified(cap[p])
<1> DEFINE e == cap[p]
<1>1. e \in Messages \cup Unheard
  BY DEF Captured, Capturable, recorded
<1> HIDE DEF e
<1>2. e.wire = "answered"
  BY DEF e
<1>3. e \in Messages
  BY <1>1, <1>2 DEF Unheard
<1> QED BY <1>2, <1>3 DEF Classified, TransportErr, Unreached, Succeeded, Refused, e

\* What was not answered broke off, unless a child was silent.
LEMMA UnansweredFacts ==
    ASSUME Captured, NEW p, recorded(p), cap[p].wire \notin {"answered", "silent"}
    PROVE  Broken(cap[p])
<1> DEFINE e == cap[p]
<1>1. e \in Messages \cup Unheard
  BY DEF Captured, Capturable, recorded
<1> HIDE DEF e
<1>2. e.wire \notin {"answered", "silent"}
  BY DEF e
<1> QED BY <1>1, <1>2 DEF Messages, Unheard, Broken, e

LEMMA FirstIsAskable == 0 \in PageIndices /\ Askable(0) /\ Asked(0) = 0
BY HarnessAssumption DEF PageIndices, Askable, Asked

LEMMA HeardClassic ==
    ASSUME IInv, ~stateless, NEW p \in Entries, recorded(p), cap[p].wire = "answered"
    PROVE  cap[p] = ClassicAnswer(p, 0) /\ Classified(cap[p])
<1>1. cap[p] = Answer(p, 0)
  BY DEF IInv, Heard, recorded
<1> QED BY <1>1, AnsweredFacts DEF Answer, IInv

LEMMA SidOfAnswer ==
    ASSUME NEW s \in Messages, NEW b \in BOOLEAN
    PROVE  SameAnswer([s EXCEPT !.sid = b], s) /\ [s EXCEPT !.sid = b].sid = b
BY DEF Messages, SameAnswer

LEMMA HeardStateless ==
    ASSUME IInv, stateless, NEW p, NEW k, Askable(k), recorded(p), cap[p].wire = "answered",
           cap[p] = Answer(p, k)
    PROVE  SameAnswer(cap[p], StatelessAnswer(p, k)) /\ Classified(cap[p]) /\ (has("mints") => cap[p].sid)
<1> DEFINE s == StatelessAnswer(p, k)
           b == s.sid \/ has("mints")
<1>1. s \in Messages /\ Captured
  BY StatelessAnswerFacts DEF IInv
<1>2. cap[p] = [s EXCEPT !.sid = b]
  BY DEF Answer
<1>3. b \in BOOLEAN /\ (has("mints") => b)
  <2>1. s.sid \in BOOLEAN
    <3> HIDE DEF s
    <3> QED BY <1>1 DEF Messages
  <2> QED BY <2>1 DEF has
<1>4. Classified(cap[p])
  BY <1>1, AnsweredFacts
<1> HIDE DEF s, b
<1>5. SameAnswer(cap[p], s) /\ cap[p].sid = b
  BY <1>1, <1>2, <1>3, SidOfAnswer
<1> QED BY <1>3, <1>4, <1>5 DEF s

LEMMA HeardEntry ==
    ASSUME IInv, stateless, NEW p \in Entries, recorded(p), cap[p].wire = "answered"
    PROVE  SameAnswer(cap[p], StatelessAnswer(p, 0)) /\ Classified(cap[p]) /\ (has("mints") => cap[p].sid)
<1>1. cap[p] = Answer(p, 0)
  BY DEF IInv, Heard, recorded
<1> QED BY <1>1, FirstIsAskable, HeardStateless

\* A page is asked for on the cursor of the one before, which is recorded.
LEMMA WalkedAskable ==
    ASSUME IInv, NEW k \in Walked
    PROVE  k \in PageIndices /\ recorded(PageProbe(k)) /\ Askable(k) /\ Asked(k) \in Nat
<1>1. k \in PageIndices /\ recorded(PageProbe(k)) /\ k \in Nat
  BY HarnessAssumption DEF Walked, PageIndices
<1>2. Askable(k)
  <2> SUFFICES ASSUME k # 0 PROVE recorded(PageProbe(k - 1))
    BY <1>1 DEF Askable
  <2>1. k - 1 \in 0..k
    BY <1>1
  <2>2. k - 1 \in Walked
    BY <2>1, WalkedFacts
  <2> QED BY <2>2 DEF Walked
<1> QED BY <1>1, <1>2, AskedIsNumber DEF IInv

-----------------------------------------------------------------------------
(* The identity exchange. *)

\* The identity exchange says who the server is, whether it lists tools, which
\* session it opened, and which eras it speaks.
LEMMA IdentityHeard ==
    ASSUME IInv, recorded(Identity), cap[Identity].wire = "answered"
    PROVE  LET e == cap[Identity] IN
           /\ Classified(e) /\ Succeeded(e)
           /\ e.info = IF has("noInfo") THEN "absent" ELSE IF has("anonymous") THEN "incomplete" ELSE "full"
           /\ e.caps = IF target.tools THEN "tools" ELSE "none"
           /\ ~stateless => /\ e.sid = target.session
                            /\ e.version = IF has("wrongEra") THEN "2024-10-07" ELSE target.era
           /\ stateless => e.supported = target.speaks /\ e.complete = ~has("incomplete")
<1>1. Sane /\ target.era \in Range(Eras) /\ target.era \in target.speaks
  BY TargetFacts DEF IInv
<1>2. CASE ~stateless
  <2>1. "H1.init" \in Entries /\ Identity = "H1.init"
    BY <1>2, EntryNames DEF Identity
  <2> DEFINE e == cap["H1.init"]
             i == Initialized(target.era)
  <2>2. e = ClassicAnswer("H1.init", 0) /\ Classified(e)
    BY <1>2, <2>1, HeardClassic
  <2>3. e = i
    BY <2>2 DEF ClassicAnswer
  <2>4. /\ i.ok /\ i.body = "result" /\ i.sid = target.session
        /\ i.info = IF has("noInfo") THEN "absent" ELSE IF has("anonymous") THEN "incomplete" ELSE "full"
        /\ i.caps = IF target.tools THEN "tools" ELSE "none"
        /\ i.version = IF has("unknown") /\ target.era = StatelessEra THEN "unknown"
                          ELSE IF has("wrongEra") /\ target.era = target.era THEN "2024-10-07"
                          ELSE IF target.era \in target.speaks THEN target.era ELSE target.era
    BY <1>1, InitializedFacts
  <2>5. target.era # StatelessEra
    BY <1>2 DEF stateless
  <2> HIDE DEF e, i
  <2>6. i.version = IF has("wrongEra") THEN "2024-10-07" ELSE target.era
    BY <1>1, <2>4, <2>5
  <2>7. Succeeded(e)
    BY <2>2, <2>3, <2>4 DEF Classified
  <2> QED BY <1>2, <2>1, <2>2, <2>3, <2>4, <2>6, <2>7 DEF e
<1>3. CASE stateless
  <2>1. "D1.discover" \in Entries /\ Identity = "D1.discover"
    BY <1>3, EntryNames DEF Identity
  <2> DEFINE e == cap["D1.discover"]
             i == Discovered
  <2>2. SameAnswer(e, StatelessAnswer("D1.discover", 0)) /\ Classified(e)
    BY <1>3, <2>1, HeardEntry
  <2>3. StatelessAnswer("D1.discover", 0) = i
    BY DEF StatelessAnswer
  <2>4. /\ i.ok /\ i.body = "result" /\ i.supported = target.speaks
        /\ i.complete = (stateless /\ ~has("incomplete"))
        /\ i.info = IF has("noInfo") THEN "absent" ELSE IF has("anonymous") THEN "incomplete" ELSE "full"
        /\ i.caps = IF target.tools THEN "tools" ELSE "none"
    BY <1>1, DiscoveredFacts
  <2> HIDE DEF e, i
  <2>5. SameAnswer(e, i)
    BY <2>2, <2>3
  <2>6. Succeeded(e)
    BY <2>2, <2>4, <2>5 DEF Classified, SameAnswer
  <2> QED BY <1>3, <2>1, <2>2, <2>4, <2>5, <2>6 DEF e, SameAnswer
<1> QED BY <1>2, <1>3

\* A server with tools is never taken for one without, and one without is when
\* its identity was heard.
LEMMA ToolsKnown ==
    ASSUME IInv
    PROVE  /\ target.tools => ToolsCapability(Identity)
           /\ recorded(Identity) /\ cap[Identity].wire = "answered" => (ToolsCapability(Identity) <=> target.tools)
<1> DEFINE e == cap[Identity]
<1>1. ASSUME recorded(Identity), e.wire = "answered"
      PROVE  ToolsCapability(Identity) <=> target.tools
  <2>1. Succeeded(e) /\ e.caps = IF target.tools THEN "tools" ELSE "none"
    BY <1>1, IdentityHeard
  <2> HIDE DEF e
  <2>2. e.body = "result" /\ (e.caps # "none" <=> target.tools)
    BY <2>1 DEF Succeeded
  <2> QED BY <1>1, <2>2 DEF ToolsCapability, e
<1>2. ASSUME recorded(Identity), e.wire # "answered"
      PROVE  ToolsCapability(Identity)
  <2>1. e \in Messages \cup Unheard
    BY <1>2 DEF IInv, Captured, Capturable, recorded
  <2> HIDE DEF e
  <2>2. e.body # "result"
    BY <1>2, <2>1 DEF Messages, Unheard
  <2> QED BY <2>2 DEF ToolsCapability, e
<1>3. ~recorded(Identity) => ToolsCapability(Identity)
  BY DEF ToolsCapability
<1> QED BY <1>1, <1>2, <1>3

-----------------------------------------------------------------------------
(* The other answers, by what the cells look at. *)

\* The identity exchange was answered; so was a given one.
Known == recorded(Identity) /\ cap[Identity].wire = "answered"
Heeded(p) == recorded(p) /\ cap[p].wire = "answered"

\* What names the session it was given is let in.
LEMMA AdmittedWhenKnown ==
    ASSUME IInv, ~stateless, Known, NEW p, p \notin Fresh \cup {"S1.nosession"}
    PROVE  Admitted(p)
<1>1. Identity = "H1.init"
  BY DEF Identity
<1>2. cap["H1.init"].sid = target.session
  BY <1>1, IdentityHeard DEF Known
<1> QED BY <1>2 DEF Admitted

LEMMA TurnedAway ==
    LET e == [Refusal(-32000) EXCEPT !.ok = FALSE] IN e.body = "error" /\ ~e.ok
BY DEF Refusal, NoMessage

LEMMA ListedOnce ==
    ASSUME Sane
    PROVE  LET e == Listed(0) IN
           /\ e.ok /\ (e.body = "result" <=> target.tools) /\ ~e.stream
           /\ target.tools => e.complete = (stateless /\ ~has("incomplete"))
           /\ ~target.tools => e.body = "error" /\ e.code = -32601
<1> DEFINE e == Listed(0)
<1>1. /\ e.ok /\ ~e.stream
      /\ ~target.tools => e.body = "error" /\ e.code = -32601
      /\ target.tools => e.body = "result" /\ e.complete = (stateless /\ ~has("incomplete"))
  BY ListedFacts
<1> HIDE DEF e
<1>2. e.body = "result" <=> target.tools
  BY <1>1
<1> QED BY <1>1, <1>2 DEF e

LEMMA NewerAnswered ==
    ASSUME IInv, ~stateless, Heeded("H2.newer")
    PROVE  LET e == cap["H2.newer"] IN
           /\ Classified(e) /\ Succeeded(e)
           /\ has("unknown") => e.version = "unknown"
           /\ ~has("unknown") => e.version \in Range(Eras)
<1> DEFINE e == cap["H2.newer"]
           i == Initialized(StatelessEra)
<1>1. e = ClassicAnswer("H2.newer", 0) /\ Classified(e)
  BY EntryNames, HeardClassic DEF Heeded
<1>2. e = i
  BY <1>1 DEF ClassicAnswer
<1>3. Sane /\ StatelessEra \in Range(Eras) /\ target.era \in Range(Eras) /\ target.era # StatelessEra
  BY EraNames, TargetFacts DEF IInv, StatelessEra, stateless
<1>4. /\ i.ok /\ i.body = "result"
      /\ i.version = IF has("unknown") /\ StatelessEra = StatelessEra THEN "unknown"
                     ELSE IF has("wrongEra") /\ StatelessEra = target.era THEN "2024-10-07"
                     ELSE IF StatelessEra \in target.speaks THEN StatelessEra ELSE target.era
  BY <1>3, InitializedFacts
<1> HIDE DEF e, i
<1> QED BY <1>1, <1>2, <1>3, <1>4 DEF Classified, e

LEMMA DiscoverAnswered ==
    ASSUME IInv, ~stateless, Heeded("D1.discover")
    PROVE  LET e == cap["D1.discover"] IN
           /\ Classified(e)
           /\ StatelessEra \in target.speaks => Succeeded(e) /\ e.supported # {}
           /\ StatelessEra \notin target.speaks /\ has("fakeDiscover") => Succeeded(e) /\ e.supported = {}
           /\ StatelessEra \notin target.speaks /\ ~has("fakeDiscover") => ~Succeeded(e)
<1> DEFINE e == cap["D1.discover"]
           i == Discovered
           r == Refusal(-32601)
<1>1. e = ClassicAnswer("D1.discover", 0) /\ Classified(e)
  BY EntryNames, HeardClassic DEF Heeded
<1>2. e = IF StatelessEra \in target.speaks THEN i ELSE IF has("fakeDiscover") THEN Result ELSE r
  BY <1>1 DEF ClassicAnswer
<1>3. i.ok /\ i.body = "result" /\ i.supported = target.speaks
  BY DiscoveredFacts DEF IInv
<1>4. Result.ok /\ Result.body = "result" /\ Result.supported = {}
  BY ResultFacts
<1>5. r.body = "error"
  BY RefusalFacts
<1> HIDE DEF e, i, r
<1> QED BY <1>1, <1>2, <1>3, <1>4, <1>5 DEF Classified, e

LEMMA ClassicBatchAnswered ==
    ASSUME IInv, ~stateless, Known, Heeded("B1.batch")
    PROVE  LET e == cap["B1.batch"] IN
           /\ Classified(e)
           /\ e.body = "batch" /\ e.ok <=> \/ target.era = "2024-11-05"
                                           \/ target.era = "2025-03-26" /\ ~has("unbatched")
                                           \/ has("batches")
<1> DEFINE e == cap["B1.batch"]
           r == Refusal(-32600)
           lets == \/ target.era = "2024-11-05"
                   \/ target.era = "2025-03-26" /\ ~has("unbatched")
                   \/ has("batches")
<1>1. e = ClassicAnswer("B1.batch", 0) /\ Classified(e)
  BY EntryNames, HeardClassic DEF Heeded
<1>2. Admitted("B1.batch")
  BY AdmittedWhenKnown DEF Fresh
<1>3. e = IF lets THEN Accepted ELSE r
  BY <1>1, <1>2 DEF ClassicAnswer
<1>4. Accepted.body = "batch" /\ Accepted.ok
  BY DEF Accepted, NoMessage
<1>5. r.body = "error"
  BY RefusalFacts
<1> HIDE DEF e, r, lets
<1> QED BY <1>1, <1>3, <1>4, <1>5 DEF e, lets

LEMMA NoSessionAnswered ==
    ASSUME IInv, ~stateless, Heeded("S1.nosession"), target.session
    PROVE  LET e == cap["S1.nosession"] IN
           Classified(e) /\ (Succeeded(e) <=> has("unenforced") /\ target.tools)
<1> DEFINE e == cap["S1.nosession"]
           l == Listed(0)
           t == [Refusal(-32000) EXCEPT !.ok = FALSE]
<1>1. e = ClassicAnswer("S1.nosession", 0) /\ Classified(e)
  BY EntryNames, HeardClassic DEF Heeded
<1>2. Admitted("S1.nosession") <=> has("unenforced")
  BY DEF Admitted
<1>3. e = IF has("unenforced") THEN l ELSE t
  BY <1>1, <1>2 DEF ClassicAnswer
<1>4. l.ok /\ (l.body = "result" <=> target.tools)
  BY ListedOnce DEF IInv
<1>5. t.body = "error"
  BY TurnedAway
<1> HIDE DEF e, l, t
<1> QED BY <1>1, <1>3, <1>4, <1>5 DEF Classified, e

\* The bad cursor is accepted by nobody else than a lax server.
LEMMA CursorAnswered ==
    ASSUME IInv, Heeded("T2.badcursor")
    PROVE  LET e == cap["T2.badcursor"] IN
           /\ Classified(e)
           /\ Succeeded(e) => has("laxCursor") /\ e.complete = (stateless /\ ~has("incomplete"))
           /\ has("laxCursor") /\ target.tools /\ (~stateless => Known) => Succeeded(e)
<1> DEFINE e == cap["T2.badcursor"]
           l == Listed(0)
           r == Refusal(-32602)
           t == [Refusal(-32000) EXCEPT !.ok = FALSE]
<1>1. /\ l.ok /\ (l.body = "result" <=> target.tools)
      /\ target.tools => l.complete = (stateless /\ ~has("incomplete"))
  BY ListedOnce DEF IInv
<1>2. r.body = "error"
  BY RefusalFacts
<1>3. t.body = "error"
  BY TurnedAway
<1>4. CASE ~stateless
  <2>1. e = ClassicAnswer("T2.badcursor", 0) /\ Classified(e)
    BY <1>4, EntryNames, HeardClassic DEF Heeded
  <2>2. e = IF ~Admitted("T2.badcursor") THEN t ELSE IF has("laxCursor") THEN l ELSE r
    BY <2>1 DEF ClassicAnswer
  <2>3. Known => Admitted("T2.badcursor")
    BY <1>4, AdmittedWhenKnown DEF Fresh
  <2> HIDE DEF e, l, r, t
  <2> QED BY <1>1, <1>2, <1>3, <1>4, <2>1, <2>2, <2>3 DEF Classified, e
<1>5. CASE stateless
  <2>1. SameAnswer(e, StatelessAnswer("T2.badcursor", 0)) /\ Classified(e)
    BY <1>5, EntryNames, HeardEntry DEF Heeded
  <2>2. StatelessAnswer("T2.badcursor", 0) = IF has("laxCursor") THEN l ELSE r
    BY DEF StatelessAnswer
  <2> HIDE DEF e, l, r, t
  <2> QED BY <1>1, <1>2, <1>5, <2>1, <2>2 DEF Classified, SameAnswer, e
<1> QED BY <1>4, <1>5

LEMMA NoMetaAnswered ==
    ASSUME IInv, stateless, Heeded("D2.nometa")
    PROVE  LET e == cap["D2.nometa"] IN
           /\ Classified(e)
           /\ Succeeded(e) <=> has("noMeta")
           /\ Succeeded(e) => e.complete = ~has("incomplete")
<1> DEFINE e == cap["D2.nometa"]
           i == Discovered
           r == Refusal(-32602)
<1>1. SameAnswer(e, StatelessAnswer("D2.nometa", 0)) /\ Classified(e)
  BY EntryNames, HeardEntry DEF Heeded
<1>2. StatelessAnswer("D2.nometa", 0) = IF has("noMeta") THEN i ELSE r
  BY DEF StatelessAnswer
<1>3. i.ok /\ i.body = "result" /\ i.complete = ~has("incomplete")
  BY DiscoveredFacts DEF IInv
<1>4. r.body = "error"
  BY RefusalFacts
<1> HIDE DEF e, i, r
<1> QED BY <1>1, <1>2, <1>3, <1>4 DEF Classified, SameAnswer, e

LEMMA OldInitAnswered ==
    ASSUME IInv, stateless, Heeded("H1.init")
    PROVE  LET e == cap["H1.init"] IN
           Classified(e) /\ (Succeeded(e) => e.version # "none")
<1> DEFINE e == cap["H1.init"]
           i == Initialized("2025-11-25")
           r == Refusal(-32601)
<1>1. SameAnswer(e, StatelessAnswer("H1.init", 0)) /\ Classified(e)
  BY EntryNames, HeardEntry DEF Heeded
<1>2. StatelessAnswer("H1.init", 0) = IF target.speaks = {StatelessEra} THEN r ELSE i
  BY DEF StatelessAnswer
<1>3. Sane /\ "2025-11-25" \in Range(Eras) /\ target.era = "2026-07-28"
  BY EraNames DEF IInv, stateless, StatelessEra
<1>4. i.version = IF has("unknown") /\ "2025-11-25" = StatelessEra THEN "unknown"
                  ELSE IF has("wrongEra") /\ "2025-11-25" = target.era THEN "2024-10-07"
                  ELSE IF "2025-11-25" \in target.speaks THEN "2025-11-25" ELSE target.era
  BY <1>3, InitializedFacts
<1>5. i.version # "none"
  <2> HIDE DEF i
  <2> QED BY <1>3, <1>4 DEF StatelessEra
<1>6. r.body = "error"
  BY RefusalFacts
<1> HIDE DEF e, i, r
<1> QED BY <1>1, <1>2, <1>5, <1>6 DEF Classified, SameAnswer, e

LEMMA StatelessBatchAnswered ==
    ASSUME IInv, stateless, Heeded("B1.batch")
    PROVE  LET e == cap["B1.batch"] IN
           /\ Classified(e) /\ ~Succeeded(e) /\ (has("mints") => e.sid)
           /\ e.body = "batch" /\ e.ok <=> has("batches")
<1> DEFINE e == cap["B1.batch"]
           r == Refusal(-32600)
<1>1. SameAnswer(e, StatelessAnswer("B1.batch", 0)) /\ Classified(e) /\ (has("mints") => e.sid)
  BY EntryNames, HeardEntry DEF Heeded
<1>2. StatelessAnswer("B1.batch", 0) = IF has("batches") THEN Accepted ELSE r
  BY DEF StatelessAnswer
<1>3. Accepted.body = "batch" /\ Accepted.ok
  BY DEF Accepted, NoMessage
<1>4. r.body = "error"
  BY RefusalFacts
<1> HIDE DEF e, r
<1> QED BY <1>1, <1>2, <1>3, <1>4 DEF Classified, SameAnswer, e

LEMMA MismatchAnswered ==
    ASSUME IInv, stateless, Heeded("V2.mismatch")
    PROVE  LET e == cap["V2.mismatch"]
               served == has("mismatch") \/ Mismatch(cap) \in target.speaks
           IN  /\ Classified(e)
               /\ Succeeded(e) <=> target.tools /\ served
               /\ Succeeded(e) => e.complete = ~has("incomplete")
               /\ target.tools /\ ~served =>
                     e.body = "error" /\ e.code = IF has("oddCode") THEN -32004 ELSE -32022
<1> DEFINE e == cap["V2.mismatch"]
           served == has("mismatch") \/ Mismatch(cap) \in target.speaks
           l == Listed(0)
           n == Refusal(-32601)
           odd == Refusal(-32004)
           r == Refusal(-32022)
<1>1. SameAnswer(e, StatelessAnswer("V2.mismatch", 0)) /\ Classified(e)
  BY EntryNames, HeardEntry DEF Heeded
<1>2. StatelessAnswer("V2.mismatch", 0) =
        IF ~target.tools THEN n
        ELSE IF served THEN l ELSE Refusal(IF has("oddCode") THEN -32004 ELSE -32022)
  BY DEF StatelessAnswer
<1>3. Refusal(IF has("oddCode") THEN -32004 ELSE -32022) = IF has("oddCode") THEN odd ELSE r
  OBVIOUS
<1>4. l.ok /\ (l.body = "result" <=> target.tools) /\ (target.tools => l.complete = ~has("incomplete"))
  BY ListedOnce DEF IInv
<1>5. n.body = "error" /\ odd.body = "error" /\ odd.code = -32004 /\ r.body = "error" /\ r.code = -32022
  BY RefusalFacts
<1>6. target.tools \in BOOLEAN
  BY TargetFacts DEF IInv
<1> HIDE DEF e, l, n, odd, r, served
<1>7. StatelessAnswer("V2.mismatch", 0) =
        IF ~target.tools THEN n ELSE IF served THEN l ELSE IF has("oddCode") THEN odd ELSE r
  BY <1>2, <1>3
<1>8. CASE ~target.tools
  BY <1>1, <1>5, <1>7, <1>8 DEF Classified, SameAnswer, e, served
<1>9. CASE target.tools /\ served
  BY <1>1, <1>4, <1>7, <1>9 DEF Classified, SameAnswer, e, served
<1>10. CASE target.tools /\ ~served
  BY <1>1, <1>5, <1>7, <1>10 DEF Classified, SameAnswer, e, served
<1> QED BY <1>6, <1>8, <1>9, <1>10 DEF served

LEMMA StreamAnswered ==
    ASSUME IInv, stateless, Heeded("G1.get")
    PROVE  LET e == cap["G1.get"] IN
           Classified(e) /\ ~Succeeded(e) /\ (e.stream /\ e.ok <=> has("streams"))
<1> DEFINE e == cap["G1.get"]
           b == has("streams")
           s == [NoMessage EXCEPT !.stream = b, !.ok = b]
<1>1. SameAnswer(e, StatelessAnswer("G1.get", 0)) /\ Classified(e)
  BY EntryNames, HeardEntry DEF Heeded
<1>2. StatelessAnswer("G1.get", 0) = s
  BY DEF StatelessAnswer
<1>3. b \in BOOLEAN
  BY DEF has
<1> HIDE DEF b
<1>4. s.stream = b /\ s.ok = b /\ s.body = "none"
  BY DEF NoMessage
<1> HIDE DEF e, s
<1> QED BY <1>1, <1>2, <1>3, <1>4 DEF Classified, SameAnswer, e, b

\* The version the mismatch probe names is one the server does not speak.
LEMMA MismatchUnspoken ==
    ASSUME IInv, stateless, Known, recorded("V2.mismatch")
    PROVE  Mismatch(cap) \notin target.speaks
<1>1. cap["D1.discover"].supported = target.speaks
  BY IdentityHeard DEF Known, Identity
<1>2. Unlisted(cap) # {}
  BY DEF IInv, Ordered, Sent
<1>3. Unlisted(cap) \in SUBSET Nat
  BY DEF Unlisted, Eras
<1>4. Min(Unlisted(cap)) \in Unlisted(cap)
  BY <1>2, <1>3, LeastOne
<1> QED BY <1>1, <1>4 DEF Mismatch, Unlisted

-----------------------------------------------------------------------------
(* What the walk's cell holds against a server. *)

\* A page that was answered is served, unless the server gates the first one.
LEMMA PageServed ==
    ASSUME IInv, ~stateless => Known, NEW k \in Walked, cap[PageProbe(k)].wire = "answered",
           target.tools, ~(stateless /\ k = 0 /\ has("gated"))
    PROVE  Succeeded(cap[PageProbe(k)])
<1> DEFINE p == PageProbe(k)
           e == cap[p]
           n == Asked(k)
           l == Listed(n)
<1>1. k \in PageIndices /\ recorded(p) /\ Askable(k) /\ n \in Nat
  BY WalkedAskable
<1>2. e = Answer(p, k) /\ Classified(e)
  BY <1>1, AnsweredFacts DEF IInv, Heard
<1>3. l.ok /\ l.body = "result"
  <2> HIDE DEF n
  <2> QED BY <1>1, ListedFacts DEF IInv
<1>4. e.ok = l.ok /\ e.body = l.body
  <2>1. CASE ~stateless
    <3>1. p \notin {"H1.init", "H2.newer", "D1.discover", "G1.get", "B1.batch", "T2.badcursor",
                    "V1.noheader", "S1.nosession", "H3.cold"}
      BY <1>1, <2>1, NamesOfPages, EntryNames DEF PageIndices
    <3>2. Admitted(p)
      <4> HIDE DEF p
      <4> QED BY <2>1, <3>1, AdmittedWhenKnown DEF Fresh
    <3>3. ClassicAnswer(p, k) = l
      <4> HIDE DEF p, l
      <4> QED BY <3>1, <3>2 DEF ClassicAnswer, l
    <3> QED BY <1>2, <2>1, <3>3 DEF Answer
  <2>2. CASE stateless
    <3>1. p \notin {"D1.discover", "D2.nometa", "H1.init", "T2.badcursor", "B1.batch", "V2.mismatch", "G1.get"}
      BY <1>1, NamesOfPages DEF PageIndices
    <3>2. ~(p = "H3.cold" /\ has("gated"))
      BY <1>1, <2>2, NamesOfPages DEF PageIndices
    <3>3. StatelessAnswer(p, k) = l
      <4> HIDE DEF p, l
      <4> QED BY <3>1, <3>2 DEF StatelessAnswer, l
    <3>4. SameAnswer(e, StatelessAnswer(p, k))
      BY <1>1, <1>2, <2>2, HeardStateless
    <3> HIDE DEF e, p, l
    <3> QED BY <3>3, <3>4 DEF SameAnswer
  <2> QED BY <2>1, <2>2
<1> HIDE DEF e, l
<1> QED BY <1>2, <1>3, <1>4 DEF Classified, e

LEMMA FirstFlaw ==
    ASSUME T1Tools = "must"
    PROVE  \E k \in Walked : PageGrade(k) = "must" /\ \A j \in Walked : j < k => PageGrade(j) = "pass"
<1> DEFINE flawed == {k \in Walked : PageGrade(k) # "pass"}
           k == Min(flawed)
<1>1. flawed # {} /\ T1Tools = PageGrade(k)
  BY DEF T1Tools
<1>2. flawed \in SUBSET Nat
  BY HarnessAssumption DEF Walked
<1>3. k \in flawed /\ \A i \in flawed : k <= i
  <2> HIDE DEF flawed
  <2> QED BY <1>1, <1>2, LeastOne
<1> HIDE DEF k
<1>4. k \in Walked /\ PageGrade(k) = "must" /\ k \in Nat
  BY <1>1, <1>2, <1>3
<1>5. ASSUME NEW j \in Walked, j < k PROVE PageGrade(j) = "pass"
  <2>1. j \in Nat
    BY HarnessAssumption DEF Walked
  <2>2. j \notin flawed
    BY <1>3, <1>4, <1>5, <2>1
  <2> QED BY <2>2
<1> QED BY <1>4, <1>5

\* The walk follows the server's cursors, one page after the other.
LEMMA StraightWalk ==
    ASSUME IInv, NEW k \in Walked, ~has("loops"),
           \A j \in Walked : j < k => Succeeded(cap[PageProbe(j)])
    PROVE  \A j \in 0..k : Asked(j) = j
<1>1. k \in Nat /\ (\A j \in 0..k : j \in Walked) /\ Asked(0) = 0
  BY WalkedFacts
<1> DEFINE astray == {j \in 0..k : Asked(j) # j}
<1> SUFFICES ASSUME astray # {} PROVE FALSE
  OBVIOUS
<1>2. astray \in SUBSET Nat
  BY <1>1
<1> DEFINE j == Min(astray)
<1>3. j \in astray /\ \A i \in astray : j <= i
  <2> HIDE DEF astray
  <2> QED BY <1>2, LeastOne
<1> HIDE DEF j
<1>4. j \in 0..k /\ Asked(j) # j /\ j \in Nat /\ j \in Walked
  BY <1>1, <1>2, <1>3
<1>5. j # 0
  BY <1>1, <1>4
<1>6. Asked(j) = cap[PageProbe(j - 1)].cursor /\ cap[PageProbe(j - 1)].cursor # 0
  BY <1>4, <1>5, WalkedFacts
<1>7. j - 1 \in 0..k /\ j - 1 < k
  BY <1>1, <1>4, <1>5
<1>8. Asked(j - 1) = j - 1
  BY <1>3, <1>7
<1>9. j - 1 \in Walked /\ Succeeded(cap[PageProbe(j - 1)])
  BY <1>1, <1>7
<1>10. cap[PageProbe(j - 1)].cursor =
          IF has("loops") THEN 1 ELSE IF Asked(j - 1) + 1 < target.pages THEN Asked(j - 1) + 1 ELSE 0
  BY <1>9, PageHeard
<1> QED BY <1>4, <1>6, <1>8, <1>10

LEMMA GradeOfPage ==
    ASSUME IInv, NEW k \in Walked
    PROVE  LET e      == cap[PageProbe(k)]
               before == {cap[PageProbe(j)] : j \in {i \in Walked : i < k}}
               listed == UNION {Range(b.names) : b \in before}
               flaw   == \/ 0 \in Range(e.names)
                         \/ ~IsInjective(e.names)
                         \/ Range(e.names) \cap listed # {}
                         \/ e.cursor # 0 /\ \E b \in before : b.cursor = e.cursor
           IN  /\ Unreached(e) => PageGrade(k) = "unreached"
               /\ ~Unreached(e) /\ ~Succeeded(e) => PageGrade(k) = "must"
               /\ Succeeded(e) /\ flaw => PageGrade(k) = "must"
               /\ Succeeded(e) /\ ~flaw => PageGrade(k) = "pass"
<1> DEFINE e == cap[PageProbe(k)]
           before == {cap[PageProbe(j)] : j \in {i \in Walked : i < k}}
           listed == UNION {Range(b.names) : b \in before}
           flaw == \/ 0 \in Range(e.names)
                   \/ ~IsInjective(e.names)
                   \/ Range(e.names) \cap listed # {}
                   \/ e.cursor # 0 /\ \E b \in before : b.cursor = e.cursor
<1>1. PageGrade(k) =
        CASE Unreached(e) -> "unreached"
          [] Refused(e)   -> "must"
          [] Succeeded(e) -> IF flaw THEN "must" ELSE "pass"
  BY DEF PageGrade
<1>2. Succeeded(e) => ~Unreached(e) /\ ~Refused(e)
  BY OnlyAnswersSucceed DEF Walked, IInv
<1> HIDE DEF e, flaw
<1>3. Unreached(e) => ~Refused(e) /\ ~Succeeded(e)
  BY <1>2 DEF Refused
<1>4. ~Unreached(e) /\ ~Succeeded(e) => Refused(e)
  BY DEF Refused
<1>5. /\ Unreached(e) => PageGrade(k) = "unreached"
      /\ ~Unreached(e) /\ ~Succeeded(e) => PageGrade(k) = "must"
      /\ Succeeded(e) /\ flaw => PageGrade(k) = "must"
      /\ Succeeded(e) /\ ~flaw => PageGrade(k) = "pass"
  BY <1>1, <1>2, <1>3, <1>4
<1> QED BY <1>5 DEF e, flaw

\* A walk is condemned only for what the server does to it.
LEMMA WalkBlame ==
    ASSUME IInv, Known, T1Tools = "must", target.tools,
           \A p \in DOMAIN cap : cap[p].wire # "silent"
    PROVE  has("nameless") \/ has("duplicates") \/ has("loops") \/ (stateless /\ has("gated"))
<1> SUFFICES ASSUME ~has("nameless"), ~has("duplicates"), ~has("loops"), ~(stateless /\ has("gated"))
             PROVE  FALSE
  OBVIOUS
<1>1. PICK k \in Walked : PageGrade(k) = "must" /\ \A j \in Walked : j < k => PageGrade(j) = "pass"
  BY FirstFlaw
<1>2. k \in Nat /\ (\A j \in 0..k : j \in Walked) /\ k \in PageIndices
  BY WalkedFacts
<1>3. \A j \in Walked : j < k => Succeeded(cap[PageProbe(j)])
  BY <1>1, PagePasses
<1>4. Succeeded(cap[PageProbe(k)])
  <2>1. ~Unreached(cap[PageProbe(k)])
    BY <1>1, GradeOfPage
  <2>2. recorded(PageProbe(k))
    BY WalkedAskable
  <2>3. cap[PageProbe(k)].wire = "answered"
    <3> DEFINE e == cap[PageProbe(k)]
    <3>1. e \in Messages \cup Unheard /\ e.wire # "silent"
      BY <2>2 DEF IInv, Captured, Capturable, recorded
    <3>2. e.wire \notin {"dead", "cut"}
      BY <2>1 DEF Unreached
    <3> HIDE DEF e
    <3>3. e.wire = "answered"
      BY <3>1, <3>2 DEF Messages, Unheard
    <3> QED BY <3>3 DEF e
  <2> QED BY <2>3, PageServed
<1>5. \A j \in 0..k : Asked(j) = j
  BY <1>3, StraightWalk
<1> DEFINE names(j) == cap[PageProbe(j)].names
           cursor(j) == cap[PageProbe(j)].cursor
<1>6. ASSUME NEW j \in 0..k
      PROVE  names(j) = <<j + 1>> /\ cursor(j) = IF j + 1 < target.pages THEN j + 1 ELSE 0
  <2>1. j \in Walked /\ Succeeded(cap[PageProbe(j)])
    <3>1. j \in Nat /\ (j = k \/ j < k)
      BY <1>2
    <3> QED BY <1>2, <1>3, <1>4, <3>1
  <2>2. /\ cap[PageProbe(j)].names = <<Asked(j) + 1>>
        /\ cap[PageProbe(j)].cursor =
             IF has("loops") THEN 1 ELSE IF Asked(j) + 1 < target.pages THEN Asked(j) + 1 ELSE 0
    BY <2>1, PageHeard
  <2> QED BY <1>5, <2>2
<1> DEFINE before == {cap[PageProbe(j)] : j \in {i \in Walked : i < k}}
           listed == UNION {Range(b.names) : b \in before}
<1>7. \A b \in before : \E j \in 0..k : j < k /\ b.names = <<j + 1>> /\ (b.cursor # 0 => b.cursor = j + 1)
  <2> SUFFICES ASSUME NEW j \in Walked, j < k
               PROVE  \E i \in 0..k : i < k /\ names(j) = <<i + 1>> /\ (cursor(j) # 0 => cursor(j) = i + 1)
    OBVIOUS
  <2>1. j \in 0..k
    BY <1>2, HarnessAssumption DEF Walked
  <2> QED BY <1>6, <2>1
<1>8. names(k) = <<k + 1>> /\ (cursor(k) # 0 => cursor(k) = k + 1)
  BY <1>2, <1>6
<1> HIDE DEF names, cursor, before
<1>9. Range(names(k)) = {k + 1} /\ 0 \notin Range(names(k)) /\ IsInjective(names(k))
  <2>1. Range(<<k + 1>>) = {k + 1}
    BY RangeOfOne
  <2>2. IsInjective(<<k + 1>>)
    BY DEF IsInjective
  <2> QED BY <1>2, <1>8, <2>1, <2>2
<1>10. Range(names(k)) \cap listed = {}
  <2> SUFFICES ASSUME NEW b \in before, k + 1 \in Range(b.names) PROVE FALSE
    BY <1>9
  <2>1. PICK j \in 0..k : j < k /\ b.names = <<j + 1>>
    BY <1>7
  <2>2. Range(b.names) = {j + 1}
    BY <2>1, RangeOfOne
  <2> QED BY <1>2, <2>1, <2>2
<1>11. ~(cursor(k) # 0 /\ \E b \in before : b.cursor = cursor(k))
  BY <1>2, <1>7, <1>8
<1>12. PageGrade(k) = "pass"
  BY <1>4, <1>9, <1>10, <1>11, GradeOfPage DEF names, cursor, before
<1> QED BY <1>1, <1>12

-----------------------------------------------------------------------------
(* What a violation is held against. *)

\* No child was silent, and the answer to H2 was not cut.
Audible == \A p \in DOMAIN cap : cap[p].wire # "silent" /\ (cap[p].wire = "cut" => p # "H2.newer")

LEMMA HeededOrBroken ==
    ASSUME Captured, Audible, NEW p, recorded(p)
    PROVE  Heeded(p) \/ (Broken(cap[p]) /\ (p = "H2.newer" => cap[p].wire = "dead"))
<1>1. p \in DOMAIN cap
  BY DEF recorded
<1>2. CASE cap[p].wire = "answered"
  BY <1>2 DEF Heeded
<1>3. CASE cap[p].wire # "answered"
  <2>1. Broken(cap[p])
    BY <1>1, <1>3, UnansweredFacts DEF Audible
  <2>2. p = "H2.newer" => cap[p].wire # "cut"
    BY <1>1 DEF Audible
  <2> QED BY <2>1, <2>2 DEF Broken
<1> QED BY <1>2, <1>3

\* A defect that shows in a cell.
Guilty(c) == \E d \in planted : c \in MustCells(d)

LEMMA Guilt ==
    /\ has("wrongEra") => Guilty("H1.init")
    /\ has("unknown") => Guilty("H2.newer")
    /\ has("fakeDiscover") => Guilty("D1.discover")
    /\ has("unenforced") => Guilty("S1.session")
    /\ has("batches") \/ has("unbatched") => Guilty("B1.batch")
    /\ has("noInfo") => Guilty(Identity)
    /\ has("duplicates") \/ has("nameless") \/ has("loops") \/ has("gated") => Guilty("T1.tools")
    /\ has("gated") => Guilty("H3.cold")
    /\ has("noMeta") => Guilty("D2.nometa")
    /\ has("mismatch") => Guilty("V2.mismatch")
    /\ has("mints") => Guilty("S2.nosession")
    /\ has("incomplete") => Guilty("R1.resulttype")
    /\ has("uncacheable") => Guilty("C1.cacheable")
<1>1. /\ MustCells("wrongEra") = {"H1.init"} /\ MustCells("unknown") = {"H2.newer"}
      /\ MustCells("fakeDiscover") = {"D1.discover"} /\ MustCells("unenforced") = {"S1.session"}
      /\ MustCells("batches") = {"B1.batch"} /\ MustCells("unbatched") = {"B1.batch"}
      /\ MustCells("noInfo") = {Identity} /\ MustCells("duplicates") = {"T1.tools"}
      /\ MustCells("nameless") = {"T1.tools"} /\ MustCells("loops") = {"T1.tools"}
      /\ MustCells("gated") = {"H3.cold", "T1.tools"} /\ MustCells("noMeta") = {"D2.nometa"}
      /\ MustCells("mismatch") = {"V2.mismatch"} /\ MustCells("mints") = {"S2.nosession"}
      /\ MustCells("incomplete") = {"R1.resulttype"} /\ MustCells("uncacheable") = {"C1.cacheable"}
  BY DEF MustCells
<1> QED BY <1>1 DEF Guilty, has

LEMMA IdentityBlame ==
    ASSUME IInv, Known
    PROVE  /\ ~stateless => H1Classic(cap["H1.init"]) \in {"must", "pass"} /\
                 (H1Classic(cap["H1.init"]) = "must" <=> has("wrongEra") \/ has("noInfo"))
           /\ stateless => D1Stateless(cap["D1.discover"]) \in {"must", "pass"} /\
                 (D1Stateless(cap["D1.discover"]) = "must" <=> has("noInfo"))
<1> DEFINE e == cap[Identity]
<1>1. /\ Classified(e) /\ Succeeded(e)
      /\ e.info = IF has("noInfo") THEN "absent" ELSE IF has("anonymous") THEN "incomplete" ELSE "full"
      /\ e.caps = IF target.tools THEN "tools" ELSE "none"
      /\ ~stateless => e.version = IF has("wrongEra") THEN "2024-10-07" ELSE target.era
      /\ stateless => e.supported = target.speaks
  BY IdentityHeard DEF Known
<1>2. target.era \in target.speaks /\ target.era # "2024-10-07"
  BY TargetFacts, EraNames DEF IInv
<1> HIDE DEF e
<1>3. e.info # "absent" <=> ~has("noInfo")
  BY <1>1
<1>4. e.caps # "absent"
  BY <1>1
<1>5. ~stateless => /\ H1Classic(e) \in {"must", "pass"}
                    /\ H1Classic(e) = "must" <=> has("wrongEra") \/ has("noInfo")
  BY <1>1, <1>2, <1>3, <1>4 DEF H1Classic, Classified
<1>6. stateless => /\ D1Stateless(e) \in {"must", "pass"}
                   /\ D1Stateless(e) = "must" <=> has("noInfo")
  BY <1>1, <1>2, <1>3, <1>4 DEF D1Stateless, Classified, stateless
<1> QED BY <1>5, <1>6 DEF e, Identity

LEMMA ClassicBlame ==
    ASSUME IInv, ~stateless, Known, Audible, HeaderApplies,
           NEW c \in ClassicCellNames, ClassicCell(c) = "must"
    PROVE  Guilty(c)
<1>1. Captured /\ Identity = "H1.init"
  BY DEF IInv, Identity
<1> DEFINE Excused(p) == ~recorded(p) \/ Heeded(p) \/ (Broken(cap[p]) /\ (p = "H2.newer" => cap[p].wire = "dead"))
<1>2. ASSUME NEW p PROVE Excused(p)
  BY <1>1, HeededOrBroken
<1>3. CASE c = "H1.init"
  <2>1. H1Classic(cap["H1.init"]) = "must"
    BY <1>1, <1>3, ClassicCells DEF Graded, Known
  <2> QED BY <1>1, <1>3, <2>1, IdentityBlame, Guilt
<1>4. CASE c = "H2.newer"
  <2>1. recorded(c) /\ H2Newer(cap[c]) = "must"
    BY <1>4, ClassicCells DEF Graded
  <2>2. Heeded(c)
    BY <1>2, <1>4, <2>1, BrokenGrades
  <2> DEFINE e == cap[c]
  <2>3. Classified(e) /\ Succeeded(e) /\ (~has("unknown") => e.version \in Range(Eras))
    BY <1>4, <2>2, NewerAnswered
  <2> HIDE DEF e
  <2>4. ~has("unknown") => H2Newer(e) # "must"
    BY <2>3 DEF H2Newer, Classified
  <2> QED BY <1>4, <2>1, <2>4, Guilt DEF e
<1>5. CASE c = "H3.cold"
  BY <1>5, ClassicCells DEF Graded, H3Classic
<1>6. CASE c = "D1.discover"
  <2>1. recorded(c) /\ D1Classic(cap[c]) = "must"
    BY <1>6, ClassicCells DEF Graded
  <2>2. Heeded(c)
    BY <1>2, <1>6, <2>1, BrokenGrades
  <2> DEFINE e == cap[c]
  <2>3. /\ Classified(e)
        /\ StatelessEra \in target.speaks => Succeeded(e) /\ e.supported # {}
        /\ StatelessEra \notin target.speaks /\ ~has("fakeDiscover") => ~Succeeded(e)
    BY <1>6, <2>2, DiscoverAnswered
  <2> HIDE DEF e
  <2>4. ~has("fakeDiscover") => D1Classic(e) # "must"
    BY <2>3 DEF D1Classic, Classified
  <2> QED BY <1>6, <2>1, <2>4, Guilt DEF e
<1>7. CASE c = "V1.header"
  <2>1. VersionHeader
    BY <1>7 DEF ClassicCellNames, ToolsCells
  <2>2. http /\ recorded("T1.page0") /\ Served(cap["T1.page0"]) = "must"
    BY <1>7, ClassicCells DEF V1Header
  <2>3. PageProbe(0) = "T1.page0" /\ 0 \in Walked
    BY <2>2, FirstIsAskable DEF PageProbe, PageNames, Walked, PageIndices
  <2>4. Heeded("T1.page0") /\ ~Succeeded(cap["T1.page0"])
    <3>1. ~Broken(cap["T1.page0"])
      BY <2>2, BrokenGrades
    <3>2. Heeded("T1.page0")
      BY <1>2, <2>2, <3>1
    <3>3. Classified(cap["T1.page0"])
      BY <1>1, <3>2, AnsweredFacts DEF Heeded
    <3> QED BY <2>2, <3>2, <3>3 DEF Served, Classified
  <2>5. ~target.tools
    BY <2>3, <2>4, PageServed DEF Heeded
  <2> QED BY <2>1, <2>2, <2>5 DEF HeaderApplies
<1>8. CASE c = "V1.noheader"
  BY <1>8, ClassicCells
<1>9. CASE c = "S1.session"
  <2>1. cap["H1.init"].sid /\ recorded("S1.nosession") /\ Withheld(cap["S1.nosession"]) = "must"
    BY <1>9, ClassicCells DEF S1Session, Graded
  <2>2. target.session
    BY <1>1, <2>1, IdentityHeard DEF Known
  <2>3. Heeded("S1.nosession")
    BY <1>2, <2>1, BrokenGrades
  <2>4. Classified(cap["S1.nosession"]) /\ (Succeeded(cap["S1.nosession"]) => has("unenforced"))
    BY <2>2, <2>3, NoSessionAnswered
  <2>5. Succeeded(cap["S1.nosession"])
    BY <2>1, <2>4 DEF Withheld, Classified
  <2> QED BY <1>9, <2>4, <2>5, Guilt
<1>10. CASE c = "T1.tools"
  <2>1. ToolsCapability("H1.init") /\ T1Tools = "must"
    BY <1>10, ClassicCells
  <2>2. target.tools
    BY <1>1, <2>1, ToolsKnown DEF Known
  <2>3. has("nameless") \/ has("duplicates") \/ has("loops") \/ (stateless /\ has("gated"))
    BY <2>1, <2>2, WalkBlame DEF Audible
  <2> QED BY <1>10, <2>3, Guilt
<1>11. CASE c = "T2.badcursor"
  BY <1>11, ClassicCells DEF Graded, T2BadCursor, Refused
<1>12. CASE c = "B1.batch"
  <2>1. recorded(c) /\ B1Batch(cap[c]) = "must"
    BY <1>12, ClassicCells DEF Graded
  <2>2. Heeded(c)
    BY <1>2, <1>12, <2>1, BrokenGrades
  <2> DEFINE e == cap[c]
  <2>3. /\ Classified(e)
        /\ e.body = "batch" /\ e.ok <=> \/ target.era = "2024-11-05"
                                        \/ target.era = "2025-03-26" /\ ~has("unbatched")
                                        \/ has("batches")
    BY <1>12, <2>2, ClassicBatchAnswered
  <2> HIDE DEF e
  <2>4. ~has("batches") /\ ~has("unbatched") => B1Batch(e) # "must"
    BY <2>3 DEF B1Batch, Classified
  <2> QED BY <1>12, <2>1, <2>4, Guilt DEF e
<1>13. CASE c = "G1.get"
  BY <1>13, ClassicCells
<1>14. CASE c = "I1.identity"
  BY <1>14, ClassicCells DEF Graded, I1Identity
<1> QED BY <1>3, <1>4, <1>5, <1>6, <1>7, <1>8, <1>9, <1>10, <1>11, <1>12, <1>13, <1>14
        DEF ClassicCellNames, ToolsCells

LEMMA StatelessBlame ==
    ASSUME IInv, stateless, Known, Audible, NEW c \in StatelessCellNames, StatelessCell(c) = "must"
    PROVE  Guilty(c)
<1>1. Captured /\ Identity = "D1.discover"
  BY DEF IInv, Identity
<1>2. ASSUME NEW p, recorded(p) PROVE Heeded(p) \/ Broken(cap[p])
  BY <1>1, <1>2, HeededOrBroken
<1>3. CASE c = "D1.discover"
  <2>1. D1Stateless(cap["D1.discover"]) = "must"
    BY <1>1, <1>3, StatelessCells DEF Graded, Known
  <2> QED BY <1>1, <1>3, <2>1, IdentityBlame, Guilt
<1>4. CASE c = "D2.nometa"
  <2>1. recorded(c) /\ Withheld(cap[c]) = "must"
    BY <1>4, StatelessCells DEF Graded
  <2>2. Heeded(c)
    BY <1>2, <2>1, BrokenGrades
  <2>3. Classified(cap[c]) /\ (Succeeded(cap[c]) => has("noMeta"))
    BY <1>4, <2>2, NoMetaAnswered
  <2>4. Succeeded(cap[c])
    BY <2>1, <2>3 DEF Withheld, Classified
  <2> QED BY <1>4, <2>3, <2>4, Guilt
<1>5. CASE c = "H1.init"
  <2>1. recorded(c) /\ H1Stateless(cap[c]) = "must"
    BY <1>5, StatelessCells DEF Graded
  <2>2. Heeded(c)
    BY <1>2, <2>1, BrokenGrades
  <2>3. Classified(cap[c]) /\ (Succeeded(cap[c]) => cap[c].version # "none")
    BY <1>5, <2>2, OldInitAnswered
  <2>4. H1Stateless(cap[c]) # "must"
    BY <2>3 DEF H1Stateless, Classified
  <2> QED BY <2>1, <2>4
<1>6. CASE c = "S2.nosession"
  <2>1. \E p \in DOMAIN cap : cap[p].sid
    BY <1>6, StatelessCells DEF S2NoSession
  <2>2. has("mints")
    BY <1>1, <2>1 DEF Captured, Capturable
  <2> QED BY <1>6, <2>2, Guilt
<1>7. CASE c = "B1.batch"
  <2>1. recorded(c) /\ B1Batch(cap[c]) = "must"
    BY <1>7, StatelessCells DEF Graded
  <2>2. Heeded(c)
    BY <1>2, <2>1, BrokenGrades
  <2> DEFINE e == cap[c]
  <2>3. Classified(e) /\ (e.body = "batch" /\ e.ok <=> has("batches"))
    BY <1>7, <2>2, StatelessBatchAnswered
  <2>4. target.era = "2026-07-28"
    BY DEF stateless, StatelessEra
  <2> HIDE DEF e
  <2>5. ~has("batches") => B1Batch(e) # "must"
    BY <2>3, <2>4 DEF B1Batch, Classified
  <2> QED BY <1>7, <2>1, <2>5, Guilt DEF e
<1>8. CASE c = "R1.resulttype"
  <2>1. PICK p \in DOMAIN cap \ {"H1.init"} : Succeeded(cap[p]) /\ ~cap[p].complete
    BY <1>8, StatelessCells DEF R1ResultType
  <2>2. recorded(p) /\ Heeded(p)
    BY <1>1, <2>1, OnlyAnswersSucceed DEF recorded, Heeded
  <2>3. cap[p].complete = ~has("incomplete")
    <3>1. CASE p \in Entries
      <4>1. p \in {"D1.discover", "D2.nometa", "T2.badcursor", "B1.batch", "V2.mismatch", "G1.get"}
        BY <2>1, <3>1, EntryNames
      <4>2. CASE p = "D1.discover"
        BY <1>1, <4>2, IdentityHeard DEF Known
      <4>3. CASE p = "D2.nometa"
        BY <2>1, <2>2, <4>3, NoMetaAnswered
      <4>4. CASE p = "T2.badcursor"
        BY <2>1, <2>2, <4>4, CursorAnswered
      <4>5. CASE p = "B1.batch"
        BY <2>1, <2>2, <4>5, StatelessBatchAnswered
      <4>6. CASE p = "V2.mismatch"
        BY <2>1, <2>2, <4>6, MismatchAnswered
      <4>7. CASE p = "G1.get"
        BY <2>1, <2>2, <4>7, StreamAnswered
      <4> QED BY <4>1, <4>2, <4>3, <4>4, <4>5, <4>6, <4>7
    <3>2. CASE p \notin Entries
      <4>1. PICK k \in PageIndices : p = PageProbe(k)
        BY <1>1, <3>2 DEF Captured
      <4>2. k \in Walked
        BY <2>2, <4>1 DEF Walked, PageIndices
      <4> QED BY <2>1, <4>1, <4>2, PageHeard
    <3> QED BY <3>1, <3>2
  <2> QED BY <1>8, <2>1, <2>3, Guilt
<1>9. CASE c = "G1.get"
  BY <1>9, StatelessCells DEF Graded, G1Stateless
<1>10. CASE c = "I1.identity"
  BY <1>10, StatelessCells DEF Graded, I1Identity
<1>11. CASE c \in {"H3.cold", "V2.mismatch", "C1.cacheable", "T1.tools", "T2.badcursor"}
  <2>1. ToolsCapability("D1.discover")
    BY <1>11, StatelessCells
  <2>2. target.tools
    BY <1>1, <2>1, ToolsKnown DEF Known
  <2>3. PageProbe(0) = "H3.cold"
    BY DEF PageProbe
  <2>4. recorded("H3.cold") => 0 \in Walked
    BY <2>3, FirstIsAskable DEF Walked, PageIndices
  <2>5. CASE c = "H3.cold"
    <3>1. recorded(c) /\ Served(cap[c]) = "must"
      BY <2>1, <2>5, StatelessCells DEF Graded
    <3>2. Heeded(c)
      BY <1>2, <3>1, BrokenGrades
    <3>3. ~Succeeded(cap[c])
      BY <1>1, <3>1, <3>2, AnsweredFacts DEF Served, Classified, Heeded
    <3>4. has("gated")
      BY <2>2, <2>3, <2>4, <2>5, <3>1, <3>2, <3>3, PageServed DEF Heeded
    <3> QED BY <2>5, <3>4, Guilt
  <2>6. CASE c = "V2.mismatch"
    <3>1. recorded(c) /\ V2Mismatch(cap[c]) = "must"
      BY <2>1, <2>6, StatelessCells DEF Graded
    <3>2. Heeded(c)
      BY <1>2, <3>1, BrokenGrades
    <3>3. /\ Classified(cap[c])
          /\ Succeeded(cap[c]) => has("mismatch") \/ Mismatch(cap) \in target.speaks
      BY <2>6, <3>2, MismatchAnswered
    <3>4. Succeeded(cap[c])
      BY <3>1, <3>3 DEF V2Mismatch, Classified
    <3>5. has("mismatch")
      BY <2>6, <3>1, <3>3, <3>4, MismatchUnspoken
    <3> QED BY <2>6, <3>5, Guilt
  <2>7. CASE c = "C1.cacheable"
    <3>1. recorded("H3.cold") /\ Succeeded(cap["H3.cold"]) /\ ~cap["H3.cold"].cacheable
      BY <2>1, <2>7, StatelessCells DEF Graded, C1Cacheable
    <3>2. cap["H3.cold"].cacheable = (stateless /\ ~has("uncacheable"))
      BY <2>3, <2>4, <3>1, PageHeard
    <3> QED BY <2>7, <3>1, <3>2, Guilt
  <2>8. CASE c = "T1.tools"
    <3>1. T1Tools = "must"
      BY <2>1, <2>8, StatelessCells
    <3>2. has("nameless") \/ has("duplicates") \/ has("loops") \/ (stateless /\ has("gated"))
      BY <2>2, <3>1, WalkBlame DEF Audible
    <3> QED BY <2>8, <3>2, Guilt
  <2>9. CASE c = "T2.badcursor"
    BY <2>1, <2>9, StatelessCells DEF Graded, T2BadCursor, Refused
  <2> QED BY <1>11, <2>5, <2>6, <2>7, <2>8, <2>9
<1> QED BY <1>3, <1>4, <1>5, <1>6, <1>7, <1>8, <1>9, <1>10, <1>11 DEF StatelessCellNames, ToolsCells

\* Once the plan is through, the identity exchange has been recorded.
LEMMA DoneFacts ==
    ASSUME IInv, done
    PROVE  report = Cells /\ recorded(Identity) /\ ~Probing /\ at = Len(Plan) + 1
<1>1. report = Cells /\ ~Probing
  BY DEF IInv, Reported
<1>2. at \in 1..Len(Plan) + 1 /\ Len(Plan) \in {8, 10}
  BY PlanFacts DEF IInv, Ordered
<1>3. at = Len(Plan) + 1 /\ at # 1
  BY <1>1, <1>2 DEF Probing
<1> QED BY <1>1, <1>3 DEF IInv, Ordered

LEMMA BlameLemma ==
    ASSUME IInv, done, HeaderApplies, cap[Identity].wire = "answered", Audible,
           NEW c \in CellsThatSay("must")
    PROVE  c \in All(MustCells)
<1>1. report = Cells /\ Known
  BY DoneFacts DEF Known
<1>2. c \in DOMAIN Cells /\ Cells[c] = "must"
  BY <1>1 DEF CellsThatSay
<1>3. CASE stateless
  BY <1>1, <1>2, <1>3, CellsAre, StatelessBlame DEF Guilty, All
<1>4. CASE ~stateless
  BY <1>1, <1>2, <1>4, CellsAre, ClassicBlame DEF Guilty, All
<1> QED BY <1>3, <1>4

\* As long as the identity exchange is answered, the newer handshake not cut and
\* no exchange silent, and the server has the list its header is graded on, a
\* violation that is reported is a planted one, whatever other exchanges are dead
\* or cut (grade.go:107-116, "never a verdict").
THEOREM NothingIsFabricated == Spec => []NothingFabricated
<1>1. IInv => NothingFabricated
  BY BlameLemma DEF NothingFabricated, Audible
<1> QED BY <1>1, CaptureInvariant, PTL

-----------------------------------------------------------------------------
(* A violation that was answered is reported. *)

AllDefects == {"noInfo", "anonymous", "noMeta", "incomplete", "batches", "wrongEra", "unknown",
               "fakeDiscover", "unbatched", "unenforced", "duplicates", "nameless", "laxCursor", "loops",
               "gated", "uncacheable", "mismatch", "oddCode", "mints", "streams"}

LEMMA DefectFacts ==
    ASSUME Sane
    PROVE  /\ planted \subseteq AllDefects
           /\ \A d \in {"wrongEra", "unknown", "fakeDiscover", "unenforced", "unbatched"} :
                 has(d) => ~stateless
           /\ \A d \in {"noMeta", "incomplete", "gated", "uncacheable", "mismatch", "oddCode", "mints",
                        "streams"} : has(d) => stateless
           /\ \A d \in {"unenforced", "duplicates", "nameless", "laxCursor", "loops", "gated", "uncacheable",
                        "mismatch", "oddCode"} : has(d) => target.tools
           /\ has("fakeDiscover") => StatelessEra \notin target.speaks
           /\ has("batches") => stateless \/ target.era \in {"2025-06-18", "2025-11-25"}
           /\ has("unbatched") => target.era = "2025-03-26"
           /\ has("unenforced") => target.session
           /\ has("loops") => target.pages > 1
           /\ has("mismatch") \/ has("oddCode") => target.speaks # Range(Eras)
           /\ has("mints") \/ has("streams") => http
           /\ has("streams") => target.speaks = {target.era}
<1> DEFINE modern == target.era = StatelessEra
           D1 == {"noInfo", "anonymous"}
           D2 == IF modern THEN {"noMeta", "incomplete", "batches"} ELSE {"wrongEra", "unknown"}
           D3 == IF ~modern /\ StatelessEra \notin target.speaks THEN {"fakeDiscover"} ELSE {}
           D4 == IF target.era \in {"2025-06-18", "2025-11-25"} THEN {"batches"} ELSE {}
           D5 == IF target.era = "2025-03-26" THEN {"unbatched"} ELSE {}
           D6 == IF target.session /\ target.tools THEN {"unenforced"} ELSE {}
           D7 == IF target.tools THEN {"duplicates", "nameless", "laxCursor"} ELSE {}
           D8 == IF target.tools /\ target.pages > 1 THEN {"loops"} ELSE {}
           D9 == IF modern /\ target.tools THEN {"gated", "uncacheable"} ELSE {}
           D10 == IF modern /\ target.tools /\ target.speaks # Range(Eras) THEN {"mismatch", "oddCode"} ELSE {}
           D11 == IF modern /\ target.kind = "http" THEN {"mints"} ELSE {}
           D12 == IF modern /\ target.kind = "http" /\ target.speaks = {target.era} THEN {"streams"} ELSE {}
<1>1. Defects(target) = D1 \cup D2 \cup D3 \cup D4 \cup D5 \cup D6 \cup D7 \cup D8 \cup D9 \cup D10 \cup D11 \cup D12
  BY DEF Defects
<1>2. ASSUME NEW d, has(d)
      PROVE  \/ d \in D1 \/ d \in D2 \/ d \in D3 \/ d \in D4 \/ d \in D5 \/ d \in D6 \/ d \in D7
             \/ d \in D8 \/ d \in D9 \/ d \in D10 \/ d \in D11 \/ d \in D12
  <2>1. d \in Defects(target)
    BY <1>2 DEF has, Sane
  <2> HIDE DEF D1, D2, D3, D4, D5, D6, D7, D8, D9, D10, D11, D12
  <2> QED BY <1>1, <2>1
<1>3. target.session => ~modern
  BY TargetFacts DEF stateless
<1>4. ASSUME NEW d, has(d)
      PROVE  /\ d \in AllDefects
             /\ d \in {"wrongEra", "unknown", "fakeDiscover", "unenforced", "unbatched"} => ~modern
             /\ d \in {"noMeta", "incomplete", "gated", "uncacheable", "mismatch", "oddCode", "mints", "streams"}
                   => modern
             /\ d \in {"unenforced", "duplicates", "nameless", "laxCursor", "loops", "gated", "uncacheable",
                       "mismatch", "oddCode"} => target.tools
             /\ d = "fakeDiscover" => StatelessEra \notin target.speaks
             /\ d = "batches" => modern \/ target.era \in {"2025-06-18", "2025-11-25"}
             /\ d = "unbatched" => target.era = "2025-03-26"
             /\ d = "unenforced" => target.session
             /\ d = "loops" => target.pages > 1
             /\ d \in {"mismatch", "oddCode"} => target.speaks # Range(Eras)
             /\ d \in {"mints", "streams"} => target.kind = "http"
             /\ d = "streams" => target.speaks = {target.era}
  BY <1>2, <1>3, <1>4 DEF AllDefects, StatelessEra
<1>5. modern <=> stateless
  BY DEF stateless
<1> HIDE DEF modern
<1> QED BY <1>4, <1>5 DEF has, http

\* A page that was answered passes or is condemned.
LEMMA AnsweredPage ==
    ASSUME IInv, NEW k \in Walked, cap[PageProbe(k)].wire = "answered"
    PROVE  /\ PageGrade(k) \in {"must", "pass"}
           /\ ~Succeeded(cap[PageProbe(k)]) => PageGrade(k) = "must"
<1>1. Classified(cap[PageProbe(k)])
  BY WalkedAskable, AnsweredFacts DEF IInv
<1> QED BY <1>1, GradeOfPage DEF Classified

LEMMA WalkCondemned ==
    ASSUME IInv, NEW k \in Walked, PageGrade(k) = "must",
           \A j \in 0..k : cap[PageProbe(j)].wire = "answered"
    PROVE  T1Tools = "must"
<1> DEFINE flawed == {j \in Walked : PageGrade(j) # "pass"}
           m == Min(flawed)
<1>1. k \in flawed /\ flawed \in SUBSET Nat
  BY HarnessAssumption DEF Walked
<1>2. m \in flawed /\ \A i \in flawed : m <= i
  <2> HIDE DEF flawed
  <2> QED BY <1>1, LeastOne
<1>3. T1Tools = PageGrade(m)
  BY <1>1 DEF T1Tools
<1> HIDE DEF m
<1>4. m \in Walked /\ PageGrade(m) # "pass" /\ m \in 0..k
  BY <1>1, <1>2
<1>5. PageGrade(m) \in {"must", "pass"}
  BY <1>4, AnsweredPage
<1> QED BY <1>3, <1>4, <1>5

\* The first page gives a nameless or a gating server away.
LEMMA FirstPageTells ==
    ASSUME IInv, recorded(PageProbe(0)), cap[PageProbe(0)].wire = "answered",
           has("nameless") \/ (stateless /\ has("gated")) \/ ~target.tools
                           \/ (has("duplicates") /\ target.pages = 1)
    PROVE  T1Tools = "must"
<1> DEFINE e == cap[PageProbe(0)]
<1>1. 0 \in Walked /\ Asked(0) = 0
  BY FirstIsAskable DEF Walked, PageIndices
<1>2. PageGrade(0) = "must"
  <2>1. CASE ~Succeeded(e)
    BY <1>1, <2>1, AnsweredPage
  <2>2. CASE Succeeded(e)
    <3>1. /\ target.tools /\ ~(stateless /\ has("gated"))
          /\ has("nameless") => e.names = <<0>>
          /\ ~has("nameless") /\ has("duplicates") /\ target.pages = 1 => e.names = <<0 + 1, 1>>
      BY <1>1, <2>2, PageHeard
    <3>2. 0 \in Range(<<0>>) /\ ~IsInjective(<<1, 1>>)
      BY RangeOfOne
    <3>3. 0 \in Range(e.names) \/ ~IsInjective(e.names)
      <4> HIDE DEF e
      <4> QED BY <3>1, <3>2
    <3> QED BY <1>1, <2>2, <3>3, GradeOfPage
  <2> QED BY <2>1, <2>2
<1> QED BY <1>1, <1>2, WalkCondemned

\* The second page gives away a server that lists a tool again, or that hands
\* out one cursor forever.
LEMMA SecondPageTells ==
    ASSUME IInv, target.pages # 1, has("duplicates") \/ has("loops"),
           \A k \in {0, 1} : recorded(PageProbe(k)) /\ cap[PageProbe(k)].wire = "answered"
    PROVE  T1Tools = "must"
<1> DEFINE e == cap[PageProbe(0)]
           f == cap[PageProbe(1)]
<1>1. {0, 1} \subseteq Walked /\ Asked(0) = 0 /\ Asked(1) = e.cursor
  BY FirstIsAskable, HarnessAssumption DEF Walked, PageIndices, Asked
<1>2. target.pages \in Nat \ {0}
  BY TargetFacts DEF IInv
<1>3. CASE PageGrade(0) = "must"
  BY <1>1, <1>3, WalkCondemned
<1>4. CASE PageGrade(0) # "must"
  <2>1. PageGrade(0) = "pass"
    BY <1>1, <1>4, AnsweredPage
  <2>2. Succeeded(e) /\ 0 \notin Range(e.names)
    BY <1>1, <2>1, PagePasses
  <2>3. ~has("nameless")
    <3>1. has("nameless") => e.names = <<0>>
      BY <1>1, <2>2, PageHeard
    <3> QED BY <2>2, <3>1, RangeOfOne
  <2>4. /\ e.names = <<1>>
        /\ e.cursor = IF has("loops") THEN 1 ELSE IF 0 + 1 < target.pages THEN 0 + 1 ELSE 0
    <3>1. ~(has("duplicates") /\ (0 > 0 \/ target.pages = 1))
      OBVIOUS
    <3>2. e.names = <<0 + 1>>
      BY <1>1, <2>2, <2>3, <3>1, PageHeard
    <3> QED BY <1>1, <2>2, <3>2, PageHeard
  <2>5. e.cursor = 1
    BY <1>2, <2>4
  <2>6. PageGrade(1) = "must"
    <3>1. CASE ~Succeeded(f)
      BY <1>1, <3>1, AnsweredPage
    <3>2. CASE Succeeded(f)
      <4> DEFINE before == {cap[PageProbe(j)] : j \in {i \in Walked : i < 1}}
                 listed == UNION {Range(b.names) : b \in before}
      <4>1. e \in before
        BY <1>1
      <4>2. CASE has("duplicates")
        <5>1. f.names = <<1 + 1, 1>>
          BY <1>1, <2>3, <2>5, <3>2, <4>2, PageHeard
        <5>2. 1 \in Range(f.names)
          BY <5>1, RangeOfOne
        <5>3. 1 \in Range(e.names)
          BY <2>4, RangeOfOne
        <5>4. Range(f.names) \cap listed # {}
          <6>1. 1 \in listed
            BY <4>1, <5>3
          <6> QED BY <5>2, <6>1
        <5> QED BY <1>1, <3>2, <5>4, GradeOfPage
      <4>3. CASE has("loops")
        <5>1. f.cursor = 1
          BY <1>1, <3>2, <4>3, PageHeard
        <5>2. f.cursor # 0 /\ \E b \in before : b.cursor = f.cursor
          BY <2>5, <4>1, <5>1
        <5> QED BY <1>1, <3>2, <5>2, GradeOfPage
      <4> QED BY <4>2, <4>3
    <3> QED BY <3>1, <3>2
  <2>7. \A j \in 0..1 : cap[PageProbe(j)].wire = "answered"
    <3>1. \A j \in 0..1 : j = 0 \/ j = 1
      OBVIOUS
    <3> QED BY <3>1
  <2> QED BY <1>1, <2>6, <2>7, WalkCondemned
<1> QED BY <1>3, <1>4

\* A cell says so whether or not the capture has been graded yet.
Says(c, o) == c \in DOMAIN Cells /\ Cells[c] = o

LEMMA ClassicSays ==
    ASSUME ~stateless, NEW c, NEW o, ClassicCell(c) = o, c \in ClassicCellNames
    PROVE  Says(c, o)
BY CellsAre DEF Says

LEMMA StatelessSays ==
    ASSUME stateless, NEW c, NEW o, StatelessCell(c) = o, c \in StatelessCellNames
    PROVE  Says(c, o)
BY CellsAre DEF Says

\* The cell of the walk, by its grade.
LEMMA WalkSays ==
    ASSUME IInv, target.tools, T1Tools = "must"
    PROVE  Says("T1.tools", "must")
<1>1. ToolsCapability(Identity)
  BY ToolsKnown
<1>2. CASE stateless
  <2>1. StatelessCell("T1.tools") = "must"
    BY <1>1, <1>2, StatelessCells DEF Identity
  <2> QED BY <1>2, <2>1, StatelessSays DEF StatelessCellNames, ToolsCells
<1>3. CASE ~stateless
  <2>1. ClassicCell("T1.tools") = "must"
    BY <1>1, <1>3, ClassicCells DEF Identity
  <2> QED BY <1>3, <2>1, ClassicSays DEF ClassicCellNames, ToolsCells
<1> QED BY <1>2, <1>3

LEMMA WitnessesAre ==
    /\ Witnesses("wrongEra") = {"H1.init"} /\ Witnesses("unknown") = {"H2.newer"}
    /\ Witnesses("fakeDiscover") = {"D1.discover"} /\ Witnesses("unenforced") = {"S1.nosession"}
    /\ Witnesses("batches") = {Identity, "B1.batch"} /\ Witnesses("unbatched") = {Identity, "B1.batch"}
    /\ Witnesses("noInfo") = {Identity} /\ Witnesses("incomplete") = {Identity}
    /\ Witnesses("nameless") = {PageProbe(0)}
    /\ Witnesses("duplicates") = {PageProbe(k) : k \in 0..(IF target.pages = 1 THEN 0 ELSE 1)}
    /\ Witnesses("loops") = {PageProbe(k) : k \in 0..(IF target.pages = 1 THEN 0 ELSE 1)}
    /\ Witnesses("noMeta") = {"D2.nometa"} /\ Witnesses("gated") = {"H3.cold"}
    /\ Witnesses("uncacheable") = {"H3.cold"} /\ Witnesses("mismatch") = {"V2.mismatch"}
    /\ Witnesses("mints") = {"B1.batch"}
    /\ \A d \in {"anonymous", "laxCursor", "oddCode", "streams"} : Witnesses(d) = {"none"}
BY DEF Witnesses

\* Each defect, once its witnesses answered, shows in the cells it must show in.
\* A list that was refused cannot show its missing cache hints.
LEMMA ClassicDefectShows ==
    ASSUME IInv, ~stateless, NEW d, has(d), \A p \in Witnesses(d) : Heeded(p)
    PROVE  \A c \in MustCells(d) : Says(c, "must")
<1> SUFFICES ASSUME NEW c \in MustCells(d) PROVE Says(c, "must")
  OBVIOUS
<1>1. Identity = "H1.init" /\ Sane
  BY DEF Identity, IInv
<1>2. d \in AllDefects
  BY <1>1, DefectFacts DEF has
<1>3. \A p : Heeded(p) => recorded(p)
  BY DEF Heeded
<1>4. CASE d = "wrongEra" \/ d = "noInfo"
  <2>1. c = "H1.init" /\ Heeded("H1.init")
    BY <1>1, <1>4, WitnessesAre DEF MustCells
  <2>2. H1Classic(cap["H1.init"]) = "must"
    BY <1>1, <1>4, <2>1, IdentityBlame DEF Known, Heeded
  <2> QED BY <1>3, <2>1, <2>2, ClassicCells, ClassicSays DEF Graded, ClassicCellNames
<1>5. CASE d = "unknown"
  <2>1. c = "H2.newer" /\ Heeded("H2.newer")
    BY <1>5, WitnessesAre DEF MustCells
  <2> DEFINE e == cap["H2.newer"]
  <2>2. Classified(e) /\ Succeeded(e) /\ e.version = "unknown"
    BY <1>5, <2>1, NewerAnswered
  <2> HIDE DEF e
  <2>3. H2Newer(e) = "must"
    BY <2>2, EraNames DEF H2Newer, Classified, StatelessEra
  <2> QED BY <1>3, <2>1, <2>3, ClassicCells, ClassicSays DEF Graded, ClassicCellNames, e
<1>6. CASE d = "fakeDiscover"
  <2>1. c = "D1.discover" /\ Heeded("D1.discover") /\ StatelessEra \notin target.speaks
    BY <1>1, <1>6, WitnessesAre, DefectFacts DEF MustCells
  <2> DEFINE e == cap["D1.discover"]
  <2>2. Classified(e) /\ Succeeded(e) /\ e.supported = {}
    BY <1>6, <2>1, DiscoverAnswered
  <2> HIDE DEF e
  <2>3. D1Classic(e) = "must"
    BY <2>2 DEF D1Classic, Classified
  <2> QED BY <1>3, <2>1, <2>3, ClassicCells, ClassicSays DEF Graded, ClassicCellNames, e
<1>7. CASE d = "unenforced"
  <2>1. c = "S1.session" /\ Heeded("S1.nosession") /\ target.session /\ target.tools
    BY <1>1, <1>7, WitnessesAre, DefectFacts DEF MustCells
  <2>2. http /\ target.era # "2024-11-05" /\ cap["H1.init"].sid
    BY <1>1, <1>3, <2>1, TargetFacts DEF IInv, Ordered, Sent
  <2> DEFINE e == cap["S1.nosession"]
  <2>3. Classified(e) /\ Succeeded(e)
    BY <1>7, <2>1, NoSessionAnswered
  <2> HIDE DEF e
  <2>4. Withheld(e) = "must"
    BY <2>3 DEF Withheld, Classified
  <2>5. S1Session = "must"
    BY <1>3, <2>1, <2>2, <2>4 DEF S1Session, Graded, e
  <2> QED BY <2>1, <2>2, <2>5, ClassicCells, ClassicSays DEF ClassicCellNames
<1>8. CASE d = "batches" \/ d = "unbatched"
  <2>1. c = "B1.batch" /\ Heeded("B1.batch") /\ Heeded(Identity)
    BY <1>8, WitnessesAre DEF MustCells
  <2>2. /\ has("batches") => target.era \in {"2025-06-18", "2025-11-25"}
        /\ has("unbatched") => target.era = "2025-03-26"
    BY <1>1, DefectFacts
  <2> DEFINE e == cap["B1.batch"]
  <2>3. /\ Classified(e)
        /\ e.body = "batch" /\ e.ok <=> \/ target.era = "2024-11-05"
                                        \/ target.era = "2025-03-26" /\ ~has("unbatched")
                                        \/ has("batches")
    BY <2>1, ClassicBatchAnswered DEF Known, Heeded
  <2> HIDE DEF e
  <2>4. B1Batch(e) = "must"
    <3>1. CASE d = "batches"
      <4>1. target.era # "2024-11-05" /\ target.era # "2025-03-26" /\ e.body = "batch" /\ e.ok
        BY <2>2, <2>3, <3>1
      <4> QED BY <2>3, <4>1 DEF B1Batch, Classified
    <3>2. CASE d = "unbatched"
      <4>1. target.era = "2025-03-26" /\ ~(e.body = "batch" /\ e.ok)
        BY <2>2, <2>3, <3>2
      <4> QED BY <2>3, <4>1 DEF B1Batch, Classified
    <3> QED BY <1>8, <3>1, <3>2
  <2> QED BY <1>3, <2>1, <2>4, ClassicCells, ClassicSays DEF Graded, ClassicCellNames, e
<1>9. CASE d \in {"duplicates", "nameless", "loops"}
  <2>1. c = "T1.tools" /\ target.tools /\ (has("loops") => target.pages > 1) /\ target.pages \in Nat \ {0}
    BY <1>1, <1>9, DefectFacts, TargetFacts DEF MustCells
  <2>2. Heeded(PageProbe(0)) /\ (d # "nameless" /\ target.pages # 1 => Heeded(PageProbe(1)))
    BY <1>9, WitnessesAre
  <2>3. T1Tools = "must"
    <3>1. CASE d = "nameless" \/ target.pages = 1
      BY <1>9, <2>1, <2>2, <3>1, FirstPageTells DEF Heeded
    <3>2. CASE d # "nameless" /\ target.pages # 1
      BY <1>9, <2>1, <2>2, <3>2, SecondPageTells DEF Heeded
    <3> QED BY <3>1, <3>2
  <2> QED BY <2>1, <2>3, WalkSays
<1>10. CASE d \in {"anonymous", "laxCursor", "oddCode", "streams"}
  BY <1>10 DEF MustCells
<1>11. d \notin {"noMeta", "incomplete", "gated", "uncacheable", "mismatch", "oddCode", "mints", "streams"}
  BY <1>1, DefectFacts
<1> QED BY <1>2, <1>4, <1>5, <1>6, <1>7, <1>8, <1>9, <1>10, <1>11 DEF AllDefects

LEMMA StatelessDefectShows ==
    ASSUME IInv, stateless, NEW d, has(d), \A p \in Witnesses(d) : Heeded(p),
           d = "uncacheable" => ~has("gated")
    PROVE  \A c \in MustCells(d) : Says(c, "must")
<1> SUFFICES ASSUME NEW c \in MustCells(d) PROVE Says(c, "must")
  OBVIOUS
<1>1. Identity = "D1.discover" /\ Sane /\ PageProbe(0) = "H3.cold"
  BY DEF Identity, IInv, PageProbe
<1>2. d \in AllDefects
  BY <1>1, DefectFacts DEF has
<1>3. \A p : Heeded(p) => recorded(p)
  BY DEF Heeded
<1>4. target.tools => ToolsCapability("D1.discover")
  BY <1>1, ToolsKnown
<1>5. CASE d = "noInfo"
  <2>1. c = "D1.discover" /\ Heeded("D1.discover")
    BY <1>1, <1>5, WitnessesAre DEF MustCells
  <2>2. D1Stateless(cap["D1.discover"]) = "must"
    BY <1>1, <1>5, <2>1, IdentityBlame DEF Known, Heeded
  <2> QED BY <1>3, <2>1, <2>2, StatelessCells, StatelessSays DEF Graded, StatelessCellNames
<1>6. CASE d = "incomplete"
  <2>1. c = "R1.resulttype" /\ Heeded("D1.discover")
    BY <1>1, <1>6, WitnessesAre DEF MustCells
  <2>2. Succeeded(cap["D1.discover"]) /\ ~cap["D1.discover"].complete
    BY <1>1, <1>6, <2>1, IdentityHeard DEF Known, Heeded
  <2>3. "D1.discover" \in {p \in DOMAIN cap \ {"H1.init"} : Succeeded(cap[p])}
    BY <1>3, <2>1, <2>2 DEF recorded
  <2>4. R1ResultType = "must"
    BY <2>2, <2>3 DEF R1ResultType
  <2> QED BY <2>1, <2>4, StatelessCells, StatelessSays DEF StatelessCellNames
<1>7. CASE d = "batches"
  <2>1. c = "B1.batch" /\ Heeded("B1.batch")
    BY <1>7, WitnessesAre DEF MustCells
  <2> DEFINE e == cap["B1.batch"]
  <2>2. Classified(e) /\ e.body = "batch" /\ e.ok
    BY <1>7, <2>1, StatelessBatchAnswered
  <2> HIDE DEF e
  <2>3. B1Batch(e) = "must"
    BY <2>2 DEF B1Batch, Classified, stateless, StatelessEra
  <2> QED BY <1>3, <2>1, <2>3, StatelessCells, StatelessSays DEF Graded, StatelessCellNames, e
<1>8. CASE d \in {"duplicates", "nameless", "loops"}
  <2>1. c = "T1.tools" /\ target.tools /\ (has("loops") => target.pages > 1) /\ target.pages \in Nat \ {0}
    BY <1>1, <1>8, DefectFacts, TargetFacts DEF MustCells
  <2>2. Heeded(PageProbe(0)) /\ (d # "nameless" /\ target.pages # 1 => Heeded(PageProbe(1)))
    BY <1>8, WitnessesAre
  <2>3. T1Tools = "must"
    <3>1. CASE d = "nameless" \/ target.pages = 1
      BY <1>8, <2>1, <2>2, <3>1, FirstPageTells DEF Heeded
    <3>2. CASE d # "nameless" /\ target.pages # 1
      BY <1>8, <2>1, <2>2, <3>2, SecondPageTells DEF Heeded
    <3> QED BY <3>1, <3>2
  <2> QED BY <2>1, <2>3, WalkSays
<1>9. CASE d = "noMeta"
  <2>1. c = "D2.nometa" /\ Heeded("D2.nometa")
    BY <1>9, WitnessesAre DEF MustCells
  <2>2. Classified(cap["D2.nometa"]) /\ Succeeded(cap["D2.nometa"])
    BY <1>9, <2>1, NoMetaAnswered
  <2>3. Withheld(cap["D2.nometa"]) = "must"
    BY <2>2 DEF Withheld, Classified
  <2> QED BY <1>3, <2>1, <2>3, StatelessCells, StatelessSays DEF Graded, StatelessCellNames
<1>10. CASE d = "gated"
  <2>1. c \in {"H3.cold", "T1.tools"} /\ Heeded("H3.cold") /\ target.tools
    BY <1>1, <1>10, WitnessesAre, DefectFacts DEF MustCells
  <2>2. T1Tools = "must"
    BY <1>1, <1>10, <2>1, FirstPageTells DEF Heeded
  <2>3. 0 \in Walked
    BY <1>1, <1>3, <2>1, FirstIsAskable DEF Walked, PageIndices
  <2>4. Classified(cap["H3.cold"]) /\ ~Succeeded(cap["H3.cold"])
    BY <1>1, <1>10, <2>1, <2>3, AnsweredFacts, PageHeard DEF Heeded, IInv
  <2>5. Served(cap["H3.cold"]) = "must"
    BY <2>4 DEF Served, Classified
  <2>6. CASE c = "H3.cold"
    BY <1>3, <1>4, <2>1, <2>5, <2>6, StatelessCells, StatelessSays DEF Graded, StatelessCellNames
  <2> QED BY <2>1, <2>2, <2>6, WalkSays
<1>11. CASE d = "uncacheable"
  <2>1. c = "C1.cacheable" /\ Heeded("H3.cold") /\ target.tools
    BY <1>1, <1>11, WitnessesAre, DefectFacts DEF MustCells
  <2>2. 0 \in Walked
    BY <1>1, <1>3, <2>1, FirstIsAskable DEF Walked, PageIndices
  <2>3. Succeeded(cap["H3.cold"])
    BY <1>1, <1>11, <2>1, <2>2, PageServed DEF Heeded
  <2>4. ~cap["H3.cold"].cacheable
    BY <1>1, <1>11, <2>2, <2>3, PageHeard
  <2>5. C1Cacheable(cap["H3.cold"]) = "must"
    BY <2>3, <2>4 DEF C1Cacheable
  <2> QED BY <1>3, <1>4, <2>1, <2>5, StatelessCells, StatelessSays DEF Graded, StatelessCellNames
<1>12. CASE d = "mismatch"
  <2>1. c = "V2.mismatch" /\ Heeded("V2.mismatch") /\ target.tools
    BY <1>1, <1>12, WitnessesAre, DefectFacts DEF MustCells
  <2>2. Classified(cap["V2.mismatch"]) /\ Succeeded(cap["V2.mismatch"])
    BY <1>12, <2>1, MismatchAnswered
  <2>3. V2Mismatch(cap["V2.mismatch"]) = "must"
    BY <2>2 DEF V2Mismatch, Classified
  <2> QED BY <1>3, <1>4, <2>1, <2>3, StatelessCells, StatelessSays DEF Graded, StatelessCellNames
<1>13. CASE d = "mints"
  <2>1. c = "S2.nosession" /\ Heeded("B1.batch") /\ http
    BY <1>1, <1>13, WitnessesAre, DefectFacts DEF MustCells
  <2>2. "B1.batch" \in DOMAIN cap /\ cap["B1.batch"].sid
    BY <1>3, <1>13, <2>1, StatelessBatchAnswered DEF recorded
  <2>3. S2NoSession = "must"
    BY <2>1, <2>2 DEF S2NoSession
  <2> QED BY <2>1, <2>3, StatelessCells, StatelessSays DEF StatelessCellNames
<1>14. CASE d \in {"anonymous", "laxCursor", "oddCode", "streams"}
  BY <1>14 DEF MustCells
<1>15. d \notin {"wrongEra", "unknown", "fakeDiscover", "unenforced", "unbatched"}
  BY <1>1, DefectFacts
<1> QED BY <1>2, <1>5, <1>6, <1>7, <1>8, <1>9, <1>10, <1>11, <1>12, <1>13, <1>14, <1>15 DEF AllDefects

LEMMA CondemnedIsNonconformant ==
    ASSUME NEW c, Says(c, "must"), report = Cells
    PROVE  VerdictOf(report) = "NONCONFORMANT" /\ ~Validates(report)
<1> DEFINE outcomes == {report[b] : b \in DOMAIN report}
<1>1. "must" \in outcomes
  BY DEF Says
<1>2. outcomes \cap {"must", "should", "pass"} # {}
  BY <1>1
<1>3. VerdictOf(report) = "NONCONFORMANT"
  <2>1. VerdictOf(report) =
          CASE outcomes \cap {"must", "should", "pass"} = {} -> "UNGRADED"
            [] "must" \in outcomes -> "NONCONFORMANT"
            [] "must" \notin outcomes /\ "should" \in outcomes -> "CONFORMANT*"
            [] OTHER -> "CONFORMANT"
    BY DEF VerdictOf
  <2> HIDE DEF outcomes
  <2> QED BY <1>1, <1>2, <2>1
<1> QED BY <1>3 DEF Validates

LEMMA ViolationLemma == IInv => ViolationsCount
<1> SUFFICES ASSUME IInv, done, NEW d \in planted, \A p \in Witnesses(d) : Heeded(p)
             PROVE  ~Validates(report)
  BY DEF ViolationsCount, Heeded
<1>1. report = Cells
  BY DoneFacts
<1>2. has(d) /\ Sane /\ d \in AllDefects
  BY DefectFacts DEF IInv, has
<1>3. ~Heeded("none")
  <2>1. "none" \notin Entries
    BY EntryNames
  <2>2. \A k \in PageIndices : PageProbe(k) # "none"
    <3>1. \A i \in 1..8 : PageNames[i] # "none"
      BY DEF PageNames
    <3>2. \A k \in PageIndices : k + 1 \in 1..8
      BY HarnessAssumption DEF PageIndices
    <3> QED BY <3>1, <3>2 DEF PageProbe
  <2> QED BY <2>1, <2>2 DEF Heeded, recorded, IInv, Captured
<1>4. d \notin {"anonymous", "laxCursor", "oddCode", "streams"}
  BY <1>3, WitnessesAre
<1>5. MustCells(d) # {}
  BY <1>2, <1>4 DEF MustCells, AllDefects
<1>6. CASE ~stateless
  <2>1. \A c \in MustCells(d) : Says(c, "must")
    BY <1>2, <1>6, ClassicDefectShows
  <2> QED BY <1>1, <1>5, <2>1, CondemnedIsNonconformant
<1>7. CASE stateless /\ ~(d = "uncacheable" /\ has("gated"))
  <2>1. \A c \in MustCells(d) : Says(c, "must")
    BY <1>2, <1>7, StatelessDefectShows
  <2> QED BY <1>1, <1>5, <2>1, CondemnedIsNonconformant
<1>8. CASE stateless /\ d = "uncacheable" /\ has("gated")
  <2>1. \A p \in Witnesses("gated") : Heeded(p)
    BY <1>8, WitnessesAre
  <2>2. Says("H3.cold", "must")
    BY <1>8, <2>1, StatelessDefectShows DEF MustCells
  <2> QED BY <1>1, <2>2, CondemnedIsNonconformant
<1> QED BY <1>6, <1>7, <1>8

\* A violation that was answered stays one, whatever is lost and whichever other
\* defects go with it (grade.go, verdictOf; report.go, ValidateEraClaim).
THEOREM ViolationsAreCounted == Spec => []ViolationsCount
BY CaptureInvariant, ViolationLemma, PTL

-----------------------------------------------------------------------------
(* Of a server that answers everything, nothing that is to be sent is missing. *)

\* Every entry of the plan so far that is to be sent has been answered, and a
\* walk that is over stopped at the end of the list or at the page bound.
Complete ==
    Quiet =>
       /\ \A p \in DOMAIN cap : cap[p].wire = "answered"
       /\ \A i \in 1..Len(Plan) : i < at /\ Plan[i] # "T1" /\ Sent(Plan[i], cap) => recorded(Plan[i])
       /\ at > WalkAt =>
             recorded(PageProbe(page)) /\ (cap[PageProbe(page)].cursor = 0 \/ page + 1 >= MaxPages)

\* What is not sent at once is passed over, and the walk never is.
LEMMA NextEntrySkips ==
    ASSUME at \in 1..Len(Plan), NEW c
    PROVE  /\ \A i \in at + 1..Len(Plan) : i < NextEntry(c) => ~Sent(Plan[i], c)
           /\ at < WalkAt => NextEntry(c) <= WalkAt
<1> DEFINE later == {i \in at + 1..Len(Plan) : Sent(Plan[i], c)}
<1>1. Len(Plan) \in Nat /\ WalkAt \in 1..Len(Plan) /\ Plan[WalkAt] = "T1"
  BY PlanFacts DEF WalkAt
<1>2. \A i \in later : later # {} /\ NextEntry(c) = Min(later)
  BY DEF NextEntry
<1>3. later \in SUBSET Nat
  BY <1>1
<1>4. \A i \in later : NextEntry(c) <= i
  <2> HIDE DEF later
  <2> QED BY <1>2, <1>3, LeastOne
<1>5. at < WalkAt => WalkAt \in later
  BY <1>1 DEF Sent
<1>6. NextEntry(c) \in at + 1..Len(Plan) + 1
  BY NextEntryFacts
<1>7. ASSUME NEW i \in at + 1..Len(Plan), i < NextEntry(c) PROVE ~Sent(Plan[i], c)
  <2>1. i \notin later
    <3> HIDE DEF later
    <3> QED BY <1>1, <1>4, <1>6, <1>7
  <2> QED BY <2>1
<1> QED BY <1>4, <1>5, <1>7

\* Once the identity exchange is recorded, what may not be sent stays so.
LEMMA UnsentStands ==
    ASSUME Grows, recorded(Identity), NEW p, Sent(p, cap)', stateless => p # "S1.nosession",
           ~stateless => p # "V2.mismatch"
    PROVE  Sent(p, cap)
<1>1. target' = target /\ cap'[Identity] = cap[Identity]
  BY DEF Grows, recorded
<1>2. stateless => Unlisted(cap)' = Unlisted(cap)
  BY <1>1 DEF Unlisted, Identity
<1> QED BY <1>1, <1>2 DEF Sent, Identity, VersionHeader, http

\* A step after which all is well is an answer, or leaves the capture alone.
LEMMA QuietSteps ==
    ASSUME IInv, [Next]_vars, Quiet'
    PROVE  /\ Quiet
           /\ \/ UNCHANGED <<target, planted, at, page, cap>>
              \/ Probing /\ Record(Probe, Answer(Probe, page))
<1>1. CASE Answered
  BY <1>1 DEF Answered, Quiet, Record
<1>2. CASE ExchangeLost
  BY <1>2 DEF ExchangeLost, Quiet
<1>3. CASE Unanswered
  BY <1>3 DEF Unanswered, Quiet, Record
<1>4. CASE Failed
  BY <1>4 DEF Failed, Quiet, Record, Connected
<1>5. CASE DialFails
  BY <1>5 DEF DialFails, Quiet
<1>6. CASE Turns
  BY <1>6 DEF Turns, Quiet
<1>7. CASE ChildExits
  BY <1>7 DEF ChildExits, Quiet
<1>8. CASE GradeCapture
  BY <1>8 DEF GradeCapture, Quiet
<1>9. CASE UNCHANGED vars
  BY <1>9 DEF vars, Quiet
<1> QED BY <1>1, <1>2, <1>3, <1>4, <1>5, <1>6, <1>7, <1>8, <1>9 DEF Next, Server

\* No plan sends the other plan's probes.
LEMMA OwnProbes ==
    ASSUME NEW i \in 1..Len(Plan)
    PROVE  (stateless => Plan[i] # "S1.nosession") /\ (~stateless => Plan[i] # "V2.mismatch")
<1>1. CASE Plan[i] = "T1"
  BY <1>1
<1>2. CASE Plan[i] # "T1"
  <2>1. Plan[i] \in Entries
    BY <1>2 DEF Entries
  <2> QED BY <2>1, EntryNames
<1> QED BY <1>1, <1>2

LEMMA AnsweringCompletes ==
    ASSUME IInv, Complete, Quiet, Probing, Record(Probe, Answer(Probe, page))
    PROVE  Complete'
<1> DEFINE e == Answer(Probe, page)
<1>1. /\ Grows
      /\ DOMAIN cap' = DOMAIN cap \cup {Probe}
      /\ ~recorded(Probe) => cap'[Probe] = e
      /\ \A q : recorded(q)' <=> recorded(q) \/ q = Probe
  BY RecordGrows
<1>2. /\ at \in 1..Len(Plan) /\ page \in PageIndices /\ Askable(page)
      /\ at = WalkAt <=> Plan[at] = "T1"
      /\ at = WalkAt => Probe = PageProbe(page) /\ ~recorded(Probe)
      /\ at # WalkAt => Probe = Plan[at]
      /\ at # 1 => recorded(Identity)
  BY ProbeFacts
<1>3. e.wire = "answered"
  <2>1. e \in Messages
    BY <1>2, AnswerFacts DEF IInv
  <2> HIDE DEF e
  <2> QED BY <2>1 DEF Messages
<1>4. /\ Plan' = Plan /\ WalkAt' = WalkAt
      /\ \A k : PageProbe(k)' = PageProbe(k)
      /\ \A p, c : Sent(p, c)' = Sent(p, c)
  BY <1>1, Frames DEF Grows
<1>5. \/ at = WalkAt /\ page' = page + 1 /\ at' = at
      \/ /\ ~(at = WalkAt /\ e.cursor # 0 /\ page + 1 < MaxPages)
         /\ at' = NextEntry(cap') /\ page' = page
  BY <1>2 DEF Record, Advance
<1>6. Len(Plan) \in Nat /\ WalkAt \in 1..Len(Plan)
  BY PlanFacts DEF WalkAt
<1>7. /\ NextEntry(cap') \in at + 1..Len(Plan) + 1
      /\ \A i \in at + 1..Len(Plan) : i < NextEntry(cap') => ~Sent(Plan[i], cap')
      /\ at < WalkAt => NextEntry(cap') <= WalkAt
  BY <1>2, NextEntryFacts, NextEntrySkips
<1>8. \A p \in DOMAIN cap' : cap'[p].wire = "answered"
  <2>1. \A p \in DOMAIN cap : cap[p].wire = "answered"
    BY DEF Complete
  <2>2. recorded(Probe) <=> Probe \in DOMAIN cap
    BY DEF recorded
  <2> QED BY <1>1, <1>3, <2>1, <2>2 DEF Grows
<1>9. ASSUME NEW i \in 1..Len(Plan), i < at', Plan[i] # "T1", Sent(Plan[i], cap)'
      PROVE  recorded(Plan[i])'
  <2>1. CASE i < at
    <3>1. recorded(Identity)
      BY <1>2, <2>1
    <3>2. Sent(Plan[i], cap)
      BY <1>1, <1>4, <1>9, <3>1, OwnProbes, UnsentStands
    <3>3. recorded(Plan[i])
      BY <1>9, <2>1, <3>2 DEF Complete
    <3> QED BY <1>1, <1>4, <3>3 DEF Grows, recorded
  <2>2. CASE i = at
    BY <1>1, <1>2, <1>4, <1>9, <2>2
  <2>3. CASE i > at
    <3>1. at' = NextEntry(cap') /\ i \in at + 1..Len(Plan)
      BY <1>2, <1>5, <1>6, <1>9, <2>3
    <3>2. ~Sent(Plan[i], cap')
      BY <1>7, <1>9, <3>1
    <3>3. Sent(Plan[i], cap)' => Sent(Plan[i], cap')
      BY <1>1, <1>4 DEF Grows, Sent, VersionHeader, http, Unlisted
    <3> QED BY <1>9, <3>2, <3>3
  <2> QED BY <1>2, <2>1, <2>2, <2>3
<1>10. ASSUME at' > WalkAt
       PROVE  /\ recorded(PageProbe(page))' /\ page' = page
              /\ cap'[PageProbe(page)].cursor = 0 \/ page + 1 >= MaxPages
  <2>1. CASE at > WalkAt
    <3>1. page' = page
      BY <1>2, <1>5, <1>6, <2>1
    <3>2. recorded(PageProbe(page)) /\ (cap[PageProbe(page)].cursor = 0 \/ page + 1 >= MaxPages)
      BY <2>1 DEF Complete
    <3> QED BY <1>1, <1>4, <3>1, <3>2 DEF Grows, recorded
  <2>2. CASE at = WalkAt
    <3>1. page' = page /\ ~(e.cursor # 0 /\ page + 1 < MaxPages)
      BY <1>2, <1>5, <1>6, <1>10, <2>2
    <3>2. cap'[PageProbe(page)] = e
      BY <1>1, <1>2, <2>2
    <3>3. recorded(PageProbe(page))'
      BY <1>1, <1>2, <1>4, <2>2, <3>1
    <3>4. page \in Nat /\ MaxPages \in Nat
      BY <1>2, HarnessAssumption DEF PageIndices
    <3> HIDE DEF e
    <3> QED BY <3>1, <3>2, <3>3, <3>4
  <2>3. CASE at < WalkAt
    BY <1>2, <1>5, <1>6, <1>7, <1>10, <2>3
  <2> QED BY <1>2, <1>6, <2>1, <2>2, <2>3
<1>11. at' > WalkAt' => /\ recorded(PageProbe(page))'
                        /\ cap'[PageProbe(page)'].cursor = 0 \/ page' + 1 >= MaxPages
  <2>1. page' = page => PageProbe(page)' = PageProbe(page)
    BY <1>1, <1>4 DEF PageProbe, Grows
  <2> QED BY <1>4, <1>10, <2>1
<1> QED BY <1>4, <1>8, <1>9, <1>11 DEF Complete

LEMMA CompleteKept == IInv /\ Complete /\ [Next]_vars => Complete'
<1> SUFFICES ASSUME IInv, Complete, [Next]_vars, Quiet' PROVE Complete'
  BY DEF Complete
<1>1. Quiet
  BY QuietSteps
<1>2. CASE Probing /\ Record(Probe, Answer(Probe, page))
  BY <1>1, <1>2, AnsweringCompletes
<1>3. CASE UNCHANGED <<target, planted, at, page, cap>>
  <2>1. /\ Plan' = Plan /\ WalkAt' = WalkAt /\ PageProbe(page)' = PageProbe(page)
        /\ \A p : recorded(p)' <=> recorded(p)
        /\ \A p : Sent(p, cap)' = Sent(p, cap)
    <3>1. /\ Plan' = Plan /\ WalkAt' = WalkAt
      BY <1>3, Frames
    <3> QED BY <1>3, <3>1 DEF recorded, Sent, VersionHeader, http, Unlisted, PageProbe, stateless
  <2> QED BY <1>1, <1>3, <2>1 DEF Complete
<1> QED BY <1>2, <1>3, QuietSteps

\* Of a server that answers everything the capture holds every exchange that is
\* to be sent (probe.go, Probe).
THEOREM CaptureIsComplete == Spec => [](IInv /\ Complete)
<1>1. Init => Complete
  <2> SUFFICES ASSUME Init PROVE Complete
    OBVIOUS
  <2>1. at = 1 /\ DOMAIN cap = {} /\ WalkAt >= 2
    BY DEF Init, WalkAt
  <2>2. ~(at > WalkAt) /\ \A i \in 1..Len(Plan) : ~(i < at)
    BY <2>1, PlanFacts DEF WalkAt
  <2> QED BY <2>1, <2>2 DEF Complete
<1>2. IInv /\ Complete /\ [Next]_vars => Complete'
  BY CompleteKept
<1> QED BY <1>1, <1>2, InitInvariant, NextInvariant, PTL DEF Spec

-----------------------------------------------------------------------------
(* What has been heard of such a server by the end. *)

\* All is done and nothing went wrong on the way.
Undisturbed == IInv /\ Complete /\ Quiet /\ done

\* Every probe of the plan that is to be sent has been heard.
LEMMA EntriesHeard ==
    ASSUME Undisturbed
    PROVE  /\ Known /\ Audible
           /\ \A p : recorded(p) => Heeded(p)
           /\ ~stateless =>
                 /\ \A p \in {"H1.init", "T2.badcursor", "B1.batch", "H2.newer", "D1.discover"} : Heeded(p)
                 /\ http /\ cap["H1.init"].sid => Heeded("S1.nosession")
           /\ stateless =>
                 /\ \A p \in {"D1.discover", "D2.nometa", "H1.init", "T2.badcursor", "B1.batch"} : Heeded(p)
                 /\ Unlisted(cap) # {} => Heeded("V2.mismatch")
                 /\ http => Heeded("G1.get")
<1>1. at = Len(Plan) + 1 /\ recorded(Identity)
  BY DoneFacts DEF Undisturbed
<1>2. \A p \in DOMAIN cap : cap[p].wire = "answered"
  BY DEF Undisturbed, Complete
<1>3. \A p : recorded(p) => Heeded(p)
  BY <1>2 DEF recorded, Heeded
<1>4. Known /\ Audible
  BY <1>1, <1>2 DEF Known, Audible, recorded
<1>5. \A i \in 1..Len(Plan) : Plan[i] # "T1" /\ Sent(Plan[i], cap) => Heeded(Plan[i])
  <2>1. Len(Plan) \in Nat
    BY PlanFacts
  <2>2. \A i \in 1..Len(Plan) : i < at
    BY <1>1, <2>1
  <2> QED BY <1>3, <2>2 DEF Undisturbed, Complete
<1>6. \A p \in Entries : Sent(p, cap) => Heeded(p)
  BY <1>5 DEF Entries
<1>7. \A p \in {"H1.init", "T2.badcursor", "B1.batch", "H2.newer", "D1.discover", "D2.nometa"} : Sent(p, cap)
  BY DEF Sent
<1>8. /\ http /\ cap["H1.init"].sid => Sent("S1.nosession", cap)
      /\ Unlisted(cap) # {} => Sent("V2.mismatch", cap)
      /\ http => Sent("G1.get", cap)
  BY DEF Sent
<1>9. CASE stateless
  BY <1>3, <1>4, <1>6, <1>7, <1>8, <1>9, EntryNames
<1>10. CASE ~stateless
  BY <1>3, <1>4, <1>6, <1>7, <1>8, <1>10, EntryNames
<1> QED BY <1>9, <1>10

\* The first page has been heard, and the second of a list that goes on.
LEMMA PagesHeard ==
    ASSUME Undisturbed
    PROVE  /\ 0 \in Walked /\ Heeded(PageProbe(0))
           /\ target.tools /\ ~has("gated") /\ (has("loops") \/ target.pages > 1) => Heeded(PageProbe(1))
<1>1. at = Len(Plan) + 1 /\ Len(Plan) \in {8, 10}
  BY DoneFacts, PlanFacts DEF Undisturbed
<1>2. /\ recorded(PageProbe(page))
      /\ cap[PageProbe(page)].cursor = 0 \/ page + 1 >= MaxPages
  <2>1. at > WalkAt
    <3>1. at = 9 \/ at = 11
      <4>1. CASE Len(Plan) = 8
        BY <1>1, <4>1
      <4>2. CASE Len(Plan) = 10
        BY <1>1, <4>2
      <4> QED BY <1>1, <4>1, <4>2
    <3>2. WalkAt = 2 \/ WalkAt = 4
      BY DEF WalkAt
    <3> QED BY <3>1, <3>2
  <2>2. Complete /\ Quiet
    BY DEF Undisturbed
  <2> QED BY <2>1, <2>2 DEF Complete
<1>3. page \in PageIndices /\ \A k \in PageIndices : k < page => recorded(PageProbe(k))
  BY DEF Undisturbed, IInv, Ordered
<1>4. {0, 1} \subseteq PageIndices /\ MaxPages \in 2..8
  BY HarnessAssumption DEF PageIndices
<1>5. recorded(PageProbe(0))
  <2>1. CASE page = 0
    BY <1>2, <2>1
  <2>2. CASE page # 0
    <3>1. 0 < page
      BY <1>3, <2>2 DEF PageIndices
    <3> QED BY <1>3, <1>4, <3>1
  <2> QED BY <2>1, <2>2
<1>6. 0 \in Walked /\ Heeded(PageProbe(0))
  BY <1>4, <1>5, EntriesHeard DEF Walked, PageIndices
<1>7. ASSUME target.tools, ~has("gated"), has("loops") \/ target.pages > 1
      PROVE  Heeded(PageProbe(1))
  <2>1. Known
    BY EntriesHeard
  <2>2. Succeeded(cap[PageProbe(0)])
    BY <1>6, <1>7, <2>1, PageServed DEF Undisturbed, Heeded
  <2>3. /\ Asked(0) = 0
        /\ cap[PageProbe(0)].cursor =
              IF has("loops") THEN 1 ELSE IF Asked(0) + 1 < target.pages THEN Asked(0) + 1 ELSE 0
    BY <1>6, <2>2, FirstIsAskable, PageHeard DEF Undisturbed
  <2>4. cap[PageProbe(0)].cursor # 0
    <3>1. 0 + 1 < target.pages \/ has("loops")
      <4>1. target.pages \in Nat
        BY TargetFacts DEF Undisturbed, IInv
      <4> QED BY <1>7, <4>1
    <3> QED BY <2>3, <3>1
  <2>5. page # 0
    BY <1>2, <1>4, <2>4
  <2>6. recorded(PageProbe(1))
    <3>1. CASE page = 1
      BY <1>2, <3>1
    <3>2. CASE page # 1
      <4>1. 1 < page
        BY <1>3, <2>5, <3>2 DEF PageIndices
      <4> QED BY <1>3, <1>4, <4>1
    <3> QED BY <3>1, <3>2
  <2> QED BY <2>6, EntriesHeard
<1> QED BY <1>6, <1>7

\* An identity answer lists what the server speaks, so a probe can name what it
\* does not.
LEMMA UnlistedAre ==
    ASSUME Undisturbed, stateless, target.speaks # Range(Eras)
    PROVE  Unlisted(cap) # {}
<1>1. cap["D1.discover"].supported = target.speaks
  BY EntriesHeard, IdentityHeard DEF Undisturbed, Known, Identity
<1>2. target.speaks \subseteq Range(Eras)
  BY TargetFacts DEF Undisturbed, IInv
<1>3. PICK x \in Range(Eras) : x \notin target.speaks
  BY <1>2
<1>4. PICK i \in 1..Len(Eras) : Eras[i] = x
  BY DEF Range, Eras
<1>5. i \in Unlisted(cap)
  BY <1>1, <1>3, <1>4 DEF Unlisted
<1> QED BY <1>5

\* Whatever a defect shows on has been heard.
LEMMA WitnessesHeard ==
    ASSUME Undisturbed, NEW d \in planted, MustCells(d) # {},
           d \in {"duplicates", "loops"} => ~has("gated")
    PROVE  \A p \in Witnesses(d) : Heeded(p)
<1>1. d \in AllDefects /\ has(d) /\ Sane
  BY DefectFacts DEF Undisturbed, IInv, has
<1>2. d \notin {"anonymous", "laxCursor", "oddCode", "streams"}
  BY DEF MustCells
<1>3. Heeded(Identity) /\ Heeded("B1.batch") /\ Heeded("H1.init") /\ Heeded("D1.discover")
  BY EntriesHeard DEF Identity
<1>4. CASE d = "unenforced"
  <2>1. ~stateless /\ target.session
    BY <1>1, <1>4, DefectFacts
  <2>2. http /\ cap["H1.init"].sid
    BY <1>1, <2>1, TargetFacts, EntriesHeard, IdentityHeard DEF Undisturbed, Known, Identity
  <2> QED BY <1>4, <2>1, <2>2, EntriesHeard, WitnessesAre
<1>5. CASE d = "unknown"
  <2>1. ~stateless
    BY <1>1, <1>5, DefectFacts
  <2> QED BY <1>5, <2>1, EntriesHeard, WitnessesAre
<1>6. CASE d \in {"wrongEra", "fakeDiscover", "batches", "unbatched", "noInfo", "incomplete", "mints"}
  BY <1>3, <1>6, WitnessesAre
<1>7. CASE d = "nameless"
  BY <1>7, PagesHeard, WitnessesAre
<1>8. CASE d \in {"duplicates", "loops"}
  <2>1. target.tools /\ target.pages \in Nat \ {0} /\ (d = "loops" => target.pages > 1)
    BY <1>1, <1>8, DefectFacts, TargetFacts
  <2>2. Heeded(PageProbe(0)) /\ (target.pages > 1 => Heeded(PageProbe(1)))
    BY <1>8, <2>1, PagesHeard
  <2>3. \A k \in 0..(IF target.pages = 1 THEN 0 ELSE 1) : k = 0 \/ (k = 1 /\ target.pages > 1)
    BY <2>1
  <2>4. Witnesses(d) = {PageProbe(k) : k \in 0..(IF target.pages = 1 THEN 0 ELSE 1)}
    BY <1>8, WitnessesAre
  <2> QED BY <2>2, <2>3, <2>4
<1>9. CASE d \in {"noMeta", "gated", "uncacheable", "mismatch"}
  <2>1. stateless /\ (d = "mismatch" => target.speaks # Range(Eras))
    BY <1>1, <1>9, DefectFacts
  <2>2. PageProbe(0) = "H3.cold"
    BY <2>1 DEF PageProbe
  <2>3. Heeded("D2.nometa") /\ Heeded("H3.cold") /\ (d = "mismatch" => Heeded("V2.mismatch"))
    BY <2>1, <2>2, EntriesHeard, PagesHeard, UnlistedAre
  <2> QED BY <1>9, <2>3, WitnessesAre
<1> QED BY <1>1, <1>2, <1>4, <1>5, <1>6, <1>7, <1>8, <1>9 DEF AllDefects

-----------------------------------------------------------------------------
(* The recommendations. *)

\* Grades of a MUST are never that of a SHOULD.
LEMMA MustGrades ==
    ASSUME NEW e
    PROVE  /\ H1Classic(e) # "should" /\ H2Newer(e) # "should" /\ H3Classic(e) # "should"
           /\ D1Classic(e) # "should" /\ Served(e) # "should" /\ Withheld(e) # "should"
           /\ B1Batch(e) # "should" /\ D1Stateless(e) # "should" /\ H1Stateless(e) # "should"
           /\ C1Cacheable(e) # "should"
<1>1. TransportErr(e) \/ (~TransportErr(e) /\ ~Succeeded(e)) \/ Succeeded(e)
  OBVIOUS
<1>2. H1Classic(e) # "should" /\ H2Newer(e) # "should" /\ D1Stateless(e) # "should"
  BY <1>1 DEF H1Classic, H2Newer, D1Stateless
<1>3. Unreached(e) \/ Refused(e) \/ Succeeded(e)
  BY DEF Refused
<1>4. D1Classic(e) # "should" /\ Served(e) # "should" /\ Withheld(e) # "should" /\ H1Stateless(e) # "should"
  BY <1>3 DEF D1Classic, Served, Withheld, H1Stateless
<1>5. H3Classic(e) # "should" /\ C1Cacheable(e) # "should"
  BY DEF H3Classic, C1Cacheable
<1>6. B1Batch(e) # "should"
  BY DEF B1Batch
<1> QED BY <1>2, <1>4, <1>5, <1>6

LEMMA ShouldGrades ==
    ASSUME NEW e, Classified(e)
    PROVE  /\ T2BadCursor(e) = "should" <=> Succeeded(e)
           /\ I1Identity(e) = "should" <=> Succeeded(e) /\ e.info = "incomplete"
           /\ V2Mismatch(e) = "should" <=> ~Succeeded(e) /\ ~(e.body = "error" /\ e.code = -32022)
<1>1. T2BadCursor(e) = "should" <=> Succeeded(e)
  BY DEF Classified, T2BadCursor
<1>2. I1Identity(e) = "should" <=> Succeeded(e) /\ e.info = "incomplete"
  BY DEF I1Identity
<1>3. V2Mismatch(e) = "should" <=> ~Succeeded(e) /\ ~(e.body = "error" /\ e.code = -32022)
  BY DEF Classified, V2Mismatch
<1> QED BY <1>1, <1>2, <1>3

LEMMA WalkIsNoShould ==
    ASSUME IInv
    PROVE  T1Tools # "should"
<1> DEFINE flawed == {k \in Walked : PageGrade(k) # "pass"}
<1>1. ASSUME NEW k \in Walked PROVE PageGrade(k) # "should"
  BY <1>1, GradeOfPage
<1>2. CASE Walked = {}
  BY <1>2 DEF T1Tools
<1>3. CASE Walked # {} /\ flawed # {}
  <2>1. flawed \in SUBSET Nat
    BY HarnessAssumption DEF Walked
  <2>2. Min(flawed) \in Walked
    <3>1. Min(flawed) \in flawed
      <4> HIDE DEF flawed
      <4> QED BY <1>3, <2>1, LeastOne
    <3> QED BY <3>1
  <2>3. T1Tools = PageGrade(Min(flawed))
    BY <1>3 DEF T1Tools
  <2> QED BY <1>1, <2>2, <2>3
<1>4. CASE Walked # {} /\ flawed = {}
  BY <1>4 DEF T1Tools
<1> QED BY <1>2, <1>3, <1>4

LEMMA ClassicShould ==
    ASSUME Undisturbed, ~stateless, has("anonymous") => ~has("noInfo"), NEW c \in ClassicCellNames
    PROVE  ClassicCell(c) = "should" <=> \/ c = "I1.identity" /\ has("anonymous")
                                         \/ c = "T2.badcursor" /\ has("laxCursor")
<1>1. Identity = "H1.init" /\ Known /\ IInv
  BY EntriesHeard DEF Identity, Undisturbed
<1>2. CASE c \in {"H1.init", "H2.newer", "H3.cold", "D1.discover", "B1.batch"}
  BY <1>2, ClassicCells, MustGrades DEF Graded
<1>3. CASE c \in {"V1.header", "V1.noheader", "S1.session", "G1.get"}
  <2>1. V1Header # "should" /\ S1Session # "should"
    BY MustGrades DEF V1Header, S1Session, Graded
  <2> QED BY <1>3, <2>1, ClassicCells
<1>4. CASE c = "T1.tools"
  BY <1>1, <1>4, ClassicCells, WalkIsNoShould
<1>5. CASE c = "T2.badcursor"
  <2>1. Heeded("T2.badcursor")
    BY EntriesHeard
  <2>2. /\ Classified(cap["T2.badcursor"])
        /\ Succeeded(cap["T2.badcursor"]) => has("laxCursor")
        /\ has("laxCursor") /\ target.tools => Succeeded(cap["T2.badcursor"])
    BY <1>1, <2>1, CursorAnswered
  <2>3. has("laxCursor") => target.tools /\ ToolsCapability("H1.init")
    BY <1>1, DefectFacts, ToolsKnown DEF IInv
  <2>4. T2BadCursor(cap["T2.badcursor"]) = "should" <=> Succeeded(cap["T2.badcursor"])
    BY <2>2, ShouldGrades
  <2> QED BY <1>5, <2>1, <2>2, <2>3, <2>4, ClassicCells DEF Graded, Heeded
<1>6. CASE c = "I1.identity"
  <2> DEFINE e == cap["H1.init"]
  <2>1. /\ Classified(e) /\ Succeeded(e)
        /\ e.info = IF has("noInfo") THEN "absent" ELSE IF has("anonymous") THEN "incomplete" ELSE "full"
    BY <1>1, IdentityHeard DEF Known
  <2>2. I1Identity(e) = "should" <=> has("anonymous")
    BY <2>1, ShouldGrades
  <2> QED BY <1>1, <1>6, <2>2, ClassicCells DEF Graded, Known
<1> QED BY <1>2, <1>3, <1>4, <1>5, <1>6 DEF ClassicCellNames, ToolsCells

LEMMA StatelessShould ==
    ASSUME Undisturbed, stateless, has("anonymous") => ~has("noInfo"), has("oddCode") => ~has("mismatch"),
           NEW c \in StatelessCellNames
    PROVE  StatelessCell(c) = "should" <=> \/ c = "I1.identity" /\ has("anonymous")
                                           \/ c = "T2.badcursor" /\ has("laxCursor")
                                           \/ c = "V2.mismatch" /\ has("oddCode")
                                           \/ c = "G1.get" /\ has("streams")
<1>1. Identity = "D1.discover" /\ Known /\ IInv
  BY EntriesHeard DEF Identity, Undisturbed
<1>2. CASE c \in {"D1.discover", "D2.nometa", "H1.init", "H3.cold", "B1.batch", "C1.cacheable"}
  BY <1>2, StatelessCells, MustGrades DEF Graded
<1>3. CASE c \in {"S2.nosession", "R1.resulttype"}
  <2>1. S2NoSession # "should" /\ R1ResultType # "should"
    BY DEF S2NoSession, R1ResultType
  <2> QED BY <1>3, <2>1, StatelessCells
<1>4. CASE c = "T1.tools"
  BY <1>1, <1>4, StatelessCells, WalkIsNoShould
<1>5. CASE c = "T2.badcursor"
  <2>1. Heeded("T2.badcursor")
    BY EntriesHeard
  <2>2. /\ Classified(cap["T2.badcursor"])
        /\ Succeeded(cap["T2.badcursor"]) => has("laxCursor")
        /\ has("laxCursor") /\ target.tools => Succeeded(cap["T2.badcursor"])
    BY <1>1, <2>1, CursorAnswered
  <2>3. has("laxCursor") => target.tools /\ ToolsCapability("D1.discover")
    BY <1>1, DefectFacts, ToolsKnown DEF IInv
  <2>4. T2BadCursor(cap["T2.badcursor"]) = "should" <=> Succeeded(cap["T2.badcursor"])
    BY <2>2, ShouldGrades
  <2> QED BY <1>5, <2>1, <2>2, <2>3, <2>4, StatelessCells DEF Graded, Heeded
<1>6. CASE c = "I1.identity"
  <2> DEFINE e == cap["D1.discover"]
  <2>1. /\ Classified(e) /\ Succeeded(e)
        /\ e.info = IF has("noInfo") THEN "absent" ELSE IF has("anonymous") THEN "incomplete" ELSE "full"
    BY <1>1, IdentityHeard DEF Known
  <2>2. I1Identity(e) = "should" <=> has("anonymous")
    BY <2>1, ShouldGrades
  <2> QED BY <1>1, <1>6, <2>2, StatelessCells DEF Graded, Known
<1>7. CASE c = "V2.mismatch"
  <2> DEFINE e == cap["V2.mismatch"]
             served == has("mismatch") \/ Mismatch(cap) \in target.speaks
  <2>1. has("oddCode") => Heeded("V2.mismatch") /\ target.tools
    BY <1>1, DefectFacts, EntriesHeard, UnlistedAre DEF IInv
  <2>2. recorded("V2.mismatch") => Heeded("V2.mismatch") /\ Mismatch(cap) \notin target.speaks
    BY <1>1, EntriesHeard, MismatchUnspoken
  <2>3. ToolsCapability("D1.discover") <=> target.tools
    BY <1>1, ToolsKnown DEF Known
  <2>4. ASSUME Heeded("V2.mismatch"), target.tools
        PROVE  V2Mismatch(e) = "should" <=> has("oddCode")
    <3>1. recorded("V2.mismatch")
      BY <2>4 DEF Heeded
    <3>2. /\ Classified(e)
          /\ Succeeded(e) <=> has("mismatch")
          /\ ~has("mismatch") => e.body = "error" /\ e.code = IF has("oddCode") THEN -32004 ELSE -32022
      BY <1>1, <2>2, <2>4, <3>1, MismatchAnswered
    <3> HIDE DEF e
    <3>3. V2Mismatch(e) = "should" <=> ~Succeeded(e) /\ ~(e.body = "error" /\ e.code = -32022)
      BY <3>2, ShouldGrades
    <3> QED BY <3>2, <3>3
  <2> QED BY <1>7, <2>1, <2>2, <2>3, <2>4, StatelessCells DEF Graded, Heeded
<1>8. CASE c = "G1.get"
  <2> DEFINE e == cap["G1.get"]
  <2>1. Heeded("G1.get")
    <3>1. http
      BY <1>8 DEF StatelessCellNames, ToolsCells
    <3> QED BY <3>1, EntriesHeard
  <2>2. e.stream /\ e.ok <=> has("streams")
    BY <1>1, <2>1, StreamAnswered
  <2>3. Succeeded(cap["D1.discover"]) /\ cap["D1.discover"].supported = target.speaks
    BY <1>1, IdentityHeard DEF Known
  <2>4. has("streams") => target.speaks = {StatelessEra}
    BY <1>1, DefectFacts DEF IInv, stateless
  <2>5. G1Stateless(e) = IF e.stream /\ e.ok /\ target.speaks = {StatelessEra} THEN "should" ELSE "obs"
    BY <2>3 DEF G1Stateless
  <2> QED BY <1>8, <2>1, <2>2, <2>4, <2>5, StatelessCells DEF Graded, Heeded
<1> QED BY <1>2, <1>3, <1>4, <1>5, <1>6, <1>7, <1>8 DEF StatelessCellNames, ToolsCells

-----------------------------------------------------------------------------
(* What is flagged of a server that answers everything. *)

\* Two of a server's defects are the same one when it has at most one.
LEMMA OneDefect ==
    ASSUME Sane, Cardinality(planted) <= 1, NEW c \in planted, NEW d \in planted
    PROVE  c = d
<1> DEFINE names == <<"noInfo", "anonymous", "noMeta", "incomplete", "batches", "wrongEra", "unknown",
                      "fakeDiscover", "unbatched", "unenforced", "duplicates", "nameless", "laxCursor",
                      "loops", "gated", "uncacheable", "mismatch", "oddCode", "mints", "streams">>
           n == 20
           f == [i \in 1..n |-> names[i]]
<1>1. f \in Surjection(1..n, AllDefects)
  <2>1. \A i \in 1..20 : names[i] \in AllDefects
    BY DEF AllDefects
  <2>2. \A x \in AllDefects : \E i \in 1..20 : names[i] = x
    BY DEF AllDefects
  <2> HIDE DEF names
  <2> QED BY <2>1, <2>2 DEF Surjection
<1>2. IsFiniteSet(AllDefects)
  <2>1. n \in Int
    OBVIOUS
  <2> HIDE DEF f, n
  <2>2. IsFiniteSet(1..n)
    BY <2>1, FS_Interval
  <2> QED BY <1>1, <2>2, FS_Surjection
<1>3. IsFiniteSet(planted)
  BY <1>2, DefectFacts, FS_Subset
<1>4. Cardinality(planted \ {c}) = Cardinality(planted) - 1 /\ IsFiniteSet(planted \ {c})
  BY <1>3, FS_RemoveElement
<1>5. Cardinality(planted \ {c}) \in Nat /\ Cardinality(planted) \in Nat
  BY <1>3, <1>4, FS_CardinalityType
<1>6. planted \ {c} = {}
  BY <1>4, <1>5, FS_EmptySet
<1> QED BY <1>6

\* What is condemned is what was planted.
LEMMA MustsExact ==
    ASSUME Undisturbed, HeaderApplies, Cardinality(planted) <= 1
    PROVE  CellsThatSay("must") = All(MustCells)
<1>1. IInv /\ done /\ report = Cells /\ Known /\ Audible /\ Sane
  BY EntriesHeard, DoneFacts DEF Undisturbed, IInv
<1>2. ASSUME NEW c \in CellsThatSay("must") PROVE c \in All(MustCells)
  BY <1>1, <1>2, BlameLemma DEF Known
<1>3. ASSUME NEW c, Says(c, "must") PROVE c \in CellsThatSay("must")
  BY <1>1, <1>3 DEF Says, CellsThatSay
<1>4. ASSUME NEW d \in planted, NEW c \in MustCells(d) PROVE c \in CellsThatSay("must")
  <2>1. has(d) /\ \A b : has(b) => b = d
    BY <1>1, <1>4, OneDefect DEF has
  <2>2. MustCells(d) # {} /\ (d \in {"duplicates", "loops"} => ~has("gated"))
        /\ (d = "uncacheable" => ~has("gated"))
    BY <2>1
  <2>3. \A p \in Witnesses(d) : Heeded(p)
    BY <2>2, WitnessesHeard
  <2>4. Says(c, "must")
    BY <1>1, <2>1, <2>2, <2>3, ClassicDefectShows, StatelessDefectShows
  <2> QED BY <1>3, <2>4
<1>5. All(MustCells) \subseteq CellsThatSay("must")
  BY <1>4 DEF All
<1> QED BY <1>2, <1>5

\* What is advised against is what was planted.
LEMMA ShouldsExact ==
    ASSUME Undisturbed, Cardinality(planted) <= 1
    PROVE  CellsThatSay("should") = All(ShouldCells)
<1> DEFINE Meant(c) == \/ c = "I1.identity" /\ has("anonymous")
                       \/ c = "T2.badcursor" /\ has("laxCursor")
                       \/ c = "V2.mismatch" /\ has("oddCode")
                       \/ c = "G1.get" /\ has("streams")
<1>1. IInv /\ report = Cells /\ Sane
  BY DoneFacts DEF Undisturbed, IInv
<1>2. (has("anonymous") => ~has("noInfo")) /\ (has("oddCode") => ~has("mismatch"))
  <2>1. \A b, d : has(b) /\ has(d) => b = d
    BY <1>1, OneDefect DEF has
  <2> QED BY <2>1
<1>3. \A c : c \in All(ShouldCells) <=> Meant(c)
  <2>1. /\ ShouldCells("anonymous") = {"I1.identity"} /\ ShouldCells("laxCursor") = {"T2.badcursor"}
        /\ ShouldCells("oddCode") = {"V2.mismatch"} /\ ShouldCells("streams") = {"G1.get"}
        /\ \A d : d \notin {"anonymous", "laxCursor", "oddCode", "streams"} => ShouldCells(d) = {}
    BY DEF ShouldCells
  <2>2. \A c : c \in All(ShouldCells) <=> \E d \in planted : c \in ShouldCells(d)
    BY DEF All
  <2> QED BY <2>1, <2>2 DEF has
<1>4. \A c : c \in CellsThatSay("should") <=> c \in DOMAIN Cells /\ Cells[c] = "should"
  BY <1>1 DEF CellsThatSay
<1>5. CASE ~stateless
  <2>1. ~has("oddCode") /\ ~has("streams")
    BY <1>1, <1>5, DefectFacts
  <2>2. \A c \in ClassicCellNames : ClassicCell(c) = "should" <=> Meant(c)
    BY <1>2, <1>5, <2>1, ClassicShould
  <2>3. \A c : Meant(c) => c \in ClassicCellNames
    BY <2>1 DEF ClassicCellNames, ToolsCells
  <2> QED BY <1>3, <1>4, <1>5, <2>2, <2>3, CellsAre
<1>6. CASE stateless
  <2>1. has("streams") => http
    BY <1>1, DefectFacts
  <2>2. \A c \in StatelessCellNames : StatelessCell(c) = "should" <=> Meant(c)
    BY <1>2, <1>6, StatelessShould
  <2>3. \A c : Meant(c) => c \in StatelessCellNames
    BY <2>1 DEF StatelessCellNames, ToolsCells
  <2> QED BY <1>3, <1>4, <1>6, <2>2, <2>3, CellsAre
<1> QED BY <1>5, <1>6

\* The handshake of a server that is not condemned passes.
LEMMA IdentityPasses ==
    ASSUME Undisturbed, CellsThatSay("must") = {}
    PROVE  \E c \in DOMAIN report : report[c] = "pass"
<1>1. IInv /\ report = Cells /\ Known
  BY EntriesHeard, DoneFacts DEF Undisturbed
<1>2. \A c \in DOMAIN Cells : Cells[c] # "must"
  BY <1>1 DEF CellsThatSay
<1>3. CASE ~stateless
  <2>1. Cells["H1.init"] \in {"must", "pass"} /\ "H1.init" \in DOMAIN Cells
    BY <1>1, <1>3, CellsAre, ClassicCells, IdentityBlame DEF Graded, Known, Identity, ClassicCellNames
  <2> QED BY <1>1, <1>2, <2>1
<1>4. CASE stateless
  <2>1. Cells["D1.discover"] \in {"must", "pass"} /\ "D1.discover" \in DOMAIN Cells
    BY <1>1, <1>4, CellsAre, StatelessCells, IdentityBlame DEF Graded, Known, Identity, StatelessCellNames
  <2> QED BY <1>1, <1>2, <2>1
<1> QED BY <1>3, <1>4

LEMMA ConformantVerdict ==
    ASSUME CellsThatSay("must") = {}, CellsThatSay("should") = {}, \E c \in DOMAIN report : report[c] = "pass"
    PROVE  VerdictOf(report) = "CONFORMANT"
<1> DEFINE outcomes == {report[c] : c \in DOMAIN report}
<1>1. "must" \notin outcomes /\ "should" \notin outcomes /\ "pass" \in outcomes
  BY DEF CellsThatSay
<1>2. outcomes \cap {"must", "should", "pass"} # {}
  BY <1>1
<1>3. VerdictOf(report) =
        CASE outcomes \cap {"must", "should", "pass"} = {} -> "UNGRADED"
          [] "must" \in outcomes -> "NONCONFORMANT"
          [] "must" \notin outcomes /\ "should" \in outcomes -> "CONFORMANT*"
          [] OTHER -> "CONFORMANT"
  BY DEF VerdictOf
<1> HIDE DEF outcomes
<1> QED BY <1>1, <1>2, <1>3

LEMMA ExactLemma == IInv /\ Complete => FlaggedExactly
<1> SUFFICES ASSUME IInv, Complete, done, Quiet, HeaderApplies, Cardinality(planted) <= 1
             PROVE  /\ CellsThatSay("must") = All(MustCells)
                    /\ CellsThatSay("should") = All(ShouldCells)
                    /\ planted = {} => VerdictOf(report) = "CONFORMANT"
  BY DEF FlaggedExactly
<1>1. Undisturbed
  BY DEF Undisturbed
<1>2. CellsThatSay("must") = All(MustCells)
  BY <1>1, MustsExact
<1>3. CellsThatSay("should") = All(ShouldCells)
  BY <1>1, ShouldsExact
<1>4. ASSUME planted = {} PROVE VerdictOf(report) = "CONFORMANT"
  <2>1. All(MustCells) = {} /\ All(ShouldCells) = {}
    BY <1>4 DEF All
  <2>2. CellsThatSay("must") = {} /\ CellsThatSay("should") = {}
    BY <1>2, <1>3, <1>4, <2>1
  <2> QED BY <1>1, <2>2, IdentityPasses, ConformantVerdict
<1> QED BY <1>2, <1>3, <1>4

\* The harness's validity controls hold of any server but one without tools over
\* HTTP in the eras of the version header: when nothing is lost, a planted defect
\* is flagged in its cells and in no other, and a server without one conforms
\* (grade.go; PREDICATES.md, CTRL-BAD and CTRL-GOOD).
THEOREM FlagsAreExact == Spec => []FlaggedExactly
BY CaptureIsComplete, ExactLemma, PTL
===============================================================================
