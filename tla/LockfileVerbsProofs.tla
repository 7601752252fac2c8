------------------------ MODULE LockfileVerbsProofs ------------------------
(***************************************************************************)
(* What any number of runs of the command line do to the lockfile and say  *)
(* of it, for any names, surfaces and limits.  The entries are served and  *)
(* admitted ones; what admission and classification promise of them comes  *)
(* from LockSurfaceProofs.                                                 *)
(***************************************************************************)
EXTENDS LockfileVerbs, LockSurfaceProofs, WellFoundedInduction

-----------------------------------------------------------------------------
(***************************************************************************)
(* Operators.                                                              *)
(***************************************************************************)

\* The next entry is one of those that are left.
LEMMA FirstIsOne ==
    ASSUME NEW names \in SUBSET Range(Names), names # {}
    PROVE  First(names) \in names
<1> DEFINE I == {i \in DOMAIN Names : Names[i] \in names}
<1>1. I \subseteq Nat /\ I # {} /\ \A i \in I : Names[i] \in names
  BY VerbsAssumption DEF Range
<1> HIDE DEF I
<1>2. PICK least \in I : \A i \in I : ~(<<i, least>> \in OpToRel(<, Nat))
  BY <1>1, NatLessThanWellFounded, WFMin
<1>3. \A i \in I : least <= i
  <2>1. OpToRel(<, Nat) = {ss \in Nat \X Nat : ss[1] < ss[2]}
    BY Zenon DEF OpToRel
  <2>2. \A i \in I : ~(<<i, least>> \in {ss \in Nat \X Nat : ss[1] < ss[2]})
    BY <1>2, <2>1, Zenon
  <2>3. \A i \in I : ~(i < least)
    BY <1>1, <2>2
  <2> QED BY <1>1, <2>3
<1>4. Min(I) \in I
  BY <1>3 DEF Min
<1>5. First(names) = Names[Min(I)]
  BY DEF First, I
<1> QED BY <1>1, <1>4, <1>5

\* Outcomes are ranked by their place.
LEMMA OutcomesRanked ==
    /\ \A code \in Codes : Serious(code) \in 1..6 /\ Seriousness[Serious(code)] = code
    /\ Serious("ok") = 1 /\ Serious("drift") = 2 /\ Serious("transport") = 3 /\ Serious("inadmissible") = 4
<1>1. /\ DOMAIN Seriousness = 1..6
      /\ Seriousness[1] = "ok" /\ Seriousness[2] = "drift" /\ Seriousness[3] = "transport"
      /\ Seriousness[4] = "inadmissible" /\ Seriousness[5] = "lockfile" /\ Seriousness[6] = "usage"
  BY DEF Seriousness
<1>2. \A code \in Codes : \E i \in 1..6 : Seriousness[i] = code
  BY <1>1 DEF Codes
<1>3. \A code \in Codes : Serious(code) \in 1..6 /\ Seriousness[Serious(code)] = code
  BY <1>1, <1>2 DEF Serious
<1>4. /\ \A i \in 1..6 : Seriousness[i] = "ok" => i = 1
      /\ \A i \in 1..6 : Seriousness[i] = "drift" => i = 2
      /\ \A i \in 1..6 : Seriousness[i] = "transport" => i = 3
      /\ \A i \in 1..6 : Seriousness[i] = "inadmissible" => i = 4
  BY <1>1
<1> QED BY <1>3, <1>4 DEF Codes

\* The worse of two outcomes is one of them, and an upper bound of both.
LEMMA WorseIsAJoin ==
    ASSUME NEW a \in Codes, NEW b \in Codes
    PROVE  /\ worse(a, b) \in {a, b}
           /\ worse(worse(a, b), a) = worse(a, b)
           /\ worse(worse(a, b), b) = worse(a, b)
           /\ \A c \in Codes : worse(a, c) = a => worse(worse(a, b), c) = worse(a, b)
<1>1. \A c \in Codes : Serious(c) \in 1..6
  BY OutcomesRanked
<1>2. \A c \in Codes : worse(a, c) = a => Serious(c) <= Serious(a)
  BY <1>1, OutcomesRanked DEF worse
<1> QED BY <1>1, <1>2 DEF worse

\* A run whose report did not go out does not end as a verdict.
LEMMA NoReportNoVerdict ==
    ASSUME NEW a \in Codes
    PROVE  worse(a, "transport") \in Codes \ {"ok", "drift"}
<1> QED BY OutcomesRanked DEF worse, Codes

-----------------------------------------------------------------------------
(***************************************************************************)
(* The inductive invariant: of each run by itself, and of each run and     *)
(* the file as long as no other run has touched it.                        *)
(***************************************************************************)

Hashes == {SurfaceHash(Admit(raw)) : raw \in {w \in RawSurfaces : Admissible(w)}}

Records ==
    [pc : {"idle", "read", "fetch", "session", "truncate", "write", "done", "killed"},
     verb : {"none", "lock", "verify", "pin", "proxy"}, json : BOOLEAN,
     name : Range(Names) \union {"all"}, headers : {"none", "valid", "unset"},
     base : Servers, lf : Servers, todo : SUBSET Range(Names), worst : Codes,
     judged : [Range(Names) -> Codes \union {Nothing}],
     observed : [Range(Names) -> Hashes \union {<<>>}],
     found : SUBSET Codes, alone : BOOLEAN, exit : Codes \union {"none"},
     doc : Codes \union {"none"}, cut : BOOLEAN]

Files == [state : {"absent", "partial", "whole"}, servers : Servers]

\* lock names its entry, and where a run is says which verb it has and whether it
\* can have met a verdict.
Placed(r) ==
    /\ r.verb = "lock" => r.name \in Range(Names)
    /\ r.pc = "session" => r.verb = "proxy"
    /\ r.pc \in {"truncate", "write"} => r.verb \in {"lock", "pin"}
    /\ r.pc # "done" => ~r.cut
    /\ r.pc \in {"read", "session"} => r.found = {} /\ r.worst = "ok"
    /\ r.pc = "read" => Present(r.base) = {}
    /\ r.pc = "session" => ~r.json
    /\ r.pc = "read" /\ r.verb = "proxy" => ~r.json

\* The entries a run was asked for.
Chosen(r) == IF r.verb = "lock" THEN {r.name} ELSE Selected(r, r.base)

\* The entries left are chosen ones, and there is one as long as it fetches.
Left(r) ==
    /\ r.pc = "fetch" => r.todo \subseteq Chosen(r) /\ r.todo # {}
    /\ r.pc \in {"truncate", "write"} => r.todo = {}

\* The chosen entries that are not left are new, and no other entry is.
Changed(r, left) ==
    \A n \in Range(Names) :
        IF n \in Chosen(r) THEN n \notin left => r.lf[n] # None /\ r.lf[n].surfaceHash = r.observed[n]
        ELSE r.lf[n] = r.base[n]

Rewriting(r) ==
    r.verb \in {"lock", "pin"} =>
        /\ r.pc \in {"fetch", "truncate", "write"} => Changed(r, r.todo)
        /\ r.pc = "done" /\ r.exit = "ok" => Changed(r, {})

\* Every entry that is not left has the verdict its rollup calls for, and the
\* worst so far is one of those met and no less serious than any.
Judgements(r, left) ==
    \A n \in Selected(r, r.base) \ left :
        /\ r.judged[n] # Nothing
        /\ r.observed[n] # <<>> =>
            r.judged[n] = IF r.observed[n] = r.base[n].surfaceHash THEN "ok" ELSE "drift"

WorstSoFar(r) ==
    /\ \A c \in r.found : worse(r.worst, c) = r.worst
    /\ r.found # {} => r.worst \in r.found
    /\ r.found = {} => r.worst = "ok"

WorstOf(r) ==
    /\ \A c \in r.found : worse(r.exit, c) = r.exit
    /\ r.exit \in r.found \union {"transport"}
    /\ r.cut => r.exit \notin {"ok", "drift"}
    /\ r.json => r.cut \/ r.doc = r.exit

Comparing(r) ==
    /\ r.pc = "fetch" /\ r.verb = "verify" =>
        r.lf = r.base /\ Judgements(r, r.todo) /\ WorstSoFar(r)
    /\ r.pc = "done" /\ r.verb = "verify" /\ r.found # {} => Judgements(r, {})
    /\ r.pc = "done" /\ r.verb \in {"verify", "proxy"} /\ r.found # {} => WorstOf(r)

\* The file has what the run read, or a write of it was cut short.
Kept(r, f) == f.state # "whole" \/ f.servers = r.base

\* The file of a run that has it to itself: as read, or truncated, or written.
Owned(r, f) ==
    r.alone =>
        /\ r.pc \in {"fetch", "session", "truncate"} => f.state # "partial" /\ f.servers = r.base
        /\ r.pc = "write" => f.state = "partial"
        /\ r.pc = "done" /\ r.verb \in {"lock", "pin"} /\ r.exit = "ok" =>
            f.state = "whole" /\ Present(r.base) \subseteq Present(f.servers)
        /\ r.pc = "done" /\ r.verb = "pin" /\ r.exit # "ok" /\ Present(r.base) # {} => Kept(r, f)

RunInv(r) == r \in Records /\ Placed(r) /\ Left(r) /\ Rewriting(r) /\ Comparing(r)

IInv ==
    /\ file \in Files
    /\ run \in [Runs -> Records]
    /\ \A p \in Runs : RunInv(run[p]) /\ Owned(run[p], file)

-----------------------------------------------------------------------------
(***************************************************************************)
(* Ends of a run.                                                          *)
(***************************************************************************)

\* What any end of a run leaves as it was.
Ended(r, s) ==
    /\ s \in Records /\ s.pc = "done"
    /\ s.verb = r.verb /\ s.name = r.name /\ s.base = r.base /\ s.lf = r.lf
    /\ s.judged = r.judged /\ s.observed = r.observed /\ s.alone = r.alone /\ s.json = r.json

LEMMA ExitEnds ==
    ASSUME NEW r \in Records, NEW code \in Codes
    PROVE  LET s == Exit(r, code) IN
           Ended(r, s) /\ s.exit = code /\ s.cut = r.cut /\ s.found = r.found
<1> QED BY DEF Exit, Ended, Records

LEMMA FinishEnds ==
    ASSUME NEW r \in Records, NEW code \in Codes, NEW s \in Finish(r, code)
    PROVE  /\ Ended(r, s) /\ s.found = r.found
           /\ \/ s.exit = code /\ s.cut = r.cut /\ (r.json => s.doc = code)
              \/ s.exit = worse(code, "transport") /\ s.cut
<1> DEFINE bad == worse(code, "transport")
<1>1. bad \in Codes
  BY NoReportNoVerdict
<1>2. CASE ~r.json /\ s = Exit(r, code)
  BY <1>2, ExitEnds
<1>3. CASE s = [Exit(r, code) EXCEPT !.doc = code]
  <2> DEFINE e == Exit(r, code)
  <2>1. Ended(r, e) /\ e.exit = code /\ e.cut = r.cut /\ e.found = r.found
    BY ExitEnds
  <2> HIDE DEF e
  <2>2. e \in Records /\ s = [e EXCEPT !.doc = code]
    BY <1>3, <2>1 DEF e, Ended
  <2>3. /\ s \in Records /\ s.exit = e.exit /\ s.cut = e.cut /\ s.found = e.found /\ Ended(e, s)
        /\ s.doc = code
    BY <2>1, <2>2 DEF Ended, Records
  <2> QED BY <2>1, <2>3 DEF Ended
<1>4. CASE s = [Exit(r, bad) EXCEPT !.cut = TRUE]
  <2> DEFINE e == Exit(r, bad)
  <2>1. Ended(r, e) /\ e.exit = bad /\ e.found = r.found
    BY <1>1, ExitEnds
  <2> HIDE DEF e
  <2>2. e \in Records /\ s = [e EXCEPT !.cut = TRUE]
    BY <1>4, <2>1 DEF e, Ended
  <2>3. s \in Records /\ s.exit = e.exit /\ s.cut /\ s.found = e.found /\ Ended(e, s)
    BY <2>1, <2>2 DEF Ended, Records
  <2> QED BY <2>1, <2>3 DEF Ended
<1> QED BY <1>2, <1>3, <1>4 DEF Finish

\* A run that ends before it has met a verdict, and without having written.
LEMMA EndsEarly ==
    ASSUME NEW r, RunInv(r), NEW s, Ended(r, s), NEW f, r.alone => Kept(r, f) \/ Present(r.base) = {},
           r.verb \in {"verify", "proxy"} => s.found = {},
           r.verb \in {"lock", "pin"} => s.exit # "ok"
    PROVE  RunInv(s) /\ Owned(s, f)
<1>1. Placed(s) /\ Left(s)
  BY DEF Ended, RunInv, Placed, Left
<1>2. Rewriting(s) /\ Comparing(s)
  BY DEF Ended, Rewriting, Comparing
<1>3. Owned(s, f)
  BY DEF Ended, Owned, Kept
<1> QED BY <1>1, <1>2, <1>3 DEF Ended, RunInv

\* Such a run by exitFor, and with the report that it owes.
LEMMA ExitsEarly ==
    ASSUME NEW r, RunInv(r), NEW f, NEW code \in Codes \ {"ok"},
           r.alone => Kept(r, f) \/ Present(r.base) = {},
           r.verb \in {"verify", "proxy"} => r.found = {}
    PROVE  RunInv(Exit(r, code)) /\ Owned(Exit(r, code), f)
<1>1. Ended(r, Exit(r, code)) /\ Exit(r, code).exit = code /\ Exit(r, code).found = r.found
  BY ExitEnds DEF RunInv
<1> QED BY <1>1, EndsEarly

LEMMA FinishesEarly ==
    ASSUME NEW r, RunInv(r), NEW f, NEW code \in Codes \ {"ok"}, NEW s \in Finish(r, code),
           r.alone => Kept(r, f) \/ Present(r.base) = {},
           r.verb \in {"verify", "proxy"} => r.found = {}
    PROVE  RunInv(s) /\ Owned(s, f)
<1>1. Ended(r, s) /\ s.found = r.found /\ s.exit \in {code, worse(code, "transport")}
  BY FinishEnds DEF RunInv
<1>2. s.exit # "ok"
  BY <1>1, NoReportNoVerdict
<1> QED BY <1>1, <1>2, EndsEarly

-----------------------------------------------------------------------------
(***************************************************************************)
(* Reading, fetching and judging.                                          *)
(***************************************************************************)

\* An entry is an admitted surface, whose tools have names of their own.
LEMMA EntriesAreSound ==
    /\ \A e \in Entries : e # None /\ WellFormed(e) /\ Validates(e)
    /\ \A lf \in Servers : \A n \in Present(lf) : lf[n] \in Entries
<1>1. ASSUME NEW e \in Entries
      PROVE  e # None /\ WellFormed(e) /\ Validates(e)
  <2>1. PICK raw \in RawSurfaces : Admissible(raw) /\ e = EntryFromSurface(Admit(raw))
    BY <1>1 DEF Entries
  <2>2. WellFormed(e) /\ Validates(e)
    BY <2>1, AdmissionSound
  <2>3. e.era # "empty"
    BY <2>2 DEF WellFormed, ProperName
  <2>4. None.era = "empty"
    BY DEF None
  <2> QED BY <2>2, <2>3, <2>4
<1>2. \A lf \in Servers : \A n \in Present(lf) : lf[n] \in Entries
  BY DEF Servers, Present
<1> QED BY <1>1, <1>2

\* The run begins with the file as it read it.
LEMMA LoadedIsOwn ==
    ASSUME NEW r, RunInv(r), r.pc = "read", NEW f \in Files, f.state # "partial",
           NEW names \in SUBSET Range(Names), names # {}, r.verb # "proxy",
           LET s == Loaded(r, f.servers, names) IN names = Chosen(s)
    PROVE  LET s == Loaded(r, f.servers, names) IN RunInv(s) /\ Owned(s, f)
<1> DEFINE s == Loaded(r, f.servers, names)
<1>1. r \in Records /\ r.found = {} /\ r.worst = "ok" /\ ~r.cut
  BY DEF RunInv, Placed
<1>2. f.servers \in Servers
  BY DEF Files
<1>3. /\ s \in Records /\ s.pc = "fetch" /\ s.base = f.servers /\ s.lf = f.servers /\ s.todo = names
      /\ s.verb = r.verb /\ s.name = r.name /\ s.found = {} /\ s.worst = "ok" /\ ~s.cut
  BY <1>1, <1>2 DEF Loaded, Records
<1>4. names = Chosen(s)
  OBVIOUS
<1> HIDE DEF s
<1>5. Placed(s) /\ Left(s)
  BY <1>3, <1>4 DEF Placed, Left, RunInv
<1>6. Rewriting(s)
  BY <1>3, <1>4 DEF Rewriting, Changed
<1>7. Owned(s, f)
  BY <1>3 DEF Owned
<1>8. s.verb = "verify" => Judgements(s, s.todo)
  BY <1>3, <1>4 DEF Judgements, Chosen
<1>9. Comparing(s)
  BY <1>3, <1>8 DEF Comparing, WorstSoFar
<1> QED BY <1>3, <1>5, <1>6, <1>7, <1>9 DEF RunInv, s

\* An entry fetched for lock or pin is renewed, and none is left or the next is
\* fetched.
LEMMA RenewedIsRight ==
    ASSUME NEW r, RunInv(r), r.pc = "fetch", r.verb \in {"lock", "pin"}, NEW f, Owned(r, f),
           NEW raw \in RawSurfaces, Admissible(raw)
    PROVE  RunInv(Renewed(r, Admit(raw))) /\ Owned(Renewed(r, Admit(raw)), f)
<1> DEFINE s == Renewed(r, Admit(raw))
           n == First(r.todo)
           e == EntryFromSurface(Admit(raw))
           h == SurfaceHash(Admit(raw))
<1>1. /\ r \in Records /\ r.todo \subseteq Chosen(r) /\ r.todo # {} /\ Changed(r, r.todo) /\ ~r.cut
      /\ r.todo \in SUBSET Range(Names)
  BY DEF RunInv, Placed, Left, Rewriting, Records
<1>2. n \in r.todo /\ n \in Range(Names)
  BY <1>1, FirstIsOne
<1>3. e \in Entries /\ e # None /\ e.surfaceHash = h /\ h \in Hashes
  BY EntriesAreSound DEF Entries, EntryFromSurface, Hashes
<1> DEFINE lf == [r.lf EXCEPT ![n] = e]
           observed == [r.observed EXCEPT ![n] = h]
           todo == r.todo \ {n}
           pc == IF r.todo = {n} THEN "truncate" ELSE "fetch"
<1>4. s = [r EXCEPT !.lf = lf, !.observed = observed, !.todo = todo, !.pc = pc]
  BY <1>1 DEF Renewed, Records
<1>5. /\ r.lf \in Servers /\ lf \in Servers /\ todo \in SUBSET Range(Names)
      /\ observed \in [Range(Names) -> Hashes \union {<<>>}]
  BY <1>1, <1>2, <1>3 DEF Servers, Records
<1>6. /\ lf[n] = e /\ observed[n] = h
      /\ \A m \in Range(Names) \ {n} : lf[m] = r.lf[m] /\ observed[m] = r.observed[m]
  BY <1>1, <1>2, <1>5 DEF Servers, Records
<1>7. pc \in {"truncate", "fetch"} /\ (pc = "truncate" => todo = {}) /\ (pc = "fetch" => todo # {})
  BY <1>1, <1>2
<1> HIDE DEF s, n, e, h, lf, observed, todo, pc
<1>8. /\ s \in Records /\ s.pc = pc /\ s.lf = lf /\ s.observed = observed /\ s.todo = todo
      /\ s.verb = r.verb /\ s.name = r.name /\ s.base = r.base /\ s.alone = r.alone /\ s.cut = r.cut
  BY <1>1, <1>4, <1>5, <1>7 DEF Records
<1>9. Chosen(s) = Chosen(r)
  BY <1>8 DEF Chosen, Selected
<1>10. Changed(s, s.todo)
  <2>1. n \in Chosen(s)
    BY <1>1, <1>2, <1>9
  <2>2. ASSUME NEW m \in Range(Names), m # n
        PROVE  IF m \in Chosen(s) THEN m \notin s.todo => s.lf[m] # None /\ s.lf[m].surfaceHash = s.observed[m]
               ELSE s.lf[m] = s.base[m]
    BY <1>1, <1>6, <1>8, <1>9, <2>2 DEF Changed, todo
  <2>3. s.lf[n] # None /\ s.lf[n].surfaceHash = s.observed[n]
    BY <1>3, <1>6, <1>8
  <2> QED BY <2>1, <2>2, <2>3 DEF Changed
<1>11. Placed(s)
  BY <1>1, <1>7, <1>8 DEF Placed, RunInv
<1>12. Left(s)
  BY <1>1, <1>7, <1>8, <1>9 DEF Left, todo
<1>13. Rewriting(s) /\ Comparing(s)
  BY <1>7, <1>8, <1>10 DEF Rewriting, Comparing
<1>14. Owned(s, f)
  BY <1>7, <1>8 DEF Owned
<1> QED BY <1>8, <1>11, <1>12, <1>13, <1>14 DEF RunInv, s

\* The worst of the outcomes so far and one more.
LEMMA WorstStaysWorst ==
    ASSUME NEW r \in Records, WorstSoFar(r), NEW code \in Codes,
           NEW s, s.worst = worse(r.worst, code), s.found = r.found \union {code}
    PROVE  WorstSoFar(s) /\ s.worst \in s.found
<1>1. r.worst \in Codes /\ r.found \subseteq Codes
  BY DEF Records
<1>2. /\ worse(r.worst, code) \in {r.worst, code}
      /\ worse(worse(r.worst, code), code) = worse(r.worst, code)
      /\ \A c \in Codes : worse(r.worst, c) = r.worst =>
                          worse(worse(r.worst, code), c) = worse(r.worst, code)
  BY <1>1, WorseIsAJoin
<1>3. \A c \in s.found : worse(s.worst, c) = s.worst
  BY <1>1, <1>2 DEF WorstSoFar
<1>4. s.worst \in s.found
  <2>1. CASE r.found = {}
    <3>1. worse("ok", code) = code
      <4>1. "ok" \in Codes
        BY DEF Codes
      <4>2. Serious(code) \in 1..6 /\ Serious("ok") = 1 /\ (Serious(code) = 1 => code = "ok")
        BY <4>1, OutcomesRanked
      <4> QED BY <4>2 DEF worse
    <3> QED BY <2>1, <3>1 DEF WorstSoFar
  <2>2. CASE r.found # {}
    BY <1>2, <2>2 DEF WorstSoFar
  <2> QED BY <2>1, <2>2
<1> QED BY <1>3, <1>4 DEF WorstSoFar

\* The verdict on an entry is added to the others, and the last one ends the
\* run with the worst.
LEMMA JudgedIsRight ==
    ASSUME NEW r, RunInv(r), r.pc = "fetch", r.verb = "verify", NEW f, Owned(r, f),
           NEW code \in Codes, NEW hash \in Hashes \union {<<>>},
           hash # <<>> => code = IF hash = r.lf[First(r.todo)].surfaceHash THEN "ok" ELSE "drift",
           NEW z \in Judged(r, code, hash)
    PROVE  RunInv(z) /\ Owned(z, f)
<1> DEFINE n == First(r.todo)
           judged == [r.judged EXCEPT ![n] = code]
           observed == [r.observed EXCEPT ![n] = hash]
           todo == r.todo \ {n}
           worst == worse(r.worst, code)
           found == r.found \union {code}
           s == [r EXCEPT !.judged = judged, !.observed = observed, !.worst = worst, !.todo = todo, !.found = found]
<1>1. /\ r \in Records /\ r.todo \subseteq Selected(r, r.base) /\ r.todo # {} /\ ~r.cut /\ r.lf = r.base
      /\ Judgements(r, r.todo) /\ WorstSoFar(r) /\ r.todo \in SUBSET Range(Names)
  BY DEF RunInv, Placed, Left, Comparing, Records, Chosen
<1>2. n \in r.todo /\ n \in Range(Names)
  BY <1>1, FirstIsOne
<1>3. z \in IF todo = {} THEN Finish(s, worst) ELSE {s}
  <2>1. s = [r EXCEPT !.judged[n] = code, !.observed[n] = hash, !.worst = worse(@, code),
                      !.todo = @ \ {n}, !.found = @ \union {code}]
    BY <1>1 DEF Records
  <2>2. s.todo = todo /\ s.worst = worst
    BY <1>1 DEF Records
  <2> QED BY <2>1, <2>2 DEF Judged
<1>4. worst \in Codes /\ found \in SUBSET Codes /\ todo \in SUBSET Range(Names)
  BY <1>1, <1>2, WorseIsAJoin DEF Records
<1>5. /\ judged \in [Range(Names) -> Codes \union {Nothing}]
      /\ observed \in [Range(Names) -> Hashes \union {<<>>}]
      /\ judged[n] = code /\ observed[n] = hash
      /\ \A m \in Range(Names) \ {n} : judged[m] = r.judged[m] /\ observed[m] = r.observed[m]
  BY <1>1, <1>2 DEF Records
<1>6. /\ code # Nothing
      /\ hash # <<>> => code = IF hash = r.base[n].surfaceHash THEN "ok" ELSE "drift"
  BY <1>1 DEF Codes, Nothing
<1> HIDE DEF n, judged, observed, todo, worst, found
<1>7. /\ s \in Records /\ s.pc = "fetch" /\ s.verb = "verify" /\ s.name = r.name /\ s.base = r.base
      /\ s.lf = r.base /\ s.todo = todo /\ s.judged = judged /\ s.observed = observed
      /\ s.worst = worst /\ s.found = found /\ s.alone = r.alone /\ ~s.cut
  BY <1>1, <1>4, <1>5 DEF Records
<1> HIDE DEF s
<1>8. Selected(s, s.base) = Selected(r, r.base) /\ Selected(r, r.base) \subseteq Range(Names)
  BY <1>7 DEF Selected, Present
<1>9. Judgements(s, todo)
  <2> SUFFICES ASSUME NEW m \in Selected(r, r.base), m \notin todo
               PROVE  /\ judged[m] # Nothing
                      /\ observed[m] # <<>> =>
                          judged[m] = IF observed[m] = r.base[m].surfaceHash THEN "ok" ELSE "drift"
    BY <1>7, <1>8 DEF Judgements
  <2>1. CASE m = n
    BY <1>5, <1>6, <2>1
  <2>2. CASE m # n
    BY <1>1, <1>5, <1>8, <2>2 DEF Judgements, todo
  <2> QED BY <2>1, <2>2
<1>10. WorstSoFar(s) /\ s.worst \in s.found
  BY <1>1, <1>7, WorstStaysWorst DEF worst, found
<1>11. CASE todo # {}
  <2>1. z = s
    BY <1>3, <1>11
  <2>2. Placed(s) /\ Left(s)
    BY <1>1, <1>7, <1>8, <1>11 DEF Placed, Left, todo, Chosen
  <2>3. Rewriting(s) /\ Comparing(s) /\ Owned(s, f)
    BY <1>7, <1>9, <1>10 DEF Rewriting, Comparing, Owned
  <2> QED BY <1>7, <2>1, <2>2, <2>3 DEF RunInv
<1>12. CASE todo = {}
  <2>1. z \in Finish(s, worst)
    BY <1>3, <1>12
  <2>2. /\ Ended(s, z) /\ z.found = s.found
        /\ \/ z.exit = worst /\ ~z.cut /\ (s.json => z.doc = worst)
           \/ z.exit = worse(worst, "transport") /\ z.cut
    BY <1>4, <1>7, <2>1, FinishEnds
  <2>3. WorstOf(z)
    <3>1. \A c \in z.found : c \in Codes /\ worse(worst, c) = worst
      BY <1>4, <1>7, <1>10, <2>2 DEF WorstSoFar
    <3>2. "transport" \in Codes
      BY DEF Codes
    <3>3. /\ worse(worst, "transport") \in {worst, "transport"}
          /\ worse(worst, "transport") \notin {"ok", "drift"}
          /\ \A c \in Codes : worse(worst, c) = worst =>
                              worse(worse(worst, "transport"), c) = worse(worst, "transport")
      BY <1>4, <3>2, WorseIsAJoin, NoReportNoVerdict
    <3>4. \A c \in z.found : worse(z.exit, c) = z.exit
      BY <2>2, <3>1, <3>3
    <3>5. z.json => z.cut \/ z.doc = z.exit
      BY <2>2 DEF Ended
    <3> QED BY <1>7, <1>10, <2>2, <3>3, <3>4, <3>5 DEF WorstOf
  <2>4. Judgements(z, {})
    BY <1>7, <1>8, <1>9, <1>12, <2>2 DEF Judgements, Ended, Selected
  <2>5. Placed(z) /\ Left(z) /\ Rewriting(z) /\ Comparing(z) /\ Owned(z, f)
    BY <1>7, <2>2, <2>3, <2>4 DEF Ended, Placed, Left, Rewriting, Comparing, Owned
  <2> QED BY <2>2, <2>5 DEF RunInv, Ended
<1> QED BY <1>11, <1>12

-----------------------------------------------------------------------------
(***************************************************************************)
(* Steps.                                                                  *)
(***************************************************************************)

\* A step of one run that leaves the file alone.
LEMMA OwnStep ==
    ASSUME IInv, NEW p \in Runs, NEW r, RunInv(r), Owned(r, file),
           run' = [run EXCEPT ![p] = r], UNCHANGED file
    PROVE  IInv'
<1>1. r \in Records
  BY DEF RunInv
<1>2. run' \in [Runs -> Records]
  BY <1>1 DEF IInv
<1>3. ASSUME NEW q \in Runs
      PROVE  RunInv(run'[q]) /\ Owned(run'[q], file')
  <2>1. CASE q = p
    <3>1. run'[q] = r
      BY <2>1 DEF IInv
    <3> QED BY <3>1
  <2>2. CASE q # p
    <3>1. run'[q] = run[q]
      BY <2>2 DEF IInv
    <3> QED BY <3>1 DEF IInv
  <2> QED BY <2>1, <2>2
<1> QED BY <1>2, <1>3 DEF IInv

LEMMA BecomesStep ==
    ASSUME IInv, NEW p \in Runs, NEW rs, \A r \in rs : RunInv(r) /\ Owned(r, file),
           Becomes(p, rs), UNCHANGED file
    PROVE  IInv'
<1>1. PICK r \in rs : run' = [run EXCEPT ![p] = r]
  BY DEF Becomes
<1> QED BY <1>1, OwnStep

\* A run whose copy of the file is not what is in it any more promises less.
LEMMA OvertakenIsRight ==
    ASSUME NEW r, RunInv(r), NEW f
    PROVE  LET s == [r EXCEPT !.alone = FALSE] IN RunInv(s) /\ Owned(s, f)
<1> DEFINE s == [r EXCEPT !.alone = FALSE]
<1>1. r \in Records
  BY DEF RunInv
<1>2. /\ s \in Records /\ s.pc = r.pc /\ s.verb = r.verb /\ s.name = r.name /\ s.base = r.base
      /\ s.lf = r.lf /\ s.todo = r.todo /\ s.worst = r.worst /\ s.judged = r.judged
      /\ s.observed = r.observed /\ s.found = r.found /\ ~s.alone /\ s.exit = r.exit /\ s.cut = r.cut
      /\ s.json = r.json /\ s.doc = r.doc
  BY <1>1 DEF Records
<1> HIDE DEF s
<1>3. Chosen(s) = Chosen(r) /\ Selected(s, s.base) = Selected(r, r.base)
  BY <1>2 DEF Chosen, Selected
<1>4. Placed(s) /\ Left(s)
  BY <1>2, <1>3 DEF RunInv, Placed, Left
<1>5. Rewriting(s)
  BY <1>2, <1>3 DEF RunInv, Rewriting, Changed
<1>6. Comparing(s)
  BY <1>2, <1>3 DEF RunInv, Comparing, Judgements, WorstSoFar, WorstOf
<1>7. Owned(s, f)
  BY <1>2 DEF Owned
<1> QED BY <1>2, <1>4, <1>5, <1>6, <1>7 DEF RunInv, s

\* A step of one run that changes the file.
LEMMA TouchStep ==
    ASSUME IInv, NEW p \in Runs, NEW r, RunInv(r), Owned(r, file'), file' \in Files,
           run' = Touched(p, r)
    PROVE  IInv'
<1>1. run' = [q \in Runs |-> IF q = p THEN r ELSE [run[q] EXCEPT !.alone = FALSE]]
  BY DEF Touched
<1>2. ASSUME NEW q \in Runs
      PROVE  RunInv(run'[q]) /\ Owned(run'[q], file')
  <2>1. CASE q = p
    BY <1>1, <2>1
  <2>2. CASE q # p
    <3>1. run'[q] = [run[q] EXCEPT !.alone = FALSE]
      BY <1>1, <2>2
    <3>2. RunInv(run[q])
      BY DEF IInv
    <3> QED BY <3>1, <3>2, OvertakenIsRight
  <2> QED BY <2>1, <2>2
<1>3. run' \in [Runs -> Records]
  BY <1>1, <1>2 DEF RunInv
<1> QED BY <1>2, <1>3 DEF IInv

\* A run that has not begun, or was killed.
LEMMA IdleFields ==
    /\ Idle \in Records
    /\ Idle.pc = "idle" /\ Idle.verb = "none" /\ Idle.found = {} /\ Idle.worst = "ok" /\ ~Idle.cut
    /\ Present(Idle.base) = {}
<1>1. NoServers \in Servers
  BY DEF NoServers, Servers
<1>2. "ok" \in Codes
  BY DEF Codes
<1>3. /\ [n \in Range(Names) |-> Nothing] \in [Range(Names) -> Codes \union {Nothing}]
      /\ [n \in Range(Names) |-> <<>>] \in [Range(Names) -> Hashes \union {<<>>}]
  OBVIOUS
<1>4. Present(NoServers) = {}
  BY DEF Present, NoServers
<1> QED BY <1>1, <1>2, <1>3, <1>4 DEF Idle, Records

LEMMA IdleIsRight ==
    ASSUME NEW f, NEW s, s \in {Idle, [Idle EXCEPT !.pc = "killed"]}
    PROVE  RunInv(s) /\ Owned(s, f)
<1>1. /\ s \in Records /\ s.pc \in {"idle", "killed"} /\ s.verb = "none" /\ s.found = {} /\ ~s.cut
  BY IdleFields DEF Records
<1> QED BY <1>1 DEF RunInv, Placed, Left, Rewriting, Comparing, Owned

LEMMA BeginStep ==
    ASSUME IInv, NEW p \in Runs, Begin(p)
    PROVE  IInv'
<1>1. PICK i \in Invocations[p] :
        LET r == [Idle EXCEPT !.pc = "read", !.verb = i.verb, !.json = i.json, !.name = i.name,
                              !.headers = i.headers]
        IN run' = [run EXCEPT ![p] =
                      IF i.headers = "unset" \/ (i.json /\ i.verb \in {"pin", "proxy"})
                      THEN Exit(r, "usage") ELSE r]
  BY DEF Begin
<1> DEFINE r == [Idle EXCEPT !.pc = "read", !.verb = i.verb, !.json = i.json, !.name = i.name,
                             !.headers = i.headers]
<1>2. /\ i \in [verb : {"lock", "verify", "pin", "proxy"}, json : BOOLEAN,
                name : Range(Names) \union {"all"}, headers : {"none", "valid", "unset"}]
      /\ i.verb = "lock" => i.name \in Range(Names)
  BY VerbsAssumption
<1>3. /\ r \in Records /\ r.pc = "read" /\ r.verb = i.verb /\ r.name = i.name /\ r.json = i.json
      /\ r.found = {} /\ r.worst = "ok" /\ ~r.cut /\ Present(r.base) = {}
  BY <1>2, IdleFields DEF Records
<1>4. \/ run' = [run EXCEPT ![p] = Exit(r, "usage")]
      \/ run' = [run EXCEPT ![p] = r] /\ ~(i.json /\ i.verb \in {"pin", "proxy"})
  BY <1>1
<1> HIDE DEF r
<1>5. ASSUME ~(i.json /\ i.verb \in {"pin", "proxy"})
      PROVE  RunInv(r) /\ Owned(r, file)
  BY <1>2, <1>3, <1>5 DEF RunInv, Placed, Left, Rewriting, Comparing, Owned
<1>6. RunInv(Exit(r, "usage")) /\ Owned(Exit(r, "usage"), file)
  <2> DEFINE e == Exit(r, "usage")
  <2>1. "usage" \in Codes \ {"ok"}
    BY DEF Codes
  <2>2. /\ e \in Records /\ e.pc = "done" /\ e.verb = i.verb /\ e.name = i.name
        /\ e.found = {} /\ e.exit = "usage" /\ Present(e.base) = {}
    BY <1>3, <2>1, ExitEnds DEF Ended
  <2> HIDE DEF e
  <2>3. RunInv(e) /\ Owned(e, file)
    BY <1>2, <2>2 DEF RunInv, Placed, Left, Rewriting, Comparing, Owned
  <2> QED BY <2>3 DEF e
<1>7. UNCHANGED file
  BY DEF Begin
<1>8. CASE run' = [run EXCEPT ![p] = Exit(r, "usage")]
  BY <1>6, <1>7, <1>8, OwnStep
<1>9. CASE run' = [run EXCEPT ![p] = r] /\ ~(i.json /\ i.verb \in {"pin", "proxy"})
  BY <1>5, <1>7, <1>9, OwnStep
<1> QED BY <1>4, <1>8, <1>9

\* What a read that fails makes of a run, and one that does not.
LEMMA ReadFails ==
    ASSUME NEW r, RunInv(r), r.pc = "read", NEW f, NEW code \in {"usage", "lockfile"},
           NEW s \in Finish(r, code) \union {Exit(r, code)}
    PROVE  RunInv(s) /\ Owned(s, f)
<1>1. r.found = {} /\ code \in Codes \ {"ok"} /\ Present(r.base) = {}
  BY DEF RunInv, Placed, Codes
<1>2. CASE s \in Finish(r, code)
  BY <1>1, <1>2, FinishesEarly
<1>3. CASE s = Exit(r, code)
  BY <1>1, <1>3, ExitsEarly
<1> QED BY <1>2, <1>3

LEMMA SelectedAreNames ==
    ASSUME NEW r, NEW lf
    PROVE  Selected(r, lf) \in SUBSET Range(Names)
BY DEF Selected, Present

LEMMA ReadForLockStep ==
    ASSUME IInv, NEW p \in Runs, ReadForLock(p)
    PROVE  IInv'
<1> DEFINE r == run[p]
           s == Loaded(r, file.servers, {r.name})
<1>1. /\ r.pc = "read" /\ r.verb = "lock" /\ UNCHANGED file /\ RunInv(r) /\ file \in Files
  BY DEF ReadForLock, IInv
<1>2. \A z \in Finish(r, "usage") \union Finish(r, "lockfile") : RunInv(z) /\ Owned(z, file)
  <2>1. \A z \in Finish(r, "usage") : RunInv(z) /\ Owned(z, file)
    BY <1>1, ReadFails
  <2>2. \A z \in Finish(r, "lockfile") : RunInv(z) /\ Owned(z, file)
    BY <1>1, ReadFails
  <2> QED BY <2>1, <2>2
<1>3. ASSUME file.state = "absent" \/ Readable
      PROVE  RunInv(s) /\ Owned(s, file)
  <2>1. file.state # "partial"
    BY <1>3 DEF Readable, Parses
  <2>2. r \in Records /\ {r.name} \in SUBSET Range(Names)
    BY <1>1 DEF RunInv, Placed
  <2>3. {r.name} = Chosen(s)
    BY <1>1, <2>2 DEF Loaded, Chosen, Records
  <2> HIDE DEF r
  <2> QED BY <1>1, <2>1, <2>2, <2>3, LoadedIsOwn
<1>4. \/ Becomes(p, Finish(r, "usage"))
      \/ Becomes(p, Finish(r, "lockfile"))
      \/ (file.state = "absent" \/ Readable) /\ Becomes(p, {s})
  BY DEF ReadForLock
<1> HIDE DEF r, s
<1>5. CASE Becomes(p, Finish(r, "usage")) \/ Becomes(p, Finish(r, "lockfile"))
  BY <1>1, <1>2, <1>5, BecomesStep
<1>6. CASE (file.state = "absent" \/ Readable) /\ Becomes(p, {s})
  BY <1>1, <1>3, <1>6, BecomesStep
<1> QED BY <1>4, <1>5, <1>6

\* verify, diff and pin load the entries they select.
LEMMA LoadsSelected ==
    ASSUME NEW r, RunInv(r), r.pc = "read", r.verb \in {"verify", "pin"},
           NEW f \in Files, f.state = "whole", Selected(r, f.servers) # {}
    PROVE  LET s == Loaded(r, f.servers, Selected(r, f.servers)) IN RunInv(s) /\ Owned(s, f)
<1> DEFINE names == Selected(r, f.servers)
           s == Loaded(r, f.servers, names)
<1>1. r \in Records /\ f.servers \in Servers
  BY DEF RunInv, Files
<1>2. names \in SUBSET Range(Names)
  BY SelectedAreNames
<1>3. s.verb = r.verb /\ s.name = r.name /\ s.base = f.servers
  BY <1>1 DEF Loaded, Records
<1>4. names = Chosen(s)
  BY <1>3 DEF Chosen, Selected
<1> HIDE DEF names
<1> QED BY <1>2, <1>4, LoadedIsOwn DEF names

LEMMA ReadForCompareStep ==
    ASSUME IInv, NEW p \in Runs, ReadForCompare(p)
    PROVE  IInv'
<1> DEFINE r == run[p]
           names == Selected(r, file.servers)
           s == Loaded(r, file.servers, names)
<1>1. /\ r.pc = "read" /\ r.verb = "verify" /\ UNCHANGED file /\ RunInv(r) /\ file \in Files
  BY DEF ReadForCompare, IInv
<1>2. \A z \in Finish(r, "usage") \union Finish(r, "lockfile") \union {Exit(r, "usage")} :
        RunInv(z) /\ Owned(z, file)
  <2>1. \A z \in Finish(r, "usage") \union {Exit(r, "usage")} : RunInv(z) /\ Owned(z, file)
    BY <1>1, ReadFails
  <2>2. \A z \in Finish(r, "lockfile") : RunInv(z) /\ Owned(z, file)
    BY <1>1, ReadFails
  <2> QED BY <2>1, <2>2
<1>3. ASSUME Readable, names # {}
      PROVE  RunInv(s) /\ Owned(s, file)
  BY <1>1, <1>3, LoadsSelected DEF Readable, Parses
<1>4. \/ Becomes(p, Finish(r, "lockfile"))
      \/ Becomes(p, Finish(r, "usage"))
      \/ Becomes(p, {Exit(r, "usage")})
      \/ Readable /\ names # {} /\ Becomes(p, {s})
  BY DEF ReadForCompare
<1> HIDE DEF r, names, s
<1>5. CASE Becomes(p, Finish(r, "usage")) \/ Becomes(p, Finish(r, "lockfile")) \/ Becomes(p, {Exit(r, "usage")})
  BY <1>1, <1>2, <1>5, BecomesStep
<1>6. CASE Readable /\ names # {} /\ Becomes(p, {s})
  BY <1>1, <1>3, <1>6, BecomesStep
<1> QED BY <1>4, <1>5, <1>6

LEMMA ReadForPinStep ==
    ASSUME IInv, NEW p \in Runs, ReadForPin(p)
    PROVE  IInv'
<1> DEFINE r == run[p]
           names == Selected(r, file.servers)
           s == Loaded(r, file.servers, names)
<1>1. /\ r.pc = "read" /\ r.verb = "pin" /\ UNCHANGED file /\ RunInv(r) /\ file \in Files
  BY DEF ReadForPin, IInv
<1>2. \A z \in {Exit(r, "usage"), Exit(r, "lockfile")} : RunInv(z) /\ Owned(z, file)
  BY <1>1, ReadFails
<1>3. ASSUME Readable, names # {}
      PROVE  RunInv(s) /\ Owned(s, file)
  BY <1>1, <1>3, LoadsSelected DEF Readable, Parses
<1>4. \/ Becomes(p, {Exit(r, "lockfile")})
      \/ Becomes(p, {Exit(r, "usage")})
      \/ Readable /\ names # {} /\ Becomes(p, {s})
  BY DEF ReadForPin
<1> HIDE DEF r, names, s
<1>5. CASE Becomes(p, {Exit(r, "usage")}) \/ Becomes(p, {Exit(r, "lockfile")})
  BY <1>1, <1>2, <1>5, BecomesStep
<1>6. CASE Readable /\ names # {} /\ Becomes(p, {s})
  BY <1>1, <1>3, <1>6, BecomesStep
<1> QED BY <1>4, <1>5, <1>6

LEMMA ReadForProxyStep ==
    ASSUME IInv, NEW p \in Runs, ReadForProxy(p)
    PROVE  IInv'
<1> DEFINE r == run[p]
           names == Selected(r, file.servers)
           s == [Loaded(r, file.servers, names) EXCEPT !.pc = "session"]
<1>1. /\ r.pc = "read" /\ r.verb = "proxy" /\ UNCHANGED file /\ RunInv(r) /\ file \in Files
      /\ r \in Records
  BY DEF ReadForProxy, IInv, RunInv
<1>2. \A z \in {Exit(r, "usage"), Exit(r, "lockfile")} : RunInv(z) /\ Owned(z, file)
  BY <1>1, ReadFails
<1>3. ASSUME Readable
      PROVE  RunInv(s) /\ Owned(s, file)
  <2>1. file.servers \in Servers /\ file.state = "whole" /\ names \in SUBSET Range(Names)
    BY <1>1, <1>3, SelectedAreNames DEF Files, Readable, Parses
  <2>2. s = [r EXCEPT !.pc = "session", !.base = file.servers, !.lf = file.servers, !.todo = names, !.alone = TRUE]
    BY <1>1 DEF Loaded, Records
  <2>3. r.found = {} /\ r.worst = "ok" /\ ~r.cut /\ ~r.json
    BY <1>1 DEF RunInv, Placed
  <2> HIDE DEF r, names, s
  <2>4. /\ s \in Records /\ s.pc = "session" /\ s.verb = "proxy" /\ s.base = file.servers
        /\ s.found = {} /\ s.worst = "ok" /\ ~s.cut /\ ~s.json
    BY <1>1, <2>1, <2>2, <2>3 DEF Records
  <2> QED BY <2>1, <2>4 DEF RunInv, Placed, Left, Rewriting, Comparing, Owned
<1>4. \/ Becomes(p, {Exit(r, "lockfile")})
      \/ Becomes(p, {Exit(r, "usage")})
      \/ Readable /\ Becomes(p, {s})
  BY DEF ReadForProxy
<1> HIDE DEF r, names, s
<1>5. CASE Becomes(p, {Exit(r, "usage")}) \/ Becomes(p, {Exit(r, "lockfile")})
  BY <1>1, <1>2, <1>5, BecomesStep
<1>6. CASE Readable /\ Becomes(p, {s})
  BY <1>1, <1>3, <1>6, BecomesStep
<1> QED BY <1>4, <1>5, <1>6

\* A fetch that fails ends a run that has met no verdict, and says so.
LEMMA FetchFails ==
    ASSUME NEW r, RunInv(r), r.pc = "fetch", r.verb \in {"lock", "pin"}, NEW f, Owned(r, f),
           NEW code \in {"transport", "inadmissible"}, NEW s \in Finish(r, code) \union {Exit(r, code)}
    PROVE  RunInv(s) /\ Owned(s, f)
<1>1. code \in Codes \ {"ok"} /\ (r.alone => Kept(r, f))
  BY DEF Codes, Owned, Kept
<1>2. CASE s \in Finish(r, code)
  BY <1>1, <1>2, FinishesEarly
<1>3. CASE s = Exit(r, code)
  BY <1>1, <1>3, ExitsEarly
<1> QED BY <1>2, <1>3

LEMMA FetchForLockStep ==
    ASSUME IInv, NEW p \in Runs, FetchForLock(p)
    PROVE  IInv'
<1> DEFINE r == run[p]
<1>1. /\ r.pc = "fetch" /\ r.verb = "lock" /\ UNCHANGED file /\ RunInv(r) /\ Owned(r, file)
  BY DEF FetchForLock, IInv
<1>2. \A code \in {"transport", "inadmissible"} : \A s \in Finish(r, code) : RunInv(s) /\ Owned(s, file)
  BY <1>1, FetchFails
<1>3. \A raw \in RawSurfaces : Admissible(raw) =>
        RunInv(Renewed(r, Admit(raw))) /\ Owned(Renewed(r, Admit(raw)), file)
  BY <1>1, RenewedIsRight
<1>4. \/ \E code \in {"transport", "inadmissible"} : Becomes(p, Finish(r, code))
      \/ \E raw \in RawSurfaces : Admissible(raw) /\ Becomes(p, {Renewed(r, Admit(raw))})
  BY DEF FetchForLock
<1> HIDE DEF r
<1>5. CASE \E code \in {"transport", "inadmissible"} : Becomes(p, Finish(r, code))
  BY <1>1, <1>2, <1>5, BecomesStep
<1>6. CASE \E raw \in RawSurfaces : Admissible(raw) /\ Becomes(p, {Renewed(r, Admit(raw))})
  <2>1. PICK raw \in RawSurfaces : Admissible(raw) /\ Becomes(p, {Renewed(r, Admit(raw))})
    BY <1>6
  <2>2. \A s \in {Renewed(r, Admit(raw))} : RunInv(s) /\ Owned(s, file)
    BY <1>3, <2>1
  <2> QED BY <1>1, <2>1, <2>2, BecomesStep
<1> QED BY <1>4, <1>5, <1>6

LEMMA FetchForPinStep ==
    ASSUME IInv, NEW p \in Runs, FetchForPin(p)
    PROVE  IInv'
<1> DEFINE r == run[p]
<1>1. /\ r.pc = "fetch" /\ r.verb = "pin" /\ UNCHANGED file /\ RunInv(r) /\ Owned(r, file)
  BY DEF FetchForPin, IInv
<1>2. \A code \in {"transport", "inadmissible"} : RunInv(Exit(r, code)) /\ Owned(Exit(r, code), file)
  BY <1>1, FetchFails
<1>3. \A raw \in RawSurfaces : Admissible(raw) =>
        RunInv(Renewed(r, Admit(raw))) /\ Owned(Renewed(r, Admit(raw)), file)
  BY <1>1, RenewedIsRight
<1>4. \/ \E code \in {"transport", "inadmissible"} : Becomes(p, {Exit(r, code)})
      \/ \E raw \in RawSurfaces : Admissible(raw) /\ Becomes(p, {Renewed(r, Admit(raw))})
  BY DEF FetchForPin
<1> HIDE DEF r
<1>5. CASE \E code \in {"transport", "inadmissible"} : Becomes(p, {Exit(r, code)})
  <2>1. PICK code \in {"transport", "inadmissible"} : Becomes(p, {Exit(r, code)})
    BY <1>5
  <2>2. \A s \in {Exit(r, code)} : RunInv(s) /\ Owned(s, file)
    BY <1>2
  <2> QED BY <1>1, <2>1, <2>2, BecomesStep
<1>6. CASE \E raw \in RawSurfaces : Admissible(raw) /\ Becomes(p, {Renewed(r, Admit(raw))})
  <2>1. PICK raw \in RawSurfaces : Admissible(raw) /\ Becomes(p, {Renewed(r, Admit(raw))})
    BY <1>6
  <2>2. \A s \in {Renewed(r, Admit(raw))} : RunInv(s) /\ Owned(s, file)
    BY <1>3, <2>1
  <2> QED BY <1>1, <2>1, <2>2, BecomesStep
<1> QED BY <1>4, <1>5, <1>6

\* The comparison of an admitted surface with a locked entry says what the
\* rollups say.
LEMMA VerdictOfRollups ==
    ASSUME NEW e \in Entries, NEW raw \in RawSurfaces, Admissible(raw)
    PROVE  LET s == Admit(raw) IN
           Verdict(e, s) = IF SurfaceHash(s) = e.surfaceHash THEN "ok" ELSE "drift"
<1> DEFINE s == Admit(raw)
<1>1. WellFormed(e) /\ Validates(e)
  BY EntriesAreSound
<1>2. \A t, u \in s.tools : t.name = u.name => t = u
  <2>1. EntryFromSurface(s).tools = s.tools
    BY DEF EntryFromSurface
  <2>2. WellFormed(EntryFromSurface(s))
    BY AdmissionSound
  <2> QED BY <2>1, <2>2 DEF WellFormed
<1>3. Empty(Diff(e, s)) <=> SurfaceHash(s) = e.surfaceHash
  BY <1>1, <1>2, RollupDecides
<1> QED BY <1>3 DEF Verdict

LEMMA CompareStep ==
    ASSUME IInv, NEW p \in Runs, Compare(p)
    PROVE  IInv'
<1> DEFINE r == run[p]
           n == First(r.todo)
           verdict(raw) == Verdict(r.lf[n], Admit(raw))
           hash(raw) == SurfaceHash(Admit(raw))
<1>1. /\ r.pc = "fetch" /\ r.verb = "verify" /\ UNCHANGED file /\ RunInv(r) /\ Owned(r, file)
  BY DEF Compare, IInv
<1>2. \A code \in {"transport", "inadmissible"} : \A z \in Judged(r, code, <<>>) : RunInv(z) /\ Owned(z, file)
  <2>1. {"transport", "inadmissible"} \subseteq Codes
    BY DEF Codes
  <2> HIDE DEF r
  <2> QED BY <1>1, <2>1, JudgedIsRight
<1>3. ASSUME NEW raw \in RawSurfaces, Admissible(raw)
      PROVE  \A z \in Judged(r, verdict(raw), hash(raw)) : RunInv(z) /\ Owned(z, file)
  <2>1. r.lf[n] \in Entries
    <3>1. r \in Records /\ r.lf = r.base /\ r.todo # {} /\ r.todo \subseteq Selected(r, r.base)
      BY <1>1 DEF RunInv, Left, Comparing, Chosen
    <3>2. n \in r.todo
      BY <3>1, FirstIsOne DEF Records
    <3>3. n \in Present(r.lf) /\ r.lf \in Servers
      BY <3>1, <3>2 DEF Selected, Records
    <3> QED BY <3>3, EntriesAreSound
  <2>2. verdict(raw) = IF hash(raw) = r.lf[n].surfaceHash THEN "ok" ELSE "drift"
    BY <1>3, <2>1, VerdictOfRollups
  <2>3. verdict(raw) \in Codes /\ hash(raw) \in Hashes
    BY <1>3, <2>2 DEF Codes, Hashes
  <2> HIDE DEF r, verdict, hash
  <2> QED BY <1>1, <2>2, <2>3, JudgedIsRight DEF n
<1>4. \/ \E code \in {"transport", "inadmissible"} : Becomes(p, Judged(r, code, <<>>))
      \/ \E raw \in RawSurfaces : Admissible(raw) /\ Becomes(p, Judged(r, verdict(raw), hash(raw)))
  BY DEF Compare
<1> HIDE DEF r, n, verdict, hash
<1>5. CASE \E code \in {"transport", "inadmissible"} : Becomes(p, Judged(r, code, <<>>))
  BY <1>1, <1>2, <1>5, BecomesStep
<1>6. CASE \E raw \in RawSurfaces : Admissible(raw) /\ Becomes(p, Judged(r, verdict(raw), hash(raw)))
  BY <1>1, <1>3, <1>6, BecomesStep
<1> QED BY <1>4, <1>5, <1>6

\* The exit code of a session is the most serious of its flags.
LEMMA ProxyExitIsWorst ==
    ASSUME NEW flags \in SUBSET {"drift", "transport", "inadmissible"}
    PROVE  /\ ProxyExit(flags) \in Codes
           /\ flags # {} => ProxyExit(flags) \in flags
           /\ \A c \in flags : worse(ProxyExit(flags), c) = ProxyExit(flags)
<1>1. /\ Serious("drift") = 2 /\ Serious("transport") = 3 /\ Serious("inadmissible") = 4
      /\ {"ok", "drift", "transport", "inadmissible"} \subseteq Codes
  BY OutcomesRanked DEF Codes
<1>2. CASE "inadmissible" \in flags
  <2>1. ProxyExit(flags) = "inadmissible"
    BY <1>2 DEF ProxyExit
  <2> QED BY <1>1, <1>2, <2>1 DEF worse
<1>3. CASE "inadmissible" \notin flags /\ "transport" \in flags
  <2>1. ProxyExit(flags) = "transport"
    BY <1>3 DEF ProxyExit
  <2> QED BY <1>1, <1>3, <2>1 DEF worse
<1>4. CASE flags = {"drift"}
  <2>1. ProxyExit(flags) = "drift"
    BY <1>4 DEF ProxyExit
  <2> QED BY <1>1, <1>4, <2>1 DEF worse
<1>5. CASE flags = {}
  <2>1. ProxyExit(flags) = "ok"
    BY <1>5 DEF ProxyExit
  <2> QED BY <1>1, <1>5, <2>1
<1> QED BY <1>2, <1>3, <1>4, <1>5

LEMMA SessionStep ==
    ASSUME IInv, NEW p \in Runs, Session(p)
    PROVE  IInv'
<1> DEFINE r == run[p]
           ended(flags) == [Exit(r, ProxyExit(flags)) EXCEPT !.found = flags]
<1>1. /\ r.pc = "session" /\ r.verb = "proxy" /\ UNCHANGED file /\ RunInv(r) /\ Owned(r, file)
      /\ r \in Records /\ r.found = {} /\ ~r.cut /\ ~r.json /\ (r.alone => Kept(r, file))
  BY DEF Session, IInv, RunInv, Placed, Owned, Kept
<1>2. RunInv(Exit(r, "transport")) /\ Owned(Exit(r, "transport"), file)
  <2>1. "transport" \in Codes \ {"ok"}
    BY DEF Codes
  <2> HIDE DEF r
  <2> QED BY <1>1, <2>1, ExitsEarly
<1>3. ASSUME NEW flags \in SUBSET {"drift", "transport", "inadmissible"}
      PROVE  RunInv(ended(flags)) /\ Owned(ended(flags), file)
  <2> DEFINE e == Exit(r, ProxyExit(flags))
             s == ended(flags)
  <2>1. Ended(r, e) /\ e.exit = ProxyExit(flags) /\ ~e.cut /\ ~e.json
    BY <1>1, ExitEnds, ProxyExitIsWorst DEF Ended
  <2>2. s = [e EXCEPT !.found = flags] /\ flags \in SUBSET Codes
    BY DEF Codes
  <2> HIDE DEF e, s, r, ended
  <2>3. /\ s \in Records /\ s.pc = "done" /\ s.verb = "proxy" /\ s.found = flags
        /\ s.exit = ProxyExit(flags) /\ ~s.cut /\ ~s.json
    BY <1>1, <2>1, <2>2 DEF Records, Ended
  <2>4. flags # {} => WorstOf(s)
    BY <2>3, ProxyExitIsWorst DEF WorstOf
  <2>5. RunInv(s) /\ Owned(s, file)
    BY <2>3, <2>4 DEF RunInv, Placed, Left, Rewriting, Comparing, Owned
  <2> QED BY <2>5 DEF s
<1>4. \/ Becomes(p, {Exit(r, "transport")})
      \/ \E flags \in SUBSET {"drift", "transport", "inadmissible"} : Becomes(p, {ended(flags)})
  BY DEF Session
<1> HIDE DEF r, ended
<1>5. CASE Becomes(p, {Exit(r, "transport")})
  BY <1>1, <1>2, <1>5, BecomesStep
<1>6. CASE \E flags \in SUBSET {"drift", "transport", "inadmissible"} : Becomes(p, {ended(flags)})
  <2>1. PICK flags \in SUBSET {"drift", "transport", "inadmissible"} : Becomes(p, {ended(flags)})
    BY <1>6
  <2>2. \A s \in {ended(flags)} : RunInv(s) /\ Owned(s, file)
    BY <1>3
  <2> QED BY <1>1, <2>1, <2>2, BecomesStep
<1> QED BY <1>4, <1>5, <1>6

\* A run that could not write says so, by its report or without.
LEMMA WriteFails ==
    ASSUME NEW r, RunInv(r), r.pc \in {"truncate", "write"}, NEW s \in WriteFailed(r),
           NEW f, r.alone => Kept(r, f)
    PROVE  RunInv(s) /\ Owned(s, f)
<1>1. "lockfile" \in Codes \ {"ok"} /\ r.verb \in {"lock", "pin"}
  BY DEF Codes, RunInv, Placed
<1>2. CASE s \in Finish(r, "lockfile")
  BY <1>1, <1>2, FinishesEarly
<1>3. CASE s = Exit(r, "lockfile")
  BY <1>1, <1>3, ExitsEarly
<1> QED BY <1>2, <1>3 DEF WriteFailed

LEMMA WriteRefusedStep ==
    ASSUME IInv, NEW p \in Runs, WriteRefused(p)
    PROVE  IInv'
<1>1. /\ RunInv(run[p]) /\ run[p].pc = "truncate" /\ Becomes(p, WriteFailed(run[p])) /\ UNCHANGED file
      /\ run[p].alone => Kept(run[p], file)
  BY DEF WriteRefused, IInv, Owned, Kept
<1>2. \A s \in WriteFailed(run[p]) : RunInv(s) /\ Owned(s, file)
  BY <1>1, WriteFails
<1> QED BY <1>1, <1>2, BecomesStep

\* The file without its content is one of the files there can be.
LEMMA CutFiles ==
    \A state \in {"absent", "partial", "whole"} : [state |-> state, servers |-> NoServers] \in Files
BY DEF Files, NoServers, Servers

LEMMA TruncateStep ==
    ASSUME IInv, NEW p \in Runs, Truncate(p)
    PROVE  IInv'
<1> DEFINE r == run[p]
           s == [r EXCEPT !.pc = "write"]
<1>1. r.pc = "truncate" /\ RunInv(r) /\ r \in Records
  BY DEF Truncate, IInv, RunInv
<1>2. file' = [state |-> "partial", servers |-> NoServers] /\ run' = Touched(p, s)
  BY DEF Truncate
<1>3. file' \in Files /\ file'.state = "partial"
  BY <1>2, CutFiles
<1> HIDE DEF r
<1>4. /\ s \in Records /\ s.pc = "write" /\ s.verb = r.verb /\ s.name = r.name /\ s.base = r.base
      /\ s.lf = r.lf /\ s.todo = r.todo /\ s.observed = r.observed /\ s.found = r.found /\ s.cut = r.cut
  BY <1>1 DEF Records
<1> HIDE DEF s
<1>5. Chosen(s) = Chosen(r)
  BY <1>4 DEF Chosen, Selected
<1>6. RunInv(s)
  BY <1>1, <1>4, <1>5 DEF RunInv, Placed, Left, Rewriting, Changed, Comparing
<1>7. Owned(s, file')
  BY <1>3, <1>4 DEF Owned
<1> QED BY <1>2, <1>3, <1>6, <1>7, TouchStep

\* What was read is still there in what is written.
LEMMA ChangedKeeps ==
    ASSUME NEW r, Changed(r, {})
    PROVE  Present(r.base) \subseteq Present(r.lf)
<1> SUFFICES ASSUME NEW n \in Range(Names), r.base[n] # None
             PROVE  r.lf[n] # None
  BY DEF Present
<1> QED BY DEF Changed

LEMMA WriteStep ==
    ASSUME IInv, NEW p \in Runs, Write(p)
    PROVE  IInv'
<1> DEFINE r == run[p]
<1>1. /\ r.pc = "write" /\ RunInv(r) /\ Owned(r, file) /\ r \in Records /\ r.verb \in {"lock", "pin"}
      /\ r.todo = {} /\ Changed(r, r.todo)
  BY DEF Write, IInv, RunInv, Placed, Left, Rewriting
<1>2. file' \in Written(r.lf)
  BY DEF Write
<1>3. PICK s \in IF r.verb = "lock" THEN Finish(r, "ok") ELSE {Exit(r, "ok")} : run' = Touched(p, s)
  BY DEF Write
<1>4. r.lf \in Servers /\ [state |-> "whole", servers |-> r.lf] \in Files
  BY <1>1 DEF Records, Files
<1>5. file' \in Files /\ (r.alone => file' = [state |-> "whole", servers |-> r.lf])
  BY <1>1, <1>2, <1>4, CutFiles DEF Written, Owned
<1> HIDE DEF r
<1>6. Ended(r, s) /\ (r.verb = "pin" => s.exit = "ok")
  BY <1>1, <1>3, ExitEnds, FinishEnds DEF Codes
<1>7. Changed(s, {})
  BY <1>1, <1>6 DEF Ended, Changed, Chosen, Selected
<1>8. RunInv(s)
  BY <1>1, <1>6, <1>7 DEF Ended, RunInv, Placed, Left, Rewriting, Comparing
<1>9. Owned(s, file')
  <2>1. s.alone => file'.state = "whole" /\ file'.servers = s.lf
    BY <1>5, <1>6 DEF Ended
  <2>2. Present(s.base) \subseteq Present(s.lf)
    BY <1>7, ChangedKeeps
  <2> QED BY <1>6, <2>1, <2>2 DEF Ended, Owned
<1> QED BY <1>3, <1>5, <1>8, <1>9, TouchStep

LEMMA WriteCutStep ==
    ASSUME IInv, NEW p \in Runs, WriteCut(p)
    PROVE  IInv'
<1>1. /\ RunInv(run[p]) /\ run[p].pc = "write"
      /\ file' = [state |-> "partial", servers |-> NoServers] /\ Kept(run[p], file')
  BY DEF WriteCut, IInv, Kept
<1>2. PICK s \in WriteFailed(run[p]) : run' = Touched(p, s)
  BY DEF WriteCut
<1>3. RunInv(s) /\ Owned(s, file') /\ file' \in Files
  BY <1>1, WriteFails, CutFiles
<1> QED BY <1>2, <1>3, TouchStep

LEMMA KilledStep ==
    ASSUME IInv, NEW p \in Runs, Killed(p)
    PROVE  IInv'
<1> DEFINE s == [Idle EXCEPT !.pc = "killed"]
<1>1. run' = [run EXCEPT ![p] = s] /\ UNCHANGED file
  BY DEF Killed
<1>2. RunInv(s) /\ Owned(s, file)
  BY IdleIsRight
<1> HIDE DEF s
<1> QED BY <1>1, <1>2, OwnStep

LEMMA RestoreStep ==
    ASSUME IInv, Restore
    PROVE  IInv'
<1>1. /\ file.state = "partial" /\ UNCHANGED run
      /\ file' = [state |-> "absent", servers |-> NoServers]
      /\ \A p \in Runs : run[p].pc \in {"idle", "done", "killed"}
  BY DEF Restore
<1>2. file' \in Files
  BY <1>1, CutFiles
<1>3. \A p \in Runs : RunInv(run[p]) /\ Owned(run[p], file')
  BY <1>1 DEF IInv, Owned, Kept
<1> QED BY <1>1, <1>2, <1>3 DEF IInv

-----------------------------------------------------------------------------
(***************************************************************************)
(* Theorems.                                                               *)
(***************************************************************************)

LEMMA StepsPreserve ==
    ASSUME IInv, [Next]_vars
    PROVE  IInv'
<1>1. CASE UNCHANGED vars
  BY <1>1 DEF vars, IInv
<1>2. ASSUME NEW p \in Runs, Begin(p)
      PROVE  IInv'
  BY <1>2, BeginStep
<1>3. ASSUME NEW p \in Runs, ReadForLock(p) \/ ReadForCompare(p) \/ ReadForPin(p) \/ ReadForProxy(p)
      PROVE  IInv'
  BY <1>3, ReadForLockStep, ReadForCompareStep, ReadForPinStep, ReadForProxyStep
<1>4. ASSUME NEW p \in Runs, FetchForLock(p) \/ FetchForPin(p) \/ Compare(p) \/ Session(p)
      PROVE  IInv'
  BY <1>4, FetchForLockStep, FetchForPinStep, CompareStep, SessionStep
<1>5. ASSUME NEW p \in Runs, WriteRefused(p) \/ Truncate(p) \/ Write(p) \/ WriteCut(p)
      PROVE  IInv'
  BY <1>5, WriteRefusedStep, TruncateStep, WriteStep, WriteCutStep
<1>6. ASSUME NEW p \in Runs, Killed(p)
      PROVE  IInv'
  BY <1>6, KilledStep
<1>7. CASE Restore
  BY <1>7, RestoreStep
<1> QED BY <1>1, <1>2, <1>3, <1>4, <1>5, <1>6, <1>7 DEF Next

\* The invariant of the runs and the file: every record holds values of its
\* fields, every entry in a file or in a run's copy of it is an admitted
\* surface, and every run is where its verb can be.
THEOREM RunsInvariant == Spec => []IInv
<1>1. Init => IInv
  <2> SUFFICES ASSUME Init
               PROVE  IInv
    OBVIOUS
  <2>1. file \in Files
    BY CutFiles DEF Init
  <2>2. \A p \in Runs : run[p] = Idle
    BY DEF Init
  <2>3. \A p \in Runs : RunInv(run[p]) /\ Owned(run[p], file)
    BY <2>2, IdleIsRight
  <2>4. run \in [Runs -> Records]
    BY IdleFields DEF Init
  <2> QED BY <2>1, <2>3, <2>4 DEF IInv
<1>2. IInv /\ [Next]_vars => IInv'
  BY StepsPreserve
<1> QED BY <1>1, <1>2, PTL DEF Spec

\* The exit code of a run that gave verdicts is the most serious of them, in
\* whatever order they were met, or more serious for want of a report, and the
\* one in the report if there is one (main.go:516-519, :450, :577, json.go:125-141).
THEOREM WorstReported == Spec => []WorstIsReported
<1>1. IInv => WorstIsReported
  BY DEF IInv, RunInv, Comparing, WorstOf, WorstIsReported, Done
<1> QED BY <1>1, RunsInvariant, PTL

\* verify's tool by tool verdict on every selected entry is the one the two
\* rollup hashes call for, and no selected entry goes without one (main.go:516,
\* diff.go:82, surface.go:463).
THEOREM VerdictsAreRollups == Spec => []VerdictIsTheRollups
<1>1. IInv => VerdictIsTheRollups
  BY DEF IInv, RunInv, Comparing, Judgements, VerdictIsTheRollups, Done
<1> QED BY <1>1, RunsInvariant, PTL

\* A run that wrote changed the entries it selected, each to a surface it
\* fetched and admitted itself, and no other; a pin that failed left the file as
\* it read it, or cut short (main.go:303, :355, :369).
THEOREM OnlySelectedWritten == Spec => []WritesOnlySelected
<1>1. IInv => WritesOnlySelected
  <2> SUFFICES ASSUME IInv, NEW p \in Runs
               PROVE  LET r == run[p] IN
                      /\ Done(r, {"lock", "pin"}) /\ r.exit = "ok" =>
                          \A n \in Range(Names) :
                              IF n \in IF r.verb = "lock" THEN {r.name} ELSE Selected(r, r.base)
                              THEN r.lf[n] # None /\ r.lf[n].surfaceHash = r.observed[n]
                              ELSE r.lf[n] = r.base[n]
                      /\ Done(r, {"pin"}) /\ r.exit # "ok" /\ r.alone /\ Present(r.base) # {} => Kept(r, file)
    BY DEF WritesOnlySelected, Kept
  <2>1. Done(run[p], {"lock", "pin"}) /\ run[p].exit = "ok" => Changed(run[p], {})
    BY DEF IInv, RunInv, Rewriting, Done
  <2>2. /\ Done(run[p], {"pin"}) /\ run[p].exit # "ok" /\ run[p].alone /\ Present(run[p].base) # {}
        => Kept(run[p], file)
    BY DEF IInv, Owned, Done
  <2> QED BY <2>1, <2>2 DEF Changed, Chosen
<1> QED BY <1>1, RunsInvariant, PTL

\* As long as no other run touches the file, a run judges and replaces what it
\* read, never a file that was cut short, and loses no entry (main.go:274,
\* :300, :322).
THEOREM NothingLost == Spec => []NothingLostAlone
<1>1. IInv => NothingLostAlone
  BY DEF IInv, Owned, NothingLostAlone, Done
<1> QED BY <1>1, RunsInvariant, PTL

\* A file that was written to its end, by whichever run, can be read back
\* (surface.go:103, lockfile.go:142, :174, :255).
THEOREM FileSound == Spec => []FileIsSound
<1>1. IInv => FileIsSound
  <2> SUFFICES ASSUME IInv, file.state = "whole"
               PROVE  Readable
    BY DEF FileIsSound
  <2>1. file.servers \in Servers
    BY DEF IInv, Files
  <2>2. \A n \in Present(file.servers) : WellFormed(file.servers[n]) /\ Validates(file.servers[n])
    BY <2>1, EntriesAreSound
  <2> QED BY <2>2 DEF Readable, Parses
<1> QED BY <1>1, RunsInvariant, PTL

\* A text for the model that is held at a description place, in one version of
\* the tool and not in the other, is in its descriptions.
LEMMA RetoldIsDescribed ==
    ASSUME NEW o, NEW t, NEW q \in DescriptionPlaces,
           o.at[q] # t.at[q], {o.at[q], t.at[q]} \intersect Texts # {}
    PROVE  Descriptions(o) # Descriptions(t)
<1>1. Absent \notin Texts
  BY DEF Absent, Texts
<1>2. \A x : \A v \in Texts : <<q, v>> \in Descriptions(x) <=> x.at[q] = v
  <2> TAKE x
  <2> TAKE v \in Texts
  <2>1. <<q, v>> \in Held(x, DescriptionPlaces) <=> x.at[q] = v /\ x.at[q] # Absent
    <3>1. \A r \in DescriptionPlaces : <<q, v>> = <<r, x.at[r]>> <=> q = r /\ v = x.at[r]
      OBVIOUS
    <3> QED BY <3>1 DEF Held
  <2>2. <<q, v>>[2] \in Texts
    OBVIOUS
  <2> QED BY <1>1, <2>1, <2>2 DEF Descriptions
<1> QED BY <1>2

\* Instructions or a text for the model that are not the locked ones drift with
\* the highest severity, whatever else changed (SPEC.md 8, diff.go:64).
THEOREM PromptDrift == Spec => []PromptDriftIsWorst
<1>1. PromptDriftIsWorst
  <2> SUFFICES ASSUME NEW n \in Present(file.servers), NEW i \in {Absent, "text1"}, NEW x \in Versions,
                      NEW e, NEW s, e = file.servers[n],
                      s = [era |-> e.era, flow |-> e.flow, hInstr |-> i,
                           tools |-> {[name |-> o.name, at |-> x] : o \in e.tools}],
                      \/ e.hInstr # i
                      \/ \E o \in e.tools, q \in DescriptionPlaces :
                            o.at[q] # x[q] /\ {o.at[q], x[q]} \intersect Texts # {}
               PROVE  Severity(Diff(e, s)) = "description"
    BY DEF PromptDriftIsWorst
  <2>1. s.hInstr = i /\ s.tools = {[name |-> o.name, at |-> x] : o \in e.tools}
    OBVIOUS
  <2>2. CASE e.hInstr # i
    BY <2>1, <2>2, PromptDriftRanksFirst
  <2>3. CASE \E o \in e.tools, q \in DescriptionPlaces :
               o.at[q] # x[q] /\ {o.at[q], x[q]} \intersect Texts # {}
    <3>1. PICK o \in e.tools, q \in DescriptionPlaces :
                 o.at[q] # x[q] /\ {o.at[q], x[q]} \intersect Texts # {}
      BY <2>3
    <3> DEFINE t == [name |-> o.name, at |-> x]
    <3>2. t \in s.tools /\ t.name = o.name /\ t.at = x
      BY <2>1
    <3> HIDE DEF t
    <3>3. Descriptions(o) # Descriptions(t)
      BY <3>1, <3>2, RetoldIsDescribed
    <3> QED BY <3>2, <3>3, PromptDriftRanksFirst
  <2> QED BY <2>2, <2>3
<1> QED BY <1>1, PTL
=============================================================================
