-------------------------- MODULE LockSurfaceProofs --------------------------
(***************************************************************************)
(* What the core package computes, for any raw surface, entry and tool:    *)
(* admission lets through only what the reader of the lockfile accepts,    *)
(* there is drift exactly where the rollup hashes differ, and a text for   *)
(* the model that changed is reported with the highest severity.           *)
(***************************************************************************)
EXTENDS LockSurface, TLAPS

\* The classes are ranked by their place.
LEMMA Ranks ==
    /\ Rank("description") = 1 /\ Severities[1] = "description"
    /\ \A class \in Range(Severities) : Rank(class) \in DOMAIN Severities
    /\ DOMAIN Severities = 1..6
<1>1. DOMAIN Severities = 1..6 /\ Severities[1] = "description"
  BY DEF Severities
<1>2. \A i \in 1..6 : Severities[i] = "description" => i = 1
  BY DEF Severities
<1>3. Rank("description") = 1
  BY <1>1, <1>2 DEF Rank
<1>4. \A class \in Range(Severities) : Rank(class) \in DOMAIN Severities
  BY DEF Rank, Range
<1> QED BY <1>1, <1>3, <1>4

\* Nothing ranks above a description.
LEMMA DescriptionIsWorst ==
    ASSUME NEW classes \in SUBSET Range(Severities), "description" \in classes
    PROVE  MostSevere(classes) = "description"
<1> DEFINE ranks == {Rank(c) : c \in classes}
<1>1. 1 \in ranks /\ \A r \in ranks : r \in 1..6
  BY Ranks
<1>2. \A r \in ranks : 1 <= r
  BY <1>1
<1>3. Min(ranks) \in ranks /\ \A r \in ranks : Min(ranks) <= r
  BY <1>1, <1>2 DEF Min
<1> HIDE DEF ranks
<1>4. Min(ranks) = 1
  BY <1>1, <1>3
<1>5. MostSevere(classes) = Severities[Min(ranks)]
  BY DEF MostSevere, ranks
<1> QED BY <1>4, <1>5, Ranks

\* The classes of a tool's drift are classes.
LEMMA ClassesOfTool ==
    ASSUME NEW o, NEW n
    PROVE  /\ ClassifyTool(o, n) \subseteq Range(Severities)
           /\ Descriptions(o) # Descriptions(n) <=> "description" \in ClassifyTool(o, n)
<1>1. {"description", "schema", "metadata"} \subseteq Range(Severities)
  <2>1. Severities[1] = "description" /\ Severities[2] = "schema" /\ Severities[4] = "metadata"
    BY DEF Severities
  <2> QED BY <2>1, Ranks DEF Range
<1>2. ClassifyTool(o, n) \subseteq {"description", "schema", "metadata"}
  BY DEF ClassifyTool
<1>3. Descriptions(o) # Descriptions(n) <=> "description" \in ClassifyTool(o, n)
  BY DEF ClassifyTool
<1> QED BY <1>1, <1>2, <1>3

-----------------------------------------------------------------------------

\* What admission lets through, the reader's own shape and hash checks let
\* through: an entry made of an admitted surface is never refused when the
\* lockfile is read (surface.go:103, lockfile.go:174, :255).
THEOREM AdmissionSound ==
    ASSUME NEW raw, Admissible(raw)
    PROVE  /\ WellFormed(EntryFromSurface(Admit(raw)))
           /\ Validates(EntryFromSurface(Admit(raw)))
<1> DEFINE e == EntryFromSurface(Admit(raw))
<1>1. /\ e.era = raw.era /\ e.flow = raw.flow
      /\ e.tools = {[name |-> Served(raw, x).name, at |-> Served(raw, x).at] : x \in Spots(raw)}
  BY DEF EntryFromSurface, Admit
<1>2. Validates(e)
  BY DEF Validates, EntryFromSurface, SurfaceHash
<1>3. \A x \in Spots(raw) : ProperName(Served(raw, x).name)
  BY DEF Spots, Served, Admissible, AdmissiblePage, AdmissibleTool, Hashable
<1>4. \A x, y \in Spots(raw) : Served(raw, x).name = Served(raw, y).name => x = y
  BY DEF Admissible, Unambiguous
<1> HIDE DEF e
<1>5. \A t \in e.tools : ProperName(t.name)
  BY <1>1, <1>3
<1>6. \A t, u \in e.tools : t.name = u.name => t = u
  BY <1>1, <1>4
<1>7. WellFormed(e)
  BY <1>1, <1>5, <1>6 DEF WellFormed, Admissible
<1> QED BY <1>2, <1>7 DEF e

\* Diff is empty exactly when the surface has the hash that is locked: verify's
\* tool by tool comparison and the rollup never disagree (diff.go:79,
\* surface.go:463).
THEOREM RollupDecides ==
    ASSUME NEW e, NEW s, WellFormed(e), Validates(e),
           \A t, u \in s.tools : t.name = u.name => t = u
    PROVE  Empty(Diff(e, s)) <=> SurfaceHash(s) = e.surfaceHash
<1> DEFINE d == Diff(e, s)
<1>1. /\ d.era <=> e.era # s.era
      /\ d.instructions <=> e.hInstr # s.hInstr
  BY DEF Diff
<1>2. e.surfaceHash = <<e.era, e.hInstr, e.tools>>
  BY DEF Validates, SurfaceHash
<1>3. SurfaceHash(s) = e.surfaceHash <=> s.era = e.era /\ s.hInstr = e.hInstr /\ s.tools = e.tools
  BY <1>2 DEF SurfaceHash
<1>4. d.tools = {} <=> s.tools = e.tools
  <2> DEFINE gone == {t \in e.tools : Named(s.tools, t.name) = {}}
             changed == {y \in e.tools \X s.tools : y[1].name = y[2].name /\ y[1] # y[2]}
             new == {t \in s.tools : Named(e.tools, t.name) = {}}
  <2>1. d.tools = {[name |-> o.name, classes |-> {"removed"}] : o \in gone}
                    \union {[name |-> x[1].name, classes |-> ClassifyTool(x[1], x[2])] : x \in changed}
                    \union {[name |-> n.name, classes |-> {"added"}] : n \in new}
    BY DEF Diff
  <2> HIDE DEF d
  <2>2. d.tools = {} <=> gone = {} /\ changed = {} /\ new = {}
    <3> HIDE DEF gone, changed, new
    <3> QED BY <2>1
  <2>3. gone = {} <=> \A o \in e.tools : \E n \in s.tools : n.name = o.name
    BY DEF Named
  <2>4. new = {} <=> \A n \in s.tools : \E o \in e.tools : o.name = n.name
    BY DEF Named
  <2>5. changed = {} <=> \A o \in e.tools, n \in s.tools : o.name = n.name => o = n
    <3>1. ASSUME changed = {}, NEW o \in e.tools, NEW n \in s.tools, o.name = n.name
          PROVE  o = n
      <4>1. <<o, n>> \in e.tools \X s.tools /\ <<o, n>>[1] = o /\ <<o, n>>[2] = n
        OBVIOUS
      <4> QED BY <3>1, <4>1
    <3>2. ASSUME \A o \in e.tools, n \in s.tools : o.name = n.name => o = n
          PROVE  changed = {}
      <4>1. \A y \in e.tools \X s.tools : y[1] \in e.tools /\ y[2] \in s.tools
        OBVIOUS
      <4> QED BY <3>2, <4>1
    <3> QED BY <3>1, <3>2
  <2>6. \A t, u \in e.tools : t.name = u.name => t = u
    BY DEF WellFormed
  <2> HIDE DEF gone, changed, new
  <2>7. ASSUME d.tools = {}
        PROVE  s.tools = e.tools
    <3>1. \A o \in e.tools : o \in s.tools
      BY <2>2, <2>3, <2>5, <2>7
    <3>2. \A n \in s.tools : n \in e.tools
      BY <2>2, <2>4, <2>5, <2>7
    <3> QED BY <3>1, <3>2
  <2>8. ASSUME s.tools = e.tools
        PROVE  d.tools = {}
    BY <2>2, <2>3, <2>4, <2>5, <2>6, <2>8
  <2> QED BY <2>7, <2>8
<1> QED BY <1>1, <1>3, <1>4 DEF Empty

\* Other instructions than the locked ones, or other texts in a tool that is
\* still there, drift with the highest severity, whatever else changed
\* (diff.go:64, SPEC.md 8).
THEOREM PromptDriftRanksFirst ==
    ASSUME NEW e, NEW s,
           \/ e.hInstr # s.hInstr
           \/ \E o \in e.tools, n \in s.tools :
                o.name = n.name /\ Descriptions(o) # Descriptions(n)
    PROVE  Severity(Diff(e, s)) = "description"
<1> DEFINE d == Diff(e, s)
           kinds == UNION {t.classes : t \in d.tools}
           all == (IF d.instructions THEN {"description"} ELSE {})
                    \union (IF d.era THEN {"era"} ELSE {}) \union kinds
<1>1. {"description", "era", "removed", "added"} \subseteq Range(Severities)
  <2>1. Severities[1] = "description" /\ Severities[3] = "era"
        /\ Severities[5] = "removed" /\ Severities[6] = "added"
    BY DEF Severities
  <2> QED BY <2>1, Ranks DEF Range
<1>2. \A t \in d.tools : t.classes \subseteq Range(Severities)
  BY <1>1, ClassesOfTool DEF Diff
<1>3. all \in SUBSET Range(Severities)
  BY <1>1, <1>2
<1>4. "description" \in all
  <2>1. CASE e.hInstr # s.hInstr
    BY <2>1 DEF Diff
  <2>2. CASE \E o \in e.tools, n \in s.tools :
               o.name = n.name /\ Descriptions(o) # Descriptions(n)
    <3>1. PICK o \in e.tools, n \in s.tools :
                 o.name = n.name /\ Descriptions(o) # Descriptions(n)
      BY <2>2
    <3>2. o # n /\ "description" \in ClassifyTool(o, n)
      BY <3>1, ClassesOfTool
    <3>3. <<o, n>> \in {y \in e.tools \X s.tools : y[1].name = y[2].name /\ y[1] # y[2]}
      BY <3>1, <3>2
    <3>4. [name |-> o.name, classes |-> ClassifyTool(o, n)] \in d.tools
      BY <3>3 DEF Diff
    <3> QED BY <3>2, <3>4
  <2> QED BY <2>1, <2>2
<1>5. Severity(d) = MostSevere(all)
  BY DEF Severity
<1> HIDE DEF all
<1> QED BY <1>3, <1>4, <1>5, DescriptionIsWorst
=============================================================================
