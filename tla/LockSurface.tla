---------------------------- MODULE LockSurface ----------------------------
(***************************************************************************)
(* The core package as operators: admission of what a server served        *)
(* (surface.go), the lockfile entry made of it and its validation          *)
(* (lockfile.go), and the classification of drift (diff.go).               *)
(*                                                                         *)
(* A tool object is its name and what it holds at the places a client      *)
(* reads; a hash is the value it is taken of.  What only an encoding can   *)
(* be guilty of (UTF-8, duplicate keys, case variants, types, names with   *)
(* control characters) is one flaw of the page or tool that has it.        *)
(***************************************************************************)
EXTENDS Integers, Sequences, FiniteSets, FiniteSetsExt, Functions

CONSTANTS
    MaxTools,  \* lim.MaxTools
    MaxPages,  \* lim.MaxPages
    MaxBytes   \* lim.MaxSurfaceBytes; each tool has a size in these units

ASSUME LimitsAssumption == {MaxTools, MaxPages, MaxBytes} \subseteq Nat \ {0}

Texts == {"text1", "text2"}
Absent == "absent"
Null == "null"

\* The places of a tool object: members of the object and, after a slash, of
\* the object held there.
DescriptionPlaces == {"description", "inputSchema/description", "annotations/description"}
SchemaPlaces == {"inputSchema", "inputSchema/description", "outputSchema"}
AnnotationPlaces == {"annotations", "annotations/description"}
OtherPlaces == {"description", "title", "other"}
Places == DescriptionPlaces \union SchemaPlaces \union AnnotationPlaces \union OtherPlaces

-----------------------------------------------------------------------------
(***************************************************************************)
(* Admission.  A raw surface is an era (or one that is no name), a flow,   *)
(* instructions, and pages of raw tools; a flaw is "none" where it has none. *)
(***************************************************************************)

\* No two keys that a case-folding reader would take for one, and no variant of
\* a key that is read by its exact spelling.
Unaliased(t) == t.flaw # "aliased"

\* Names, and eras: not empty, not too long, of no control characters.
ProperName(n) == n \notin {"empty", "control"}

\* A tool that can be hashed: an object of the right types, too.
Hashable(t) == Unaliased(t) /\ ProperName(t.name) /\ t.flaw \notin {"encoding", "type"}

\* Admission also bounds the tool's size, which the stored one is not held to.
AdmissibleTool(t) == Hashable(t) /\ t.flaw # "big"

AdmissiblePage(p) == p.flaw = "none" /\ \A i \in DOMAIN p.tools : AdmissibleTool(p.tools[i])

\* Where the tools of a surface are: a page and a position on it.
Spots(raw) == UNION {{i} \X DOMAIN raw.pages[i].tools : i \in DOMAIN raw.pages}

Served(raw, x) == raw.pages[x[1]].tools[x[2]]

\* No name is served twice, on one page or on two.
Unambiguous(raw) ==
    \A x, y \in Spots(raw) : Served(raw, x).name = Served(raw, y).name => x = y

Bytes(raw) == MapThenSumSet(LAMBDA x : Served(raw, x).size, Spots(raw))

AdmissibleAmbiguous(raw) == \* Fault: a name served twice is kept twice
    /\ ProperName(raw.era)
    /\ raw.flow \in {"unset", "stateless", "classic"}
    /\ raw.instructions # "flawed"
    /\ Len(raw.pages) <= MaxPages
    /\ \A i \in DOMAIN raw.pages : AdmissiblePage(raw.pages[i])
    /\ Cardinality(Spots(raw)) <= MaxTools
    /\ Bytes(raw) <= MaxBytes

Admissible(raw) ==
    /\ ProperName(raw.era)
    /\ raw.flow \in {"unset", "stateless", "classic"}
    /\ raw.instructions # "flawed"
    /\ Len(raw.pages) <= MaxPages
    /\ \A i \in DOMAIN raw.pages : AdmissiblePage(raw.pages[i])
    /\ Cardinality(Spots(raw)) <= MaxTools
    /\ Unambiguous(raw)
    /\ Bytes(raw) <= MaxBytes

\* The admitted surface: null instructions are absent ones, the tools are in no
\* order but their names', and a tool is what it says.
Admit(raw) ==
    [era |-> raw.era, flow |-> raw.flow,
     hInstr |-> IF raw.instructions = Null THEN Absent ELSE raw.instructions,
     tools |-> {[name |-> Served(raw, x).name, at |-> Served(raw, x).at] : x \in Spots(raw)}]

\* The rollup binds the era, the instructions and every tool, and nothing else.
SurfaceHash(s) == <<s.era, s.hInstr, s.tools>>

-----------------------------------------------------------------------------
(***************************************************************************)
(* Lockfile entries.                                                       *)
(***************************************************************************)

EntryFromSurface(s) ==
    [era |-> s.era, flow |-> s.flow, hInstr |-> s.hInstr, tools |-> s.tools,
     surfaceHash |-> SurfaceHash(s)]

\* What Parse asks of an entry: proper names, a flow it knows, the tools sorted
\* strictly, so that a name is there once.
WellFormed(e) ==
    /\ ProperName(e.era)
    /\ e.flow \in {"unset", "stateless", "classic"}
    /\ \A t \in e.tools : ProperName(t.name)
    /\ \A t, u \in e.tools : t.name = u.name => t = u

\* The hashes stored are those of what is stored beside them.
Validates(e) == e.surfaceHash = SurfaceHash(e)

-----------------------------------------------------------------------------
(***************************************************************************)
(* Drift.                                                                  *)
(***************************************************************************)

\* Most severe first.
Severities == <<"description", "schema", "era", "metadata", "removed", "added">>

Rank(class) == CHOOSE i \in DOMAIN Severities : Severities[i] = class

MostSevere(classes) == Severities[Min({Rank(c) : c \in classes})]

\* What a tool object holds at some of its places.
Held(t, places) == {<<p, t.at[p]>> : p \in {q \in places : t.at[q] # Absent}}

\* Fault: only the top-level description is prompt text.
DescriptionsOnTop(t) == {x \in Held(t, {"description"}) : x[2] \in Texts}

\* Every text whose key is "description", wherever it is.
Descriptions(t) == {x \in Held(t, DescriptionPlaces) : x[2] \in Texts}

\* The contract: schemas without their description texts, and the annotations
\* with theirs.  A member that is null reads as one that is missing.
Contract(t) ==
    {x \in (Held(t, SchemaPlaces) \ Descriptions(t)) \union Held(t, AnnotationPlaces) :
        x \notin {"inputSchema", "outputSchema", "annotations"} \X {Null}}

Residual(t) == Held(t, OtherPlaces) \ Descriptions(t)

\* The classes of the drift between two versions of a tool; they differ, so
\* there is always one.
ClassifyTool(o, n) ==
    LET classes == (IF Descriptions(o) # Descriptions(n) THEN {"description"} ELSE {})
                     \union (IF Contract(o) # Contract(n) THEN {"schema"} ELSE {})
                     \union (IF Residual(o) # Residual(n) THEN {"metadata"} ELSE {})
    IN IF classes = {} THEN {"metadata"} ELSE classes

Named(tools, name) == {t \in tools : t.name = name}

\* Fault: a tool the lock does not know is no drift.
DiffKnown(e, s) ==
    [era |-> e.era # s.era,
     instructions |-> e.hInstr # s.hInstr,
     tools |->
        {[name |-> o.name, classes |-> {"removed"}] :
            o \in {t \in e.tools : Named(s.tools, t.name) = {}}}
        \union {[name |-> x[1].name, classes |-> ClassifyTool(x[1], x[2])] :
            x \in {y \in e.tools \X s.tools : y[1].name = y[2].name /\ y[1] # y[2]}}]

\* Old tools that are gone or changed, then new ones, by name.
Diff(e, s) ==
    [era |-> e.era # s.era,
     instructions |-> e.hInstr # s.hInstr,
     tools |->
        {[name |-> o.name, classes |-> {"removed"}] :
            o \in {t \in e.tools : Named(s.tools, t.name) = {}}}
        \union {[name |-> x[1].name, classes |-> ClassifyTool(x[1], x[2])] :
            x \in {y \in e.tools \X s.tools : y[1].name = y[2].name /\ y[1] # y[2]}}
        \union {[name |-> n.name, classes |-> {"added"}] :
            n \in {t \in s.tools : Named(e.tools, t.name) = {}}}]

Empty(d) == ~d.era /\ ~d.instructions /\ d.tools = {}

Severity(d) ==
    MostSevere((IF d.instructions THEN {"description"} ELSE {})
               \union (IF d.era THEN {"era"} ELSE {})
               \union UNION {t.classes : t \in d.tools})
=============================================================================
