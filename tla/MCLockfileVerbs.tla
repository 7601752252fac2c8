-------------------------- MODULE MCLockfileVerbs --------------------------
(***************************************************************************)
(* Values for LockfileVerbs: two entries, one over HTTP and one over       *)
(* stdio; a first process that runs any command line over and over, a      *)
(* second that writes the same file; and surfaces that differ from one     *)
(* another in the ways admission and classification tell apart.            *)
(***************************************************************************)
EXTENDS LockfileVerbs

MCNames == <<"a", "b">>
MCTransport == [n \in {"a", "b"} |-> IF n = "a" THEN "http" ELSE "stdio"]

Call(verb, json, name, headers) == [verb |-> verb, json |-> json, name |-> name, headers |-> headers]

MCInvocations ==
    [p \in {"p1", "p2"} |->
        IF p = "p1"
        THEN {Call("lock", TRUE, "b", "none"), Call("verify", TRUE, "all", "none"),
              Call("verify", TRUE, "all", "valid"), Call("verify", FALSE, "a", "none"),
              Call("pin", FALSE, "all", "none"), Call("pin", TRUE, "all", "none"),
              Call("proxy", FALSE, "all", "none"), Call("verify", TRUE, "a", "unset")}
        ELSE {Call("lock", FALSE, "a", "none")}]

At == [q \in Places |-> CASE q \in {"description", "inputSchema/description", "title"} -> "text1"
                          [] q \in {"inputSchema", "annotations"} -> "body1"
                          [] OTHER -> Absent]
Tool(name, at) == [name |-> name, at |-> at, flaw |-> "none", size |-> 1]
Page(tools) == [flaw |-> "none", tools |-> tools]
Raw(era, flow, instructions, pages) ==
    [era |-> era, flow |-> flow, instructions |-> instructions, pages |-> pages]

T == Tool("t", At)

MCRawSurfaces == {
    Raw("e1", "stateless", "text1", <<Page(<<T>>)>>),
    \* a second page brings another tool
    Raw("e1", "stateless", "text1", <<Page(<<T>>), Page(<<Tool("u", At)>>)>>),
    \* a text in a schema changes, and a null is where there was nothing
    Raw("e1", "stateless", "text1",
        <<Page(<<Tool("t", [At EXCEPT !["inputSchema/description"] = "text2", !["outputSchema"] = Null])>>)>>),
    \* another era, no instructions
    Raw("e2", "classic", Null, <<Page(<<T>>)>>),
    \* more than the caps allow, and a second page no decoder agrees on
    Raw("e1", "classic", "text1", <<Page(<<T, Tool("u", At)>>), Page(<<Tool("v", At)>>)>>),
    Raw("e1", "classic", "text1", <<Page(<<T>>), [Page(<<>>) EXCEPT !.flaw = "duplicate key"]>>),
    \* tools that are not admitted, an era that is no name
    Raw("e1", "classic", "text1", <<Page(<<[T EXCEPT !.flaw = "aliased"]>>)>>),
    Raw("e1", "classic", "text1", <<Page(<<Tool("control", At)>>)>>),
    Raw("control", "classic", "text1", <<Page(<<T>>)>>),
    \* the audited tool shadowed by another of its name on the next page
    Raw("e1", "stateless", "text1",
        <<Page(<<T>>), Page(<<Tool("t", [At EXCEPT !["description"] = "text2"])>>)>>)}

\* What a tool may hold; a text inside an object only where there is the object.
MCVersions ==
    LET schemas == {<<"body1", Absent>>, <<"body1", "text1">>, <<"body1", "text2">>,
                    <<"body2", "text1">>, <<Null, Absent>>}
        annotations == {<<Absent, Absent>>, <<Null, Absent>>, <<"body1", Absent>>, <<"body1", "text1">>}
    IN {[q \in Places |-> CASE q = "description" -> d
                             [] q = "title" -> t
                             [] q = "inputSchema" -> i[1]
                             [] q = "inputSchema/description" -> i[2]
                             [] q = "outputSchema" -> o
                             [] q = "annotations" -> a[1]
                             [] q = "annotations/description" -> a[2]
                             [] OTHER -> Absent] :
            d \in {"text1", "text2"}, t \in {Absent, "text1"}, i \in schemas,
            o \in {Absent, Null}, a \in annotations}
=============================================================================
