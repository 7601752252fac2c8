-------------------------- MODULE MCConformanceGrade --------------------------
(* Servers for ConformanceGrade: every era over HTTP and stdio, with and       *)
(* without sessions and tools, of one era and of several.                      *)
EXTENDS ConformanceGrade

Server1(era, kind, tools, session, speaks, pages) ==
    [era |-> era, kind |-> kind, tools |-> tools, session |-> session,
     speaks |-> speaks, pages |-> pages]

Plain(era, kind, pages) == Server1(era, kind, TRUE, FALSE, {era}, pages)

MCTargets ==
    {Plain(era, "stdio", 1) : era \in {"2024-11-05", "2025-03-26", "2025-11-25", "2026-07-28"}}
    \cup {Plain(era, "http", 2) : era \in {"2024-11-05", "2026-07-28"}}
    \cup {Plain("2025-06-18", "http", 3)}
    \cup {Plain("2026-07-28", "http", 4)}
    \cup {Server1(era, "http", TRUE, TRUE, {era}, 2) : era \in {"2025-03-26", "2025-11-25"}}
    \cup {Server1("2025-11-25", "http", TRUE, FALSE, {"2025-11-25", "2026-07-28"}, 1),
          Server1("2026-07-28", "http", TRUE, FALSE, {"2024-11-05", "2026-07-28"}, 1),
          Server1("2026-07-28", "stdio", TRUE, FALSE, Range(Eras), 1),
          Server1("2025-06-18", "stdio", FALSE, FALSE, {"2025-06-18"}, 1),
          Server1("2025-06-18", "http", FALSE, FALSE, {"2025-06-18"}, 1),
          Server1("2026-07-28", "http", FALSE, FALSE, {"2026-07-28"}, 1)}

\* One server over stdio per kind of plan.
StdioTargets == {Plain(era, "stdio", 1) : era \in {"2025-11-25", "2026-07-28"}}

\* Servers without tools, of every era that runs over HTTP.
ToollessTargets == {Server1(era, "http", FALSE, FALSE, {era}, 1) : era \in Range(Eras)}
===============================================================================
