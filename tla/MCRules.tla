------------------------------ MODULE MCRules ------------------------------
(* Rules on a small instance. *)
EXTENDS Rules

MCSymbol == {"/", "keep", "docs", "a", "b", "c"}

\* In path order; Names gives their base names.
Plain == <<<<"docs", "/", "a">>, <<"keep", "/", "a">>, <<"keep", "/", "b">>,
           <<"keep", "/", "c">>>>
Names == <<<<Text, 1, Dot, 9, Dot, Text>>, <<Text>>, <<1, Dot, 10, Dot, 0>>,
           <<Text, 1, Dot, 10, Text, 7>>>>

MCPathPlain == {Plain[i] : i \in 1..4}
MCRankPlain == [p \in MCPathPlain |-> CHOOSE i \in 1..4 : Plain[i] = p]
MCBasePlain == [p \in MCPathPlain |-> Names[CHOOSE i \in 1..4 : Plain[i] = p]]

MCDirs == {<<"keep">>, <<"docs">>}
Keys == {"keepDirs", "latest", "earliest", "version", "other"}
MCPriorities == {<<>>} \cup {<<k>> : k \in Keys}
                \cup {p \in (Keys \ {"other"}) \X (Keys \ {"other"}) : p[1] # p[2]}
=============================================================================
