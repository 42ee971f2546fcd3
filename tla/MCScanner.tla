------------------------------ MODULE MCScanner ------------------------------
(* Scanner on a small tree. *)
EXTENDS Scanner

CONSTANTS r, h, k, m, s, a, b, e, f, g, l, x, y, z

\* r holds the hidden directory h (with f), the locked directory k, the system
\* directory s (with g), the files a, b and e and the link l to f; m is missing.
MCChildren == [p \in Names |-> CASE p = r -> <<h, a, b, e, k, l, s>> [] p = h -> <<f>>
                                 [] p = s -> <<g>> [] OTHER -> <<>>]
MCAbove == [p \in Names |-> CASE p \in {r, m} -> {} [] p = f -> {h, r} [] p = g -> {s, r}
                              [] OTHER -> {r}]
MCKind == [p \in Names |-> CASE p \in {r, h, k, s} -> "dir" [] p = l -> "link"
                             [] p = m -> "missing" [] OTHER -> "file"]
MCTarget == [p \in Names |-> IF p = l THEN f ELSE p]
MCLength == [p \in Names |-> CASE p \in {a, b, l} -> 1 [] p \in {e, f} -> 2
                               [] p = g -> 2 [] OTHER -> 0]
\* All files of one length alike; not all; f, and with it l, and a cannot be read.
MCDigest == [p \in Names |-> IF p \in {a, b} THEN x ELSE y]
MCDigests == {MCDigest, [MCDigest EXCEPT ![b] = z],
              [MCDigest EXCEPT ![a] = NoHash, ![f] = NoHash]}
MCRootLists == {<<r>>, <<h, r>>, <<m, r, s>>}
=============================================================================
