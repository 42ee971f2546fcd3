------------------------------- MODULE MCTask -------------------------------
(* Task on small instances; the .cfg files choose among these values. *)
EXTENDS Task, TLC

CONSTANTS f1, f2, f3, f4, f5, a, b, c, empty, sha, md5, bogus, r1, r2

MCSize == [x \in Contents |-> CASE x = empty -> 0 [] x = c -> 2 [] OTHER -> 1]
MCDigest == [p \in Algos \X Contents |-> p]
MCHashes == Algos \X Contents
\* The roots overlap: f1 is below both.
MCUnder == [r \in Roots |-> IF r = r1 THEN Files ELSE {f1}]
Interchangeable == Permutations(Files \ {f1}) \cup Permutations(Contents \cap {a, b})

Existing == {f \in Files : fs[f] # Gone}
OfSize2 == {f \in Existing : fs[f].content = c}
\* Two files of one size are followed through two scans, an edit and a kill; four, two
\* of each size, through one scan that only the buttons and failing reads disturb.
Followed ==
    \/ Cardinality(Existing) <= 2 /\ OfSize2 = {}
    \/ /\ Cardinality(Existing) = 4 /\ Cardinality(OfSize2) = 2
       /\ scans <= 1 /\ edits = 0 /\ kills = 0
=============================================================================
