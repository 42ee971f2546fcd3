------------------------------ MODULE MCBackup ------------------------------
(* Backup on small instances; the .cfg files choose among these values. *)
EXTENDS Backup

CONSTANTS s1, s2, h1, h2

\* Duplicates often share their base name.
MCBase == [s \in Source |-> "x"]
MCBatches == {<<s1, s2>>, <<s2>>}
OnlyFirst == {<<s1>>}
=============================================================================
