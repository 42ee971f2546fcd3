-------------------------------- MODULE Vault --------------------------------
(***************************************************************************)
(* What internal/backup promises of the disk, without requests, renames    *)
(* that fail, manifests or time: contents have names; a content gets a     *)
(* name that is free, by a rename or through an incomplete copy, loses one *)
(* only where it has another, and goes for good only when that was asked   *)
(* for.  A name in use never changes what it holds, but for a copy that    *)
(* gets complete and for a content that was overlooked: a restore that     *)
(* cannot look at a path takes it for free.  Module Backup implements      *)
(* this.                                                                   *)
(***************************************************************************)

CONSTANTS
    Home,     \* the paths of the files, each its own content
    Name,     \* these and the names in backup and trash
    Torn,     \* an incomplete copy
    Foreign   \* what other programs write

VARIABLES
    holds,       \* from the names in use to contents
    givenUp,     \* what was deleted for good
    overlooked   \* what was not seen where it is

vars == <<holds, givenUp, overlooked>>

With(f, q, c) == [r \in DOMAIN f \cup {q} |-> IF r = q THEN c ELSE f[r]]
Without(f, p) == [r \in DOMAIN f \ {p} |-> f[r]]

\* A name that may be taken: one not in use, or a path whose file was overlooked.
Free(q) == q \in Name /\ (q \in DOMAIN holds => q \in Home /\ holds[q] \in overlooked)

Init == holds = [s \in Home |-> s] /\ givenUp = {} /\ overlooked = {}

\* os.Rename to a name that is free.
Move(p, q) ==
    /\ p \in DOMAIN holds /\ Free(q)
    /\ holds' = With(Without(holds, p), q, holds[p])
    /\ UNCHANGED <<givenUp, overlooked>>

\* os.Create of a name that is free.
Create(q) ==
    /\ Free(q) /\ holds' = With(holds, q, Torn)
    /\ UNCHANGED <<givenUp, overlooked>>

\* The copy is complete: of what still has a name, was given up or overwritten under
\* the copy, or came from outside.
Fill(q, c) ==
    /\ q \in DOMAIN holds /\ holds[q] = Torn
    /\ c \in {holds[p] : p \in DOMAIN holds} \cup givenUp \cup overlooked \cup {Foreign}
    /\ holds' = With(holds, q, c)
    /\ UNCHANGED <<givenUp, overlooked>>

\* os.Remove of a file of which there is another copy.
Drop(p, q) ==
    /\ p \in DOMAIN holds /\ q \in DOMAIN holds \ {p} /\ holds[p] = holds[q]
    /\ holds' = Without(holds, p)
    /\ UNCHANGED <<givenUp, overlooked>>

\* A deletion for good, by the program or by another.
GiveUp(p) ==
    /\ p \in DOMAIN holds
    /\ holds' = Without(holds, p) /\ givenUp' = givenUp \cup {holds[p]}
    /\ UNCHANGED overlooked

\* What a name holds is not seen.
Overlook(p) ==
    /\ p \in DOMAIN holds /\ overlooked' = overlooked \cup {holds[p]}
    /\ UNCHANGED <<holds, givenUp>>

\* Another program creates a file.
Arrive(p) ==
    /\ p \in Home \ DOMAIN holds /\ holds' = With(holds, p, Foreign)
    /\ UNCHANGED <<givenUp, overlooked>>

\* A step is about names that are in use before it or after it.
Next ==
    \/ \E p \in DOMAIN holds : GiveUp(p) \/ Overlook(p) \/ \E q \in DOMAIN holds : Drop(p, q)
    \/ \E q \in DOMAIN holds' :
          \/ \E p \in DOMAIN holds : Move(p, q) \/ Fill(q, holds[p])
          \/ \E c \in givenUp \cup overlooked \cup {Foreign} : Fill(q, c)
          \/ Create(q) \/ Arrive(q)

Spec == Init /\ [][Next]_vars
==============================================================================
