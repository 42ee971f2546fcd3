------------------------------- MODULE Cleanup -------------------------------
(***************************************************************************)
(* CleanEmptyDirs of internal/backup/cleanup.go: from each path that was   *)
(* to be deleted upwards, directories that are empty are removed, within   *)
(* the directories of the scan.                                            *)
(*                                                                         *)
(* The module holds the directory tree the program works on (home, dirs)   *)
(* and the loop of each request; module Session deletes the files, starts  *)
(* the loops and lets other programs change the tree.                      *)
(***************************************************************************)
EXTENDS FiniteSets

CONSTANTS
    Paths,     \* the files of the tree
    Dirs,      \* its directories
    Up,        \* filepath.Dir; a topmost directory is its own
    Above,     \* all the directories a path lies in
    Bare,      \* "." and "/": with a separator appended, a prefix of nothing
    Contents,  \* what files hold
    Gone,      \* no content: there is no such file
    NoDir,     \* a loop that is at no directory
    Requests   \* the HTTP requests that may be served at the same time

ASSUME TreeAssumption ==
    /\ Paths \cap Dirs = {} /\ NoDir \notin Dirs
    /\ Up \in [Paths \cup Dirs -> Dirs]
    /\ Above \in [Paths \cup Dirs -> SUBSET Dirs]
    /\ \A x \in Paths \cup Dirs :
          /\ Above[x] = IF Up[x] = x THEN {} ELSE {Up[x]} \cup Above[Up[x]]
          /\ \A d \in Above[x] : /\ Above[d] \subseteq Above[x]
                                /\ \E e \in {x} \cup Above[x] : Up[e] = d /\ e # d
          /\ x \notin Above[x]
    /\ Bare \subseteq Dirs
    /\ Gone \notin Contents

VARIABLES
    home, dirs,   \* the tree: the content of each file, the directories there are
    c             \* the local variables of CleanEmptyDirs in each request

Entries(d) == {p \in Paths : home[p] # Gone /\ Up[p] = d}
              \cup {e \in dirs \ {d} : Up[e] = d}

\* A request whose loop has not begun or is over.
IdleLoop == [from |-> {}, bounds |-> {}, dir |-> NoDir, empty |-> FALSE,
             seen |-> {}, failed |-> {}]

\* withinBounds: the directory is a bound or starts with one and a separator.
Within(d, bounds) == d \in bounds \/ Above[d] \cap (bounds \ Bare) # {}

-----------------------------------------------------------------------------
\* The call, with the paths of the delete and the directories of the scan.
CleanStart(from, bounds) == [IdleLoop EXCEPT !.from = from, !.bounds = bounds]

\* The outer loop: from one of the paths on.
TakePath(q) ==
    /\ c[q].dir = NoDir
    /\ \E p \in c[q].from :
          c' = [c EXCEPT ![q].from = @ \ {p}, ![q].dir = Up[p]]
    /\ UNCHANGED <<home, dirs>>

\* "break", with an entry in failed or without.
Break(q, failed) ==
    c' = [c EXCEPT ![q].dir = NoDir, ![q].empty = FALSE, ![q].failed = @ \cup failed]

\* Wrong: the bounds are not looked at.
NotInteresting(q, d) == d \in c[q].seen

\* The directory was dealt with or lies outside.
Passed(q, d) == d \in c[q].seen \/ ~Within(d, c[q].bounds)

\* The checks of the inner loop, up to os.ReadDir.
Look(q) ==
    LET d == c[q].dir IN
    /\ d # NoDir /\ ~c[q].empty
    /\ IF Passed(q, d) THEN Break(q, {})
       ELSE IF d \notin dirs THEN Break(q, {d})
       ELSE IF Entries(d) # {} THEN Break(q, {})
       ELSE c' = [c EXCEPT ![q].empty = TRUE]
    /\ UNCHANGED <<home, dirs>>

\* Wrong: the inner loop ends with the first directory.
StopAtFirst(d) == TRUE

\* Nothing is above d.
Topmost(d) == Up[d] = d

\* os.Remove: it takes no directory that has entries by now, and neither "."
\* nor "/".
RemoveDir(q) ==
    LET d == c[q].dir IN
    /\ c[q].empty
    /\ IF d \in dirs \ Bare /\ Entries(d) = {}
       THEN /\ dirs' = dirs \ {d}
            /\ c' = [c EXCEPT ![q].dir = IF Topmost(d) THEN NoDir ELSE Up[d],
                              ![q].empty = FALSE, ![q].seen = @ \cup {d}]
       ELSE Break(q, {d}) /\ UNCHANGED dirs
    /\ UNCHANGED home

CleanStep(q) == TakePath(q) \/ Look(q) \/ RemoveDir(q)

\* os.ReadDir or os.Remove fails for another reason.
CleanError(q) ==
    LET d == c[q].dir IN
    /\ d # NoDir /\ (c[q].empty \/ ~Passed(q, d))
    /\ Break(q, {d})
    /\ UNCHANGED <<home, dirs>>

Cleaned(q) == c[q].dir = NoDir /\ c[q].from = {}

LoopType == [from : SUBSET Paths, bounds : SUBSET Dirs, dir : Dirs \cup {NoDir},
             empty : BOOLEAN, seen : SUBSET Dirs, failed : SUBSET Dirs]

CleanTypeOK ==
    /\ home \in [Paths -> Contents \cup {Gone}] /\ dirs \subseteq Dirs
    /\ c \in [Requests -> LoopType]
    /\ \A q \in Requests : c[q].empty => c[q].dir \in Dirs
=============================================================================
