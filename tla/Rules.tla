------------------------------- MODULE Rules -------------------------------
(***************************************************************************)
(* internal/rules/rules.go: which file of a duplicate group is kept.       *)
(* Apply goes through the rules in their priority and shrinks the          *)
(* candidates; the first in path order of what is left is kept, every      *)
(* other file of the group is deleted.                                     *)
(*                                                                         *)
(* The module runs Apply on a group and then, with the same rules, on what *)
(* a later scan finds after only some of the deletions succeeded.          *)
(*                                                                         *)
(* A path is a sequence of symbols, the separator Sep among them, and Rank *)
(* is Go's order of strings.  Base[p] is the base name of p cut into its   *)
(* maximal digit runs (numbers), dots and other text.                      *)
(***************************************************************************)
EXTENDS Integers, Sequences, FiniteSets

CONSTANTS
    Symbol, Sep,       \* what paths are made of
    Path, Rank,        \* the paths of the files and their order
    Base, Dot, Text,   \* their base names
    MaxTime,           \* modification times are 0..MaxTime
    Half,              \* a Go int holds -Half .. Half - 1
    Dirs,              \* the directories a user may name in KeepDirs
    Priorities,        \* the values of RuleSet.Priority
    MaxFiles           \* bound of the model: the size of a group

ASSUME RulesAssumption ==
    /\ Sep \in Symbol /\ Path \subseteq Seq(Symbol) /\ Dirs \subseteq Seq(Symbol)
    /\ Rank \in [Path -> Nat]
    /\ \A p, q \in Path : Rank[p] = Rank[q] => p = q
    /\ Dot \notin Nat /\ Text \notin Nat
    /\ Base \in [Path -> Seq(Nat \cup {Dot, Text})]
    /\ MaxTime \in Nat /\ MaxFiles \in Nat /\ Half \in Nat \ {0}
    /\ Priorities \subseteq Seq(STRING)

File == [path : Path, modTime : 0..MaxTime]

RuleSet == [priority : Priorities, keepDirs : SUBSET Dirs,
            latest : BOOLEAN, earliest : BOOLEAN, version : BOOLEAN]

VARIABLES
    group,       \* group.Files, a slice sorted by path
    rs,          \* the RuleSet
    rule,        \* the position in rs.Priority the loop of Apply is at
    candidates,  \* the slice of that name
    keep, deletes,
    phase,       \* "apply", then "done"
    kept         \* history: the file kept the first time, none before

vars == <<group, rs, rule, candidates, keep, deletes, phase, kept>>

Members(files) == {files[i] : i \in DOMAIN files}

\* buildGroupsSnapshot sorts a group by path and shows it from two files on.
Groups == {g \in UNION {[1..n -> File] : n \in 2..MaxFiles} :
              \A i, j \in DOMAIN g : i < j => Rank[g[i].path] < Rank[g[j].path]}

-----------------------------------------------------------------------------
\* preferKeepDirs

LeastPath(S) == CHOOSE f \in S : \A g \in S : Rank[f.path] <= Rank[g.path]

HasPrefix(p, d) == Len(d) <= Len(p) /\ SubSeq(p, 1, Len(d)) = d

\* Wrong: a rule that every candidate meets is taken for one that does not apply.
HitsUnlessAll(files) ==
    LET hits == {f \in Members(files) : \E d \in rs.keepDirs : HasPrefix(f.path, d)}
    IN IF hits = Members(files) THEN {} ELSE hits

Hits(files) == {f \in Members(files) : \E d \in rs.keepDirs : HasPrefix(f.path, d)}

-----------------------------------------------------------------------------
\* keepByTime: the first file of the slice that no other is better than.

\* Wrong: a later file that is as good replaces the best so far.
LastBest(files, best) == files[CHOOSE i \in best : \A j \in best : i >= j]

FirstBest(files, best) == files[CHOOSE i \in best : \A j \in best : i <= j]

KeepLatest(files) ==
    FirstBest(files, {i \in DOMAIN files :
        \A j \in DOMAIN files : files[j].modTime <= files[i].modTime})

KeepEarliest(files) ==
    FirstBest(files, {i \in DOMAIN files :
        \A j \in DOMAIN files : files[j].modTime >= files[i].modTime})

-----------------------------------------------------------------------------
\* versionScore: the first number of the base name and the numbers that follow
\* it, each after a dot.  A "v" before the first number is part of the match but
\* not of the score.  n*10 + digit wraps around like any int of Go.

IsNumber(b, i) == i <= Len(b) /\ b[i] \notin {Dot, Text}
FirstNumber(b) == CHOOSE i \in DOMAIN b : IsNumber(b, i) /\ \A j \in 1..i-1 : ~IsNumber(b, j)
Follows(b, i, n) == \A k \in 1..n : IsNumber(b, i + 2*k) /\ b[i + 2*k - 1] = Dot

Numbers(b) ==
    IF \A i \in DOMAIN b : ~IsNumber(b, i) THEN <<0>>
    ELSE LET i == FirstNumber(b)
             n == CHOOSE n \in 0..Len(b) : Follows(b, i, n) /\ ~Follows(b, i, n + 1)
         IN [k \in 1..n + 1 |-> b[i + 2*(k - 1)]]

Wrapped(n) == ((n + Half) % (2 * Half)) - Half

VersionScore(p) == [k \in DOMAIN Numbers(Base[p]) |-> Wrapped(Numbers(Base[p])[k])]

Part(s, k) == IF k <= Len(s) THEN s[k] ELSE 0

\* Part by part, a missing part being 0.
Higher(s, t) ==
    \E k \in DOMAIN s \cup DOMAIN t : /\ Part(s, k) > Part(t, k)
                                      /\ \A j \in 1..k-1 : Part(s, j) = Part(t, j)

\* The less function keepByVersion sorts with.
Before(f, g) ==
    LET s == VersionScore(f.path)
        t == VersionScore(g.path)
    IN Higher(s, t) \/ (~Higher(t, s) /\ Rank[f.path] < Rank[g.path])

KeepByVersion(files) ==
    CHOOSE f \in Members(files) : \A g \in Members(files) \ {f} : Before(f, g)

-----------------------------------------------------------------------------
\* Apply

Looping == phase = "apply" /\ rule <= Len(rs.priority)
At(key) == Looping /\ rs.priority[rule] = key

\* Wrong: the position is moved past the next rule.
ShrinkAndSkip(f) ==
    /\ candidates' = <<f>> /\ rule' = rule + 2
    /\ UNCHANGED <<group, rs, keep, deletes, phase, kept>>

Shrink(f) ==
    /\ candidates' = <<f>> /\ rule' = rule + 1
    /\ UNCHANGED <<group, rs, keep, deletes, phase, kept>>

RuleKeepDirs ==
    /\ At("keepDirs") /\ Hits(candidates) # {}
    /\ Shrink(LeastPath(Hits(candidates)))

RuleLatest   == At("latest") /\ rs.latest /\ Shrink(KeepLatest(candidates))
RuleEarliest == At("earliest") /\ rs.earliest /\ Shrink(KeepEarliest(candidates))
RuleVersion  == At("version") /\ rs.version /\ Shrink(KeepByVersion(candidates))

\* A key that is unknown, switched off or, for keepDirs, met by no candidate.
RuleSkipped ==
    /\ Looping
    /\ At("keepDirs") => Hits(candidates) = {}
    /\ ~(At("latest") /\ rs.latest)
    /\ ~(At("earliest") /\ rs.earliest)
    /\ ~(At("version") /\ rs.version)
    /\ rule' = rule + 1
    /\ UNCHANGED <<group, rs, candidates, keep, deletes, phase, kept>>

\* Wrong: what a rule has already left out of the candidates is forgotten.
RestOfCandidates(k) == {f \in Members(candidates) : f.path # k.path}

Rest(k) == {f \in Members(group) : f.path # k.path}

Decide ==
    /\ phase = "apply" /\ rule > Len(rs.priority)
    /\ keep' = {LeastPath(Members(candidates))}
    /\ deletes' = Rest(LeastPath(Members(candidates)))
    /\ phase' = "done"
    /\ kept' = IF kept = {} THEN keep' ELSE kept
    /\ UNCHANGED <<group, rs, rule, candidates>>

\* Some of the files to delete could not be deleted; a new scan shows them with
\* the file that was kept.
Rescan ==
    /\ phase = "done"
    /\ group' \in {g \in Groups : /\ Members(g) \subseteq Members(group)
                                  /\ Members(g) # Members(group)
                                  /\ keep \subseteq Members(g)}
    /\ candidates' = group' /\ rule' = 1
    /\ keep' = {} /\ deletes' = {} /\ phase' = "apply"
    /\ UNCHANGED <<rs, kept>>

Init ==
    /\ group \in Groups /\ rs \in RuleSet
    /\ rule = 1 /\ candidates = group
    /\ keep = {} /\ deletes = {} /\ phase = "apply" /\ kept = {}

Next == RuleKeepDirs \/ RuleLatest \/ RuleEarliest \/ RuleVersion \/ RuleSkipped
        \/ Decide \/ Rescan

Spec == Init /\ [][Next]_vars

-----------------------------------------------------------------------------
\* Properties

TypeOK ==
    /\ group \in Groups /\ rs \in RuleSet
    /\ rule \in 1..Len(rs.priority) + 1
    /\ candidates \in Seq(File)
    /\ keep \in SUBSET File /\ deletes \in SUBSET File /\ kept \in SUBSET File
    /\ phase \in {"apply", "done"}

\* One file of the group is kept and exactly the others are deleted: deletion
\* never takes the last copy and never leaves one behind.
KeepsExactlyOne ==
    phase = "done" =>
        /\ Cardinality(keep) = 1 /\ keep \subseteq Members(group)
        /\ deletes = Members(group) \ keep

\* What README.md promises of each rule, with directories and numbers as a user
\* reads them: a directory holds what is below it, and numbers have no width.
Below(p, d) == HasPrefix(p, d) /\ (Len(p) > Len(d) => p[Len(d) + 1] = Sep)

Promised(key) ==
    LET S == Members(group) IN
    CASE key = "keepDirs" -> {f \in S : \E d \in rs.keepDirs : Below(f.path, d)}
      [] key = "latest" /\ rs.latest -> {f \in S : \A g \in S : g.modTime <= f.modTime}
      [] key = "earliest" /\ rs.earliest -> {f \in S : \A g \in S : g.modTime >= f.modTime}
      [] key = "version" /\ rs.version ->
            {f \in S : \A g \in S : ~Higher(Numbers(Base[g.path]), Numbers(Base[f.path]))}
      [] OTHER -> {}

\* The rule that decides: the first that prefers any file at all.
Deciding == {i \in DOMAIN rs.priority :
                /\ Promised(rs.priority[i]) # {}
                /\ \A j \in 1..i-1 : Promised(rs.priority[j]) = {}}

\* The kept file is the first in path order of those the deciding rule prefers.
KeepsPreferred ==
    phase = "done" =>
        keep = {LeastPath(IF Deciding = {} THEN Members(group)
                          ELSE UNION {Promised(rs.priority[i]) : i \in Deciding})}

\* A file kept once is kept for good: as long as the rules stay, no later round
\* over the copies that could not be deleted deletes it.
KeptForGood == phase = "done" => keep = kept

=============================================================================
