------------------------------- MODULE Scanner -------------------------------
(***************************************************************************)
(* The synchronous scanner of internal/scanner/scanner.go: the walk over   *)
(* the directories with its filters, which buildBuckets of task.go repeats *)
(* line by line, and the pool of goroutines that hash the size buckets.    *)
(* Unlike the task it has several of them at a time, on one cache map.     *)
(*                                                                         *)
(* The tree does not change here (it does in Task): what is left to go     *)
(* wrong is the walk itself and the order the goroutines run in.           *)
(***************************************************************************)
EXTENDS Naturals, Sequences, FiniteSets

CONSTANTS
    Names,       \* the paths below the roots, and the roots
    Kind,        \* "dir", "file", "link" or, for a root that is not there, "missing"
    Children,    \* what os.ReadDir returns, sorted by name
    Above,       \* all the directories a path lies in
    Target,      \* the file that is read under a name: for a link another one
    Length,      \* what Lstat reports: for a link the length of its text
    Hidden, SystemDir, SystemFile, ReadOnly, Locked,  \* sets of names
    Hashes,      \* the digests; for NoHash, the empty string, a file cannot be read
    NoHash,
    Digests,     \* what the files hash to, one function per case to be looked at
    Options,     \* the ScanOptions to be looked at
    RootLists,   \* the values of opts.Dirs
    Workers      \* the values of opts.MaxWorkers

OptionType == [skipHidden : BOOLEAN, skipSystemDirs : BOOLEAN, skipSystemFiles : BOOLEAN,
               skipReadOnly : BOOLEAN, followSymlinks : BOOLEAN, cache : BOOLEAN]

Sizes == {Length[p] : p \in Names} \ {0}

\* The names that a walk from p can come to.
Below(p) == {q \in Names : q = p \/ p \in Above[q]}

\* The directories are a tree: none is below itself and a link has no children.
Tree ==
    /\ \A p \in Names : Above[p] = UNION {{d} \cup Above[d] : d \in {d \in Names :
                                  \E i \in DOMAIN Children[d] : Children[d][i] = p}}
    /\ \A p \in Names : p \notin Above[p] /\ \A d \in Above[p] :
          Above[d] \subseteq Above[p] /\ \E i \in DOMAIN Children[d] : p \in Below(Children[d][i])
    /\ \A d \in Names : \A i, j \in DOMAIN Children[d] :
          /\ Kind[d] = "dir" /\ Kind[Children[d][i]] # "missing"
          /\ Below(Children[d][i]) \cap Below(Children[d][j]) # {}
                => Children[d][i] = Children[d][j]

ASSUME ScannerAssumption ==
    /\ IsFiniteSet(Names)
    /\ Kind \in [Names -> {"dir", "file", "link", "missing"}]
    /\ Children \in [Names -> Seq(Names)]
    /\ Target \in [Names -> Names] /\ \A p \in Names : Kind[p] # "link" => Target[p] = p
    /\ Above \in [Names -> SUBSET Names] /\ Tree
    /\ Length \in [Names -> Nat]
    /\ NoHash \notin Hashes /\ Digests \subseteq [Names -> Hashes \cup {NoHash}]
    /\ Options \subseteq OptionType /\ RootLists \subseteq Seq(Names)
    /\ Workers \subseteq Nat \ {0}

VARIABLES
    digest, opts, maxWorkers,   \* the input
    dirs,                      \* opts.Dirs
    stage,                       \* "walk", "spawn", "wait", "done"
    roots, agenda,               \* the roots to come, the entries to come below this one
    visited, errors,             \* the map of that name; files listed with an AccessError
    buckets,                     \* sizeBuckets
    pending, w, slots, wg,       \* buckets to come, the goroutines, sem and the WaitGroup
    hashGroups                   \* of that name

input == <<digest, opts, maxWorkers, dirs>>
walk  == <<roots, agenda, visited, errors, buckets>>
pool  == <<pending, w, slots, wg>>
vars  == <<input, stage, walk, pool, hashGroups>>

-----------------------------------------------------------------------------
\* filepath.WalkDir and its callback.

SkippedDir(p) == \/ opts.skipHidden /\ p \in Hidden
                 \/ opts.skipSystemDirs /\ p \in SystemDir

\* The filters of files and links, in the order of the code; isWritable opens the
\* file, through a link.
SkippedFile(p) == \/ opts.skipHidden /\ p \in Hidden
                  \/ opts.skipSystemFiles /\ p \in SystemFile
                  \/ opts.skipReadOnly /\ Target[p] \in ReadOnly
                  \/ Kind[p] = "link" /\ ~opts.followSymlinks

\* The next root; a system directory is not even entered.
NextRoot ==
    /\ stage = "walk" /\ agenda = <<>> /\ roots # <<>>
    /\ roots' = Tail(roots)
    /\ agenda' = IF opts.skipSystemDirs /\ Head(roots) \in SystemDir THEN <<>>
                 ELSE <<Head(roots)>>
    /\ UNCHANGED <<input, stage, visited, errors, buckets, pool, hashGroups>>

At(p) == stage = "walk" /\ agenda # <<>> /\ p = Head(agenda)

\* A directory that cannot be read is handed to the callback twice; it and a root
\* that is missing are listed with their error, and the walk goes on.
Enter(p) ==
    /\ At(p) /\ Kind[p] \in {"dir", "missing"}
    /\ LET skipped == Kind[p] = "dir" /\ SkippedDir(p)
           failed  == Kind[p] = "missing" \/ p \in Locked
       IN /\ agenda' = IF skipped \/ failed THEN Tail(agenda)
                       ELSE Children[p] \o Tail(agenda)
          /\ errors' = IF failed /\ ~skipped THEN errors \cup {p} ELSE errors
    /\ UNCHANGED <<input, stage, roots, visited, buckets, pool, hashGroups>>

\* Wrong: a file is skipped like a directory, and the rest of its directory with it.
SiblingsToo(p) ==
    LET isSibling(s) == \E d \in Names : \E i, j \in DOMAIN Children[d] :
                            Children[d][i] = p /\ Children[d][j] = s
    IN SelectSeq(Tail(agenda), LAMBDA s : ~isSibling(s))

\* "return nil": the walk goes on behind the file.
Skip(p) == Tail(agenda)

\* Wrong: a path is not remembered.
NeverSeen(p) == FALSE

Seen(p) == p \in visited

Drop(p) ==
    /\ At(p) /\ Kind[p] \in {"file", "link"} /\ (SkippedFile(p) \/ Seen(p))
    /\ agenda' = Skip(p)
    /\ UNCHANGED <<input, stage, roots, visited, errors, buckets, pool, hashGroups>>

Take(p) ==
    /\ At(p) /\ Kind[p] \in {"file", "link"} /\ ~SkippedFile(p) /\ ~Seen(p)
    /\ agenda' = Tail(agenda)
    /\ visited' = visited \cup {p}
    /\ buckets' = IF Length[p] = 0 THEN buckets
                  ELSE [buckets EXCEPT ![Length[p]] = Append(@, p)]
    /\ UNCHANGED <<input, stage, roots, errors, pool, hashGroups>>

EndWalk ==
    /\ stage = "walk" /\ agenda = <<>> /\ roots = <<>>
    /\ stage' = "spawn"
    /\ pending' = {s \in Sizes : Len(buckets[s]) >= 2}
    /\ UNCHANGED <<input, walk, w, slots, wg, hashGroups>>

-----------------------------------------------------------------------------
\* The pool.

NoWorker == [pc |-> "none", todo |-> <<>>]

\* Wrong: a slot more than MaxWorkers.
OneMore == slots <= maxWorkers

\* The channel sem has MaxWorkers slots.
SlotFree == slots < maxWorkers

\* sem <- struct{}{}, wg.Add(1), go: the buckets come in the order of a Go map.
Spawn(s) ==
    /\ stage = "spawn" /\ s \in pending /\ SlotFree
    /\ pending' = pending \ {s}
    /\ slots' = slots + 1 /\ wg' = wg + 1
    /\ w' = [w EXCEPT ![s] = [pc |-> "next", todo |-> buckets[s]]]
    /\ UNCHANGED <<input, stage, walk, hashGroups>>

AllSpawned ==
    /\ stage = "spawn" /\ pending = {}
    /\ stage' = "wait"
    /\ UNCHANGED <<input, walk, pool, hashGroups>>

Goto(s, label) ==
    /\ w' = [w EXCEPT ![s].pc = label]
    /\ UNCHANGED <<input, stage, walk, pending, slots, wg, hashGroups>>

\* From "get" to "hash" the goroutine is inside the map, from "put" to "group" as well.
NextFile(s) ==
    /\ w[s].pc = "next" /\ w[s].todo # <<>>
    /\ Goto(s, IF opts.cache THEN "get" ELSE "hash")

Get(s) == w[s].pc = "get" /\ Goto(s, "hash")

File(s) == Head(w[s].todo)

HashOf(p) == digest[Target[p]]

Hash(s) ==
    /\ w[s].pc = "hash"
    /\ Goto(s, IF opts.cache /\ HashOf(File(s)) # NoHash THEN "put" ELSE "group")

Put(s) == w[s].pc = "put" /\ Goto(s, "group")

\* Under mu.
AppendFile(s) ==
    /\ w[s].pc = "group"
    /\ hashGroups' = [hashGroups EXCEPT ![HashOf(File(s))] = Append(@, File(s))]
    /\ w' = [w EXCEPT ![s] = [pc |-> "next", todo |-> Tail(@.todo)]]
    /\ UNCHANGED <<input, stage, walk, pending, slots, wg>>

\* worker's deferred wg.Done runs before the deferred <-sem of its caller.
Done(s) ==
    /\ w[s].pc = "next" /\ w[s].todo = <<>>
    /\ wg' = wg - 1
    /\ w' = [w EXCEPT ![s].pc = "release"]
    /\ UNCHANGED <<input, stage, walk, pending, slots, hashGroups>>

\* Wrong: the slot is not given back.
SlotKept == slots

SlotBack == slots - 1

Release(s) ==
    /\ w[s].pc = "release"
    /\ slots' = SlotBack
    /\ w' = [w EXCEPT ![s] = NoWorker]
    /\ UNCHANGED <<input, stage, walk, pending, wg, hashGroups>>

\* Wrong: wg.Wait is left out.
NothingToWaitFor == TRUE

Waited == wg = 0

\* The groups Scan returns.  The files without a digest, of whatever length, have one
\* like the others: Scan does not leave out the empty hash, as Task does.
Returned == {h \in DOMAIN hashGroups : Len(hashGroups[h]) >= 2}

\* wg.Wait returns: the groups are built and c.Save goes through the map.
Return ==
    /\ stage = "wait" /\ Waited
    /\ stage' = "done"
    /\ UNCHANGED <<input, walk, pool, hashGroups>>

-----------------------------------------------------------------------------
Init ==
    /\ digest \in Digests /\ opts \in Options /\ maxWorkers \in Workers
    /\ stage = "walk" /\ dirs \in RootLists /\ roots = dirs /\ agenda = <<>>
    /\ visited = {} /\ errors = {}
    /\ buckets = [s \in Sizes |-> <<>>]
    /\ pending = {} /\ slots = 0 /\ wg = 0
    /\ w = [s \in Sizes |-> NoWorker]
    /\ hashGroups = [h \in Hashes \cup {NoHash} |-> <<>>]

WalkStep == NextRoot \/ (\E p \in Names : Enter(p) \/ Drop(p) \/ Take(p)) \/ EndWalk

Worker(s) == \/ NextFile(s) \/ Get(s) \/ Hash(s) \/ Put(s) \/ AppendFile(s)
             \/ Done(s) \/ Release(s)

Main == WalkStep \/ (\E s \in Sizes : Spawn(s)) \/ AllSpawned \/ Return

Next == Main \/ \E s \in Sizes : Worker(s)

\* The goroutine that called Scan and those of the pool run when they can.
Spec == Init /\ [][Next]_vars /\ WF_vars(Main) /\ \A s \in Sizes : WF_vars(Worker(s))

-----------------------------------------------------------------------------
\* Properties

Members(l) == {l[i] : i \in DOMAIN l}
NoRepetition(l) == Cardinality(Members(l)) = Len(l)

\* Every variable has its type; the counters count goroutines.
TypeOK ==
    /\ dirs \in RootLists /\ digest \in Digests /\ opts \in Options /\ maxWorkers \in Workers
    /\ stage \in {"walk", "spawn", "wait", "done"}
    /\ roots \in Seq(Names) /\ agenda \in Seq(Names)
    /\ visited \subseteq Names /\ errors \subseteq Names
    /\ buckets \in [Sizes -> Seq(Names)] /\ pending \subseteq Sizes
    /\ w \in [Sizes -> [pc : {"none", "next", "get", "hash", "put", "group", "release"},
                        todo : Seq(Names)]]
    /\ \A s \in Sizes : w[s].pc \in {"get", "hash", "put", "group"} => w[s].todo # <<>>
    /\ slots = Cardinality({s \in Sizes : w[s].pc # "none"})
    /\ wg = Cardinality({s \in Sizes : w[s].pc \notin {"none", "release"}})
    /\ hashGroups \in [Hashes \cup {NoHash} -> Seq(Names)]

\* What a walk from p meets: the names below p with no directory between that may
\* not be entered.
Offers(p) == {q \in Below(p) : \A d \in Above[q] \cap Below(p) :
                                  ~SkippedDir(d) /\ d \notin Locked}

\* What the roots offer, but for those that are system directories.
Entered(l) == {p \in Members(l) : ~(opts.skipSystemDirs /\ p \in SystemDir)}

Met == UNION {Offers(p) : p \in Entered(dirs)}

AcceptedOf(S) == {p \in S : Kind[p] \in {"file", "link"} /\ ~SkippedFile(p)}
Accepted == AcceptedOf(Met)

UnreachableOf(S) ==
    {p \in S : Kind[p] = "missing" \/ (Kind[p] = "dir" /\ p \in Locked /\ ~SkippedDir(p))}
Unreachable == UnreachableOf(Met)

\* README.md, "Skip Hidden", "Skip System Files", "Skip System Dirs": whatever the
\* order of the entries, the overlap of the roots and the errors, each file that no
\* option excludes is bucketed once, and nothing else is.
WalkComplete ==
    stage # "walk" =>
        /\ visited = Accepted /\ errors = Unreachable
        /\ \A s \in Sizes :
              /\ Members(buckets[s]) = {p \in Accepted : Length[p] = s}
              /\ NoRepetition(buckets[s])

\* The files that share their length with another one.
Candidates == UNION {Members(buckets[s]) : s \in {s \in Sizes : Len(buckets[s]) >= 2}}

\* The group of a digest is that of the candidates that have it, each of them once,
\* whatever the goroutines did at the same time, and Scan returns it if there are two.
\* Nothing is said of the group of the empty hash: it is no group of equal files.
GroupsComplete ==
    stage = "done" =>
        \A h \in Hashes :
            LET equal == {p \in Candidates : HashOf(p) = h} IN
            /\ Members(hashGroups[h]) = equal /\ NoRepetition(hashGroups[h])
            /\ h \in Returned <=> Cardinality(equal) >= 2

\* The cache map has no lock.  With one worker no two goroutines are inside it, and
\* none is when Scan goes on to save it.
SerialPoolSafe ==
    opts.cache /\ maxWorkers = 1 =>
        LET inside == {s \in Sizes : w[s].pc \in {"get", "put"}} IN
        /\ \A s, t \in inside : s = t
        /\ stage = "done" => inside = {}

\* Scan returns, however few the slots and however many the buckets.
ScanReturns == <>(stage = "done")
=============================================================================
