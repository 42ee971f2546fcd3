-------------------------------- MODULE Task --------------------------------
(***************************************************************************)
(* One scan task of internal/scanner/task.go at a time: the goroutine of   *)
(* StartAsync (buildBuckets, processBuckets), the hashing goroutine it     *)
(* spawns per size bucket, the Pause, Resume and Stop calls of the web     *)
(* handlers, the hash cache the goroutine and Stop share, and the file     *)
(* system under all of them, which other programs edit at any moment.      *)
(*                                                                         *)
(* A file is a content and a modification time; each edit gives a new      *)
(* time.  Digests are taken to be collision free.                          *)
(***************************************************************************)
EXTENDS HashCache, Integers, FiniteSets

CONSTANTS
    Contents,          \* what a file may hold
    Size,              \* the length of each content
    Digest,            \* Digest[<<a, c>>]: algorithm a applied to content c
    SupportedAlgos,    \* the names ComputeHash accepts
    Roots,             \* opts.Dirs
    Under,             \* Under[r]: the paths the walk of root r meets
    MaxWorkers,        \* opts.MaxWorkers, as NewTask normalises it
    EnableHashCache,   \* opts.EnableHashCache
    Gone,              \* the file does not exist
    NoInfo,            \* the nil os.FileInfo of a failed os.Stat
    NoMeta,            \* a goroutine that holds no file
    MaxScans, MaxEdits, MaxKills,   \* bounds of the model
    EditWhileScanning, \* other programs edit files during a scan, too
    Recreate           \* a removed file may come back

Sizes == {Size[c] : c \in Contents} \ {0}
Info == [size : Nat, modTime : Nat]
Meta == [path : Files, size : Nat, modTime : Nat]
Err  == {"none", "changed", "unreadable"}
Member == [path : Files, size : Nat, modTime : Nat, err : Err]

ASSUME TaskAssumption ==
    /\ IsFiniteSet(Files)
    /\ IsFiniteSet(Contents)
    /\ Size \in [Contents -> Nat]
    /\ Digest \in [Algos \X Contents -> Hashes]
    /\ \A p, q \in Algos \X Contents : Digest[p] = Digest[q] => p = q
    /\ SupportedAlgos \subseteq Algos
    /\ Under \in [Roots -> SUBSET Files]
    /\ MaxWorkers \in Nat \ {0}
    /\ EnableHashCache \in BOOLEAN
    /\ Gone \notin [content : Contents, modTime : Nat]
    /\ NoInfo \notin Info
    /\ NoMeta \notin Meta
    /\ MaxScans \in Nat /\ MaxEdits \in Nat /\ MaxKills \in Nat
    /\ EditWhileScanning \in BOOLEAN /\ Recreate \in BOOLEAN

VARIABLES
    fs, edits,                  \* the files, and how many edits they have seen
    proc, kills, scans,         \* the server process: "up", "killed", "fatal"
    algo,                       \* t.opts.HashAlgo
    running, paused, stopped,   \* the atomic flags of Task
    pc, toWalk, visited,        \* the StartAsync goroutine; buildBuckets
    buckets, pending, cur,      \* t.sizeBuckets, those not yet ranged over, bucket
    total, current, progress,   \* totalBuckets, currentBucket, progress
    groups,                     \* t.hashGroups
    w,                          \* the hashing goroutine of each bucket
    cache, cacheFile, saveBuf,  \* t.cacheStore, its file, the goroutine's JSON
    stopPc, stopBuf,            \* the Stop call in progress and its JSON
    late                        \* history: files grouped since Stop

env      == <<fs, edits>>
host     == <<proc, kills, scans>>
flags    == <<running, paused, stopped>>
walk     == <<toWalk, visited, buckets>>
loop     == <<pending, cur>>
counters == <<total, current, progress>>
store    == <<cache, cacheFile, saveBuf>>
stopCall == <<stopPc, stopBuf>>
vars == <<env, host, algo, flags, pc, walk, loop, counters, groups, w, store,
          stopCall, late>>

-----------------------------------------------------------------------------
\* The file system as the task calls it.

Stat(f) == IF fs[f] = Gone THEN NoInfo
           ELSE [size |-> Size[fs[f].content], modTime |-> fs[f].modTime]

\* Wrong: only the first chunk is read, and files of one size share it.
HashOfFirstChunk(f) ==
    IF fs[f] = Gone THEN {NoHash}
    ELSE {Digest[<<algo, CHOOSE x \in Contents : Size[x] = Size[fs[f].content]>>]}

\* What a call can return: a file that is there may still refuse to be opened, and
\* any read of it may fail; then there is an error and no digest.
ComputeHash(f) ==
    {NoHash} \cup (IF fs[f] = Gone \/ algo \notin SupportedAlgos THEN {}
                   ELSE {Digest[<<algo, fs[f].content>>]})

Scanning == pc \notin {"none", "done"}
Editable == edits < MaxEdits /\ (Scanning => EditWhileScanning)

Write(f, c) ==
    /\ Editable
    /\ fs[f] # Gone \/ Recreate
    /\ fs' = [fs EXCEPT ![f] = [content |-> c, modTime |-> edits + 1]]
    /\ edits' = edits + 1
    /\ UNCHANGED <<host, algo, flags, pc, walk, loop, counters, groups, w,
                   store, stopCall, late>>

Remove(f) ==
    /\ Editable
    /\ fs[f] # Gone
    /\ fs' = [fs EXCEPT ![f] = Gone]
    /\ edits' = edits + 1
    /\ UNCHANGED <<host, algo, flags, pc, walk, loop, counters, groups, w,
                   store, stopCall, late>>

-----------------------------------------------------------------------------
\* The calls of the web handlers.  Each runs under the router's lock, so none
\* starts while a Stop call is writing the cache file.

IdleWorker == [pc |-> "idle", todo |-> {}, file |-> NoMeta, before |-> NoInfo,
               hv |-> NoHash, err |-> "none"]

NoGroups == [h \in Hashes \cup {NoHash} |-> {}]

\* The fields of a new Task.
FreshTask ==
    /\ paused' = FALSE /\ stopped' = FALSE
    /\ visited' = {} /\ buckets' = [s \in Sizes |-> {}]
    /\ pending' = {} /\ cur' = 0
    /\ total' = 0 /\ current' = 0 /\ progress' = 0
    /\ groups' = NoGroups
    /\ w' = [s \in Sizes |-> IdleWorker]
    /\ saveBuf' = EmptyStore
    /\ late' = 0

\* NewTask and StartAsync. The router refuses a start only while running is set,
\* which Stop clears at once; this module starts the next task when the goroutines
\* of the last one have ended: one task at a time. The overlap of a stopped
\* task's goroutines with the next task is not in this model.
Start(a) ==
    /\ ~Scanning /\ stopPc = "idle"
    /\ scans < MaxScans /\ scans' = scans + 1
    /\ FreshTask
    /\ algo' = a
    /\ running' = TRUE
    /\ pc' = "build"
    /\ toWalk' = UNION {{r} \X Under[r] : r \in Roots}
    /\ cache' = IF EnableHashCache THEN Load(cacheFile) ELSE EmptyStore
    /\ UNCHANGED <<env, proc, kills, cacheFile, stopCall>>

Callable == pc # "none" /\ stopPc = "idle"

Pause ==
    /\ Callable /\ paused' = TRUE
    /\ UNCHANGED <<env, host, algo, running, stopped, pc, walk, loop, counters,
                   groups, w, store, stopCall, late>>

Resume ==
    /\ Callable /\ paused' = FALSE
    /\ UNCHANGED <<env, host, algo, running, stopped, pc, walk, loop, counters,
                   groups, w, store, stopCall, late>>

Stop ==
    /\ Callable
    /\ stopped' = TRUE /\ running' = FALSE
    /\ stopPc' = IF EnableHashCache THEN "marshal" ELSE "idle"
    /\ UNCHANGED <<env, host, algo, paused, pc, walk, loop, counters, groups, w,
                   store, stopBuf, late>>

\* Save inside Stop: from "marshal" on json.MarshalIndent ranges over the map.
StopMarshal ==
    /\ stopPc = "marshal"
    /\ stopPc' = "truncate" /\ stopBuf' = cache
    /\ UNCHANGED <<env, host, algo, flags, pc, walk, loop, counters, groups, w,
                   store, late>>

StopTruncate ==
    /\ stopPc = "truncate"
    /\ stopPc' = "write" /\ cacheFile' = Truncated
    /\ UNCHANGED <<env, host, algo, flags, pc, walk, loop, counters, groups, w,
                   cache, saveBuf, stopBuf, late>>

StopWrite ==
    /\ stopPc = "write"
    /\ stopPc' = "idle" /\ cacheFile' \in Written(cacheFile, stopBuf)
    /\ UNCHANGED <<env, host, algo, flags, pc, walk, loop, counters, groups, w,
                   cache, saveBuf, stopBuf, late>>

-----------------------------------------------------------------------------
\* buildBuckets.  Roots and directory entries come in any order; a path below
\* two roots is met twice.  A file that is gone when it is met is not bucketed.

\* Wrong: the visited map is never consulted.
NeverSeen(f) == FALSE

Seen(f) == f \in visited

WalkFile(r, f) ==
    /\ pc = "build" /\ <<r, f>> \in toWalk
    /\ toWalk' = toWalk \ {<<r, f>>}
    /\ IF fs[f] = Gone \/ Seen(f)
       THEN UNCHANGED <<visited, buckets>>
       ELSE LET info == Stat(f)
                meta == [path |-> f, size |-> info.size, modTime |-> info.modTime]
            IN /\ visited' = visited \cup {f}
               /\ buckets' = IF info.size > 0
                             THEN [buckets EXCEPT ![info.size] = @ \cup {meta}]
                             ELSE buckets
    /\ UNCHANGED <<env, host, algo, flags, pc, loop, counters, groups, w, store,
                   stopCall, late>>

\* Wrong: a pair is not a duplicate.
LargeAboveTwo(s) == Cardinality(buckets[s]) > 2

Large(s) == Cardinality(buckets[s]) >= 2

FinishBuild ==
    /\ pc = "build" /\ toWalk = {}
    /\ total' = Cardinality({s \in Sizes : Large(s)})
    /\ pending' = {s \in Sizes : buckets[s] # {}}
    /\ pc' = "loop"
    /\ UNCHANGED <<env, host, algo, flags, walk, cur, current, progress, groups,
                   w, store, stopCall, late>>

-----------------------------------------------------------------------------
\* processBuckets: the range loop over the size buckets.

Percent(n) == IF n > total THEN 100 ELSE (n * 100) \div total

NoLessThan(p) == IF p < progress THEN progress ELSE p

\* Wrong: the share is taken before currentBucket is incremented.
ProgressBeforeStep(n) == IF total = 0 THEN 100 ELSE NoLessThan(Percent(n - 1))

\* The progress shown once n buckets are done; it never goes back.
ProgressAt(n) == IF total = 0 THEN 100 ELSE NoLessThan(Percent(n))

\* updateProgressStep, under t.mu.
UpdateProgressStep ==
    /\ current' = current + 1
    /\ progress' = ProgressAt(current + 1)
    /\ total' = total

SkipBucket(s) ==
    /\ pc = "loop" /\ s \in pending /\ ~Large(s)
    /\ pending' = pending \ {s}
    /\ UpdateProgressStep
    /\ UNCHANGED <<env, host, algo, flags, pc, walk, cur, groups, w, store,
                   stopCall, late>>

\* A large bucket ends the loop when Stop was called, else waits to be spawned.
TakeBucket(s) ==
    /\ pc = "loop" /\ s \in pending /\ Large(s)
    /\ pending' = pending \ {s}
    /\ pc' = IF stopped THEN "save" ELSE "gate"
    /\ cur' = IF stopped THEN cur ELSE s
    /\ UNCHANGED <<env, host, algo, flags, walk, counters, groups, w, store,
                   stopCall, late>>

Active(s) == w[s].pc # "idle"

\* Not paused: take a slot of sem and start the hashing goroutine.
Spawn ==
    /\ pc = "gate" /\ ~paused
    /\ Cardinality({s \in Sizes : Active(s)}) < MaxWorkers
    /\ w' = [w EXCEPT ![cur] = [IdleWorker EXCEPT !.pc = "check",
                                                  !.todo = buckets[cur]]]
    /\ pc' = "wait"
    /\ UNCHANGED <<env, host, algo, flags, walk, loop, counters, groups, store,
                   stopCall, late>>

\* Wrong: wg.Wait is left out of the loop.
NothingToWaitFor == TRUE

AllExited == \A s \in Sizes : ~Active(s)

\* wg.Wait returns.
Join ==
    /\ pc = "wait"
    /\ AllExited
    /\ pc' = "loop"
    /\ UpdateProgressStep
    /\ UNCHANGED <<env, host, algo, flags, walk, loop, groups, w, store,
                   stopCall, late>>

EndLoop ==
    /\ pc = "loop" /\ pending = {}
    /\ pc' = "save"
    /\ UNCHANGED <<env, host, algo, flags, walk, loop, counters, groups, w,
                   store, stopCall, late>>

\* Save at the end of processBuckets; no hashing goroutine is left to race with.
SaveMarshal ==
    /\ pc = "save"
    /\ pc' = IF EnableHashCache THEN "truncate" ELSE "finish"
    /\ saveBuf' = cache
    /\ UNCHANGED <<env, host, algo, flags, walk, loop, counters, groups, w,
                   cache, cacheFile, stopCall, late>>

SaveTruncate ==
    /\ pc = "truncate"
    /\ pc' = "write" /\ cacheFile' = Truncated
    /\ UNCHANGED <<env, host, algo, flags, walk, loop, counters, groups, w,
                   cache, saveBuf, stopCall, late>>

SaveWrite ==
    /\ pc = "write"
    /\ pc' = "finish" /\ cacheFile' \in Written(cacheFile, saveBuf)
    /\ UNCHANGED <<env, host, algo, flags, walk, loop, counters, groups, w,
                   cache, saveBuf, stopCall, late>>

Finish ==
    /\ pc = "finish"
    /\ pc' = "done" /\ running' = FALSE
    /\ UNCHANGED <<env, host, algo, paused, stopped, walk, loop, counters,
                   groups, w, store, stopCall, late>>

-----------------------------------------------------------------------------
\* The hashing goroutine of bucket s, one file after the other.

\* Wrong variants: Stop is not looked at; a pause ends the goroutine; only Stop does.
HaltedAtEnd(s) == w[s].todo = {}
HaltedByPause(s) == stopped \/ paused \/ w[s].todo = {}
HaltedByStop(s) == stopped

Halted(s) == stopped \/ w[s].todo = {}

Working(s) == w[s].pc \in {"stat", "hash", "after", "append"}

Exit(s) ==
    /\ w[s].pc = "check" /\ Halted(s)
    /\ w' = [w EXCEPT ![s] = IdleWorker]
    /\ UNCHANGED <<env, host, algo, flags, pc, walk, loop, counters, groups,
                   store, stopCall, late>>

NextFile(s) ==
    /\ w[s].pc = "check" /\ ~Halted(s)
    /\ \E m \in w[s].todo :
          w' = [w EXCEPT ![s].pc = "stat", ![s].file = m,
                         ![s].todo = @ \ {m}]
    /\ UNCHANGED <<env, host, algo, flags, pc, walk, loop, counters, groups,
                   store, stopCall, late>>

\* Not paused: os.Stat, and the cache is asked about what it returned.
StatBefore(s) ==
    /\ w[s].pc = "stat" /\ ~paused
    /\ LET f == w[s].file.path
           info == Stat(f)
       IN w' = [w EXCEPT ![s].pc = "hash", ![s].before = info,
                         ![s].hv = IF EnableHashCache /\ info # NoInfo
                                   THEN Get(cache, f, info, algo) ELSE NoHash]
    /\ UNCHANGED <<env, host, algo, flags, pc, walk, loop, counters, groups,
                   store, stopCall, late>>

Hash(s) ==
    /\ w[s].pc = "hash"
    /\ \E hv \in IF w[s].hv = NoHash THEN ComputeHash(w[s].file.path)
                ELSE {w[s].hv} :
          w' = [w EXCEPT ![s].pc = "after", ![s].hv = hv]
    /\ UNCHANGED <<env, host, algo, flags, pc, walk, loop, counters, groups,
                   store, stopCall, late>>

\* Wrong: only the sizes are compared.
MarkBySize(before, after, hv) ==
    IF hv = NoHash THEN "unreadable"
    ELSE IF before # NoInfo /\ after # NoInfo /\ before.size # after.size
         THEN "changed" ELSE "none"

\* The error a file is marked with after the second os.Stat.
Mark(before, after, hv) ==
    IF hv = NoHash THEN "unreadable"
    ELSE IF before # NoInfo /\ after # NoInfo /\ before # after
         THEN "changed" ELSE "none"

\* Put while Stop's Save ranges over the same map is a data race: the runtime
\* may notice it and end the process ("concurrent map iteration and map write").
StatAfter(s) ==
    LET f == w[s].file.path
        hv == w[s].hv
        info == Stat(f)
        puts == EnableHashCache /\ hv # NoHash /\ info # NoInfo
    IN /\ w[s].pc = "after"
       /\ w' = [w EXCEPT ![s].pc = "append",
                         ![s].err = Mark(w[s].before, info, hv)]
       /\ cache' = IF puts THEN Put(cache, f, info, algo, hv) ELSE cache
       /\ proc' \in IF puts /\ stopPc = "marshal" THEN {"up", "fatal"}
                    ELSE {"up"}
       /\ UNCHANGED <<env, kills, scans, algo, flags, pc, walk, loop, counters,
                      groups, cacheFile, saveBuf, stopCall, late>>

\* Under t.mu.
AppendFile(s) ==
    LET m == w[s].file
        member == [path |-> m.path, size |-> m.size, modTime |-> m.modTime,
                   err |-> w[s].err]
    IN /\ w[s].pc = "append"
       /\ groups' = [groups EXCEPT ![w[s].hv] = @ \cup {member}]
       /\ w' = [w EXCEPT ![s] = [IdleWorker EXCEPT !.pc = "check",
                                                   !.todo = w[s].todo]]
       /\ late' = IF stopped THEN late + 1 ELSE late
       /\ UNCHANGED <<env, host, algo, flags, pc, walk, loop, counters, store,
                      stopCall>>

-----------------------------------------------------------------------------
\* The server process dies and is started again: only the disk survives.

Kill ==
    /\ proc = "up" /\ kills < MaxKills
    /\ proc' = "killed" /\ kills' = kills + 1
    /\ UNCHANGED <<env, scans, algo, flags, pc, walk, loop, counters, groups, w,
                   store, stopCall, late>>

Restart ==
    /\ proc # "up" /\ proc' = "up"
    /\ FreshTask
    /\ running' = FALSE /\ pc' = "none" /\ toWalk' = {}
    /\ cache' = EmptyStore
    /\ stopPc' = "idle" /\ stopBuf' = EmptyStore
    /\ UNCHANGED <<env, kills, scans, algo, cacheFile>>

-----------------------------------------------------------------------------
Init ==
    /\ fs \in [Files -> [content : Contents, modTime : {0}] \cup {Gone}]
    /\ edits = 0
    /\ proc = "up" /\ kills = 0 /\ scans = 0
    /\ algo \in Algos
    /\ running = FALSE /\ paused = FALSE /\ stopped = FALSE
    /\ pc = "none" /\ toWalk = {} /\ visited = {}
    /\ buckets = [s \in Sizes |-> {}] /\ pending = {} /\ cur = 0
    /\ total = 0 /\ current = 0 /\ progress = 0
    /\ groups = NoGroups
    /\ w = [s \in Sizes |-> IdleWorker]
    /\ cache = EmptyStore /\ saveBuf = EmptyStore
    /\ cacheFile = Unreadable
    /\ stopPc = "idle" /\ stopBuf = EmptyStore
    /\ late = 0

Scanner ==
    \/ \E r \in Roots, f \in Files : WalkFile(r, f)
    \/ FinishBuild
    \/ \E s \in Sizes : SkipBucket(s) \/ TakeBucket(s)
    \/ Spawn \/ Join \/ EndLoop
    \/ SaveMarshal \/ SaveTruncate \/ SaveWrite \/ Finish

Worker(s) ==
    Exit(s) \/ NextFile(s) \/ StatBefore(s) \/ Hash(s) \/ StatAfter(s)
    \/ AppendFile(s)

StopSave == StopMarshal \/ StopTruncate \/ StopWrite

Handlers == (\E a \in Algos : Start(a)) \/ Pause \/ Resume \/ Stop \/ StopSave

Edit == \E f \in Files : Remove(f) \/ \E c \in Contents : Write(f, c)

Next ==
    \/ proc = "up" /\ (Scanner \/ Handlers \/ \E s \in Sizes : Worker(s))
    \/ Edit
    \/ Kill \/ Restart

Spec == Init /\ [][Next]_vars

\* The Go scheduler runs every goroutine that can run, and a handler that has
\* begun returns; nobody has to press a button, edit a file or kill the server.
Fairness ==
    /\ WF_vars(proc = "up" /\ Scanner)
    /\ \A s \in Sizes : WF_vars(proc = "up" /\ Worker(s))
    /\ WF_vars(proc = "up" /\ StopSave)

FairSpec == Spec /\ Fairness

-----------------------------------------------------------------------------
\* Properties.

WorkerState == [pc : {"idle", "check", "stat", "hash", "after", "append"},
                todo : SUBSET Meta, file : Meta \cup {NoMeta},
                before : Info \cup {NoInfo}, hv : Hashes \cup {NoHash}, err : Err]

\* Every variable has its type, and a goroutine at work holds a file.
TypeOK ==
    /\ fs \in [Files -> [content : Contents, modTime : Nat] \cup {Gone}]
    /\ edits \in Nat /\ kills \in Nat /\ scans \in Nat
    /\ proc \in {"up", "killed", "fatal"}
    /\ algo \in Algos
    /\ running \in BOOLEAN /\ paused \in BOOLEAN /\ stopped \in BOOLEAN
    /\ pc \in {"none", "build", "loop", "gate", "wait", "save", "truncate",
               "write", "finish", "done"}
    /\ toWalk \subseteq Roots \X Files /\ visited \subseteq Files
    /\ buckets \in [Sizes -> SUBSET Meta]
    /\ pending \subseteq Sizes /\ cur \in Sizes \cup {0}
    /\ total \in Nat /\ current \in Nat /\ progress \in 0..100
    /\ groups \in [Hashes \cup {NoHash} -> SUBSET Member]
    /\ w \in [Sizes -> WorkerState]
    /\ \A s \in Sizes : Working(s) => w[s].file \in Meta
    /\ cache \in Store /\ saveBuf \in Store /\ stopBuf \in Store
    /\ cacheFile \in CacheFile
    /\ stopPc \in {"idle", "marshal", "truncate", "write"}
    /\ late \in Nat

Paths(metas) == {m.path : m \in metas}
Grouped == UNION {Paths(groups[h]) : h \in Hashes \cup {NoHash}}

\* buildGroupsSnapshot: what Results, the preview and the deletion are given.
Results == {groups[h] : h \in {h \in Hashes : Cardinality(groups[h]) >= 2}}

\* The file is as the walk met it.
Untouched(m) == fs[m.path] # Gone /\ fs[m.path].modTime = m.modTime

\* No path is in two groups or twice in one.  A deletion keeps one file of each
\* group: a file in two of them could be kept for one and deleted for the other.
OncePerFile ==
    \A g, h \in Hashes \cup {NoHash} : \A m \in groups[g], n \in groups[h] :
        m.path = n.path => g = h /\ m = n

\* A file nobody has edited since the walk is in the group of its content,
\* whatever happened to the other files, the cache and the flags meanwhile.
GroupsTruthful ==
    \A h \in Hashes : \A m \in groups[h] :
        Untouched(m) => h = Digest[<<algo, fs[m.path].content>>]

\* A scan that ended without Stop reports every pair of files that were equal
\* throughout and that could be read, whatever the bucket order, the pauses, the
\* cache and the errors of other files.  The files that could not be read are those
\* set aside under the empty digest, which no result shows.
ResultsComplete ==
    pc = "done" /\ ~stopped /\ algo \in SupportedAlgos =>
        \A s \in Sizes : \A m, n \in buckets[s] :
            (/\ m # n /\ Untouched(m) /\ Untouched(n)
             /\ fs[m.path].content = fs[n.path].content
             /\ {m.path, n.path} \cap Paths(groups[NoHash]) = {})
               => \E R \in Results : {m.path, n.path} \subseteq Paths(R)

\* An entry that would answer for a file as it is now holds that file's digest,
\* in the map and in the file the next scan loads.
EntriesTruthful(m) ==
    \A f \in Files, a \in Algos :
        Stat(f) # NoInfo /\ Hit(m, f, Stat(f), a)
            => m[f].hash = Digest[<<a, fs[f].content>>]
CacheTruthful == EntriesTruthful(cache) /\ EntriesTruthful(Load(cacheFile))

\* After Stop at most the file being hashed is still added to the results.
StopsSoon == late <= 1

\* Store has no lock: one goroutine hashes at a time, and none is left when the
\* scanner marshals the map.  (Stop's own Save is not covered: see NoFatalRace.)
OneHasher ==
    /\ \A s, t \in Sizes : Active(s) /\ Active(t) => s = t
    /\ (\E s \in Sizes : Active(s)) => pc = "wait"

\* A finished, unstopped scan shows 100 percent if it bucketed any file.
ProgressComplete ==
    pc = "done" /\ ~stopped /\ (\E s \in Sizes : buckets[s] # {})
        => progress = 100

\* A file that no longer holds what its digest says when the second os.Stat
\* looks at it is marked as changed.
ChangesMarked ==
    [][\A s \in Sizes :
          LET f == w[s].file.path IN
          (/\ w[s].pc = "after" /\ w'[s].pc = "append"
           /\ w[s].hv # NoHash /\ fs[f] # Gone
           /\ w[s].hv # Digest[<<algo, fs[f].content>>])
             => w'[s].err = "changed"]_vars

\* The runtime never ends the server for a data race on the cache map.
NoFatalRace == proc # "fatal"

\* Unless it stays paused for ever, or is paused again and again, a scan ends.
ScanEnds == <>[]~paused => (Scanning ~> ~Scanning)

\* Stop ends a scan.
StopEndsScan == stopped /\ Scanning ~> ~Scanning

\* The scan task keeps the promises of ScanJob.
Job == INSTANCE ScanJob WITH
    phase <- CASE pc = "none" -> "none" [] pc = "build" -> "collecting"
               [] pc = "done" -> "finished" [] OTHER -> "classifying",
    candidates <- IF pc \in {"none", "build"} THEN {}
                  ELSE UNION {Paths(buckets[s]) : s \in {s \in Sizes : Large(s)}},
    classified <- Grouped
ImplementsJob == Job!JobSpec

-----------------------------------------------------------------------------
\* The inductive invariants behind the theorems of TaskProofs.

\* The files of bucket s that are still to be grouped.
Waiting(s) == IF s \in pending \/ (pc = "gate" /\ s = cur) THEN buckets[s]
              ELSE w[s].todo \cup (IF Working(s) THEN {w[s].file} ELSE {})

\* Each path is bucketed once, by its size, after it was visited.
BucketsInv ==
    /\ \A s \in Sizes : \A m \in buckets[s] : m.size = s /\ m.path \in visited
    /\ \A s, t \in Sizes : \A m \in buckets[s], n \in buckets[t] :
          m.path = n.path => m = n

\* Only the bucket the loop waits for has a goroutine, and it works on that bucket.
WorkersInv ==
    /\ \A s \in Sizes : Active(s) => pc = "wait" /\ s = cur
    /\ pc \in {"gate", "wait"} => cur \in Sizes \ pending
    /\ \A s \in Sizes :
          /\ w[s].todo \subseteq buckets[s]
          /\ Working(s) => w[s].file \in buckets[s] \ w[s].todo
          /\ ~Active(s) => w[s].todo = {}

\* No file that is still to be grouped is grouped already.
GroupsInv ==
    /\ pc \in {"none", "build"} => groups = NoGroups
    /\ \A s \in Sizes, h \in Hashes \cup {NoHash} :
          \A m \in Waiting(s), n \in groups[h] : m.path # n.path
    /\ OncePerFile

\* The one file grouped after Stop was the last.
LateInv ==
    /\ ~stopped => late = 0
    /\ late = 0 \/ (late = 1 /\ \A s \in Sizes : ~Working(s))

ControlInv == BucketsInv /\ WorkersInv /\ GroupsInv /\ LateInv

\* Every digest in hand or in a group is that of its file as the walk met it.
\* While files cannot change under a scan it is that of the file as it is.
DigestOf(f) == Digest[<<algo, fs[f].content>>]

TimesInv ==
    /\ \A f \in Files : fs[f] # Gone => fs[f].modTime <= edits
    /\ \A s \in Sizes : \A m \in buckets[s] : m.modTime <= edits
    /\ \A h \in Hashes : \A m \in groups[h] : m.modTime <= edits

InHandInv ==
    \A s \in Sizes :
        w[s].pc \in {"hash", "after", "append"} /\ w[s].hv # NoHash
          /\ fs[w[s].file.path] # Gone
          /\ (EditWhileScanning => Untouched(w[s].file))
        => w[s].hv = DigestOf(w[s].file.path)

\* An entry made for the time a file has now holds its digest.
StoreInv(m) ==
    \A f \in Files : m[f] # NoEntry =>
        /\ m[f].modTime <= edits
        /\ fs[f] # Gone /\ m[f].modTime = fs[f].modTime
              => m[f].hash = Digest[<<m[f].algo, fs[f].content>>]

StoresInv == /\ StoreInv(cache) /\ StoreInv(saveBuf) /\ StoreInv(stopBuf)
             /\ StoreInv(Load(cacheFile))

TruthInv == TimesInv /\ InHandInv /\ GroupsTruthful
            /\ (EnableHashCache => StoresInv)
=============================================================================
