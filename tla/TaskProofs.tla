----------------------------- MODULE TaskProofs -----------------------------
(***************************************************************************)
(* Theorems about module Task, for every value of its constants.           *)
(***************************************************************************)
EXTENDS Task, FiniteSetTheorems, FunctionTheorems, TLAPS

-----------------------------------------------------------------------------
\* Facts about the operators.

\* There are finitely many file sizes, because there are finitely many contents.
LEMMA SizesFinite == IsFiniteSet(Sizes) /\ Sizes \subseteq Nat \ {0}
<1> DEFINE All == {Size[c] : c \in Contents}
<1>1. Size \in Surjection(Contents, All)
  BY TaskAssumption DEF Surjection
<1>2. IsFiniteSet(All)
  BY <1>1, FS_Surjection, TaskAssumption
<1>3. IsFiniteSet(Sizes)
  BY <1>2, FS_Subset DEF Sizes
<1> QED
  BY <1>3, TaskAssumption DEF Sizes

\* The percentage of updateProgressStep stays within 0..100.
LEMMA PercentRange ==
  ASSUME total \in Nat, total # 0, NEW n \in Nat
  PROVE  Percent(n) \in 0..100
<1>1. CASE n > total
  BY <1>1 DEF Percent
<1>2. CASE ~(n > total)
  <2>1. n * 100 <= 100 * total
    BY <1>2
  <2>2. (n * 100) \div total \in 0..100
    BY <2>1
  <2> QED
    BY <1>2, <2>2 DEF Percent
<1> QED
  BY <1>1, <1>2

\* ProgressAt, the value updateProgressStep stores, is a percentage.
LEMMA ProgressRange ==
  ASSUME total \in Nat, progress \in 0..100, NEW n \in Nat
  PROVE  ProgressAt(n) \in 0..100
<1>1. CASE total = 0
  BY <1>1 DEF ProgressAt
<1>2. CASE total # 0
  <2>1. Percent(n) \in 0..100
    BY <1>2, PercentRange
  <2> QED
    BY <1>2, <2>1 DEF ProgressAt, NoLessThan
<1> QED
  BY <1>1, <1>2

\* os.Stat answers with an Info, or with none exactly when the file is gone.
LEMMA StatType ==
  ASSUME fs \in [Files -> [content : Contents, modTime : Nat] \cup {Gone}],
         NEW f \in Files
  PROVE  /\ Stat(f) \in Info \cup {NoInfo}
         /\ fs[f] = Gone <=> Stat(f) = NoInfo
BY TaskAssumption DEF Stat, Info

\* ComputeHash returns a digest or none.
LEMMA HashType ==
  ASSUME fs \in [Files -> [content : Contents, modTime : Nat] \cup {Gone}],
         algo \in Algos, NEW f \in Files
  PROVE  ComputeHash(f) \subseteq Hashes \cup {NoHash}
BY TaskAssumption DEF ComputeHash

\* So does a lookup in the cache.
LEMMA GetType ==
  ASSUME NEW m \in Store, NEW f \in Files, NEW info \in Info, NEW a
  PROVE  Get(m, f, info, a) \in Hashes \cup {NoHash}
BY SentinelAssumption DEF Get, Hit, Store, Entry

\* Putting an entry keeps the cache a map of entries.
LEMMA PutType ==
  ASSUME NEW m \in Store, NEW f \in Files, NEW info \in Info, NEW a \in Algos,
         NEW h \in Hashes
  PROVE  Put(m, f, info, a, h) \in Store
BY DEF Put, Store, Entry, Info

\* The empty cache is one, and so is whatever Load makes of the cache file.
LEMMA StoreTypes ==
  /\ EmptyStore \in Store
  /\ \A file \in CacheFile : Load(file) \in Store
BY DEF EmptyStore, Store, CacheFile, Load

\* The state of a bucket's goroutine before it is spawned and after it exits.
LEMMA IdleType == IdleWorker \in WorkerState /\ IdleWorker.pc = "idle"
BY DEF IdleWorker, WorkerState, Err

\* NewTask and a restart of the server give every variable they reset its type.
LEMMA FreshType ==
  ASSUME FreshTask
  PROVE  /\ paused' = FALSE /\ stopped' = FALSE
         /\ visited' = {} /\ buckets' \in [Sizes -> SUBSET Meta]
         /\ pending' \subseteq Sizes /\ cur' \in Sizes \cup {0}
         /\ total' \in Nat /\ current' \in Nat /\ progress' \in 0..100
         /\ groups' \in [Hashes \cup {NoHash} -> SUBSET Member]
         /\ w' \in [Sizes -> WorkerState]
         /\ \A s \in Sizes : ~Working(s)'
         /\ saveBuf' \in Store
         /\ late' \in Nat
BY IdleType, StoreTypes DEF FreshTask, NoGroups, Working

-----------------------------------------------------------------------------
\* Type correctness.

\* The edits of other programs keep the types.
LEMMA EditType ==
  ASSUME TypeOK, Edit
  PROVE  TypeOK'
<1>1. ASSUME NEW f \in Files, Remove(f)
      PROVE  TypeOK'
  BY <1>1 DEF TypeOK, Working, Remove, host, flags, walk, loop, counters, store, stopCall
<1>2. ASSUME NEW f \in Files, NEW c \in Contents, Write(f, c)
      PROVE  TypeOK'
  BY <1>2 DEF TypeOK, Working, Write, host, flags, walk, loop, counters, store, stopCall
<1> QED
  BY <1>1, <1>2 DEF Edit

\* So do the handlers and the Save of Stop.
LEMMA HandlersType ==
  ASSUME TypeOK, Handlers
  PROVE  TypeOK'
<1>1. ASSUME NEW a \in Algos, Start(a)
      PROVE  TypeOK'
  <2>1. cache' \in Store
    BY <1>1, StoreTypes DEF Start, TypeOK
  <2>2. toWalk' \subseteq Roots \X Files
    BY <1>1, TaskAssumption DEF Start
  <2> QED
    BY <1>1, <2>1, <2>2, FreshType DEF TypeOK, Working, Start, env, stopCall
<1>2. CASE Pause
  BY <1>2 DEF TypeOK, Working, Pause, env, host, walk, loop, counters, store, stopCall
<1>3. CASE Resume
  BY <1>3 DEF TypeOK, Working, Resume, env, host, walk, loop, counters, store, stopCall
<1>4. CASE Stop
  BY <1>4 DEF TypeOK, Working, Stop, env, host, walk, loop, counters, store
<1>5. CASE StopMarshal
  BY <1>5 DEF TypeOK, Working, StopMarshal, env, host, flags, walk, loop, counters, store
<1>6. CASE StopTruncate
  BY <1>6 DEF TypeOK, Working, StopTruncate, CacheFile, Truncated, env, host, flags, walk,
              loop, counters
<1>7. CASE StopWrite
  BY <1>7 DEF TypeOK, Working, StopWrite, CacheFile, Written, env, host, flags, walk,
              loop, counters
<1> QED
  BY <1>1, <1>2, <1>3, <1>4, <1>5, <1>6, <1>7 DEF Handlers, StopSave

\* So does the goroutine of StartAsync.
LEMMA ScannerType ==
  ASSUME TypeOK, Scanner
  PROVE  TypeOK'
<1>1. ASSUME NEW r \in Roots, NEW f \in Files, WalkFile(r, f)
      PROVE  TypeOK'
  <2>1. toWalk' \subseteq Roots \X Files /\ visited' \subseteq Files
    BY <1>1 DEF TypeOK, WalkFile
  <2>2. buckets' \in [Sizes -> SUBSET Meta]
    <3>1. CASE fs[f] = Gone \/ Seen(f)
      BY <1>1, <3>1 DEF TypeOK, WalkFile
    <3>2. CASE ~(fs[f] = Gone \/ Seen(f))
      <4> DEFINE info == Stat(f)
                 meta == [path |-> f, size |-> info.size, modTime |-> info.modTime]
      <4>1. info \in Info
        BY <3>2, StatType DEF TypeOK
      <4>2. meta \in Meta
        BY <4>1 DEF Meta, Info
      <4>3. buckets' = IF info.size > 0
                       THEN [buckets EXCEPT ![info.size] = @ \cup {meta}]
                       ELSE buckets
        BY <1>1, <3>2 DEF WalkFile
      <4> QED
        BY <4>2, <4>3 DEF TypeOK
    <3> QED
      BY <3>1, <3>2
  <2> QED
    BY <1>1, <2>1, <2>2
    DEF TypeOK, Working, WalkFile, env, host, flags, loop, counters, store, stopCall
<1>2. CASE FinishBuild
  <2>1. total' \in Nat
    <3>1. IsFiniteSet({s \in Sizes : Large(s)})
      BY SizesFinite, FS_Subset
    <3> QED
      BY <1>2, <3>1, FS_CardinalityType DEF FinishBuild
  <2>2. pending' \subseteq Sizes
    BY <1>2 DEF FinishBuild
  <2> QED
    BY <1>2, <2>1, <2>2
    DEF TypeOK, Working, FinishBuild, env, host, flags, walk, store, stopCall
<1>3. ASSUME UpdateProgressStep
      PROVE  total' \in Nat /\ current' \in Nat /\ progress' \in 0..100
  BY <1>3, ProgressRange DEF TypeOK, Working, UpdateProgressStep
<1>4. ASSUME NEW s \in Sizes, SkipBucket(s)
      PROVE  TypeOK'
  BY <1>3, <1>4 DEF TypeOK, Working, SkipBucket, env, host, flags, walk, store, stopCall
<1>5. ASSUME NEW s \in Sizes, TakeBucket(s)
      PROVE  TypeOK'
  BY <1>5 DEF TypeOK, Working, TakeBucket, env, host, flags, walk, counters, store, stopCall
<1>6. CASE Spawn
  <2>1. /\ w' \in [Sizes -> WorkerState]
        /\ \A s \in Sizes : Working(s)' => w'[s].file \in Meta
    <3>1. CASE cur \in Sizes
      <4> DEFINE next == [IdleWorker EXCEPT !.pc = "check", !.todo = buckets[cur]]
      <4>1. next \in WorkerState /\ next.pc = "check"
        BY <3>1, IdleType DEF TypeOK, WorkerState
      <4>2. w' = [w EXCEPT ![cur] = next]
        BY <1>6 DEF Spawn
      <4> HIDE DEF next
      <4> QED
        BY <4>1, <4>2 DEF TypeOK, Working
    <3>2. CASE cur \notin Sizes
      BY <1>6, <3>2 DEF TypeOK, Working, Spawn
    <3> QED
      BY <3>1, <3>2
  <2> QED
    BY <1>6, <2>1
    DEF TypeOK, Working, Spawn, env, host, flags, walk, loop, counters, store, stopCall
<1>7. CASE Join
  BY <1>3, <1>7 DEF TypeOK, Working, Join, env, host, flags, walk, loop, store, stopCall
<1>8. CASE EndLoop
  BY <1>8 DEF TypeOK, Working, EndLoop, env, host, flags, walk, loop, counters, store, stopCall
<1>9. CASE SaveMarshal
  BY <1>9 DEF TypeOK, Working, SaveMarshal, env, host, flags, walk, loop, counters, stopCall
<1>10. CASE SaveTruncate
  BY <1>10 DEF TypeOK, Working, SaveTruncate, CacheFile, Truncated, env, host, flags, walk,
               loop, counters, stopCall
<1>11. CASE SaveWrite
  BY <1>11 DEF TypeOK, Working, SaveWrite, CacheFile, Written, env, host, flags, walk, loop,
               counters, stopCall
<1>12. CASE Finish
  BY <1>12 DEF TypeOK, Working, Finish, env, host, walk, loop, counters, store, stopCall
<1> QED
  BY <1>1, <1>2, <1>4, <1>5, <1>6, <1>7, <1>8, <1>9, <1>10, <1>11, <1>12 DEF Scanner

\* So does a hashing goroutine.
LEMMA WorkerType ==
  ASSUME TypeOK, NEW s \in Sizes, Worker(s)
  PROVE  TypeOK'
<1> DEFINE f == w[s].file.path
           info == Stat(f)
<1>0. ASSUME Working(s)
      PROVE  /\ f \in Files /\ info \in Info \cup {NoInfo}
             /\ w[s].file \in Meta
  <2>1. w[s].file \in Meta /\ f \in Files
    BY <1>0 DEF TypeOK, Meta
  <2> QED
    BY <2>1, StatType DEF TypeOK
<1>1. CASE Exit(s)
  <2>1. /\ w' \in [Sizes -> WorkerState]
        /\ \A t \in Sizes : Working(t)' => w'[t].file \in Meta
    BY <1>1, IdleType DEF TypeOK, Exit, Working
  <2> QED
    BY <1>1, <2>1 DEF TypeOK, Exit, env, host, flags, walk, loop, counters, store,
                      stopCall
<1>2. CASE NextFile(s)
  <2>1. /\ w' \in [Sizes -> WorkerState]
        /\ \A t \in Sizes : Working(t)' => w'[t].file \in Meta
    BY <1>2 DEF TypeOK, NextFile, WorkerState, Working
  <2> QED
    BY <1>2, <2>1 DEF TypeOK, NextFile, env, host, flags, walk, loop, counters,
                      store, stopCall
<1>3. CASE StatBefore(s)
  <2> DEFINE hv == IF EnableHashCache /\ info # NoInfo
                   THEN Get(cache, f, info, algo) ELSE NoHash
  <2>1. info \in Info \cup {NoInfo} /\ hv \in Hashes \cup {NoHash}
    BY <1>0, <1>3, GetType DEF StatBefore, Working, TypeOK
  <2>2. w' = [w EXCEPT ![s].pc = "hash", ![s].before = info, ![s].hv = hv]
    BY <1>3 DEF StatBefore
  <2>3. /\ w' \in [Sizes -> WorkerState]
        /\ \A t \in Sizes : Working(t)' => w'[t].file \in Meta
    <3> DEFINE next == [w[s] EXCEPT !.pc = "hash", !.before = info, !.hv = hv]
    <3>1. next \in WorkerState /\ next.file \in Meta
      <4> HIDE DEF info, hv
      <4> QED
        BY <1>0, <1>3, <2>1 DEF StatBefore, TypeOK, WorkerState, Working
    <3>2. w' = [w EXCEPT ![s] = next]
      BY <2>2
    <3> HIDE DEF next
    <3> QED
      BY <3>1, <3>2 DEF TypeOK, Working
  <2> QED
    BY <1>3, <2>3 DEF TypeOK, StatBefore, env, host, flags, walk, loop, counters,
                      store, stopCall
<1>4. CASE Hash(s)
  <2>2. PICK hv \in IF w[s].hv = NoHash THEN ComputeHash(f) ELSE {w[s].hv} :
           w' = [w EXCEPT ![s].pc = "after", ![s].hv = hv]
    BY <1>4 DEF Hash
  <2>1. hv \in Hashes \cup {NoHash}
    BY <1>0, <1>4, <2>2, HashType DEF Hash, Working, TypeOK, WorkerState
  <2>3. /\ w' \in [Sizes -> WorkerState]
        /\ \A t \in Sizes : Working(t)' => w'[t].file \in Meta
    <3> DEFINE next == [w[s] EXCEPT !.pc = "after", !.hv = hv]
    <3>1. next \in WorkerState /\ next.file \in Meta
      BY <1>0, <1>4, <2>1 DEF Hash, TypeOK, WorkerState, Working
    <3>2. w' = [w EXCEPT ![s] = next]
      BY <2>2
    <3> HIDE DEF next
    <3> QED
      BY <3>1, <3>2 DEF TypeOK, Working
  <2> QED
    BY <1>4, <2>3 DEF TypeOK, Hash, env, host, flags, walk, loop, counters,
                      store, stopCall
<1>5. CASE StatAfter(s)
  <2> DEFINE err == Mark(w[s].before, info, w[s].hv)
  <2>1. err \in Err
    BY DEF Mark, Err
  <2>2. w' = [w EXCEPT ![s].pc = "append", ![s].err = err]
    BY <1>5 DEF StatAfter
  <2>3. /\ w' \in [Sizes -> WorkerState]
        /\ \A t \in Sizes : Working(t)' => w'[t].file \in Meta
    <3> DEFINE next == [w[s] EXCEPT !.pc = "append", !.err = err]
    <3>1. next \in WorkerState /\ next.file \in Meta
      <4> HIDE DEF err
      <4> QED
        BY <1>0, <1>5, <2>1 DEF StatAfter, TypeOK, WorkerState, Working
    <3>2. w' = [w EXCEPT ![s] = next]
      BY <2>2
    <3> HIDE DEF next
    <3> QED
      BY <3>1, <3>2 DEF TypeOK, Working
  <2>4. cache' \in Store
    <3>1. w[s].hv \in Hashes \cup {NoHash}
      BY DEF TypeOK, WorkerState
    <3> QED
      BY <1>0, <1>5, <3>1, PutType DEF StatAfter, TypeOK, Working
  <2>5. proc' \in {"up", "fatal"}
    BY <1>5 DEF StatAfter
  <2> QED
    BY <1>5, <2>3, <2>4, <2>5
    DEF TypeOK, StatAfter, env, flags, walk, loop, counters, stopCall
<1>6. CASE AppendFile(s)
  <2> DEFINE m == w[s].file
             member == [path |-> m.path, size |-> m.size, modTime |-> m.modTime,
                        err |-> w[s].err]
             next == [IdleWorker EXCEPT !.pc = "check", !.todo = w[s].todo]
  <2>1. member \in Member /\ w[s].hv \in Hashes \cup {NoHash}
    BY <1>0, <1>6 DEF AppendFile, Working, TypeOK, Meta, Member, WorkerState
  <2>2. next \in WorkerState /\ next.pc = "check"
    BY IdleType DEF TypeOK, WorkerState
  <2>3. /\ groups' = [groups EXCEPT ![w[s].hv] = @ \cup {member}]
        /\ w' = [w EXCEPT ![s] = next]
    BY <1>6 DEF AppendFile
  <2>4. groups' \in [Hashes \cup {NoHash} -> SUBSET Member]
    <3> HIDE DEF member
    <3> QED
      BY <2>1, <2>3 DEF TypeOK
  <2>5. /\ w' \in [Sizes -> WorkerState]
        /\ \A t \in Sizes : Working(t)' => w'[t].file \in Meta
    <3> HIDE DEF next
    <3> QED
      BY <2>2, <2>3 DEF TypeOK, Working
  <2>6. late' \in Nat
    BY <1>6 DEF AppendFile, TypeOK
  <2> QED
    BY <1>6, <2>4, <2>5, <2>6
    DEF TypeOK, AppendFile, env, host, flags, walk, loop, counters, store, stopCall
<1> QED
  BY <1>1, <1>2, <1>3, <1>4, <1>5, <1>6 DEF Worker

\* Type correctness (TypeOK, task_cached): every variable keeps its type through
\* edits, handlers, both savers, kills and restarts.
THEOREM TypeCorrect == Spec => []TypeOK
<1>1. Init => TypeOK
  <2> SUFFICES ASSUME Init
               PROVE  TypeOK
    OBVIOUS
  <2>1. fs \in [Files -> [content : Contents, modTime : Nat] \cup {Gone}]
    <3>1. [content : Contents, modTime : {0}] \subseteq [content : Contents, modTime : Nat]
      OBVIOUS
    <3> QED
      BY <3>1 DEF Init
  <2>2. /\ w \in [Sizes -> WorkerState]
        /\ \A s \in Sizes : Working(s) => w[s].file \in Meta
    BY IdleType DEF Init, Working
  <2>3. groups \in [Hashes \cup {NoHash} -> SUBSET Member]
    BY DEF Init, NoGroups
  <2>4. /\ cache \in Store /\ saveBuf \in Store /\ stopBuf \in Store
        /\ cacheFile \in CacheFile
    BY StoreTypes DEF Init, CacheFile
  <2>5. /\ buckets \in [Sizes -> SUBSET Meta] /\ pending \subseteq Sizes
        /\ toWalk \subseteq Roots \X Files /\ visited \subseteq Files
    BY DEF Init
  <2>6. /\ edits \in Nat /\ kills \in Nat /\ scans \in Nat /\ late \in Nat
        /\ total \in Nat /\ current \in Nat /\ progress \in 0..100
        /\ cur \in Sizes \cup {0}
    BY DEF Init
  <2>7. /\ running \in BOOLEAN /\ paused \in BOOLEAN /\ stopped \in BOOLEAN
        /\ algo \in Algos /\ proc = "up" /\ pc = "none" /\ stopPc = "idle"
    BY DEF Init
  <2> QED
    BY <2>1, <2>2, <2>3, <2>4, <2>5, <2>6, <2>7 DEF TypeOK
<1>2. TypeOK /\ [Next]_vars => TypeOK'
  <2> SUFFICES ASSUME TypeOK, [Next]_vars
               PROVE  TypeOK'
    OBVIOUS
  <2>1. CASE Scanner
    BY <2>1, ScannerType
  <2>2. CASE Handlers
    BY <2>2, HandlersType
  <2>3. CASE \E s \in Sizes : Worker(s)
    BY <2>3, WorkerType
  <2>4. CASE Edit
    BY <2>4, EditType
  <2>5. CASE Kill
    BY <2>5 DEF TypeOK, Working, Kill, env, flags, walk, loop, counters, store,
                stopCall
  <2>6. CASE Restart
    BY <2>6, FreshType, StoreTypes DEF TypeOK, Restart, env
  <2>7. CASE UNCHANGED vars
    BY <2>7 DEF TypeOK, Working, vars, env, host, flags, walk, loop, counters,
                store, stopCall
  <2> QED
    BY <2>1, <2>2, <2>3, <2>4, <2>5, <2>6, <2>7 DEF Next
<1> QED
  BY <1>1, <1>2, PTL DEF Spec

-----------------------------------------------------------------------------
\* The control invariant.

\* The files a bucket still has to group are files of that bucket.
LEMMA WaitingInBucket ==
  ASSUME ControlInv, NEW s \in Sizes
  PROVE  Waiting(s) \subseteq buckets[s]
BY DEF ControlInv, WorkersInv, Waiting

\* What ControlInv reads.
control == <<stopped, pc, visited, buckets, pending, cur, groups, w, late>>

\* A step that leaves alone what ControlInv reads keeps it.
LEMMA ControlFrame ==
  ASSUME ControlInv, UNCHANGED control
  PROVE  ControlInv'
<1>1. BucketsInv'
  BY DEF ControlInv, control, BucketsInv
<1>2. WorkersInv'
  BY DEF ControlInv, control, WorkersInv, Active, Working
<1>3. GroupsInv'
  BY DEF ControlInv, control, GroupsInv, OncePerFile, NoGroups, Waiting, Working
<1>4. LateInv'
  BY DEF ControlInv, control, LateInv, Working
<1> QED
  BY <1>1, <1>2, <1>3, <1>4 DEF ControlInv

\* A new task, or no task at all.
LEMMA ControlFresh ==
  ASSUME FreshTask, pc' \in {"none", "build"}
  PROVE  ControlInv'
<1>1. BucketsInv'
  BY DEF FreshTask, BucketsInv
<1>2. \A s \in Sizes : w'[s] = IdleWorker
  BY DEF FreshTask
<1>3. WorkersInv'
  BY <1>2 DEF FreshTask, WorkersInv, Active, Working, IdleWorker
<1>4. GroupsInv'
  BY DEF FreshTask, GroupsInv, OncePerFile, NoGroups
<1>5. LateInv'
  BY DEF FreshTask, LateInv
<1> QED
  BY <1>1, <1>3, <1>4, <1>5 DEF ControlInv

\* The goroutine of s goes on with the file it holds.
LEMMA ControlSameFile ==
  ASSUME TypeOK, ControlInv, NEW s \in Sizes, Working(s), Working(s)',
         \A t \in Sizes \ {s} : w'[t] = w[t],
         w'[s].todo = w[s].todo, w'[s].file = w[s].file,
         UNCHANGED <<stopped, pc, visited, buckets, pending, cur, groups, late>>
  PROVE  ControlInv'
<1>1. BucketsInv'
  BY DEF ControlInv, BucketsInv
<1>2. \A t \in Sizes : /\ Working(t)' <=> Working(t)
                      /\ w'[t].todo = w[t].todo /\ w'[t].file = w[t].file
  BY DEF Working
<1>3. \A t \in Sizes : Active(t)' <=> Active(t)
  BY DEF Working, Active
<1>4. WorkersInv'
  BY <1>2, <1>3 DEF ControlInv, WorkersInv
<1>5. \A t \in Sizes : Waiting(t)' = Waiting(t)
  BY <1>2 DEF Waiting
<1>6. GroupsInv'
  BY <1>5 DEF ControlInv, GroupsInv, OncePerFile, NoGroups
<1>7. LateInv'
  BY <1>2 DEF ControlInv, LateInv
<1> QED
  BY <1>1, <1>4, <1>6, <1>7 DEF ControlInv

\* Only the loop over the buckets moves: no goroutine is alive.
LEMMA ControlLoop ==
  ASSUME TypeOK, ControlInv, \A s \in Sizes : ~Active(s),
         pc \notin {"none", "build"}, pc' \notin {"none", "build"},
         pc' = "gate" => cur' \in Sizes \ pending',
         pc' # "wait",
         \A s \in Sizes : s \in pending' \/ (pc' = "gate" /\ s = cur')
                         => s \in pending \/ (pc = "gate" /\ s = cur),
         UNCHANGED <<stopped, visited, buckets, groups, w, late>>
  PROVE  ControlInv'
<1>1. BucketsInv'
  BY DEF ControlInv, BucketsInv
<1>2. WorkersInv'
  BY DEF ControlInv, WorkersInv, Active, Working
<1>3. \A s \in Sizes : w[s].todo = {} /\ ~Working(s)
  BY DEF ControlInv, WorkersInv, Active, Working
<1>4. \A s \in Sizes : Waiting(s)' \subseteq Waiting(s)
  BY <1>3 DEF Waiting, Working
<1>5. GroupsInv'
  BY <1>4 DEF ControlInv, GroupsInv, OncePerFile
<1>6. LateInv'
  BY DEF ControlInv, LateInv, Working
<1> QED
  BY <1>1, <1>2, <1>5, <1>6 DEF ControlInv

\* The goroutine of StartAsync keeps the control invariant.
LEMMA ControlScanner ==
  ASSUME TypeOK, ControlInv, Scanner
  PROVE  ControlInv'
<1>0. ASSUME pc # "wait"
      PROVE  \A s \in Sizes : ~Active(s)
  BY <1>0 DEF ControlInv, WorkersInv
<1>1. ASSUME NEW r \in Roots, NEW f \in Files, WalkFile(r, f)
      PROVE  ControlInv'
  <2>1. CASE fs[f] = Gone \/ Seen(f)
    BY <1>1, <2>1, ControlFrame DEF WalkFile, control, flags, loop
  <2>2. CASE ~(fs[f] = Gone \/ Seen(f))
    <3> DEFINE info == Stat(f)
               meta == [path |-> f, size |-> info.size, modTime |-> info.modTime]
    <3>1. /\ visited' = visited \cup {f} /\ f \notin visited
          /\ buckets' = IF info.size > 0
                        THEN [buckets EXCEPT ![info.size] = @ \cup {meta}]
                        ELSE buckets
      BY <1>1, <2>2 DEF WalkFile, Seen
    <3>2. meta.path = f /\ meta.size = info.size
      OBVIOUS
    <3>3. \A s \in Sizes : \A m \in buckets'[s] :
             m \in buckets[s] \/ (m = meta /\ s = info.size)
      <4> HIDE DEF meta, info
      <4> QED
        BY <3>1 DEF TypeOK
    <3>4. BucketsInv'
      <4> HIDE DEF meta, info
      <4> QED
        BY <3>1, <3>2, <3>3 DEF ControlInv, BucketsInv
    <3>5. WorkersInv'
      <4>1. \A s \in Sizes : w[s].todo = {} /\ ~Working(s) /\ ~Active(s)
        BY <1>0, <1>1 DEF ControlInv, WorkersInv, WalkFile, Active, Working
      <4> QED
        BY <1>1, <4>1 DEF WorkersInv, WalkFile, Active, Working
    <3>6. GroupsInv'
      BY <1>1 DEF ControlInv, GroupsInv, WalkFile, NoGroups, OncePerFile
    <3>7. LateInv'
      BY <1>1 DEF ControlInv, LateInv, WalkFile, flags, Working
    <3> QED
      BY <3>4, <3>5, <3>6, <3>7 DEF ControlInv
  <2> QED
    BY <2>1, <2>2
<1>2. CASE FinishBuild
  <2>1. BucketsInv'
    BY <1>2 DEF ControlInv, BucketsInv, FinishBuild, walk
  <2>2. WorkersInv'
    BY <1>0, <1>2 DEF ControlInv, WorkersInv, FinishBuild, walk, Active, Working
  <2>3. GroupsInv'
    BY <1>2 DEF ControlInv, GroupsInv, FinishBuild, NoGroups, OncePerFile
  <2>4. LateInv'
    BY <1>2 DEF ControlInv, LateInv, FinishBuild, flags, Working
  <2> QED
    BY <2>1, <2>2, <2>3, <2>4 DEF ControlInv
<1>3. ASSUME NEW s \in Sizes, SkipBucket(s)
      PROVE  ControlInv'
  BY <1>0, <1>3, ControlLoop DEF SkipBucket, flags, walk
<1>4. ASSUME NEW s \in Sizes, TakeBucket(s)
      PROVE  ControlInv'
  BY <1>0, <1>4, ControlLoop DEF TakeBucket, flags, walk
<1>5. CASE Spawn
  <2> DEFINE next == [IdleWorker EXCEPT !.pc = "check", !.todo = buckets[cur]]
  <2>1. cur \in Sizes \ pending /\ \A s \in Sizes : ~Active(s)
    BY <1>0, <1>5 DEF ControlInv, WorkersInv, Spawn
  <2>2. next.pc = "check" /\ next.todo = buckets[cur]
    BY DEF IdleWorker
  <2>3. w' = [w EXCEPT ![cur] = next] /\ pc = "gate" /\ pc' = "wait"
    BY <1>5 DEF Spawn
  <2>4. UNCHANGED <<stopped, visited, buckets, pending, cur, groups, late>>
    BY <1>5 DEF Spawn, flags, walk, loop
  <2> HIDE DEF next
  <2>5. \A s \in Sizes : w'[s] = IF s = cur THEN next ELSE w[s]
    BY <2>1, <2>3 DEF TypeOK
  <2>6. \A s \in Sizes : ~Working(s)' /\ (Active(s)' => s = cur)
    BY <2>1, <2>2, <2>5 DEF Working, Active
  <2>7. BucketsInv'
    BY <2>4 DEF ControlInv, BucketsInv
  <2>8. WorkersInv'
    BY <2>1, <2>2, <2>3, <2>4, <2>5, <2>6 DEF ControlInv, WorkersInv, Active
  <2>9. \A s \in Sizes : Waiting(s)' \subseteq Waiting(s)
    BY <2>1, <2>2, <2>3, <2>4, <2>5, <2>6 DEF Waiting
  <2>10. GroupsInv'
    BY <2>3, <2>4, <2>9 DEF ControlInv, GroupsInv, OncePerFile
  <2>11. LateInv'
    BY <2>4, <2>6 DEF ControlInv, LateInv
  <2> QED
    BY <2>7, <2>8, <2>10, <2>11 DEF ControlInv
<1>6. CASE Join
  BY <1>6, ControlLoop DEF Join, AllExited, flags, walk, loop
<1>7. CASE EndLoop
  BY <1>0, <1>7, ControlLoop DEF EndLoop, flags, walk, loop
<1>8. CASE SaveMarshal \/ SaveTruncate \/ SaveWrite \/ Finish
  BY <1>0, <1>8, ControlLoop
  DEF SaveMarshal, SaveTruncate, SaveWrite, Finish, flags, walk, loop
<1> QED
  BY <1>1, <1>2, <1>3, <1>4, <1>5, <1>6, <1>7, <1>8 DEF Scanner

\* A hashing goroutine keeps the control invariant.
LEMMA ControlWorker ==
  ASSUME TypeOK, ControlInv, NEW s \in Sizes, Worker(s)
  PROVE  ControlInv'
<1>0. /\ Active(s) /\ pc = "wait" /\ s = cur /\ s \notin pending
      /\ \A t \in Sizes \ {s} : ~Active(t) /\ ~Working(t) /\ w[t].todo = {}
  <2>1. Active(s)
    BY DEF Worker, Exit, NextFile, StatBefore, Hash, StatAfter, AppendFile, Active
  <2> QED
    BY <2>1 DEF ControlInv, WorkersInv, Active, Working
<1>1. CASE Exit(s)
  <2>1. \A t \in Sizes : w'[t] = IF t = s THEN IdleWorker ELSE w[t]
    BY <1>1 DEF Exit, TypeOK
  <2>2. /\ UNCHANGED <<stopped, pc, visited, buckets, pending, cur, groups, late>>
    BY <1>1 DEF Exit, flags, walk, loop
  <2>3. \A t \in Sizes : w'[t].todo = {} /\ ~Active(t)' /\ ~Working(t)'
    BY <1>0, <2>1 DEF IdleWorker, Active, Working
  <2>4. BucketsInv'
    BY <2>2 DEF ControlInv, BucketsInv
  <2>5. WorkersInv'
    BY <2>2, <2>3 DEF ControlInv, WorkersInv
  <2>6. \A t \in Sizes : Waiting(t)' \subseteq Waiting(t)
    BY <2>2, <2>3 DEF Waiting
  <2>7. GroupsInv'
    BY <1>0, <2>2, <2>6 DEF ControlInv, GroupsInv, OncePerFile
  <2>8. LateInv'
    BY <2>2, <2>3 DEF ControlInv, LateInv
  <2> QED
    BY <2>4, <2>5, <2>7, <2>8 DEF ControlInv
<1>2. CASE NextFile(s)
  <2>1. PICK m \in w[s].todo :
           w' = [w EXCEPT ![s].pc = "stat", ![s].file = m, ![s].todo = @ \ {m}]
    BY <1>2 DEF NextFile
  <2> DEFINE next == [w[s] EXCEPT !.pc = "stat", !.file = m, !.todo = @ \ {m}]
  <2>2. \A t \in Sizes : w'[t] = IF t = s THEN next ELSE w[t]
    BY <2>1 DEF TypeOK
  <2>3. next.pc = "stat" /\ next.file = m /\ next.todo = w[s].todo \ {m}
    BY DEF TypeOK, WorkerState
  <2>4. UNCHANGED <<stopped, pc, visited, buckets, pending, cur, groups, late>>
    BY <1>2 DEF NextFile, flags, walk, loop
  <2>5. ~stopped /\ w[s].pc = "check"
    BY <1>2 DEF NextFile, Halted
  <2> HIDE DEF next
  <2>6. BucketsInv'
    BY <2>4 DEF ControlInv, BucketsInv
  <2>7. WorkersInv'
    BY <1>0, <2>2, <2>3, <2>4 DEF ControlInv, WorkersInv, Active, Working
  <2>8. \A t \in Sizes : Waiting(t)' \subseteq Waiting(t)
    BY <1>0, <2>2, <2>3, <2>4 DEF Waiting, Working
  <2>9. GroupsInv'
    BY <1>0, <2>4, <2>8 DEF ControlInv, GroupsInv, OncePerFile
  <2>10. LateInv'
    BY <2>4, <2>5 DEF ControlInv, LateInv
  <2> QED
    BY <2>6, <2>7, <2>9, <2>10 DEF ControlInv
<1>3. CASE StatBefore(s)
  BY <1>3, ControlSameFile
  DEF StatBefore, TypeOK, WorkerState, Working, flags, walk, loop
<1>4. CASE Hash(s)
  BY <1>4, ControlSameFile
  DEF Hash, TypeOK, WorkerState, Working, flags, walk, loop
<1>5. CASE StatAfter(s)
  BY <1>5, ControlSameFile
  DEF StatAfter, TypeOK, WorkerState, Working, flags, walk, loop
<1>6. CASE AppendFile(s)
  <2> DEFINE m == w[s].file
             hv == w[s].hv
             member == [path |-> m.path, size |-> m.size, modTime |-> m.modTime,
                        err |-> w[s].err]
             next == [IdleWorker EXCEPT !.pc = "check", !.todo = w[s].todo]
  <2>1. /\ groups' = [groups EXCEPT ![hv] = @ \cup {member}]
        /\ w' = [w EXCEPT ![s] = next]
        /\ late' = IF stopped THEN late + 1 ELSE late
        /\ Working(s)
    BY <1>6 DEF AppendFile, Working
  <2>2. UNCHANGED <<stopped, pc, visited, buckets, pending, cur>>
    BY <1>6 DEF AppendFile, flags, walk, loop
  <2>3. member.path = m.path /\ next.pc = "check" /\ next.todo = w[s].todo
    BY DEF IdleWorker
  <2>4. hv \in Hashes \cup {NoHash}
    BY DEF TypeOK, WorkerState
  <2>5. m \in Waiting(s) /\ m \in buckets[s] /\ m \notin w[s].todo
    BY <1>0, <2>1 DEF ControlInv, WorkersInv, Waiting
  <2> HIDE DEF member, next
  <2>6. \A t \in Sizes : w'[t] = IF t = s THEN next ELSE w[t]
    BY <2>1 DEF TypeOK
  <2>7. \A h \in Hashes \cup {NoHash} : \A n \in groups'[h] :
           n \in groups[h] \/ (h = hv /\ n = member)
    BY <2>1 DEF TypeOK
  <2>8. BucketsInv'
    BY <2>2 DEF ControlInv, BucketsInv
  <2>9. WorkersInv'
    BY <1>0, <2>2, <2>3, <2>6 DEF ControlInv, WorkersInv, Active, Working
  <2>10. \A t \in Sizes : Waiting(t)' \subseteq Waiting(t) \ {m}
    <3>1. Waiting(s)' = w[s].todo /\ w[s].todo \subseteq Waiting(s)
      BY <1>0, <2>2, <2>3, <2>6 DEF Waiting, Working
    <3>2. \A t \in Sizes \ {s} : Waiting(t)' = Waiting(t)
      BY <2>2, <2>6 DEF Waiting, Working
    <3>3. \A t \in Sizes \ {s} : m \notin Waiting(t)
      BY <2>5, WaitingInBucket DEF ControlInv, BucketsInv
    <3> QED
      BY <2>5, <3>1, <3>2, <3>3
  <2>11. \A t \in Sizes : \A n \in Waiting(t) : n.path = m.path => n = m
    BY <2>5, WaitingInBucket DEF ControlInv, BucketsInv
  <2>12. \A h \in Hashes \cup {NoHash} : \A n \in groups[h] : n.path # m.path
    BY <2>5 DEF ControlInv, GroupsInv
  <2>13. OncePerFile'
    BY <2>3, <2>7, <2>12 DEF ControlInv, GroupsInv, OncePerFile
  <2>14. \A t \in Sizes, h \in Hashes \cup {NoHash} :
            \A k \in Waiting(t)', n \in groups'[h] : k.path # n.path
    BY <2>3, <2>7, <2>10, <2>11 DEF ControlInv, GroupsInv
  <2>15. GroupsInv'
    BY <1>0, <2>2, <2>13, <2>14 DEF GroupsInv
  <2>16. \A t \in Sizes : ~Working(t)'
    BY <1>0, <2>3, <2>6 DEF Working
  <2>17. LateInv'
    BY <2>1, <2>2, <2>16 DEF ControlInv, LateInv
  <2> QED
    BY <2>8, <2>9, <2>15, <2>17 DEF ControlInv
<1> QED
  BY <1>1, <1>2, <1>3, <1>4, <1>5, <1>6 DEF Worker

\* The web handlers keep the control invariant.
LEMMA ControlHandlers ==
  ASSUME TypeOK, ControlInv, Handlers
  PROVE  ControlInv'
<1>1. ASSUME NEW a \in Algos, Start(a)
      PROVE  ControlInv'
  BY <1>1, ControlFresh DEF Start
<1>2. CASE Stop
  <2>1. BucketsInv'
    BY <1>2 DEF ControlInv, BucketsInv, Stop, walk
  <2>2. WorkersInv'
    BY <1>2 DEF ControlInv, WorkersInv, Stop, walk, loop, Active, Working
  <2>3. GroupsInv'
    BY <1>2 DEF ControlInv, GroupsInv, Stop, walk, loop, NoGroups, OncePerFile,
                Waiting, Working
  <2>4. LateInv'
    BY <1>2 DEF ControlInv, LateInv, Stop, Working
  <2> QED
    BY <2>1, <2>2, <2>3, <2>4 DEF ControlInv
<1>3. CASE Pause \/ Resume \/ StopSave
  BY <1>3, ControlFrame
  DEF Pause, Resume, StopSave, StopMarshal, StopTruncate, StopWrite, control,
      flags, walk, loop
<1> QED
  BY <1>1, <1>2, <1>3 DEF Handlers

\* The control invariant holds in every reachable state.
THEOREM ControlCorrect == Spec => []ControlInv
<1>1. Init => ControlInv
  BY DEF Init, ControlInv, BucketsInv, WorkersInv, GroupsInv, LateInv, OncePerFile,
         NoGroups, Active, Working, IdleWorker
<1>2. TypeOK /\ ControlInv /\ [Next]_vars => ControlInv'
  <2> SUFFICES ASSUME TypeOK, ControlInv, [Next]_vars
               PROVE  ControlInv'
    OBVIOUS
  <2>1. CASE Scanner
    BY <2>1, ControlScanner
  <2>2. CASE Handlers
    BY <2>2, ControlHandlers
  <2>3. CASE \E s \in Sizes : Worker(s)
    BY <2>3, ControlWorker
  <2>4. CASE Edit \/ Kill \/ UNCHANGED vars
    BY <2>4, ControlFrame
    DEF Edit, Remove, Write, Kill, vars, control, flags, walk, loop
  <2>5. CASE Restart
    BY <2>5, ControlFresh DEF Restart
  <2> QED
    BY <2>1, <2>2, <2>3, <2>4, <2>5 DEF Next
<1> QED
  BY <1>1, <1>2, TypeCorrect, PTL DEF Spec

\* OncePerFile (task_edited): no path is in two groups, however the roots overlap,
\* the buckets are ordered and the scan is paused, stopped or restarted.
THEOREM OncePerFileHolds == Spec => []OncePerFile
BY ControlCorrect, PTL DEF ControlInv, GroupsInv

\* StopsSoon (task_edited): at most one file is grouped after Stop.
THEOREM StopsSoonHolds == Spec => []StopsSoon
<1>1. ControlInv => StopsSoon
  BY DEF ControlInv, LateInv, StopsSoon
<1> QED
  BY <1>1, ControlCorrect, PTL

\* OneHasher (task_edited): whatever MaxWorkers is, one goroutine hashes at a time
\* and none outlives the loop, so the unlocked map is never written by two of them.
THEOREM OneHasherHolds == Spec => []OneHasher
<1>1. ControlInv => OneHasher
  BY DEF ControlInv, WorkersInv, OneHasher
<1> QED
  BY <1>1, ControlCorrect, PTL

-----------------------------------------------------------------------------
\* Digests tell the truth, with the cache or with edits during a scan, not both:
\* with both the run task_cache_poisoned refutes GroupsTruthful.

\* No cache, or no edits under a running scan.
OneOfTheTwo == ~EnableHashCache \/ ~EditWhileScanning

\* The empty cache holds no wrong digest.
LEMMA EmptyStoreTrue == StoreInv(EmptyStore)
BY DEF StoreInv, EmptyStore

\* The places a cache can be found in: memory, the two JSON buffers, the file.
KnownStores == {cache, saveBuf, stopBuf, Load(cacheFile), EmptyStore}

\* Under the truth invariant no copy of the cache holds a wrong digest.
LEMMA KnownStoresTrue ==
  ASSUME TruthInv, EnableHashCache
  PROVE  \A m \in KnownStores : StoreInv(m)
BY EmptyStoreTrue DEF TruthInv, StoresInv, KnownStores

\* Steps that touch neither the files, the goroutines nor the groups.
LEMMA TruthFrame ==
  ASSUME TruthInv, UNCHANGED <<fs, edits, algo, buckets, groups, w>>,
         EnableHashCache => {cache', saveBuf', stopBuf', Load(cacheFile')}
                              \subseteq KnownStores
  PROVE  TruthInv'
<1>1. TimesInv'
  BY DEF TruthInv, TimesInv
<1>2. InHandInv'
  BY DEF TruthInv, InHandInv, Untouched, DigestOf
<1>3. GroupsTruthful'
  BY DEF TruthInv, GroupsTruthful, Untouched
<1>4. ASSUME EnableHashCache
      PROVE  StoresInv'
  <2>1. \A m \in KnownStores : StoreInv(m)
    BY <1>4, KnownStoresTrue
  <2>2. /\ StoreInv(cache') /\ StoreInv(saveBuf') /\ StoreInv(stopBuf')
        /\ StoreInv(Load(cacheFile'))
    BY <1>4, <2>1
  <2> QED
    BY <2>2 DEF StoresInv, StoreInv, Load
<1> QED
  BY <1>1, <1>2, <1>3, <1>4 DEF TruthInv

\* A new task, or no task at all.
LEMMA TruthFresh ==
  ASSUME TruthInv, FreshTask, UNCHANGED <<fs, edits>>,
         EnableHashCache => {cache', saveBuf', stopBuf', Load(cacheFile')}
                              \subseteq KnownStores
  PROVE  TruthInv'
<1>1. TimesInv'
  BY DEF TruthInv, TimesInv, FreshTask, NoGroups
<1>2. InHandInv'
  BY DEF InHandInv, FreshTask, IdleWorker
<1>3. GroupsTruthful'
  BY DEF GroupsTruthful, FreshTask, NoGroups
<1>4. ASSUME EnableHashCache
      PROVE  StoresInv'
  <2>1. \A m \in KnownStores : StoreInv(m)
    BY <1>4, KnownStoresTrue
  <2>2. /\ StoreInv(cache') /\ StoreInv(saveBuf') /\ StoreInv(stopBuf')
        /\ StoreInv(Load(cacheFile'))
    BY <1>4, <2>1
  <2> QED
    BY <2>2 DEF StoresInv, StoreInv, Load
<1> QED
  BY <1>1, <1>2, <1>3, <1>4 DEF TruthInv

\* A file that is edited gets a time nothing in memory knows.
LEMMA TruthEdit ==
  ASSUME TypeOK, ControlInv, TruthInv, Edit
  PROVE  TruthInv'
<1>1. PICK f \in Files : Remove(f) \/ \E c \in Contents : Write(f, c)
  BY DEF Edit
<1>2. /\ edits' = edits + 1 /\ edits \in Nat
      /\ \A g \in Files \ {f} : fs'[g] = fs[g]
      /\ fs'[f] # Gone => fs'[f].modTime = edits + 1
      /\ UNCHANGED <<algo, pc, buckets, groups, w, cache, saveBuf, stopBuf, cacheFile>>
      /\ Scanning => EditWhileScanning
  BY <1>1 DEF Remove, Write, Editable, TypeOK, walk, store, stopCall
<1>3. TimesInv'
  <2>1. /\ \A g \in Files : fs'[g] # Gone => fs'[g].modTime <= edits + 1
    BY <1>2 DEF TruthInv, TimesInv, TypeOK
  <2>2. \A s \in Sizes : \A m \in buckets[s] : m.modTime <= edits + 1
    BY <1>2 DEF TruthInv, TimesInv, TypeOK, Meta
  <2>3. \A h \in Hashes : \A m \in groups[h] : m.modTime <= edits + 1
    BY <1>2 DEF TruthInv, TimesInv, TypeOK, Member
  <2> QED
    BY <1>2, <2>1, <2>2, <2>3 DEF TimesInv
<1>4. InHandInv'
  <2> SUFFICES ASSUME NEW s \in Sizes,
                      w[s].pc \in {"hash", "after", "append"}, w[s].hv # NoHash,
                      fs'[w[s].file.path] # Gone,
                      EditWhileScanning => Untouched(w[s].file)'
               PROVE  w[s].hv = DigestOf(w[s].file.path)'
    BY <1>2 DEF InHandInv
  <2>1. EditWhileScanning
    BY <1>2 DEF ControlInv, WorkersInv, Active, Scanning
  <2>2. Working(s) /\ w[s].file \in buckets[s]
    BY DEF Working, ControlInv, WorkersInv
  <2>3. w[s].file \in Meta /\ w[s].file.modTime <= edits
    BY <2>2 DEF TypeOK, TruthInv, TimesInv
  <2>4. w[s].file.path # f
    BY <1>2, <2>1, <2>3 DEF Untouched, Meta
  <2>5. fs'[w[s].file.path] = fs[w[s].file.path]
    BY <1>2, <2>3, <2>4 DEF Meta
  <2> QED
    BY <1>2, <2>1, <2>5 DEF TruthInv, InHandInv, Untouched, DigestOf
<1>5. GroupsTruthful'
  <2> SUFFICES ASSUME NEW h \in Hashes, NEW m \in groups[h], Untouched(m)'
               PROVE  h = Digest[<<algo, fs'[m.path].content>>]
    BY <1>2 DEF GroupsTruthful
  <2>1. m \in Member /\ m.modTime <= edits
    BY DEF TypeOK, TruthInv, TimesInv
  <2>2. m.path # f
    BY <1>2, <2>1 DEF Untouched, Member
  <2>3. fs'[m.path] = fs[m.path]
    BY <1>2, <2>1, <2>2 DEF Member
  <2> QED
    BY <2>3 DEF TruthInv, GroupsTruthful, Untouched
<1>6. ASSUME EnableHashCache
      PROVE  StoresInv'
  <2>1. ASSUME NEW m \in Store, StoreInv(m)
        PROVE  \A g \in Files : m[g] # NoEntry =>
                 /\ m[g].modTime <= edits'
                 /\ fs'[g] # Gone /\ m[g].modTime = fs'[g].modTime
                      => m[g].hash = Digest[<<m[g].algo, fs'[g].content>>]
    <3> TAKE g \in Files
    <3> HAVE m[g] # NoEntry
    <3>1. m[g] \in Entry /\ m[g].modTime <= edits
      BY <2>1 DEF Store, StoreInv
    <3> QED
      BY <1>2, <2>1, <3>1 DEF StoreInv, Entry
  <2>2. Load(cacheFile) \in Store
    BY StoreTypes DEF TypeOK
  <2> QED
    BY <1>2, <1>6, <2>1, <2>2 DEF TypeOK, TruthInv, StoresInv, StoreInv
<1> QED
  BY <1>3, <1>4, <1>5, <1>6 DEF TruthInv

\* The web handlers and Stop's Save keep the truth invariant.
LEMMA TruthHandlers ==
  ASSUME TypeOK, TruthInv, Handlers
  PROVE  TruthInv'
<1>1. ASSUME NEW a \in Algos, Start(a)
      PROVE  TruthInv'
  BY <1>1, TruthFresh DEF Start, env, stopCall, KnownStores, FreshTask
<1>2. CASE Pause \/ Resume \/ Stop
  BY <1>2, TruthFrame DEF Pause, Resume, Stop, env, walk, store, stopCall, KnownStores
<1>3. CASE StopMarshal
  BY <1>3, TruthFrame DEF StopMarshal, env, walk, store, KnownStores
<1>4. CASE StopTruncate
  BY <1>4, TruthFrame DEF StopTruncate, env, walk, KnownStores, Load, Truncated
<1>5. CASE StopWrite
  <2>1. Load(cacheFile') \in KnownStores
    BY <1>5 DEF StopWrite, Written, Load, KnownStores
  <2> QED
    BY <1>5, <2>1, TruthFrame DEF StopWrite, env, walk, KnownStores
<1> QED
  BY <1>1, <1>2, <1>3, <1>4, <1>5 DEF Handlers, StopSave

\* The goroutine of StartAsync keeps the truth invariant.
LEMMA TruthScanner ==
  ASSUME TypeOK, ControlInv, TruthInv, Scanner
  PROVE  TruthInv'
<1>1. ASSUME NEW r \in Roots, NEW f \in Files, WalkFile(r, f)
      PROVE  TruthInv'
  <2>1. UNCHANGED <<fs, edits, algo, groups, w, cache, saveBuf, stopBuf, cacheFile>>
    BY <1>1 DEF WalkFile, env, store, stopCall
  <2>2. \A s \in Sizes : \A m \in buckets'[s] : m.modTime <= edits
    <3>1. CASE fs[f] = Gone \/ Seen(f)
      BY <1>1, <3>1 DEF WalkFile, TruthInv, TimesInv
    <3>2. CASE ~(fs[f] = Gone \/ Seen(f))
      <4> DEFINE info == Stat(f)
                 meta == [path |-> f, size |-> info.size, modTime |-> info.modTime]
      <4>1. meta.modTime = fs[f].modTime
        BY <3>2 DEF Stat
      <4>2. meta.modTime <= edits
        BY <3>2, <4>1 DEF TruthInv, TimesInv
      <4>3. buckets' = IF info.size > 0
                       THEN [buckets EXCEPT ![info.size] = @ \cup {meta}]
                       ELSE buckets
        BY <1>1, <3>2 DEF WalkFile
      <4> HIDE DEF meta, info
      <4> QED
        BY <4>2, <4>3 DEF TypeOK, TruthInv, TimesInv
    <3> QED
      BY <3>1, <3>2
  <2>3. TimesInv'
    BY <2>1, <2>2 DEF TruthInv, TimesInv
  <2>4. InHandInv'
    BY <2>1 DEF TruthInv, InHandInv, Untouched, DigestOf
  <2>5. GroupsTruthful'
    BY <2>1 DEF TruthInv, GroupsTruthful, Untouched
  <2>6. EnableHashCache => StoresInv'
    BY <2>1 DEF TruthInv, StoresInv, StoreInv
  <2> QED
    BY <2>3, <2>4, <2>5, <2>6 DEF TruthInv
<1>2. ASSUME NEW s \in Sizes, SkipBucket(s) \/ TakeBucket(s)
      PROVE  TruthInv'
  BY <1>2, TruthFrame DEF SkipBucket, TakeBucket, env, walk, store, stopCall, KnownStores
<1>3. CASE FinishBuild \/ Join \/ EndLoop \/ Finish
  BY <1>3, TruthFrame
  DEF FinishBuild, Join, EndLoop, Finish, env, walk, store, stopCall, KnownStores
<1>4. CASE Spawn
  <2> DEFINE next == [IdleWorker EXCEPT !.pc = "check", !.todo = buckets[cur]]
  <2>1. /\ w' = [w EXCEPT ![cur] = next]
        /\ UNCHANGED <<fs, edits, algo, buckets, groups, cache, saveBuf, stopBuf,
                       cacheFile>>
    BY <1>4 DEF Spawn, env, walk, store, stopCall
  <2>2. next.pc = "check"
    BY DEF IdleWorker
  <2> HIDE DEF next
  <2>3. \A s \in Sizes : w'[s] = w[s] \/ w'[s].pc = "check"
    BY <2>1, <2>2 DEF TypeOK
  <2>4. TimesInv'
    BY <2>1 DEF TruthInv, TimesInv
  <2>5. InHandInv'
    BY <2>1, <2>3 DEF TruthInv, InHandInv, Untouched, DigestOf
  <2>6. GroupsTruthful'
    BY <2>1 DEF TruthInv, GroupsTruthful, Untouched
  <2>7. EnableHashCache => StoresInv'
    BY <2>1 DEF TruthInv, StoresInv, StoreInv
  <2> QED
    BY <2>4, <2>5, <2>6, <2>7 DEF TruthInv
<1>5. CASE SaveMarshal
  BY <1>5, TruthFrame DEF SaveMarshal, env, walk, stopCall, KnownStores
<1>6. CASE SaveTruncate
  BY <1>6, TruthFrame DEF SaveTruncate, env, walk, stopCall, KnownStores, Load, Truncated
<1>7. CASE SaveWrite
  <2>1. Load(cacheFile') \in KnownStores
    BY <1>7 DEF SaveWrite, Written, Load, KnownStores
  <2> QED
    BY <1>7, <2>1, TruthFrame DEF SaveWrite, env, walk, stopCall, KnownStores
<1> QED
  BY <1>1, <1>2, <1>3, <1>4, <1>5, <1>6, <1>7 DEF Scanner

\* What the cache answers about the file as it is, is its digest.
LEMMA GetTrue ==
  ASSUME TypeOK, NEW m \in Store, StoreInv(m), NEW f \in Files, fs[f] # Gone,
         Get(m, f, Stat(f), algo) # NoHash
  PROVE  Get(m, f, Stat(f), algo) = DigestOf(f)
<1>1. m[f] # NoEntry /\ m[f].modTime = fs[f].modTime /\ m[f].algo = algo
  BY DEF Get, Hit, Stat
<1>2. Get(m, f, Stat(f), algo) = m[f].hash
  BY DEF Get
<1> QED
  BY <1>1, <1>2 DEF StoreInv, DigestOf

\* A digest put for the time a file has keeps the store truthful.
LEMMA PutTrue ==
  ASSUME TypeOK, TimesInv, NEW m \in Store, StoreInv(m), NEW f \in Files,
         fs[f] # Gone, NEW h \in Hashes, h = DigestOf(f)
  PROVE  StoreInv(Put(m, f, Stat(f), algo, h))
<1> DEFINE entry == [size |-> Stat(f).size, modTime |-> Stat(f).modTime,
                     algo |-> algo, hash |-> h]
           n == Put(m, f, Stat(f), algo, h)
<1>1. entry.modTime = fs[f].modTime /\ entry.algo = algo /\ entry.hash = h
  BY DEF Stat
<1>2. entry.modTime <= edits
  BY <1>1 DEF TimesInv
<1>3. n = [m EXCEPT ![f] = entry]
  BY DEF Put
<1> HIDE DEF entry, n
<1>4. \A g \in Files : n[g] = IF g = f THEN entry ELSE m[g]
  BY <1>3 DEF Store
<1>5. StoreInv(n)
  BY <1>1, <1>2, <1>4 DEF StoreInv, DigestOf
<1> QED
  BY <1>5 DEF n

\* A hashing goroutine keeps the truth invariant.
LEMMA TruthWorker ==
  ASSUME TypeOK, ControlInv, TruthInv, OneOfTheTwo, NEW s \in Sizes, Worker(s)
  PROVE  TruthInv'
<1> DEFINE m == w[s].file
           f == m.path
           info == Stat(f)
<1>1. ASSUME Working(s)
      PROVE  m \in buckets[s] /\ m \in Meta /\ f \in Files
  BY <1>1 DEF ControlInv, WorkersInv, TypeOK, Meta
\* The steps that only change w[s], for one that keeps InHandInv.
<1>2. ASSUME UNCHANGED <<fs, edits, algo, buckets, groups, cache, saveBuf, stopBuf,
                         cacheFile>>,
             InHandInv'
      PROVE  TruthInv'
  <2>1. TimesInv'
    BY <1>2 DEF TruthInv, TimesInv
  <2>2. GroupsTruthful'
    BY <1>2 DEF TruthInv, GroupsTruthful, Untouched
  <2>3. EnableHashCache => StoresInv'
    BY <1>2 DEF TruthInv, StoresInv, StoreInv
  <2> QED
    BY <1>2, <2>1, <2>2, <2>3 DEF TruthInv
<1>3. CASE Exit(s) \/ NextFile(s)
  <2>1. \A t \in Sizes : w'[t] = w[t] \/ w'[t].pc \in {"idle", "stat"}
    <3>1. CASE Exit(s)
      BY <3>1 DEF Exit, TypeOK, IdleWorker
    <3>2. CASE NextFile(s)
      <4>1. PICK n \in w[s].todo :
               w' = [w EXCEPT ![s].pc = "stat", ![s].file = n, ![s].todo = @ \ {n}]
        BY <3>2 DEF NextFile
      <4> QED
        BY <4>1 DEF TypeOK, WorkerState
    <3> QED
      BY <1>3, <3>1, <3>2
  <2>2. UNCHANGED <<fs, edits, algo, buckets, groups, cache, saveBuf, stopBuf, cacheFile>>
    BY <1>3 DEF Exit, NextFile, env, walk, store, stopCall
  <2>3. InHandInv'
    BY <2>1, <2>2 DEF TruthInv, InHandInv, Untouched, DigestOf
  <2> QED
    BY <1>2, <2>2, <2>3
<1>4. CASE StatBefore(s)
  <2> DEFINE hv == IF EnableHashCache /\ info # NoInfo
                   THEN Get(cache, f, info, algo) ELSE NoHash
             next == [w[s] EXCEPT !.pc = "hash", !.before = info, !.hv = hv]
  <2>1. \A t \in Sizes : w'[t] = IF t = s THEN next ELSE w[t]
    BY <1>4 DEF StatBefore, TypeOK
  <2>2. next.hv = hv /\ next.file = m
    BY DEF TypeOK, WorkerState
  <2>3. f \in Files
    BY <1>1, <1>4 DEF StatBefore, Working
  <2>4. hv # NoHash /\ fs[f] # Gone => hv = DigestOf(f)
    BY <2>3, GetTrue DEF TypeOK, TruthInv, StoresInv
  <2>5. UNCHANGED <<fs, edits, algo, buckets, groups, cache, saveBuf, stopBuf, cacheFile>>
    BY <1>4 DEF StatBefore, env, walk, store, stopCall
  <2> HIDE DEF hv, next
  <2>6. InHandInv'
    BY <2>1, <2>2, <2>4, <2>5 DEF TruthInv, InHandInv, Untouched, DigestOf
  <2> QED
    BY <1>2, <2>5, <2>6
<1>5. CASE Hash(s)
  <2>0. PICK hv \in IF w[s].hv = NoHash THEN ComputeHash(f) ELSE {w[s].hv} :
           w' = [w EXCEPT ![s].pc = "after", ![s].hv = hv]
    BY <1>5 DEF Hash
  <2> DEFINE next == [w[s] EXCEPT !.pc = "after", !.hv = hv]
  <2>1. \A t \in Sizes : w'[t] = IF t = s THEN next ELSE w[t]
    BY <2>0 DEF TypeOK, WorkerState
  <2>2. next.hv = hv /\ next.file = m
    BY DEF TypeOK, WorkerState
  <2>3. \A h \in ComputeHash(f) : h # NoHash => h = DigestOf(f)
    BY DEF ComputeHash, DigestOf
  <2>4. hv # NoHash /\ fs[f] # Gone /\ (EditWhileScanning => Untouched(m))
          => hv = DigestOf(f)
    BY <1>5, <2>0, <2>3 DEF Hash, TruthInv, InHandInv
  <2>5. UNCHANGED <<fs, edits, algo, buckets, groups, cache, saveBuf, stopBuf, cacheFile>>
    BY <1>5 DEF Hash, env, walk, store, stopCall
  <2> HIDE DEF next
  <2>6. InHandInv'
    BY <2>1, <2>2, <2>4, <2>5 DEF TruthInv, InHandInv, Untouched, DigestOf
  <2> QED
    BY <1>2, <2>5, <2>6
<1>6. CASE StatAfter(s)
  <2> DEFINE err == Mark(w[s].before, info, w[s].hv)
             next == [w[s] EXCEPT !.pc = "append", !.err = err]
             hv == w[s].hv
             puts == EnableHashCache /\ hv # NoHash /\ info # NoInfo
  <2>1. \A t \in Sizes : w'[t] = IF t = s THEN next ELSE w[t]
    BY <1>6 DEF StatAfter, TypeOK
  <2>2. next.hv = hv /\ next.file = m
    BY DEF TypeOK, WorkerState
  <2>3. /\ UNCHANGED <<fs, edits, algo, buckets, groups, saveBuf, stopBuf, cacheFile>>
        /\ cache' = IF puts THEN Put(cache, f, info, algo, hv) ELSE cache
        /\ w[s].pc = "after"
    BY <1>6 DEF StatAfter, env, walk, stopCall
  <2>4. f \in Files
    BY <1>1, <2>3 DEF Working
  <2> HIDE DEF next, err
  <2>5. TimesInv'
    BY <2>3 DEF TruthInv, TimesInv
  <2>6. InHandInv'
    BY <2>1, <2>2, <2>3 DEF TruthInv, InHandInv, Untouched, DigestOf
  <2>7. GroupsTruthful'
    BY <2>3 DEF TruthInv, GroupsTruthful, Untouched
  <2>8. ASSUME EnableHashCache
        PROVE  StoreInv(cache')
    <3>1. CASE puts
      <4>1. fs[f] # Gone /\ hv \in Hashes
        BY <2>4, <3>1, StatType DEF TypeOK, WorkerState
      <4>2. hv = DigestOf(f)
        BY <2>3, <2>8, <3>1, <4>1 DEF OneOfTheTwo, TruthInv, InHandInv
      <4> QED
        BY <2>3, <2>4, <2>8, <3>1, <4>1, <4>2, PutTrue
        DEF TypeOK, TruthInv, StoresInv
    <3>2. CASE ~puts
      BY <2>3, <2>8, <3>2 DEF TruthInv, StoresInv
    <3> QED
      BY <3>1, <3>2
  <2>9. EnableHashCache => StoresInv'
    BY <2>3, <2>8 DEF TruthInv, StoresInv, StoreInv
  <2> QED
    BY <2>5, <2>6, <2>7, <2>9 DEF TruthInv
<1>7. CASE AppendFile(s)
  <2> DEFINE hv == w[s].hv
             member == [path |-> m.path, size |-> m.size, modTime |-> m.modTime,
                        err |-> w[s].err]
             next == [IdleWorker EXCEPT !.pc = "check", !.todo = w[s].todo]
  <2>1. /\ groups' = [groups EXCEPT ![hv] = @ \cup {member}]
        /\ w' = [w EXCEPT ![s] = next]
        /\ w[s].pc = "append"
    BY <1>7 DEF AppendFile
  <2>2. UNCHANGED <<fs, edits, algo, buckets, cache, saveBuf, stopBuf, cacheFile>>
    BY <1>7 DEF AppendFile, env, walk, store, stopCall
  <2>3. member.path = f /\ member.modTime = m.modTime /\ next.pc = "check"
    BY DEF IdleWorker
  <2>4. m \in buckets[s]
    BY <1>1, <2>1 DEF Working
  <2>5. m.modTime <= edits
    BY <2>4 DEF TruthInv, TimesInv
  <2>6. hv # NoHash /\ Untouched(m) => hv = DigestOf(f)
    BY <2>1 DEF TruthInv, InHandInv, Untouched
  <2> HIDE DEF member, next
  <2>7. \A h \in Hashes : \A n \in groups'[h] :
           n \in groups[h] \/ (h = hv /\ n = member)
    BY <2>1 DEF TypeOK
  <2>8. TimesInv'
    BY <2>2, <2>3, <2>5, <2>7 DEF TruthInv, TimesInv
  <2>9. InHandInv'
    <3>1. \A t \in Sizes : w'[t] = w[t] \/ w'[t].pc = "check"
      BY <2>1, <2>3 DEF TypeOK
    <3> QED
      BY <2>2, <3>1 DEF TruthInv, InHandInv, Untouched, DigestOf
  <2>10. GroupsTruthful'
    <3>1. \A h \in Hashes : h # NoHash
      BY SentinelAssumption
    <3> QED
      BY <2>2, <2>3, <2>6, <2>7, <3>1
      DEF TruthInv, GroupsTruthful, Untouched, DigestOf
  <2>11. EnableHashCache => StoresInv'
    BY <2>2 DEF TruthInv, StoresInv, StoreInv
  <2> QED
    BY <2>8, <2>9, <2>10, <2>11 DEF TruthInv
<1> QED
  BY <1>3, <1>4, <1>5, <1>6, <1>7 DEF Worker

\* The truth invariant holds when the cache is off or files rest during a scan.
THEOREM TruthCorrect ==
  ASSUME OneOfTheTwo
  PROVE  Spec => []TruthInv
<1>1. Init => TruthInv
  <2> SUFFICES ASSUME Init
               PROVE  TruthInv
    OBVIOUS
  <2>1. TimesInv
    BY DEF Init, TimesInv, NoGroups
  <2>2. InHandInv
    BY DEF Init, InHandInv, IdleWorker
  <2>3. GroupsTruthful
    BY DEF Init, GroupsTruthful, NoGroups
  <2>4. StoresInv
    BY EmptyStoreTrue DEF Init, StoresInv, Load
  <2> QED
    BY <2>1, <2>2, <2>3, <2>4 DEF TruthInv
<1>2. TypeOK /\ ControlInv /\ TruthInv /\ [Next]_vars => TruthInv'
  <2> SUFFICES ASSUME TypeOK, ControlInv, TruthInv, [Next]_vars
               PROVE  TruthInv'
    OBVIOUS
  <2>1. CASE Scanner
    BY <2>1, TruthScanner
  <2>2. CASE Handlers
    BY <2>2, TruthHandlers
  <2>3. CASE \E s \in Sizes : Worker(s)
    BY <2>3, TruthWorker
  <2>4. CASE Edit
    BY <2>4, TruthEdit
  <2>5. CASE Kill \/ UNCHANGED vars
    BY <2>5, TruthFrame DEF Kill, vars, env, walk, store, stopCall, KnownStores
  <2>6. CASE Restart
    BY <2>6, TruthFresh DEF Restart, env, FreshTask, KnownStores
  <2> QED
    BY <2>1, <2>2, <2>3, <2>4, <2>5, <2>6 DEF Next
<1> QED
  BY <1>1, <1>2, TypeCorrect, ControlCorrect, PTL DEF Spec

\* GroupsTruthful (task_cached, task_edited): a file untouched since the walk is in
\* the group of its content, if the cache is off or files rest during scans.
THEOREM GroupsTruthfulHolds ==
  ASSUME OneOfTheTwo
  PROVE  Spec => []GroupsTruthful
<1>1. TruthInv => GroupsTruthful
  BY DEF TruthInv
<1> QED
  BY <1>1, TruthCorrect, PTL

\* CacheTruthful (task_cached): under the same condition an entry that answers for
\* a file as it is holds its digest, in memory and on disk, whatever Save and the
\* Save inside Stop wrote over each other and whenever the process was killed.
THEOREM CacheTruthfulHolds ==
  ASSUME EnableHashCache, ~EditWhileScanning
  PROVE  Spec => []CacheTruthful
<1>1. ASSUME NEW m, StoreInv(m)
      PROVE  EntriesTruthful(m)
  BY <1>1 DEF StoreInv, EntriesTruthful, Hit, Stat
<1>2. TruthInv => CacheTruthful
  BY <1>1 DEF TruthInv, StoresInv, CacheTruthful
<1>3. Spec => []TruthInv
  BY TruthCorrect DEF OneOfTheTwo
<1> QED
  BY <1>2, <1>3, PTL
=============================================================================
