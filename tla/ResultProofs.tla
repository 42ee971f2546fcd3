----------------------------- MODULE ResultProofs -----------------------------
(***************************************************************************)
(* What a scan that was not stopped shows at its end, and which files it   *)
(* marks as changed, for every value of the constants of Task.             *)
(***************************************************************************)
EXTENDS JobProofs

-----------------------------------------------------------------------------
\* Progress: every bucket is counted once, and there are no more large ones.

NonEmpty == {s \in Sizes : buckets[s] # {}}
InLoop == IF pc \in {"gate", "wait"} THEN 1 ELSE 0
Built == pc \notin {"none", "build"}

CountInv ==
    /\ ~Built => current = 0
    /\ Built => total = Cardinality({s \in Sizes : Large(s)})
    /\ Built /\ ~stopped => current + Cardinality(pending) + InLoop = Cardinality(NonEmpty)
    /\ current > 0 /\ current >= total => progress = 100

\* A set of sizes can be counted.
LEMMA SizeCounts ==
  ASSUME NEW S \in SUBSET Sizes
  PROVE  IsFiniteSet(S) /\ Cardinality(S) \in Nat
BY SizesFinite, FS_Subset, FS_CardinalityType

\* There are no more large buckets than buckets with a file.
LEMMA LargeAreNonEmpty ==
  Cardinality({s \in Sizes : Large(s)}) <= Cardinality(NonEmpty)
<1>1. \A s \in Sizes : Large(s) => buckets[s] # {}
  BY FS_EmptySet DEF Large
<1>2. {s \in Sizes : Large(s)} \subseteq NonEmpty
  BY <1>1 DEF NonEmpty
<1>3. IsFiniteSet(NonEmpty)
  BY SizeCounts DEF NonEmpty
<1> QED
  BY <1>2, <1>3, FS_Subset

\* The percentage of the last bucket is 100.
LEMMA ProgressEnds ==
  ASSUME TypeOK, NEW n \in Nat, n > 0, n >= total
  PROVE  ProgressAt(n) = 100
<1>1. total \in Nat /\ progress \in 0..100
  BY DEF TypeOK
<1>2. CASE total = 0
  BY <1>2 DEF ProgressAt
<1>3. CASE total # 0
  <2>1. Percent(n) = 100
    <3>1. CASE n > total
      BY <3>1 DEF Percent
    <3>2. CASE n = total
      <4>1. (n * 100) \div n = 100
        BY <1>3, <3>2
      <4> QED
        BY <1>1, <3>2, <4>1 DEF Percent
    <3> QED
      BY <1>1, <3>1, <3>2
  <2> QED
    BY <1>1, <1>3, <2>1 DEF ProgressAt, NoLessThan
<1> QED
  BY <1>2, <1>3

\* What CountInv reads.
counting == <<pc, stopped, buckets, pending, total, current, progress>>

\* Steps that leave alone what CountInv reads keep it.
LEMMA CountFrame ==
  ASSUME CountInv, UNCHANGED counting
  PROVE  CountInv'
<1>1. NonEmpty' = NonEmpty /\ InLoop' = InLoop /\ (Built' <=> Built)
  BY DEF counting, NonEmpty, InLoop, Built
<1>2. {s \in Sizes : Large(s)}' = {s \in Sizes : Large(s)}
  BY DEF counting, Large
<1> QED
  BY <1>1, <1>2 DEF counting, CountInv

\* A new task has counted nothing.
LEMMA CountFresh ==
  ASSUME FreshTask, pc' \in {"none", "build"}
  PROVE  CountInv'
BY DEF FreshTask, CountInv, Built

\* The loop goes on: it moves a bucket from one of the three places to the next.
LEMMA CountLoop ==
  ASSUME TypeOK, CountInv, Built, Built',
         UNCHANGED <<stopped, buckets, total>>,
         \/ current' = current /\ progress' = progress
         \/ UpdateProgressStep,
         stopped \/ current' + Cardinality(pending') + InLoop'
                      = current + Cardinality(pending) + InLoop
  PROVE  CountInv'
<1>1. NonEmpty' = NonEmpty
  BY DEF NonEmpty
<1>2. {s \in Sizes : Large(s)}' = {s \in Sizes : Large(s)}
  BY DEF Large
<1>3. current' > 0 /\ current' >= total => progress' = 100
  <2>1. CASE UpdateProgressStep
    BY <2>1, ProgressEnds DEF UpdateProgressStep, TypeOK
  <2> QED
    BY <2>1 DEF CountInv
<1> QED
  BY <1>1, <1>2, <1>3 DEF CountInv

\* The scanner goroutine keeps CountInv.
LEMMA CountScanner ==
  ASSUME TypeOK, CountInv, Scanner
  PROVE  CountInv'
<1>0. pending \in SUBSET Sizes /\ current \in Nat /\ Cardinality(pending) \in Nat
  BY SizeCounts DEF TypeOK
<1>1. ASSUME NEW r \in Roots, NEW f \in Files, WalkFile(r, f)
      PROVE  CountInv'
  BY <1>1 DEF WalkFile, CountInv, Built, counters, flags
<1>2. CASE FinishBuild
  <2>1. /\ pc = "build" /\ pc' = "loop" /\ UNCHANGED <<buckets, current, progress>>
        /\ total' = Cardinality({s \in Sizes : Large(s)}) /\ pending' = NonEmpty
    BY <1>2 DEF FinishBuild, walk, NonEmpty
  <2>2. NonEmpty' = NonEmpty /\ {s \in Sizes : Large(s)}' = {s \in Sizes : Large(s)}
    BY <2>1 DEF NonEmpty, Large
  <2>3. current = 0 /\ InLoop' = 0 /\ Cardinality(NonEmpty) \in Nat
    BY <2>1, SizeCounts DEF CountInv, Built, InLoop, NonEmpty
  <2> QED
    BY <2>1, <2>2, <2>3 DEF CountInv, Built
<1>3. ASSUME NEW s \in Sizes, SkipBucket(s)
      PROVE  CountInv'
  <2>1. /\ pc = "loop" /\ pc' = "loop" /\ s \in pending /\ pending' = pending \ {s}
        /\ UNCHANGED <<stopped, buckets, total>>
        /\ UpdateProgressStep /\ current' = current + 1
    BY <1>3 DEF SkipBucket, flags, walk, UpdateProgressStep
  <2>2. Cardinality(pending') = Cardinality(pending) - 1
    BY <1>0, <2>1, SizeCounts, FS_RemoveElement
  <2>3. InLoop' = 0 /\ InLoop = 0
    BY <2>1 DEF InLoop
  <2> QED
    BY <1>0, <2>1, <2>2, <2>3, CountLoop DEF Built
<1>4. ASSUME NEW s \in Sizes, TakeBucket(s)
      PROVE  CountInv'
  <2>1. /\ pc = "loop" /\ s \in pending /\ pending' = pending \ {s}
        /\ pc' = (IF stopped THEN "save" ELSE "gate")
        /\ UNCHANGED <<stopped, buckets, total, current, progress>>
    BY <1>4 DEF TakeBucket, flags, walk, counters
  <2>2. Cardinality(pending') = Cardinality(pending) - 1
    BY <1>0, <2>1, SizeCounts, FS_RemoveElement
  <2>3. InLoop = 0 /\ (~stopped => InLoop' = 1)
    BY <2>1 DEF InLoop
  <2> QED
    BY <1>0, <2>1, <2>2, <2>3, CountLoop DEF Built
<1>5. CASE Spawn
  <2>1. /\ pc = "gate" /\ pc' = "wait"
        /\ UNCHANGED <<stopped, buckets, pending, total, current, progress>>
    BY <1>5 DEF Spawn, flags, walk, loop, counters
  <2>2. InLoop' = InLoop
    BY <2>1 DEF InLoop
  <2> QED
    BY <2>1, <2>2, CountLoop DEF Built
<1>6. CASE Join
  <2>1. /\ pc = "wait" /\ pc' = "loop"
        /\ UNCHANGED <<stopped, buckets, pending, total>>
        /\ UpdateProgressStep /\ current' = current + 1
    BY <1>6 DEF Join, flags, walk, loop, UpdateProgressStep
  <2>2. InLoop = 1 /\ InLoop' = 0
    BY <2>1 DEF InLoop
  <2> QED
    BY <1>0, <2>1, <2>2, CountLoop DEF Built
<1>7. CASE EndLoop \/ SaveMarshal \/ SaveTruncate \/ SaveWrite \/ Finish
  <2>1. /\ pc \in {"loop", "save", "truncate", "write", "finish"}
        /\ pc' \in {"save", "truncate", "write", "finish", "done"}
        /\ UNCHANGED <<stopped, buckets, pending, total, current, progress>>
    BY <1>7 DEF EndLoop, SaveMarshal, SaveTruncate, SaveWrite, Finish, flags, walk,
                loop, counters
  <2>2. InLoop' = InLoop
    BY <2>1 DEF InLoop
  <2> QED
    BY <2>1, <2>2, CountLoop DEF Built
<1> QED
  BY <1>1, <1>2, <1>3, <1>4, <1>5, <1>6, <1>7 DEF Scanner

\* The handlers and other programs keep CountInv.
LEMMA CountHandlers ==
  ASSUME CountInv, Handlers
  PROVE  CountInv'
<1>1. ASSUME NEW a \in Algos, Start(a)
      PROVE  CountInv'
  BY <1>1, CountFresh DEF Start
<1>2. CASE Stop
  <2>1. stopped' = TRUE /\ UNCHANGED <<pc, buckets, total, current, progress>>
    BY <1>2 DEF Stop, walk, counters
  <2>2. {s \in Sizes : Large(s)}' = {s \in Sizes : Large(s)} /\ (Built' <=> Built)
    BY <2>1 DEF Large, Built
  <2> QED
    BY <2>1, <2>2 DEF CountInv
<1>3. CASE Pause \/ Resume \/ StopSave
  BY <1>3, CountFrame
  DEF Pause, Resume, StopSave, StopMarshal, StopTruncate, StopWrite, counting,
      flags, walk, loop, counters
<1> QED
  BY <1>1, <1>2, <1>3 DEF Handlers

\* CountInv holds throughout.
LEMMA CountCorrect == Spec => []CountInv
<1>1. Init => CountInv
  BY DEF Init, CountInv, Built
<1>2. TypeOK /\ CountInv /\ [Next]_vars => CountInv'
  <2> SUFFICES ASSUME TypeOK, CountInv, [Next]_vars
               PROVE  CountInv'
    OBVIOUS
  <2>1. CASE Scanner
    BY <2>1, CountScanner
  <2>2. CASE Handlers
    BY <2>2, CountHandlers
  <2>3. CASE Restart
    BY <2>3, CountFresh DEF Restart
  <2>4. ASSUME \/ \E s \in Sizes : Worker(s)
               \/ Edit \/ Kill \/ UNCHANGED vars
        PROVE  CountInv'
    BY <2>4, CountFrame
    DEF Worker, Exit, NextFile, StatBefore, Hash, StatAfter, AppendFile, Edit, Remove,
        Write, Kill, vars, counting, flags, walk, loop, counters
  <2> QED
    BY <2>1, <2>2, <2>3, <2>4 DEF Next
<1> QED
  BY <1>1, <1>2, TypeCorrect, PTL DEF Spec

\* ProgressComplete (task_edited): a scan that ended without Stop shows 100
\* percent, although small buckets count only as done and not in the total.
THEOREM ProgressCompleteHolds == Spec => []ProgressComplete
<1>1. TypeOK /\ JobInv /\ CountInv => ProgressComplete
  <2> SUFFICES ASSUME TypeOK, JobInv, CountInv, pc = "done", ~stopped,
                      NEW s \in Sizes, buckets[s] # {}
               PROVE  progress = 100
    BY DEF ProgressComplete
  <2>1. pending = {} /\ InLoop = 0 /\ Built
    BY DEF JobInv, LoopEnds, InLoop, Built
  <2>2. current = Cardinality(NonEmpty)
    BY <2>1, FS_EmptySet DEF CountInv, TypeOK
  <2>3. Cardinality(NonEmpty) \in Nat /\ Cardinality(NonEmpty) # 0
    <3>1. NonEmpty # {} /\ NonEmpty \subseteq Sizes
      BY DEF NonEmpty
    <3> QED
      BY <3>1, SizeCounts, FS_EmptySet
  <2>4. total <= Cardinality(NonEmpty)
    BY <2>1, LargeAreNonEmpty DEF CountInv
  <2>5. current > 0 /\ current >= total
    BY <2>2, <2>3, <2>4 DEF TypeOK
  <2> QED
    BY <2>5 DEF CountInv
<1> QED
  BY <1>1, TypeCorrect, JobCorrect, CountCorrect, PTL

-----------------------------------------------------------------------------
\* A digest that no longer fits its file was taken after a modification time that
\* no longer fits.

\* Of the goroutine state v with the file system d, after n edits.
BeforeFits(v, d, n) ==
    LET f == v.file.path IN
    /\ v.pc = "hash" => v.hv = NoHash
    /\ v.pc \in {"hash", "after"} /\ d[f] # Gone =>
          /\ v.before # NoInfo /\ v.before.modTime <= n
          /\ v.pc = "after" /\ v.hv # NoHash /\ v.hv # Digest[<<algo, d[f].content>>]
                => v.before.modTime # d[f].modTime

ReadInv == ~EnableHashCache /\ ~Recreate => \A s \in Sizes : BeforeFits(w[s], fs, edits)

\* Steps that leave alone what ReadInv reads keep it.
LEMMA ReadFrame ==
  ASSUME ReadInv, UNCHANGED <<fs, edits, algo, w>>
  PROVE  ReadInv'
BY DEF ReadInv, BeforeFits

\* A new task has read nothing.
LEMMA ReadFresh ==
  ASSUME FreshTask
  PROVE  ReadInv'
<1>1. \A s \in Sizes : w'[s].pc = "idle"
  BY DEF FreshTask, IdleWorker
<1> QED
  BY <1>1 DEF ReadInv, BeforeFits

\* The file of a goroutine at work, and every grouped file, is as old as its bucket.
LEMMA KnownTimes ==
  ASSUME TypeOK, ControlInv, TruthInv, JobInv
  PROVE  /\ \A s \in Sizes : Working(s) =>
               w[s].file.path \in Files /\ w[s].file.modTime <= edits
                 /\ w[s].file \in buckets[s]
         /\ \A h \in Hashes \cup {NoHash} : \A m \in groups[h] :
               m.path \in Files /\ m.modTime <= edits
<1>1. \A s \in Sizes : \A m \in buckets[s] : m.path \in Files /\ m.modTime <= edits
  BY DEF TypeOK, Meta, TruthInv, TimesInv
<1>2. \A s \in Sizes : Working(s) => w[s].file \in buckets[s]
  BY DEF ControlInv, WorkersInv
<1>3. ASSUME NEW h \in Hashes \cup {NoHash}, NEW m \in groups[h]
      PROVE  m.path \in Files /\ m.modTime <= edits
  <2>1. PICK s \in Sizes : \E n \in buckets[s] : n.path = m.path /\ n.modTime = m.modTime
    BY DEF JobInv, SourceInv
  <2> QED
    BY <1>1, <2>1
<1> QED
  BY <1>1, <1>2, <1>3

\* An edit keeps ReadInv: the file gets a time that nothing read before has.
LEMMA ReadEdit ==
  ASSUME TypeOK, ControlInv, TruthInv, JobInv, ReadInv, Edit
  PROVE  ReadInv'
<1>1. PICK f \in Files : Remove(f) \/ \E c \in Contents : Write(f, c)
  BY DEF Edit
<1>2. /\ edits' = edits + 1 /\ edits \in Nat
      /\ \A g \in Files \ {f} : fs'[g] = fs[g]
      /\ fs'[f] # Gone => fs'[f].modTime = edits + 1 /\ (fs[f] # Gone \/ Recreate)
      /\ UNCHANGED <<algo, groups, w>>
  BY <1>1 DEF Remove, Write, TypeOK
<1>3. ASSUME ~EnableHashCache, ~Recreate, NEW s \in Sizes
      PROVE  BeforeFits(w[s], fs, edits)'
  <2> DEFINE v == w[s]  g == w[s].file.path
  <2>1. BeforeFits(v, fs, edits)
    BY <1>3 DEF ReadInv
  <2>2. v.pc \in {"hash", "after"} => g \in Files /\ v.before \in Info \cup {NoInfo}
    BY KnownTimes DEF Working, TypeOK, WorkerState
  <2>3. SUFFICES ASSUME v.pc \in {"hash", "after"}, fs'[g] # Gone
                 PROVE  /\ v.before # NoInfo /\ v.before.modTime <= edits + 1
                        /\ v.pc = "after" /\ v.hv # NoHash
                             /\ v.hv # Digest[<<algo, fs'[g].content>>]
                             => v.before.modTime # fs'[g].modTime
    BY <1>2, <2>1 DEF BeforeFits
  <2>4. fs[g] # Gone
    BY <1>2, <1>3, <2>2, <2>3
  <2>5. /\ v.before # NoInfo /\ v.before.modTime <= edits /\ v.before.modTime \in Nat
    BY <2>1, <2>2, <2>3, <2>4 DEF BeforeFits, Info
  <2>6. CASE g = f
    BY <1>2, <2>3, <2>5, <2>6
  <2>7. CASE g # f
    BY <1>2, <2>1, <2>2, <2>3, <2>5, <2>7 DEF BeforeFits
  <2> QED
    BY <2>6, <2>7
<1> QED
  BY <1>3 DEF ReadInv

\* Only the goroutine of s moves.
LEMMA ReadMove ==
  ASSUME TypeOK, ReadInv, NEW s \in Sizes, NEW v,
         UNCHANGED <<fs, edits, algo>>, w' = [w EXCEPT ![s] = v],
         ~EnableHashCache /\ ~Recreate => BeforeFits(v, fs, edits)
  PROVE  ReadInv'
<1>1. \A t \in Sizes : w'[t] = IF t = s THEN v ELSE w[t]
  BY DEF TypeOK
<1>2. \A t \in Sizes : BeforeFits(w[t], fs, edits)' <=> BeforeFits(w'[t], fs, edits)
  BY DEF BeforeFits
<1> QED
  BY <1>1, <1>2 DEF ReadInv

\* A hashing goroutine keeps ReadInv.
LEMMA ReadWorker ==
  ASSUME TypeOK, ControlInv, TruthInv, JobInv, ReadInv, NEW s \in Sizes, Worker(s)
  PROVE  ReadInv'
<1> DEFINE m == w[s].file
           f == m.path
           info == Stat(f)
<1>0. ASSUME Working(s)
      PROVE  /\ f \in Files /\ info \in Info \cup {NoInfo}
             /\ fs[f] = Gone <=> info = NoInfo
             /\ fs[f] # Gone => info.modTime = fs[f].modTime /\ info.modTime <= edits
  <2>1. f \in Files
    BY <1>0, KnownTimes
  <2>2. info \in Info \cup {NoInfo} /\ (fs[f] = Gone <=> info = NoInfo)
    BY <2>1, StatType DEF TypeOK
  <2>3. fs[f] # Gone => info.modTime = fs[f].modTime
    BY DEF Stat
  <2>4. fs[f] # Gone => fs[f].modTime <= edits
    BY <2>1 DEF TruthInv, TimesInv
  <2> QED
    BY <2>1, <2>2, <2>3, <2>4
<1>1. CASE Exit(s)
  BY <1>1, ReadMove DEF Exit, env, IdleWorker, BeforeFits
<1>2. CASE NextFile(s)
  <2>1. PICK n \in w[s].todo :
           w' = [w EXCEPT ![s].pc = "stat", ![s].file = n, ![s].todo = @ \ {n}]
    BY <1>2 DEF NextFile
  <2> DEFINE next == [w[s] EXCEPT !.pc = "stat", !.file = n, !.todo = @ \ {n}]
  <2>2. w' = [w EXCEPT ![s] = next] /\ next.pc = "stat"
    BY <2>1 DEF TypeOK, WorkerState
  <2>3. UNCHANGED <<fs, edits, algo>>
    BY <1>2 DEF NextFile, env
  <2> HIDE DEF next
  <2> QED
    BY <2>2, <2>3, ReadMove DEF BeforeFits
<1>3. CASE StatBefore(s)
  <2> DEFINE hv == IF EnableHashCache /\ info # NoInfo
                   THEN Get(cache, f, info, algo) ELSE NoHash
             next == [w[s] EXCEPT !.pc = "hash", !.before = info, !.hv = hv]
  <2>1. w' = [w EXCEPT ![s] = next]
    BY <1>3 DEF StatBefore, TypeOK, WorkerState
  <2>2. next.pc = "hash" /\ next.before = info /\ next.hv = hv /\ next.file = m
    BY DEF TypeOK, WorkerState
  <2>3. UNCHANGED <<fs, edits, algo>> /\ Working(s)
    BY <1>3 DEF StatBefore, env, Working
  <2>4. ~EnableHashCache => hv = NoHash
    OBVIOUS
  <2> HIDE DEF next, hv
  <2>5. ~EnableHashCache => BeforeFits(next, fs, edits)
    BY <1>0, <2>2, <2>3, <2>4 DEF BeforeFits
  <2> QED
    BY <2>1, <2>2, <2>3, <2>5, ReadMove
<1>4. CASE Hash(s)
  <2>0. PICK hv \in IF w[s].hv = NoHash THEN ComputeHash(f) ELSE {w[s].hv} :
           w' = [w EXCEPT ![s].pc = "after", ![s].hv = hv]
    BY <1>4 DEF Hash
  <2> DEFINE next == [w[s] EXCEPT !.pc = "after", !.hv = hv]
  <2>1. w' = [w EXCEPT ![s] = next]
    BY <2>0 DEF TypeOK, WorkerState
  <2>2. /\ next.pc = "after" /\ next.before = w[s].before /\ next.hv = hv
        /\ next.file = m
    BY DEF TypeOK, WorkerState
  <2>3. UNCHANGED <<fs, edits, algo>> /\ Working(s) /\ w[s].pc = "hash"
    BY <1>4 DEF Hash, env, Working
  <2>5. w[s].hv = NoHash /\ hv # NoHash => hv = Digest[<<algo, fs[f].content>>]
    BY <2>0 DEF ComputeHash
  <2> HIDE DEF next
  <2>6. ASSUME ~EnableHashCache, ~Recreate
        PROVE  BeforeFits(next, fs, edits)
    <3>1. BeforeFits(w[s], fs, edits)
      BY <2>6 DEF ReadInv
    <3> QED
      BY <2>2, <2>3, <2>5, <3>1 DEF BeforeFits
  <2> QED
    BY <2>1, <2>3, <2>6, ReadMove
<1>5. CASE StatAfter(s)
  <2> DEFINE next == [w[s] EXCEPT !.pc = "append", !.err = Mark(w[s].before, info, w[s].hv)]
  <2>1. w' = [w EXCEPT ![s] = next]
    BY <1>5 DEF StatAfter, TypeOK, WorkerState
  <2>2. next.pc = "append" /\ next.hv = w[s].hv /\ next.file = m
    BY DEF TypeOK, WorkerState
  <2>3. UNCHANGED <<fs, edits, algo>> /\ w[s].pc = "after"
    BY <1>5 DEF StatAfter, env
  <2> HIDE DEF next
  <2> QED
    BY <2>1, <2>2, <2>3, ReadMove DEF BeforeFits
<1>6. CASE AppendFile(s)
  <2> DEFINE next == [IdleWorker EXCEPT !.pc = "check", !.todo = w[s].todo]
  <2>1. w' = [w EXCEPT ![s] = next] /\ UNCHANGED <<fs, edits, algo>>
    BY <1>6 DEF AppendFile, env
  <2>2. next.pc = "check"
    BY DEF IdleWorker
  <2> HIDE DEF next
  <2> QED
    BY <2>1, <2>2, ReadMove DEF BeforeFits
<1> QED
  BY <1>1, <1>2, <1>3, <1>4, <1>5, <1>6 DEF Worker

\* ReadInv holds throughout, if the cache is off or files rest while a scan runs.
LEMMA ReadCorrect ==
  ASSUME OneOfTheTwo
  PROVE  Spec => []ReadInv
<1>1. Init => ReadInv
  BY DEF Init, ReadInv, BeforeFits, IdleWorker
<1>2. TypeOK /\ ControlInv /\ TruthInv /\ JobInv /\ ReadInv /\ [Next]_vars => ReadInv'
  <2> SUFFICES ASSUME TypeOK, ControlInv, TruthInv, JobInv, ReadInv, [Next]_vars
               PROVE  ReadInv'
    OBVIOUS
  <2>1. CASE Scanner
    <3>1. CASE Spawn
      <4> DEFINE next == [IdleWorker EXCEPT !.pc = "check", !.todo = buckets[cur]]
      <4>1. /\ w' = [w EXCEPT ![cur] = next] /\ UNCHANGED <<fs, edits, algo>>
            /\ pc = "gate"
        BY <3>1 DEF Spawn, env
      <4>2. next.pc = "check" /\ cur \in Sizes
        BY <4>1 DEF IdleWorker, ControlInv, WorkersInv
      <4> HIDE DEF next
      <4> QED
        BY <4>1, <4>2, ReadMove DEF BeforeFits
    <3>2. ASSUME NEW r \in Roots, NEW f \in Files, WalkFile(r, f)
          PROVE  ReadInv'
      BY <3>2, ReadFrame DEF WalkFile, env
    <3>3. CASE \/ FinishBuild \/ \E s \in Sizes : SkipBucket(s) \/ TakeBucket(s)
               \/ Join \/ EndLoop \/ SaveMarshal \/ SaveTruncate \/ SaveWrite \/ Finish
      BY <3>3, ReadFrame
      DEF FinishBuild, SkipBucket, TakeBucket, Join, EndLoop, SaveMarshal, SaveTruncate,
          SaveWrite, Finish, env
    <3> QED
      BY <2>1, <3>1, <3>2, <3>3 DEF Scanner
  <2>2. CASE Handlers
    <3>1. ASSUME NEW a \in Algos, Start(a)
          PROVE  ReadInv'
      BY <3>1, ReadFresh DEF Start
    <3>2. CASE Pause \/ Resume \/ Stop \/ StopSave
      BY <3>2, ReadFrame
      DEF Pause, Resume, Stop, StopSave, StopMarshal, StopTruncate, StopWrite, env
    <3> QED
      BY <2>2, <3>1, <3>2 DEF Handlers
  <2>3. CASE \E s \in Sizes : Worker(s)
    BY <2>3, ReadWorker
  <2>4. CASE Edit
    BY <2>4, ReadEdit
  <2>5. CASE Kill \/ UNCHANGED vars
    BY <2>5, ReadFrame DEF Kill, vars, env
  <2>6. CASE Restart
    BY <2>6, ReadFresh DEF Restart
  <2> QED
    BY <2>1, <2>2, <2>3, <2>4, <2>5, <2>6 DEF Next
<1> QED
  BY <1>1, <1>2, TypeCorrect, ControlCorrect, TruthCorrect, JobCorrect, PTL DEF Spec

-----------------------------------------------------------------------------
\* Sets of files with different paths.

\* Members with different paths are as few as the files.
LEMMA PathsFinite ==
  ASSUME NEW S, \A m \in S : m.path \in Files,
         \A m, n \in S : m.path = n.path => m = n
  PROVE  IsFiniteSet(S)
<1> DEFINE g == [m \in S |-> m.path]
<1>1. g \in Injection(S, Files)
  BY DEF Injection, IsInjective
<1> QED
  BY <1>1, FS_Injection, TaskAssumption

\* A finite set with two different members counts two.
LEMMA TwoMembers ==
  ASSUME NEW S, IsFiniteSet(S), NEW a \in S, NEW b \in S, a # b
  PROVE  Cardinality(S) >= 2
<1>1. IsFiniteSet({a}) /\ Cardinality({a}) = 1
  BY FS_Singleton
<1>2. Cardinality({a} \cup {b}) = 2
  BY <1>1, FS_AddElement
<1>3. {a} \cup {b} \in SUBSET S
  OBVIOUS
<1>4. 2 <= Cardinality(S)
  BY <1>2, <1>3, FS_Subset
<1> QED
  BY <1>4, FS_CardinalityType

\* ResultsComplete (task_cached): a scan that ended without Stop reports every two
\* files that were equal throughout and could be read, in whatever order the buckets
\* came and whatever happened to other files or went wrong in reading them, if the
\* cache is off or files rest meanwhile.
THEOREM ResultsCompleteHolds ==
  ASSUME OneOfTheTwo
  PROVE  Spec => []ResultsComplete
<1>1. TypeOK /\ ControlInv /\ TruthInv /\ JobInv => ResultsComplete
  <2> SUFFICES ASSUME TypeOK, ControlInv, TruthInv, JobInv,
                      pc = "done", ~stopped, algo \in SupportedAlgos,
                      NEW s \in Sizes, NEW m \in buckets[s], NEW n \in buckets[s],
                      m # n, Untouched(m), Untouched(n),
                      fs[m.path].content = fs[n.path].content,
                      {m.path, n.path} \cap Paths(groups[NoHash]) = {}
               PROVE  \E R \in Results : {m.path, n.path} \subseteq Paths(R)
    BY DEF ResultsComplete
  <2>1. Large(s)
    <3>1. IsFiniteSet(buckets[s])
      <4>1. \A k \in buckets[s] : k.path \in Files
        BY DEF TypeOK, Meta
      <4>2. \A k, l \in buckets[s] : k.path = l.path => k = l
        BY DEF ControlInv, BucketsInv
      <4> QED
        BY <4>1, <4>2, PathsFinite
    <3> QED
      BY <3>1, TwoMembers DEF Large
  <2>2. Waiting(s) = {}
    <3>1. s \notin pending /\ ~Active(s)
      BY DEF JobInv, LoopEnds, ControlInv, WorkersInv
    <3>2. w[s].todo = {} /\ ~Working(s)
      BY <3>1 DEF ControlInv, WorkersInv, Active, Working
    <3> QED
      BY <3>1, <3>2 DEF Waiting
  <2>3. ASSUME NEW k \in buckets[s], Untouched(k), k.path \notin Paths(groups[NoHash])
        PROVE  \E g \in groups[Digest[<<algo, fs[k.path].content>>]] : g.path = k.path
    <3>1. k.path \in Grouped
      BY <2>1, <2>2 DEF JobInv, NoneLost
    <3>2. PICK h \in Hashes \cup {NoHash} : \E g \in groups[h] : g.path = k.path
      BY <3>1, GroupedHas
    <3>3. PICK g \in groups[h] : g.path = k.path
      BY <3>2
    <3>4. PICK t \in Sizes : \E l \in buckets[t] : l.path = g.path /\ l.modTime = g.modTime
      BY <3>3 DEF JobInv, SourceInv
    <3>5. g.modTime = k.modTime
      BY <3>3, <3>4 DEF ControlInv, BucketsInv
    <3>6. Untouched(g)
      BY <2>3, <3>3, <3>5 DEF Untouched
    <3>7. h # NoHash
      BY <2>3, <3>3 DEF Paths
    <3>8. h = Digest[<<algo, fs[k.path].content>>]
      BY <3>3, <3>6, <3>7 DEF TruthInv, GroupsTruthful
    <3> QED
      BY <3>3, <3>8
  <2> DEFINE h == Digest[<<algo, fs[m.path].content>>]
  <2>4. PICK a \in groups[h] : a.path = m.path
    BY <2>3
  <2>5. PICK b \in groups[h] : b.path = n.path
    BY <2>3
  <2>6. m.path # n.path /\ m.path \in Files
    BY DEF ControlInv, BucketsInv, TypeOK, Meta
  <2>7. h \in Hashes
    BY <2>6, TaskAssumption DEF TypeOK, Untouched
  <2> HIDE DEF h
  <2>8. Cardinality(groups[h]) >= 2
    <3>1. IsFiniteSet(groups[h])
      <4>1. \A k \in groups[h] : k.path \in Files
        BY <2>7 DEF TypeOK, Member
      <4>2. \A k, l \in groups[h] : k.path = l.path => k = l
        BY <2>7 DEF ControlInv, GroupsInv, OncePerFile
      <4> QED
        BY <4>1, <4>2, PathsFinite
    <3> QED
      BY <2>4, <2>5, <2>6, <3>1, TwoMembers
  <2>9. groups[h] \in Results
    BY <2>7, <2>8 DEF Results
  <2> QED
    BY <2>4, <2>5, <2>9 DEF Paths
<1> QED
  BY <1>1, TypeCorrect, ControlCorrect, TruthCorrect, JobCorrect, PTL

\* ChangesMarked (task_edited): a file that no longer holds what its digest says
\* when the second os.Stat looks at it is marked as changed, if no file is removed
\* and created again, and the cache is off or files rest while a scan runs.
THEOREM ChangesMarkedHolds ==
  ASSUME OneOfTheTwo, ~Recreate
  PROVE  Spec => ChangesMarked
<1>1. TypeOK /\ ControlInv /\ TruthInv /\ ReadInv /\ [Next]_vars =>
        [\A s \in Sizes :
          LET f == w[s].file.path IN
          (/\ w[s].pc = "after" /\ w'[s].pc = "append"
           /\ w[s].hv # NoHash /\ fs[f] # Gone
           /\ w[s].hv # Digest[<<algo, fs[f].content>>])
             => w'[s].err = "changed"]_vars
  <2> SUFFICES ASSUME TypeOK, ControlInv, TruthInv, ReadInv, Next, NEW s \in Sizes,
                      w[s].pc = "after", w'[s].pc = "append",
                      w[s].hv # NoHash, fs[w[s].file.path] # Gone,
                      w[s].hv # Digest[<<algo, fs[w[s].file.path].content>>]
               PROVE  w'[s].err = "changed"
    OBVIOUS
  <2> DEFINE f == w[s].file.path  info == Stat(f)
  <2>1. StatAfter(s)
    <3>1. pc = "wait" /\ Active(s)
      BY DEF ControlInv, WorkersInv, Active
    <3>2. w' # w
      OBVIOUS
    <3>3. ~Edit /\ ~Kill
      BY <3>2 DEF Edit, Remove, Write, Kill
    <3>4. ~Restart
      BY DEF Restart, FreshTask, IdleWorker
    <3>5. ~Handlers
      BY <3>1, <3>2 DEF Handlers, Start, Scanning, Pause, Resume, Stop, StopSave, StopMarshal,
                        StopTruncate, StopWrite
    <3>6. ~Scanner
      BY <3>1, <3>2 DEF Scanner, WalkFile, FinishBuild, SkipBucket, TakeBucket, Spawn,
                        Join, EndLoop, SaveMarshal, SaveTruncate, SaveWrite, Finish
    <3>7. PICK t \in Sizes : Worker(t)
      BY <3>3, <3>4, <3>5, <3>6 DEF Next
    <3>8. t = s
      <4>1. Active(t)
        BY <3>7 DEF Worker, Exit, NextFile, StatBefore, Hash, StatAfter, AppendFile, Active
      <4> QED
        BY <3>1, <4>1 DEF ControlInv, WorkersInv
    <3> QED
      BY <3>7, <3>8 DEF Worker, Exit, NextFile, StatBefore, Hash, AppendFile
  <2>2. ~EnableHashCache
    BY DEF OneOfTheTwo, TruthInv, InHandInv, DigestOf
  <2>3. /\ w[s].before # NoInfo /\ w[s].before.modTime # fs[f].modTime
    BY <2>2 DEF ReadInv, BeforeFits
  <2>4. f \in Files
    BY DEF Working, TypeOK, Meta
  <2>5. info # NoInfo /\ info.modTime = fs[f].modTime
    BY <2>4, StatType DEF TypeOK, Stat
  <2>6. Mark(w[s].before, info, w[s].hv) = "changed"
    BY <2>3, <2>5 DEF Mark
  <2>7. w'[s].err = Mark(w[s].before, info, w[s].hv)
    BY <2>1 DEF StatAfter, TypeOK, WorkerState
  <2> QED
    BY <2>6, <2>7
<1> QED
  BY <1>1, TypeCorrect, ControlCorrect, TruthCorrect, ReadCorrect, PTL
  DEF Spec, ChangesMarked
=============================================================================
