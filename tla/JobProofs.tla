------------------------------ MODULE JobProofs ------------------------------
(***************************************************************************)
(* Task implements ScanJob, and a scan that is not stopped misses nothing, *)
(* for every value of the constants.                                       *)
(***************************************************************************)
EXTENDS TaskProofs

-----------------------------------------------------------------------------
\* The inductive invariant, on top of ControlInv.

\* The loop waits only for large buckets.
LargeInv == pc \in {"gate", "wait"} => Large(cur)

\* What is grouped was collected into a large bucket.
SourceInv ==
    \A h \in Hashes \cup {NoHash} : \A g \in groups[h] :
        \E s \in Sizes : /\ Large(s)
                         /\ \E m \in buckets[s] : m.path = g.path /\ m.modTime = g.modTime

\* Without Stop every file of a large bucket is grouped or still to be grouped.
NoneLost ==
    pc \notin {"none", "build"} /\ ~stopped =>
        \A s \in Sizes : Large(s) =>
            \A m \in buckets[s] : m \in Waiting(s) \/ m.path \in Grouped

\* Without Stop the loop ends when it has seen every bucket.
LoopEnds ==
    pc \in {"save", "truncate", "write", "finish", "done"} /\ ~stopped => pending = {}

JobInv == LargeInv /\ SourceInv /\ NoneLost /\ LoopEnds

-----------------------------------------------------------------------------
\* The files in the groups, by name.
LEMMA GroupedHas ==
  ASSUME NEW f
  PROVE  f \in Grouped <=> \E h \in Hashes \cup {NoHash} : \E g \in groups[h] : g.path = f
BY DEF Grouped, Paths

\* A step that leaves alone what ControlInv reads keeps it.
LEMMA JobFrame ==
  ASSUME JobInv, UNCHANGED control
  PROVE  JobInv'
<1>1. \A s \in Sizes : Large(s)' <=> Large(s)
  BY DEF control, Large
<1>2. LargeInv'
  BY DEF JobInv, control, LargeInv, Large
<1>3. SourceInv'
  BY <1>1 DEF JobInv, control, SourceInv
<1>4. NoneLost'
  <2>1. Grouped' = Grouped /\ \A s \in Sizes : Waiting(s)' = Waiting(s)
    BY DEF control, Grouped, Paths, Waiting, Working
  <2> QED
    BY <1>1, <2>1 DEF JobInv, control, NoneLost
<1>5. LoopEnds'
  BY DEF JobInv, control, LoopEnds
<1> QED
  BY <1>2, <1>3, <1>4, <1>5 DEF JobInv

\* A new task, or no task at all.
LEMMA JobFresh ==
  ASSUME FreshTask, pc' \in {"none", "build"}
  PROVE  JobInv'
BY DEF FreshTask, JobInv, LargeInv, SourceInv, NoneLost, LoopEnds, NoGroups

\* The files, the groups and Stop are left alone, and what a bucket has to group.
LEMMA JobSameWork ==
  ASSUME JobInv, UNCHANGED <<stopped, buckets, groups>>,
         pc \notin {"none", "build"},
         pc' \in {"gate", "wait"} => Large(cur'),
         stopped \/ \A s \in Sizes : Large(s) => Waiting(s)' = Waiting(s),
         LoopEnds'
  PROVE  JobInv'
<1>1. \A s \in Sizes : Large(s)' <=> Large(s)
  BY DEF Large
<1>2. LargeInv'
  BY DEF LargeInv, Large
<1>3. SourceInv'
  BY <1>1 DEF JobInv, SourceInv
<1>4. NoneLost'
  <2>1. Grouped' = Grouped
    BY DEF Grouped, Paths
  <2> QED
    BY <1>1, <2>1 DEF JobInv, NoneLost
<1> QED
  BY <1>2, <1>3, <1>4 DEF JobInv

\* The scanner goroutine keeps JobInv: only the walk fills buckets, and the loop
\* ends when none of them is left.
LEMMA JobScanner ==
  ASSUME TypeOK, ControlInv, JobInv, Scanner
  PROVE  JobInv'
<1>0. /\ \A s \in Sizes : pc # "wait" => ~Active(s) /\ ~Working(s) /\ w[s].todo = {}
      /\ pc \in {"gate", "wait"} => cur \in Sizes \ pending
  BY DEF ControlInv, WorkersInv, Active, Working
<1>1. ASSUME NEW r \in Roots, NEW f \in Files, WalkFile(r, f)
      PROVE  JobInv'
  <2>1. pc = "build" /\ pc' = "build" /\ groups' = groups
    BY <1>1 DEF WalkFile
  <2>2. groups = NoGroups
    BY <2>1 DEF ControlInv, GroupsInv
  <2> QED
    BY <2>1, <2>2 DEF JobInv, LargeInv, SourceInv, NoneLost, LoopEnds, NoGroups
<1>2. CASE FinishBuild
  <2>1. /\ pc = "build" /\ pc' = "loop" /\ groups' = groups /\ buckets' = buckets
        /\ pending' = {s \in Sizes : buckets[s] # {}}
    BY <1>2 DEF FinishBuild, walk
  <2>2. groups = NoGroups
    BY <2>1 DEF ControlInv, GroupsInv
  <2>3. \A s \in Sizes : buckets'[s] # {} => Waiting(s)' = buckets'[s]
    BY <2>1 DEF Waiting
  <2>4. NoneLost'
    BY <2>3 DEF NoneLost
  <2> QED
    BY <2>1, <2>2, <2>4 DEF JobInv, LargeInv, SourceInv, LoopEnds, NoGroups
<1>3. ASSUME NEW s \in Sizes, SkipBucket(s)
      PROVE  JobInv'
  <2>1. /\ pc = "loop" /\ pc' = "loop" /\ ~Large(s) /\ pending' = pending \ {s}
        /\ UNCHANGED <<stopped, buckets, groups, w, cur>>
    BY <1>3 DEF SkipBucket, flags, walk
  <2>2. \A t \in Sizes : Large(t) => Waiting(t)' = Waiting(t)
    BY <2>1 DEF Waiting, Working
  <2> QED
    BY <2>1, <2>2, JobSameWork DEF LoopEnds
<1>4. ASSUME NEW s \in Sizes, TakeBucket(s)
      PROVE  JobInv'
  <2>1. /\ pc = "loop" /\ Large(s) /\ s \in pending /\ pending' = pending \ {s}
        /\ pc' = (IF stopped THEN "save" ELSE "gate")
        /\ cur' = (IF stopped THEN cur ELSE s)
        /\ UNCHANGED <<stopped, buckets, groups, w>>
    BY <1>4 DEF TakeBucket, flags, walk
  <2>2. ASSUME ~stopped, NEW t \in Sizes
        PROVE  Waiting(t)' = Waiting(t)
    <3>1. pc' = "gate" /\ cur' = s
      BY <2>1, <2>2
    <3>2. w' = w /\ buckets' = buckets
      BY <2>1
    <3>3. CASE t = s
      BY <2>1, <3>1, <3>2, <3>3 DEF Waiting
    <3>4. CASE t # s
      <4>1. (t \in pending' \/ (pc' = "gate" /\ t = cur'))
               <=> (t \in pending \/ (pc = "gate" /\ t = cur))
        BY <2>1, <3>1, <3>4
      <4> QED
        BY <3>2, <4>1 DEF Waiting, Working
    <3> QED
      BY <3>3, <3>4
  <2> QED
    BY <2>1, <2>2, JobSameWork DEF LoopEnds
<1>5. CASE Spawn
  <2> DEFINE next == [IdleWorker EXCEPT !.pc = "check", !.todo = buckets[cur]]
  <2>1. /\ pc = "gate" /\ pc' = "wait" /\ w' = [w EXCEPT ![cur] = next]
        /\ UNCHANGED <<stopped, buckets, groups, pending, cur>>
    BY <1>5 DEF Spawn, flags, walk, loop
  <2>2. next.pc = "check" /\ next.todo = buckets[cur]
    BY DEF IdleWorker
  <2> HIDE DEF next
  <2>3. \A t \in Sizes : w'[t] = IF t = cur THEN next ELSE w[t]
    BY <1>0, <2>1 DEF TypeOK
  <2>4. PICK c \in Sizes : c = cur
    BY <1>0, <2>1
  <2>5. \A t \in Sizes : Waiting(t)' = Waiting(t)
    <3>1. Waiting(c)' = buckets[c] /\ Waiting(c) = buckets[c]
      BY <1>0, <2>1, <2>2, <2>3, <2>4 DEF Waiting, Working
    <3>2. \A t \in Sizes \ {c} : Waiting(t)' = Waiting(t)
      BY <2>1, <2>3, <2>4 DEF Waiting, Working
    <3> QED
      BY <3>1, <3>2
  <2> QED
    BY <2>1, <2>5, JobSameWork DEF JobInv, LargeInv, LoopEnds
<1>6. CASE Join
  <2>1. /\ pc = "wait" /\ pc' = "loop"
        /\ UNCHANGED <<stopped, buckets, groups, pending, cur, w>>
    BY <1>6 DEF Join, flags, walk, loop
  <2>2. \A t \in Sizes : Waiting(t)' = Waiting(t)
    BY <2>1 DEF Waiting, Working
  <2> QED
    BY <2>1, <2>2, JobSameWork DEF LoopEnds
<1>7. CASE EndLoop \/ SaveMarshal \/ SaveTruncate \/ SaveWrite \/ Finish
  <2>1. /\ pc \in {"loop", "save", "truncate", "write", "finish"}
        /\ pc = "loop" => pending = {}
        /\ pc' \in {"save", "truncate", "write", "finish", "done"}
        /\ UNCHANGED <<stopped, buckets, groups, pending, cur, w>>
    BY <1>7 DEF EndLoop, SaveMarshal, SaveTruncate, SaveWrite, Finish, flags, walk, loop
  <2>2. \A t \in Sizes : Waiting(t)' = Waiting(t)
    BY <2>1 DEF Waiting, Working
  <2>3. LoopEnds'
    BY <2>1 DEF JobInv, LoopEnds
  <2> QED
    BY <2>1, <2>2, <2>3, JobSameWork
<1> QED
  BY <1>1, <1>2, <1>3, <1>4, <1>5, <1>6, <1>7 DEF Scanner

\* What a file that is added to a group changes.
LEMMA Appended ==
  ASSUME TypeOK, ControlInv, NEW s \in Sizes, AppendFile(s)
  PROVE  LET m == w[s].file
         IN /\ pc = "wait" /\ s = cur /\ m \in buckets[s] /\ m \in Waiting(s)
            /\ \A h \in Hashes \cup {NoHash} : \A g \in groups'[h] :
                  g \in groups[h] \/ (g.path = m.path /\ g.modTime = m.modTime)
            /\ Grouped' = Grouped \cup {m.path}
            /\ \A t \in Sizes : Waiting(t) \subseteq Waiting(t)' \cup {m}
            /\ UNCHANGED <<stopped, pc, buckets, cur, pending>>
            /\ late' = IF stopped THEN late + 1 ELSE late
<1> DEFINE m == w[s].file
           hv == w[s].hv
           member == [path |-> m.path, size |-> m.size, modTime |-> m.modTime,
                      err |-> w[s].err]
           next == [IdleWorker EXCEPT !.pc = "check", !.todo = w[s].todo]
<1>1. /\ groups' = [groups EXCEPT ![hv] = @ \cup {member}]
      /\ w' = [w EXCEPT ![s] = next]
      /\ late' = IF stopped THEN late + 1 ELSE late
      /\ Working(s) /\ Active(s)
      /\ UNCHANGED <<stopped, pc, buckets, cur, pending>>
  BY DEF AppendFile, Working, Active, flags, walk, loop
<1>2. member.path = m.path /\ member.modTime = m.modTime
  OBVIOUS
<1>3. next.pc = "check" /\ next.todo = w[s].todo
  BY DEF IdleWorker
<1>4. hv \in Hashes \cup {NoHash}
  BY DEF TypeOK, WorkerState
<1>5. pc = "wait" /\ s = cur /\ s \notin pending /\ m \in buckets[s] /\ m \in Waiting(s)
  BY <1>1 DEF ControlInv, WorkersInv, Waiting
<1> HIDE DEF member, next
<1>6. \A t \in Sizes : w'[t] = IF t = s THEN next ELSE w[t]
  BY <1>1 DEF TypeOK
<1>7. \A h \in Hashes \cup {NoHash} :
         groups'[h] = IF h = hv THEN groups[h] \cup {member} ELSE groups[h]
  BY <1>1 DEF TypeOK
<1>8. \A h \in Hashes \cup {NoHash} : \A g \in groups'[h] :
         g \in groups[h] \/ (g.path = m.path /\ g.modTime = m.modTime)
  BY <1>2, <1>7
<1>9. Grouped' = Grouped \cup {m.path}
  <2>1. ASSUME NEW f
        PROVE  f \in Grouped' <=> \E h \in Hashes \cup {NoHash} : \E g \in groups'[h] : g.path = f
    BY DEF Grouped, Paths
  <2>2. ASSUME NEW f
        PROVE  f \in Grouped' <=> f \in Grouped \/ f = m.path
    <3>0. f \in Grouped <=> \E h \in Hashes \cup {NoHash} : \E g \in groups[h] : g.path = f
      BY GroupedHas
    <3>1. ASSUME NEW h \in Hashes \cup {NoHash}, NEW g \in groups'[h], g.path = f
          PROVE  f \in Grouped \/ f = m.path
      <4>1. g \in groups[h] \/ g = member
        BY <1>7, <3>1
      <4> QED
        BY <1>2, <3>0, <3>1, <4>1
    <3>2. ASSUME NEW h \in Hashes \cup {NoHash}, NEW g \in groups[h], g.path = f
          PROVE  f \in Grouped'
      BY <1>7, <2>1, <3>2
    <3>3. member \in groups'[hv]
      BY <1>4, <1>7
    <3>4. m.path \in Grouped'
      BY <1>2, <1>4, <3>3 DEF Grouped, Paths
    <3> QED
      BY <2>1, <3>0, <3>1, <3>2, <3>4
  <2> QED
    BY <2>2
<1>10. ASSUME NEW t \in Sizes
       PROVE  Waiting(t) \subseteq Waiting(t)' \cup {m}
  <2>1. CASE t = s
    <3>1. Waiting(s) = w[s].todo \cup {m}
      BY <1>1, <1>5 DEF Waiting
    <3>2. w'[s].pc = "check" /\ w'[s].todo = w[s].todo
      BY <1>3, <1>6
    <3>3. pc' = "wait" /\ s \notin pending'
      BY <1>1, <1>5
    <3>4. Waiting(s)' = w[s].todo
      <4>1. ~Working(s)'
        BY <3>2 DEF Working
      <4>2. ~(s \in pending' \/ (pc' = "gate" /\ s = cur'))
        BY <3>3
      <4> QED
        BY <3>2, <4>1, <4>2 DEF Waiting
    <3> QED
      BY <2>1, <3>1, <3>4
  <2>2. CASE t # s
    BY <1>1, <1>6, <2>2 DEF Waiting, Working
  <2> QED
    BY <2>1, <2>2
<1> QED
  BY <1>1, <1>5, <1>8, <1>9, <1>10

\* The goroutine of s goes on with the file it holds.
LEMMA SameFileWaiting ==
  ASSUME NEW s \in Sizes, Working(s), Working(s)',
         \A t \in Sizes \ {s} : w'[t] = w[t],
         w'[s].todo = w[s].todo, w'[s].file = w[s].file,
         UNCHANGED <<pc, pending, cur, buckets>>
  PROVE  \A t \in Sizes : Waiting(t)' = Waiting(t)
<1>1. \A t \in Sizes : /\ Working(t)' <=> Working(t)
                      /\ w'[t].todo = w[t].todo /\ w'[t].file = w[t].file
  BY DEF Working
<1> QED
  BY <1>1 DEF Waiting

\* A hashing goroutine keeps JobInv: the file it takes from its list is the one
\* in hand until it is in a group.
LEMMA JobWorker ==
  ASSUME TypeOK, ControlInv, JobInv, NEW s \in Sizes, Worker(s)
  PROVE  JobInv'
<1>0. Active(s) /\ pc = "wait" /\ s = cur /\ s \notin pending /\ LargeInv
  <2>1. Active(s)
    BY DEF Worker, Exit, NextFile, StatBefore, Hash, StatAfter, AppendFile, Active
  <2> QED
    BY <2>1 DEF ControlInv, WorkersInv, JobInv
<1>1. CASE Exit(s)
  <2>1. \A t \in Sizes : w'[t] = IF t = s THEN IdleWorker ELSE w[t]
    BY <1>1 DEF Exit, TypeOK
  <2>2. UNCHANGED <<stopped, pc, buckets, pending, cur, groups>>
    BY <1>1 DEF Exit, flags, walk, loop
  <2>3. w[s].pc = "check" /\ (stopped \/ w[s].todo = {})
    BY <1>1 DEF Exit, Halted
  <2>4. \A t \in Sizes \ {s} : Waiting(t)' = Waiting(t)
    BY <2>1, <2>2 DEF Waiting, Working
  <2>5. stopped \/ Waiting(s)' = Waiting(s)
    <3>1. Waiting(s)' = {}
      BY <1>0, <2>1, <2>2 DEF Waiting, Working, IdleWorker
    <3>2. Waiting(s) = w[s].todo
      BY <1>0, <2>3 DEF Waiting, Working
    <3> QED
      BY <2>3, <3>1, <3>2
  <2> QED
    BY <1>0, <2>2, <2>4, <2>5, JobSameWork DEF LargeInv, LoopEnds
<1>2. CASE NextFile(s)
  <2>1. PICK m \in w[s].todo :
           w' = [w EXCEPT ![s].pc = "stat", ![s].file = m, ![s].todo = @ \ {m}]
    BY <1>2 DEF NextFile
  <2> DEFINE next == [w[s] EXCEPT !.pc = "stat", !.file = m, !.todo = @ \ {m}]
  <2>2. \A t \in Sizes : w'[t] = IF t = s THEN next ELSE w[t]
    BY <2>1 DEF TypeOK
  <2>3. next.pc = "stat" /\ next.file = m /\ next.todo = w[s].todo \ {m}
    BY DEF TypeOK, WorkerState
  <2>4. UNCHANGED <<stopped, pc, buckets, pending, cur, groups>>
    BY <1>2 DEF NextFile, flags, walk, loop
  <2>5. w[s].pc = "check"
    BY <1>2 DEF NextFile
  <2> HIDE DEF next
  <2>6. \A t \in Sizes \ {s} : Waiting(t)' = Waiting(t)
    BY <2>2, <2>4 DEF Waiting, Working
  <2>7. Waiting(s)' = Waiting(s)
    <3>1. Waiting(s)' = next.todo \cup {next.file}
      BY <1>0, <2>2, <2>3, <2>4 DEF Waiting, Working
    <3>2. Waiting(s) = w[s].todo
      BY <1>0, <2>5 DEF Waiting, Working
    <3> QED
      BY <2>1, <2>3, <3>1, <3>2
  <2> QED
    BY <1>0, <2>4, <2>6, <2>7, JobSameWork DEF LargeInv, LoopEnds
<1>3. CASE StatBefore(s) \/ Hash(s) \/ StatAfter(s)
  <2>1. /\ UNCHANGED <<stopped, pc, buckets, pending, cur, groups>>
        /\ Working(s)
    BY <1>3 DEF StatBefore, Hash, StatAfter, flags, walk, loop, Working
  <2>2. /\ Working(s)' /\ \A t \in Sizes \ {s} : w'[t] = w[t]
        /\ w'[s].todo = w[s].todo /\ w'[s].file = w[s].file
    BY <1>3 DEF StatBefore, Hash, StatAfter, TypeOK, WorkerState, Working
  <2>3. \A t \in Sizes : Waiting(t)' = Waiting(t)
    BY <2>1, <2>2, SameFileWaiting
  <2> QED
    BY <1>0, <2>1, <2>3, JobSameWork DEF LargeInv, LoopEnds
<1>4. CASE AppendFile(s)
  <2> DEFINE m == w[s].file
  <2>1. /\ m \in buckets[s]
        /\ \A h \in Hashes \cup {NoHash} : \A g \in groups'[h] :
              g \in groups[h] \/ (g.path = m.path /\ g.modTime = m.modTime)
        /\ Grouped' = Grouped \cup {m.path}
        /\ \A t \in Sizes : Waiting(t) \subseteq Waiting(t)' \cup {m}
        /\ UNCHANGED <<stopped, pc, buckets, cur, pending>>
    BY <1>4, Appended
  <2> HIDE DEF m
  <2>2. Large(s) /\ \A t \in Sizes : Large(t)' <=> Large(t)
    BY <1>0, <2>1 DEF LargeInv, Large
  <2>3. LargeInv'
    BY <1>0, <2>1 DEF LargeInv, Large
  <2>4. SourceInv'
    <3>1. ASSUME NEW h \in Hashes \cup {NoHash}, NEW g \in groups'[h]
          PROVE  \E t \in Sizes : /\ Large(t)
                                  /\ \E n \in buckets[t] : n.path = g.path
                                                          /\ n.modTime = g.modTime
      BY <2>1, <2>2, <3>1 DEF JobInv, SourceInv
    <3> QED
      BY <2>1, <2>2, <3>1 DEF SourceInv
  <2>5. NoneLost'
    BY <1>0, <2>1, <2>2 DEF JobInv, NoneLost
  <2>6. LoopEnds'
    BY <1>0, <2>1 DEF LoopEnds
  <2> QED
    BY <2>3, <2>4, <2>5, <2>6 DEF JobInv
<1> QED
  BY <1>1, <1>2, <1>3, <1>4 DEF Worker

\* The handlers and the file system keep JobInv: a start empties what it speaks of.
LEMMA JobHandlers ==
  ASSUME TypeOK, ControlInv, JobInv, Handlers
  PROVE  JobInv'
<1>1. ASSUME NEW a \in Algos, Start(a)
      PROVE  JobInv'
  BY <1>1, JobFresh DEF Start
<1>2. CASE Stop
  <2>1. stopped' = TRUE /\ UNCHANGED <<pc, buckets, cur, groups>>
    BY <1>2 DEF Stop, walk, loop
  <2>2. \A s \in Sizes : Large(s)' <=> Large(s)
    BY <2>1 DEF Large
  <2>3. LargeInv'
    BY <2>1 DEF JobInv, LargeInv, Large
  <2>4. SourceInv'
    BY <2>1, <2>2 DEF JobInv, SourceInv
  <2> QED
    BY <2>1, <2>3, <2>4 DEF JobInv, NoneLost, LoopEnds
<1>3. CASE Pause \/ Resume \/ StopSave
  BY <1>3, JobFrame
  DEF Pause, Resume, StopSave, StopMarshal, StopTruncate, StopWrite, control,
      flags, walk, loop
<1> QED
  BY <1>1, <1>2, <1>3 DEF Handlers

\* What a task has found is what it collected, and nothing is forgotten.
THEOREM JobCorrect == Spec => []JobInv
<1>1. Init => JobInv
  BY DEF Init, JobInv, LargeInv, SourceInv, NoneLost, LoopEnds, NoGroups
<1>2. TypeOK /\ ControlInv /\ JobInv /\ [Next]_vars => JobInv'
  <2> SUFFICES ASSUME TypeOK, ControlInv, JobInv, [Next]_vars
               PROVE  JobInv'
    OBVIOUS
  <2>1. CASE Scanner
    BY <2>1, JobScanner
  <2>2. CASE Handlers
    BY <2>2, JobHandlers
  <2>3. CASE \E s \in Sizes : Worker(s)
    BY <2>3, JobWorker
  <2>4. CASE Edit \/ Kill \/ UNCHANGED vars
    BY <2>4, JobFrame
    DEF Edit, Remove, Write, Kill, vars, control, flags, walk, loop
  <2>5. CASE Restart
    BY <2>5, JobFresh DEF Restart
  <2> QED
    BY <2>1, <2>2, <2>3, <2>4, <2>5 DEF Next
<1> QED
  BY <1>1, <1>2, TypeCorrect, ControlCorrect, PTL DEF Spec

-----------------------------------------------------------------------------
\* The refinement mapping, by name.

Phase == CASE pc = "none" -> "none" [] pc = "build" -> "collecting"
           [] pc = "done" -> "finished" [] OTHER -> "classifying"
Candidates == IF pc \in {"none", "build"} THEN {}
              ELSE UNION {Paths(buckets[s]) : s \in {s \in Sizes : Large(s)}}

job == <<Phase, Candidates, Grouped, stopped, late>>

\* The actions of ScanJob under the mapping.
JobReset(p) ==
    Phase' = p /\ stopped' = FALSE /\ late' = 0 /\ Candidates' = {} /\ Grouped' = {}
JobBegin == Phase \in {"none", "finished"} /\ JobReset("collecting")
JobCollect ==
    /\ Phase = "collecting" /\ Phase' = "classifying" /\ Candidates' \in SUBSET Files
    /\ UNCHANGED <<Grouped, stopped, late>>
JobClassify(f) ==
    /\ Phase = "classifying" /\ f \in Candidates \ Grouped
    /\ stopped => late = 0
    /\ Grouped' = Grouped \cup {f}
    /\ late' = IF stopped THEN 1 ELSE 0
    /\ UNCHANGED <<Phase, Candidates, stopped>>
JobFinished ==
    /\ Phase = "classifying" /\ Phase' = "finished"
    /\ stopped \/ Grouped = Candidates
    /\ UNCHANGED <<Candidates, Grouped, stopped, late>>
JobStop ==
    Phase # "none" /\ stopped' = TRUE /\ UNCHANGED <<Phase, Candidates, Grouped, late>>
JobStep == JobBegin \/ JobCollect \/ (\E f \in Files : JobClassify(f)) \/ JobFinished
           \/ JobStop \/ JobReset("none") \/ UNCHANGED job

\* The first state of ScanJob under the mapping.
LEMMA MappedInit ==
  ASSUME Phase = "none", stopped = FALSE, late = 0, Candidates = {}, Grouped = {}
  PROVE  Job!JobInit
BY DEF Job!JobInit, Phase, Candidates

\* A step of ScanJob under the mapping, disjunct by disjunct.
LEMMA MappedStep ==
  ASSUME JobStep
  PROVE  [Job!JobNext]_(Job!jobVars)
<1>1. CASE JobBegin
  BY <1>1 DEF JobBegin, JobReset, Phase, Candidates, Job!JobNext, Job!Begin, Job!Reset
<1>2. CASE JobCollect
  BY <1>2 DEF JobCollect, Phase, Candidates, Job!JobNext, Job!Collect
<1>3. ASSUME NEW f \in Files, JobClassify(f)
      PROVE  Job!JobNext
  <2>1. Job!Classify(f)
    BY <1>3 DEF JobClassify, Phase, Candidates, Job!Classify
  <2> QED
    BY <2>1 DEF Job!JobNext
<1>4. CASE JobFinished
  BY <1>4 DEF JobFinished, Phase, Candidates, Job!JobNext, Job!Finished
<1>5. CASE JobStop
  BY <1>5 DEF JobStop, Phase, Candidates, Job!JobNext, Job!StopJob
<1>6. CASE JobReset("none")
  BY <1>6 DEF JobReset, Phase, Candidates, Job!JobNext, Job!Lost, Job!Reset
<1>7. CASE UNCHANGED job
  BY <1>7 DEF job, Phase, Candidates, Job!jobVars
<1> QED
  BY <1>1, <1>2, <1>3, <1>4, <1>5, <1>6, <1>7 DEF JobStep

\* The phase of the job, read off the program counter.
LEMMA PhaseIs ==
  /\ pc = "none" => Phase = "none"
  /\ pc = "build" => Phase = "collecting"
  /\ pc = "done" => Phase = "finished"
  /\ pc \notin {"none", "build", "done"} => Phase = "classifying"
<1>1. CASE pc = "none"
  BY <1>1, Zenon DEF Phase
<1>2. CASE pc = "build"
  BY <1>2, Zenon DEF Phase
<1>3. CASE pc = "done"
  BY <1>3, Zenon DEF Phase
<1>4. CASE pc \notin {"none", "build", "done"}
  BY <1>4, Zenon DEF Phase
<1> QED
  BY <1>1, <1>2, <1>3, <1>4

\* The same of the state after a step.
LEMMA PhaseNext ==
  /\ pc' = "none" => Phase' = "none"
  /\ pc' = "build" => Phase' = "collecting"
  /\ pc' = "done" => Phase' = "finished"
  /\ pc' \notin {"none", "build", "done"} => Phase' = "classifying"
<1>1. CASE pc' = "none"
  BY <1>1, Zenon DEF Phase
<1>2. CASE pc' = "build"
  BY <1>2, Zenon DEF Phase
<1>3. CASE pc' = "done"
  BY <1>3, Zenon DEF Phase
<1>4. CASE pc' \notin {"none", "build", "done"}
  BY <1>4, Zenon DEF Phase
<1> QED
  BY <1>1, <1>2, <1>3, <1>4

\* Nothing is grouped before there are buckets.
LEMMA NothingGrouped ==
  ASSUME ControlInv, pc \in {"none", "build"}
  PROVE  Grouped = {} /\ Candidates = {}
BY DEF ControlInv, GroupsInv, NoGroups, Grouped, Paths, Candidates

\* The candidates, by name: what the walk left in large buckets.
LEMMA CandidateHas ==
  ASSUME pc \notin {"none", "build"}, NEW f
  PROVE  f \in Candidates <=> \E s \in Sizes : Large(s) /\ \E m \in buckets[s] : m.path = f
BY DEF Candidates, Paths

\* Steps that ScanJob does not see.
LEMMA Hidden ==
  ASSUME Phase' = Phase, UNCHANGED <<buckets, groups, stopped, late>>,
         pc \in {"none", "build"} <=> pc' \in {"none", "build"}
  PROVE  JobStep
<1>1. Grouped' = Grouped /\ Candidates' = Candidates
  BY DEF Grouped, Candidates, Paths, Large
<1> QED
  BY <1>1 DEF JobStep, job

\* A new task is a job without candidates.
LEMMA FreshJob ==
  ASSUME FreshTask, pc' \in {"none", "build"}
  PROVE  stopped' = FALSE /\ late' = 0 /\ Candidates' = {} /\ Grouped' = {}
<1>1. stopped' = FALSE /\ late' = 0 /\ groups' = NoGroups
  BY DEF FreshTask
<1>2. Grouped' = {}
  BY <1>1 DEF Grouped, Paths, NoGroups
<1> QED
  BY <1>1, <1>2 DEF Candidates

\* A step of the scanner goroutine is Begin, Collect, Finished or a stutter.
LEMMA ScannerMaps ==
  ASSUME TypeOK, ControlInv, JobInv, Scanner
  PROVE  JobStep
<1>1. ASSUME NEW r \in Roots, NEW f \in Files, WalkFile(r, f)
      PROVE  JobStep
  <2>1. pc = "build" /\ pc' = "build" /\ UNCHANGED <<groups, stopped, late>>
    BY <1>1 DEF WalkFile, flags
  <2>2. Phase' = Phase
    BY <2>1, PhaseIs, PhaseNext
  <2>3. Candidates' = Candidates /\ Grouped' = Grouped
    BY <2>1 DEF Candidates, Grouped, Paths
  <2> QED
    BY <2>1, <2>2, <2>3 DEF JobStep, job
<1>2. CASE FinishBuild
  <2>1. /\ pc = "build" /\ pc' = "loop"
        /\ UNCHANGED <<groups, buckets, stopped, late>>
    BY <1>2 DEF FinishBuild, flags, walk
  <2>2. Phase = "collecting" /\ Phase' = "classifying"
    BY <2>1, PhaseIs, PhaseNext
  <2>3. Candidates' \in SUBSET Files
    <3>1. Candidates' = UNION {Paths(buckets[s]) : s \in {s \in Sizes : Large(s)}}
      BY <2>1 DEF Candidates, Paths, Large
    <3>2. \A s \in Sizes : Paths(buckets[s]) \subseteq Files
      BY DEF TypeOK, Paths, Meta
    <3> QED
      BY <3>1, <3>2
  <2>4. Grouped' = Grouped
    BY <2>1 DEF Grouped, Paths
  <2> QED
    BY <2>1, <2>2, <2>3, <2>4 DEF JobStep, JobCollect
<1>3. CASE \/ \E s \in Sizes : SkipBucket(s) \/ TakeBucket(s)
           \/ Spawn \/ Join \/ EndLoop \/ SaveMarshal \/ SaveTruncate \/ SaveWrite
  <2>1. /\ pc \notin {"none", "build", "done"} /\ pc' \notin {"none", "build", "done"}
        /\ UNCHANGED <<groups, buckets, stopped, late>>
    BY <1>3 DEF SkipBucket, TakeBucket, Spawn, Join, EndLoop, SaveMarshal, SaveTruncate,
                SaveWrite, flags, walk
  <2>2. Phase' = Phase
    BY <2>1, PhaseIs, PhaseNext
  <2> QED
    BY <2>1, <2>2, Hidden
<1>4. CASE Finish
  <2>1. /\ pc = "finish" /\ pc' = "done"
        /\ UNCHANGED <<groups, buckets, stopped, late>>
    BY <1>4 DEF Finish, walk
  <2>2. Phase = "classifying" /\ Phase' = "finished"
    BY <2>1, PhaseIs, PhaseNext
  <2>3. Grouped' = Grouped /\ Candidates' = Candidates
    BY <2>1 DEF Grouped, Candidates, Paths, Large
  <2>4. Grouped \subseteq Candidates
    <3>1. ASSUME NEW f \in Grouped
          PROVE  f \in Candidates
      <4>1. PICK h \in Hashes \cup {NoHash} : \E g \in groups[h] : g.path = f
        BY GroupedHas
      <4> QED
        BY <2>1, <4>1, CandidateHas DEF JobInv, SourceInv
    <3> QED
      BY <3>1
  <2>5. ASSUME ~stopped, NEW f \in Candidates
        PROVE  f \in Grouped
    <3>1. PICK s \in Sizes : Large(s) /\ \E m \in buckets[s] : m.path = f
      BY <2>1, CandidateHas
    <3>2. Waiting(s) = {}
      <4>1. s \notin pending
        BY <2>1, <2>5 DEF JobInv, LoopEnds
      <4>2. ~Active(s)
        BY <2>1 DEF ControlInv, WorkersInv
      <4>3. w[s].todo = {} /\ ~Working(s)
        BY <4>2 DEF ControlInv, WorkersInv, Active, Working
      <4> QED
        BY <2>1, <4>1, <4>3 DEF Waiting
    <3> QED
      BY <2>1, <2>5, <3>1, <3>2 DEF JobInv, NoneLost
  <2>6. stopped \/ Grouped = Candidates
    BY <2>4, <2>5
  <2> QED
    BY <2>1, <2>2, <2>3, <2>6 DEF JobStep, JobFinished
<1> QED
  BY <1>1, <1>2, <1>3, <1>4 DEF Scanner

\* A step of a hashing goroutine classifies one candidate or stutters.
LEMMA WorkerMaps ==
  ASSUME TypeOK, ControlInv, JobInv, NEW s \in Sizes, Worker(s)
  PROVE  JobStep
<1>1. CASE Exit(s) \/ NextFile(s) \/ StatBefore(s) \/ Hash(s) \/ StatAfter(s)
  <2>1. UNCHANGED <<pc, groups, buckets, stopped, late>>
    BY <1>1 DEF Exit, NextFile, StatBefore, Hash, StatAfter, flags, walk
  <2>2. Phase' = Phase
    BY <2>1 DEF Phase
  <2> QED
    BY <2>1, <2>2, Hidden
<1>2. CASE AppendFile(s)
  <2> DEFINE m == w[s].file
  <2>1. /\ pc = "wait" /\ s = cur /\ m \in buckets[s] /\ m \in Waiting(s)
        /\ Grouped' = Grouped \cup {m.path}
        /\ UNCHANGED <<stopped, pc, buckets>>
        /\ late' = IF stopped THEN late + 1 ELSE late
    BY <1>2, Appended
  <2>2. Working(s)
    BY <1>2 DEF AppendFile, Working
  <2> HIDE DEF m
  <2>3. late = 0
    BY <2>2 DEF ControlInv, LateInv
  <2>4. late' = IF stopped THEN 1 ELSE 0
    BY <2>1, <2>3
  <2>5. m.path \in Candidates
    <3>1. Large(s)
      BY <2>1 DEF JobInv, LargeInv
    <3> QED
      BY <2>1, <3>1, CandidateHas
  <2>6. m.path \notin Grouped
    BY <2>1, GroupedHas DEF ControlInv, GroupsInv
  <2>7. m.path \in Files
    BY <2>1 DEF TypeOK, Meta
  <2>8. Phase = "classifying" /\ Phase' = "classifying"
    BY <2>1, PhaseIs, PhaseNext
  <2>9. Candidates' = Candidates
    BY <2>1 DEF Candidates, Paths, Large
  <2>10. JobClassify(m.path)
    BY <2>1, <2>3, <2>4, <2>5, <2>6, <2>8, <2>9 DEF JobClassify
  <2> QED
    BY <2>7, <2>10 DEF JobStep
<1> QED
  BY <1>1, <1>2 DEF Worker

\* A start is Begin, Stop is StopJob, a kill is Lost; other handlers and edits stutter.
LEMMA HandlersMap ==
  ASSUME TypeOK, ControlInv, Handlers
  PROVE  JobStep
<1>1. ASSUME NEW a \in Algos, Start(a)
      PROVE  JobStep
  <2>1. pc \in {"none", "done"} /\ pc' = "build" /\ FreshTask
    BY <1>1 DEF Start, Scanning
  <2>2. Phase \in {"none", "finished"} /\ Phase' = "collecting"
    BY <2>1, PhaseIs, PhaseNext
  <2> QED
    BY <2>1, <2>2, FreshJob DEF JobStep, JobBegin, JobReset
<1>2. CASE Stop
  <2>1. pc # "none" /\ stopped' = TRUE /\ UNCHANGED <<pc, buckets, groups, late>>
    BY <1>2 DEF Stop, Callable, walk
  <2>2. Phase' = Phase
    BY <2>1 DEF Phase
  <2>3. Phase # "none"
    BY <2>1, PhaseIs DEF TypeOK
  <2>4. Grouped' = Grouped /\ Candidates' = Candidates
    BY <2>1 DEF Grouped, Candidates, Paths, Large
  <2> QED
    BY <2>1, <2>2, <2>3, <2>4 DEF JobStep, JobStop
<1>3. CASE Pause \/ Resume \/ StopSave
  <2>1. UNCHANGED <<pc, groups, buckets, stopped, late>>
    BY <1>3 DEF Pause, Resume, StopSave, StopMarshal, StopTruncate, StopWrite, flags, walk
  <2>2. Phase' = Phase
    BY <2>1 DEF Phase
  <2> QED
    BY <2>1, <2>2, Hidden
<1> QED
  BY <1>1, <1>2, <1>3 DEF Handlers

\* ImplementsJob (task_edited): the task collects once, classifies each candidate
\* at most once, ends with all of them classified unless Stop was called, and then
\* classifies at most the one file in hand.
THEOREM ImplementsJobHolds == Spec => ImplementsJob
<1>1. Init => Job!JobInit
  <2> SUFFICES ASSUME Init
               PROVE  Job!JobInit
    OBVIOUS
  <2>1. pc = "none" /\ stopped = FALSE /\ late = 0 /\ groups = NoGroups
    BY DEF Init
  <2>2. Candidates = {} /\ Grouped = {}
    BY <2>1 DEF Candidates, Grouped, Paths, NoGroups
  <2> QED
    BY <2>1, <2>2, PhaseIs, MappedInit
<1>2. TypeOK /\ ControlInv /\ JobInv /\ [Next]_vars => [Job!JobNext]_(Job!jobVars)
  <2> SUFFICES ASSUME TypeOK, ControlInv, JobInv, [Next]_vars
               PROVE  JobStep
    BY MappedStep
  <2>1. CASE Scanner
    BY <2>1, ScannerMaps
  <2>2. CASE Handlers
    BY <2>2, HandlersMap
  <2>3. CASE \E s \in Sizes : Worker(s)
    BY <2>3, WorkerMaps
  <2>4. CASE Edit \/ Kill \/ UNCHANGED vars
    <3>1. UNCHANGED <<pc, groups, buckets, stopped, late>>
      BY <2>4 DEF Edit, Remove, Write, Kill, vars, flags, walk
    <3>2. Phase' = Phase
      BY <3>1 DEF Phase
    <3> QED
      BY <3>1, <3>2, Hidden
  <2>5. CASE Restart
    <3>1. pc' = "none" /\ FreshTask
      BY <2>5 DEF Restart
    <3>2. Phase' = "none"
      BY <3>1, PhaseNext
    <3> QED
      BY <3>1, <3>2, FreshJob DEF JobStep, JobReset
  <2> QED
    BY <2>1, <2>2, <2>3, <2>4, <2>5 DEF Next
<1> QED
  BY <1>1, <1>2, TypeCorrect, ControlCorrect, JobCorrect, PTL
  DEF Spec, ImplementsJob, Job!JobSpec
=============================================================================
