---------------------------- MODULE RequestProofs ----------------------------
(***************************************************************************)
(* Theorems about what module Session promises of one request: the bounds  *)
(* and the completeness of the cleanup, the restore.                       *)
(* Nothing a request promises survives interference, so that every         *)
(* invariant here speaks of a calm request, and of others one lemma is     *)
(* enough: what they change, they change by a step that ends the calm.     *)
(***************************************************************************)
EXTENDS SessionProofs

-----------------------------------------------------------------------------
\* Steps of a request and steps of others.

Own(o) == \/ \E mode \in Modes, clean \in BOOLEAN : Confirm(o, mode, clean)
          \/ Restore(o) \/ Request(o)

Foreign(o) ==
    \/ (\E D \in Scans : StartScan(D)) \/ StopScan \/ Task \/ Rule
    \/ \E q \in Requests \ {o} : Own(q)
    \/ \E p \in Paths : Vanish(p) \/ \E x \in Contents : Appear(p, x)

LEMMA OwnOrForeign ==
  ASSUME Next, NEW o \in Requests
  PROVE  Own(o) \/ Foreign(o)
BY DEF Next, Own, Foreign

\* The local variables of o, but that it is disturbed.
SameButCalm(o) == /\ r'[o].pc = r[o].pc /\ r'[o].asked = r[o].asked
                  /\ ~r'[o].calm

LEMMA StepDisturbs ==
  ASSUME r \in [Requests -> RequestType], NEW o \in Requests, NEW q \in Requests \ {o},
         NEW l, Step(q, l)
  PROVE  SameButCalm(o)
<1>1. r'[o] = [r[o] EXCEPT !.calm = FALSE]
  BY DEF Step
<1>2. r[o] \in RequestType
  OBVIOUS
<1> QED
  BY <1>1, <1>2 DEF SameButCalm, RequestType

LEMMA QuietSpares ==
  ASSUME r \in [Requests -> RequestType], NEW o \in Requests, NEW q \in Requests \ {o},
         NEW l, Quiet(q, l)
  PROVE  r'[o] = r[o]
BY DEF Quiet

\* What is not o's doing leaves o's loop alone, and leaves everything alone that o
\* relies on or disturbs o.
LEMMA Undisturbed ==
  ASSUME TypeOK, NEW o \in Requests, Foreign(o)
  PROVE  /\ c'[o] = c[o]
         /\ \/ r'[o] = r[o] /\ UNCHANGED <<home, dirs, manifest, backups>>
            \/ SameButCalm(o)
<1> USE DEF tree, page, pageVars, scan, store, bounds, history
<1>0. /\ r \in [Requests -> RequestType] /\ c \in [Requests -> LoopType]
      /\ r[o] \in RequestType
  BY DEF TypeOK, CleanTypeOK
<1>1. CASE (\E D \in Scans : StartScan(D)) \/ StopScan \/ Task \/ Rule
  BY <1>1 DEF StartScan, StopScan, Task, Visit, EndScan, Rule
<1>2. CASE \E p \in Paths : Vanish(p) \/ \E x \in Contents : Appear(p, x)
  <2>1. r' = Disturbed /\ UNCHANGED c
    BY <1>2 DEF Vanish, Appear
  <2>2. r'[o] = [r[o] EXCEPT !.calm = FALSE]
    BY <2>1 DEF Disturbed
  <2> QED
    BY <1>0, <2>1, <2>2 DEF SameButCalm, RequestType
<1>3. ASSUME NEW q \in Requests \ {o}, Own(q)
      PROVE  /\ c'[o] = c[o]
             /\ \/ r'[o] = r[o] /\ UNCHANGED <<home, dirs, manifest, backups>>
                \/ SameButCalm(o)
  <2>1. ASSUME NEW mode \in Modes, NEW clean \in BOOLEAN, Confirm(q, mode, clean)
        PROVE  r'[o] = r[o] /\ UNCHANGED <<home, dirs, manifest, backups, c>>
    BY <1>0, <2>1, QuietSpares DEF Confirm
  <2>L. CASE Listing(q)
    <3>1. ASSUME NEW x \in Contents, Choose(q, x) \/ Resort(q, x)
          PROVE  r'[o] = r[o] /\ UNCHANGED <<home, dirs, manifest, backups, c>>
      BY <1>0, <3>1, QuietSpares DEF Choose, Resort
    <3>2. CASE ListDeletes(q)
      BY <1>0, <3>2, QuietSpares DEF ListDeletes
    <3> QED
      BY <2>L, <3>1, <3>2 DEF Listing, ListDeletes
  <2>2. CASE Restore(q) \/ SkipMapping(q) \/ EndRestore(q) \/ Refuse(q) \/ Accept(q)
    <3>1. r'[o] = r[o]
      BY <1>0, <2>2, QuietSpares DEF Restore, SkipMapping, EndRestore, Refuse, Accept
    <3> QED
      BY <2>2, <3>1 DEF Restore, SkipMapping, EndRestore, Refuse, Accept
  <2>3. CASE MakeParents(q) \/ MoveBack(q)
    <3>1. SameButCalm(o)
      BY <1>0, <2>3, StepDisturbs DEF MakeParents, MoveBack
    <3> QED
      BY <2>3, <3>1 DEF MakeParents, MoveBack
  <2>4. CASE MoveBackFails(q)
    <3>1. r'[o] = r[o]
      BY <1>0, <2>4, QuietSpares DEF MoveBackFails
    <3> QED
      BY <2>4, <3>1 DEF MoveBackFails
  <2>5. ASSUME NEW p \in Paths, DeleteFile(q, p) \/ DeleteByCopy(q, p) \/ DeleteFails(q, p)
        PROVE  SameButCalm(o) /\ UNCHANGED c
    <3>1. UNCHANGED c /\ \E l : Step(q, l)
      BY <2>5 DEF DeleteFile, DeleteByCopy, Gets, DeleteFails
    <3> QED
      BY <1>0, <3>1, StepDisturbs
  <2>6. CASE EndDelete(q)
    <3>1. SameButCalm(o)
      BY <1>0, <2>6, StepDisturbs DEF EndDelete
    <3>2. c'[o] = c[o]
      BY <1>0, <2>6 DEF EndDelete
    <3> QED
      BY <3>1, <3>2
  <2>7. CASE Cleaning(q)
    <3>1. c'[o] = c[o]
      BY <1>0, <2>7 DEF Cleaning, CleanStep, TakePath, Look, RemoveDir, Break
    <3>2. UNCHANGED <<home, manifest, backups>>
      BY <2>7 DEF Cleaning, CleanStep, TakePath, Look, RemoveDir
    <3>3. (dirs' = dirs /\ r' = r) \/ Step(q, r[q])
      BY <2>7 DEF Cleaning
    <3> QED
      BY <1>0, <3>1, <3>2, <3>3, StepDisturbs
  <2>F. CASE CleaningFails(q)
    <3>1. c'[o] = c[o]
      BY <1>0, <2>F DEF CleaningFails, CleanError, Break
    <3> QED
      BY <2>F, <3>1 DEF CleaningFails, CleanError
  <2>8. CASE EndCleaning(q)
    <3>1. r'[o] = r[o]
      BY <1>0, <2>8, QuietSpares DEF EndCleaning
    <3>2. c'[o] = c[o]
      BY <1>0, <2>8 DEF EndCleaning
    <3> QED
      BY <2>8, <3>1, <3>2 DEF EndCleaning
  <2> QED
    BY <1>3, <2>1, <2>L, <2>2, <2>3, <2>4, <2>5, <2>6, <2>7, <2>F, <2>8
       DEF Own, Request, Delete, Restoring
<1> QED
  BY <1>1, <1>2, <1>3 DEF Foreign

\* A step that changes nothing is like one of others.
LEMMA Asleep ==
  ASSUME UNCHANGED vars, NEW o \in Requests
  PROVE  c'[o] = c[o] /\ r'[o] = r[o]
         /\ UNCHANGED <<home, dirs, manifest, backups>>
BY DEF vars, tree, store

\* The local variables a step of o leaves it with.
LEMMA OwnLocals ==
  ASSUME TypeOK, NEW o \in Requests, NEW l, Step(o, l) \/ Quiet(o, l)
  PROVE  r'[o] = l
BY DEF TypeOK, Step, Quiet

-----------------------------------------------------------------------------
\* The bounds of the cleanup.

\* The paths a delete was to delete.
Wanted(q) == {r[q].asked[k] : k \in DOMAIN r[q].asked}

\* The loop runs in the cleanup only, it is above a listed path, and a directory is
\* found empty only within the bounds.
LoopOK(q) ==
    /\ r[q].pc # "clean" => c[q].dir = NoDir /\ c[q].from = {} /\ ~c[q].empty
    /\ c[q].empty => Within(c[q].dir, c[q].bounds)
    /\ c[q].from \subseteq Wanted(q)
    /\ c[q].dir # NoDir => c[q].dir \in Dirs /\ \E p \in Wanted(q) : c[q].dir \in Above[p]

\* The directory of a file, and what is above it.
LEMMA AboveFile ==
  ASSUME NEW p \in Paths
  PROVE  Up[p] \in Dirs /\ Above[p] = {Up[p]} \cup Above[Up[p]]
<1>1. Up[p] \in Dirs
  BY TreeAssumption
<1>2. p \notin Dirs
  BY TreeAssumption
<1>3. Above[p] = IF Up[p] = p THEN {} ELSE {Up[p]} \cup Above[Up[p]]
  BY TreeAssumption
<1> QED
  BY <1>1, <1>2, <1>3

LEMMA AboveDir ==
  ASSUME NEW d \in Dirs
  PROVE  /\ Up[d] \in Dirs /\ d \notin Above[d] /\ Above[d] \subseteq Dirs
         /\ IF Topmost(d) THEN Above[d] = {} ELSE Above[d] = {Up[d]} \cup Above[Up[d]]
BY TreeAssumption DEF Topmost

LEMMA AboveAbove ==
  ASSUME NEW x \in Paths \cup Dirs, NEW d \in Above[x]
  PROVE  d \in Dirs /\ Above[d] \subseteq Above[x]
BY TreeAssumption

\* Listed paths are paths.
LEMMA WantedType ==
  ASSUME TypeOK, NEW o \in Requests
  PROVE  Wanted(o) \subseteq Paths
<1>1. r[o].asked \in Seq(Paths)
  BY DEF TypeOK, RequestType
<1> QED
  BY <1>1, ElementOfSeq DEF Wanted

\* A step of the loop.
LEMMA LoopSteps ==
  ASSUME TypeOK, NEW o \in Requests, LoopOK(o), r[o].pc = "clean",
         CleanStep(o) \/ CleanError(o), r'[o] = r[o]
  PROVE  LoopOK(o)'
<1> USE DEF Wanted
<1>0. c \in [Requests -> LoopType] /\ c[o] \in LoopType /\ Wanted(o)' = Wanted(o)
  BY DEF TypeOK, CleanTypeOK
<1>1. CASE TakePath(o)
  <2>1. PICK p \in c[o].from : c' = [c EXCEPT ![o].from = @ \ {p}, ![o].dir = Up[p]]
    BY <1>1 DEF TakePath
  <2>2. /\ c'[o].from = c[o].from \ {p} /\ c'[o].dir = Up[p]
        /\ c'[o].empty = c[o].empty /\ c'[o].bounds = c[o].bounds /\ c[o].dir = NoDir
    BY <1>0, <1>1, <2>1 DEF LoopType, TakePath
  <2>3. p \in Wanted(o) /\ p \in Paths
    BY WantedType, <2>1 DEF LoopOK
  <2>4. ~c[o].empty
    BY <2>2, TreeAssumption DEF TypeOK, CleanTypeOK
  <2> QED
    BY <1>0, <2>2, <2>3, <2>4, AboveFile DEF LoopOK
<1>2. ASSUME NEW failed, Break(o, failed)
      PROVE  LoopOK(o)'
  <2>1. /\ c'[o].from = c[o].from /\ c'[o].dir = NoDir /\ ~c'[o].empty
    BY <1>0, <1>2 DEF LoopType, Break
  <2> QED
    BY <1>0, <2>1 DEF LoopOK
<1>3. CASE Look(o)
  <2>1. CASE c' = [c EXCEPT ![o].empty = TRUE] /\ ~Passed(o, c[o].dir)
    <3>1. /\ c'[o].from = c[o].from /\ c'[o].dir = c[o].dir /\ c'[o].bounds = c[o].bounds
      BY <1>0, <2>1 DEF LoopType
    <3> QED
      BY <1>0, <2>1, <3>1 DEF LoopOK, Passed, Within
  <2> QED
    BY <1>2, <1>3, <2>1 DEF Look
<1>4. CASE RemoveDir(o)
  <2> DEFINE d == c[o].dir
  <2>1. d \in Dirs /\ c[o].empty
    BY <1>4 DEF RemoveDir, TypeOK, CleanTypeOK
  <2>2. CASE c' = [c EXCEPT ![o].dir = IF Topmost(d) THEN NoDir ELSE Up[d],
                            ![o].empty = FALSE, ![o].seen = @ \cup {d}]
    <3>1. /\ c'[o].dir = IF Topmost(d) THEN NoDir ELSE Up[d]
          /\ ~c'[o].empty /\ c'[o].from = c[o].from
      BY <1>0, <2>2 DEF LoopType
    <3>2. PICK p \in Wanted(o) : d \in Above[p]
      BY <2>1, TreeAssumption DEF LoopOK
    <3>3. ~Topmost(d) => Up[d] \in Above[p] /\ Up[d] \in Dirs
      BY <2>1, <3>2, WantedType, AboveDir, AboveAbove
    <3> QED
      BY <1>0, <3>1, <3>2, <3>3 DEF LoopOK
  <2> QED
    BY <1>2, <1>4, <2>2 DEF RemoveDir
<1>5. CASE CleanError(o)
  BY <1>2, <1>5 DEF CleanError
<1> QED
  BY <1>1, <1>3, <1>4, <1>5 DEF CleanStep

\* After a group, the next one or the check and the files.
LEMMA GoOnPc ==
  ASSUME NEW l \in RequestType
  PROVE  GoOn(l).pc \in {"apply", "check", "delete"}
<1> DEFINE d == [IdleRequest EXCEPT !.pc = IF l.mode = "permanent" THEN "delete" ELSE "check",
                                    !.mode = l.mode, !.clean = l.clean, !.todo = l.todo]
<1>1. [l EXCEPT !.pc = "apply", !.at = Gone, !.kept = {}].pc = "apply"
  BY DEF RequestType
<1>2. d.pc \in {"check", "delete"}
  BY DEF IdleRequest
<1> QED
  BY <1>1, <1>2 DEF GoOn

\* The steps of a delete before its end lead to no cleanup and to no restore.
LEMMA DeletePc ==
  ASSUME TypeOK, NEW o \in Requests,
         \/ \E mode \in Modes, clean \in BOOLEAN : Confirm(o, mode, clean)
         \/ Listing(o) \/ Refuse(o) \/ Accept(o)
         \/ \E p \in Paths : DeleteFile(o, p) \/ DeleteByCopy(o, p) \/ DeleteFails(o, p)
  PROVE  /\ r[o].pc # "clean" /\ r'[o].pc \notin {"clean", "next", "move"}
         /\ c' = c
<1> USE DEF tree
<1>0. r[o] \in RequestType /\ RequestOK(r[o], DOMAIN backups)
  BY RequestsTyped DEF RequestsOK, RequestOK
<1>1. ASSUME NEW mode \in Modes, NEW clean \in BOOLEAN, Confirm(o, mode, clean)
      PROVE  r[o].pc # "clean" /\ r'[o].pc \in {"apply", "check", "delete"} /\ c' = c
  <2> DEFINE l == [IdleRequest EXCEPT !.mode = mode, !.clean = clean, !.rs = ruleSet,
                                      !.scan = scans, !.view = Groups]
  <2>1. l \in RequestType
    <3>1. IdleRequest \in RequestType
      BY IdleType DEF RequestOK
    <3>2. /\ Groups \in [Contents -> SUBSET Paths] /\ ruleSet \in RuleSets /\ scans \in Nat
          /\ mode \in {"backup", "trash", "permanent"}
      BY SessionAssumption DEF Groups, Same, TypeOK, PageTypeOK
    <3> QED
      BY <3>1, <3>2 DEF RequestType
  <2>2. r'[o] = GoOn(l)
    BY <1>1, OwnLocals DEF Confirm
  <2> QED
    BY <1>1, <2>1, <2>2, GoOnPc DEF Confirm
<1>2. ASSUME NEW x \in Contents, Choose(o, x)
      PROVE  r[o].pc # "clean" /\ r'[o].pc = "list" /\ c' = c
  <2>1. \E K : r'[o] = [r[o] EXCEPT !.pc = "list", !.at = x, !.kept = K]
    BY <1>2, OwnLocals DEF Choose
  <2> QED
    BY <1>0, <1>2, <2>1 DEF Choose, RequestType
<1>3. ASSUME NEW x \in Contents, Resort(o, x)
      PROVE  r[o].pc \in {"apply", "list"} /\ r'[o].pc = r[o].pc /\ c' = c
  <2>1. \E v : r'[o] = [r[o] EXCEPT !.view = [@ EXCEPT ![x] = v]]
    BY <1>3, OwnLocals DEF Resort
  <2> QED
    BY <1>0, <1>3, <2>1 DEF Resort, RequestType
<1>4. CASE ListDeletes(o)
  <2> DEFINE v == [r[o].view EXCEPT ![r[o].at] = {}]  t == r[o].todo \cup Listed(r[o])
             l == [r[o] EXCEPT !.todo = @ \cup Listed(r[o]), !.view = [@ EXCEPT ![r[o].at] = {}]]
  <2>1. v \in [Contents -> SUBSET Paths] /\ t \subseteq Paths
    BY <1>0, <1>4 DEF ListDeletes, RequestOK, RequestType, Listed
  <2>2. [r[o] EXCEPT !.todo = t, !.view = v] \in RequestType
    BY <1>0, <2>1 DEF RequestType
  <2>3. l = [r[o] EXCEPT !.todo = t, !.view = v]
    BY <1>0 DEF RequestType
  <2>4. r'[o] = GoOn(l)
    BY <1>4, OwnLocals DEF ListDeletes
  <2> QED
    BY <1>4, <2>2, <2>3, <2>4, GoOnPc DEF ListDeletes
<1>5. CASE Refuse(o)
  <2>1. r'[o] = IdleRequest
    BY <1>5, OwnLocals DEF Refuse
  <2> QED
    BY <1>5, <2>1 DEF Refuse, IdleRequest
<1>6. CASE Accept(o)
  <2> DEFINE l == [r[o] EXCEPT !.pc = "delete", !.checked = Checkable(o), !.calm = TRUE,
                               !.room = free, !.sizes = home]
  <2>1. r'[o] = l
    BY <1>6, OwnLocals DEF Accept
  <2>2. l.pc = "delete"
    BY <1>0 DEF RequestType
  <2> QED
    BY <1>6, <2>1, <2>2 DEF Accept
<1>7. ASSUME NEW p \in Paths, DeleteFile(o, p) \/ DeleteByCopy(o, p) \/ DeleteFails(o, p)
      PROVE  r[o].pc = "delete" /\ r'[o].pc = "delete" /\ c' = c
  <2> DEFINE a == Asked(o, p)
  <2>1. r[o].pc = "delete" /\ c' = c
    BY <1>7 DEF DeleteFile, DeleteByCopy, Gets, DeleteFails
  <2>2. a \in RequestType /\ a.pc = "delete"
    <3>1. a \in RequestType
      BY <1>0, AskedType DEF RequestOK
    <3> QED
      BY <1>0, <2>1, <3>1 DEF Asked, RequestType
  <2>3. PICK l : /\ l \in {a, [a EXCEPT !.calm = FALSE], [a EXCEPT !.lacked = TRUE]}
                 /\ \/ r'[o] = l
                    \/ \E n : r'[o] = [l EXCEPT !.moved = Append(@, n)]
    BY <1>7, OwnLocals DEF DeleteFile, DeleteByCopy, Gets, DeleteFails
  <2> HIDE DEF a
  <2>4. l \in RequestType /\ l.pc = "delete"
    BY <2>2, <2>3 DEF RequestType
  <2>5. \A n : [l EXCEPT !.moved = Append(@, n)].pc = "delete"
    BY <2>4 DEF RequestType
  <2> QED
    BY <2>1, <2>3, <2>4, <2>5
<1> QED
  BY <1>1, <1>2, <1>3, <1>4, <1>5, <1>6, <1>7 DEF Listing

\* The own steps of a request that are no step of the loop.
LEMMA OwnPc ==
  ASSUME TypeOK, NEW o \in Requests, Own(o),
         ~Cleaning(o), ~CleaningFails(o), ~EndDelete(o), ~EndCleaning(o)
  PROVE  /\ r[o].pc # "clean" /\ r'[o].pc # "clean" /\ c' = c
<1> USE DEF tree
<1>0. r[o] \in RequestType
  BY DEF TypeOK
<1>1. CASE \/ \E mode \in Modes, clean \in BOOLEAN : Confirm(o, mode, clean)
           \/ Listing(o) \/ Refuse(o) \/ Accept(o)
           \/ \E p \in Paths : DeleteFile(o, p) \/ DeleteByCopy(o, p) \/ DeleteFails(o, p)
  BY <1>1, DeletePc
<1>2. CASE EndRestore(o)
  <2>1. r'[o] = IdleRequest
    BY <1>2, OwnLocals DEF EndRestore
  <2> QED
    BY <1>2, <2>1 DEF EndRestore, IdleRequest
<1>3. CASE Restore(o) \/ SkipMapping(o) \/ MakeParents(o) \/ MoveBack(o) \/ MoveBackFails(o)
  <2>1. \/ r'[o] = [IdleRequest EXCEPT !.pc = "next", !.plan = manifest, !.calm = TRUE]
        \/ r'[o] = Rest(o) \/ r'[o] = [Rest(o) EXCEPT !.calm = FALSE]
        \/ r'[o] = [r[o] EXCEPT !.pc = "move"]
    BY <1>3, OwnLocals DEF Restore, SkipMapping, MakeParents, MoveBack, MoveBackFails
  <2>2. /\ [IdleRequest EXCEPT !.pc = "next", !.plan = manifest, !.calm = TRUE].pc = "next"
        /\ Rest(o).pc = "next" /\ [Rest(o) EXCEPT !.calm = FALSE].pc = "next"
        /\ [r[o] EXCEPT !.pc = "move"].pc = "move"
    BY <1>0 DEF RequestType, IdleRequest, Rest
  <2> QED
    BY <1>3, <2>1, <2>2
       DEF Restore, SkipMapping, MakeParents, MoveBack, MoveBackFails
<1> QED
  BY <1>1, <1>2, <1>3 DEF Own, Request, Delete, Restoring

\* The end of a delete sets the loop up or replies.
LEMMA CleanupBegins ==
  ASSUME TypeOK, NEW o \in Requests, EndDelete(o)
  PROVE  \/ /\ r'[o].pc = "idle" /\ r'[o].asked = <<>> /\ c' = c
         \/ /\ r'[o].pc = "clean" /\ r'[o].asked = r[o].asked
            /\ c'[o].from = Wanted(o) /\ c'[o].dir = NoDir /\ ~c'[o].empty
            /\ c'[o].seen = {}
<1>0. r[o] \in RequestType /\ c \in [Requests -> LoopType]
  BY DEF TypeOK, CleanTypeOK
<1>1. CASE UNCHANGED c /\ Step(o, IdleRequest)
  BY <1>1, OwnLocals DEF IdleRequest
<1>2. CASE /\ c' = [c EXCEPT ![o] = CleanStart({r[o].asked[k] : k \in DOMAIN r[o].asked}, opts)]
           /\ Step(o, [IdleRequest EXCEPT !.pc = "clean", !.asked = r[o].asked, !.calm = TRUE])
  <2>1. r'[o] = [IdleRequest EXCEPT !.pc = "clean", !.asked = r[o].asked, !.calm = TRUE]
    BY <1>2, OwnLocals
  <2>2. c'[o] = CleanStart(Wanted(o), opts)
    BY <1>0, <1>2 DEF Wanted
  <2>3. /\ CleanStart(Wanted(o), opts).from = Wanted(o)
        /\ CleanStart(Wanted(o), opts).dir = NoDir
        /\ ~CleanStart(Wanted(o), opts).empty
        /\ CleanStart(Wanted(o), opts).seen = {}
    BY DEF CleanStart, IdleLoop
  <2>4. r'[o].pc = "clean" /\ r'[o].asked = r[o].asked
    BY <2>1 DEF IdleRequest
  <2> QED
    BY <2>2, <2>3, <2>4
<1> QED
  BY <1>1, <1>2 DEF EndDelete

\* The own steps of a request.
LEMMA LoopKept ==
  ASSUME TypeOK, NEW o \in Requests, LoopOK(o), Own(o)
  PROVE  LoopOK(o)'
<1>0. c \in [Requests -> LoopType]
  BY DEF TypeOK, CleanTypeOK
<1>1. CASE Cleaning(o)
  <2>1. r'[o] = r[o] /\ r[o].pc = "clean" /\ CleanStep(o)
    BY <1>1, OwnLocals DEF Cleaning
  <2> QED
    BY <2>1, LoopSteps
<1>E. CASE CleaningFails(o)
  BY <1>E, LoopSteps DEF CleaningFails
<1>2. CASE EndCleaning(o)
  <2>1. c'[o] = IdleLoop
    BY <1>0, <1>2 DEF EndCleaning
  <2> QED
    BY <2>1 DEF LoopOK, IdleLoop
<1>3. CASE EndDelete(o)
  <2>1. r[o].pc # "clean"
    BY <1>3 DEF EndDelete
  <2> QED
    BY <1>3, <2>1, CleanupBegins DEF LoopOK, Wanted
<1>4. CASE ~Cleaning(o) /\ ~CleaningFails(o) /\ ~EndDelete(o) /\ ~EndCleaning(o)
  <2>1. r[o].pc # "clean" /\ r'[o].pc # "clean" /\ c' = c
    BY <1>4, OwnPc
  <2> QED
    BY <2>1 DEF LoopOK
<1> QED
  BY <1>1, <1>E, <1>2, <1>3, <1>4

LoopsOK == \A q \in Requests : LoopOK(q)

LEMMA LoopsHold == Spec => []LoopsOK
<1>1. Init => LoopsOK
  BY DEF Init, LoopsOK, LoopOK, IdleLoop, IdleRequest
<1>2. TypeOK /\ LoopsOK /\ [Next]_vars => LoopsOK'
  <2> SUFFICES ASSUME TypeOK, [Next]_vars, NEW o \in Requests, LoopOK(o)
               PROVE  LoopOK(o)'
    BY DEF LoopsOK
  <2>1. CASE Own(o)
    BY <2>1, LoopKept
  <2>2. CASE Foreign(o)
    BY <2>2, Undisturbed DEF LoopOK, Wanted, SameButCalm
  <2>3. CASE UNCHANGED vars
    BY <2>3, Asleep DEF LoopOK, Wanted
  <2> QED
    BY <2>1, <2>2, <2>3, OwnOrForeign
<1> QED
  BY <1>1, <1>2, TypeCorrect, PTL DEF Spec

\* Only the loop of a cleanup removes directories.
LEMMA WhoRemoves ==
  ASSUME [Next]_vars, NEW d \in dirs \ dirs'
  PROVE  \E q \in Requests : RemoveDir(q) /\ d = c[q].dir
<1> USE DEF tree
<1>1. ~(UNCHANGED vars)
  BY DEF vars
<1>2. ~((\E D \in Scans : StartScan(D)) \/ StopScan \/ Task \/ Rule)
  BY DEF StartScan, StopScan, Task, Visit, EndScan, Rule
<1>3. ~(\E p \in Paths : Vanish(p) \/ \E x \in Contents : Appear(p, x))
  BY DEF Vanish, Appear
<1>4. ASSUME NEW q \in Requests, Own(q)
      PROVE  Cleaning(q)
  BY <1>4 DEF Own, Request, Delete, Restoring, Confirm, Listing, Choose, ListDeletes,
              Resort, Refuse, Accept, DeleteFile, DeleteByCopy, Gets, DeleteFails,
              EndDelete, CleaningFails, CleanError, EndCleaning, Restore, SkipMapping,
              MakeParents, MoveBack, MoveBackFails, EndRestore
<1>5. PICK q \in Requests : Cleaning(q)
  BY <1>1, <1>2, <1>3, <1>4 DEF Next, Own
<1> QED
  BY <1>5 DEF Cleaning, CleanStep, TakePath, Look, RemoveDir

\* cleanup.go, CleanEmptyDirs: a directory disappears only to a cleanup in whose bounds
\* it lies and only above a path that was on the list, whatever the tree, the bounds,
\* and the requests and programs next to it.
THEOREM CleanWithinBoundsHolds == Spec => CleanWithinBounds
<1>1. TypeOK /\ LoopsOK /\ [Next]_vars =>
         [\A d \in dirs \ dirs' : \E q \in Requests :
             /\ d \in c[q].bounds \/ Above[d] \cap c[q].bounds # {}
             /\ \E k \in DOMAIN r[q].asked : d \in Above[r[q].asked[k]]]_vars
  <2> SUFFICES ASSUME TypeOK, LoopsOK, [Next]_vars, NEW d \in dirs \ dirs'
               PROVE  \E q \in Requests :
                         /\ d \in c[q].bounds \/ Above[d] \cap c[q].bounds # {}
                         /\ \E k \in DOMAIN r[q].asked : d \in Above[r[q].asked[k]]
    OBVIOUS
  <2>1. PICK q \in Requests : RemoveDir(q) /\ d = c[q].dir
    BY WhoRemoves
  <2>2. c[q].empty /\ d # NoDir /\ LoopOK(q)
    BY <2>1, TreeAssumption DEF RemoveDir, LoopsOK, TypeOK, CleanTypeOK
  <2>3. Within(d, c[q].bounds) /\ \E p \in Wanted(q) : d \in Above[p]
    BY <2>1, <2>2 DEF LoopOK
  <2> QED
    BY <2>3 DEF Within, Wanted
<1> QED
  BY <1>1, LoopsHold, TypeCorrect, PTL DEF Spec, CleanWithinBounds

-----------------------------------------------------------------------------
\* The completeness of the cleanup.

\* What there is lies in directories that are there.
Present == dirs \cup {p \in Paths : home[p] # Gone}

Closed == \A x \in Present : Above[x] \subseteq dirs

\* A directory that something lies in has an entry.
LEMMA Crowded ==
  ASSUME TypeOK, Closed, NEW x \in Present, NEW d \in Above[x]
  PROVE  Entries(d) # {}
<1>1. x \in Paths \cup Dirs /\ dirs \subseteq Dirs
  BY DEF Present, TypeOK, CleanTypeOK
<1>2. PICK e \in {x} \cup Above[x] : Up[e] = d /\ e # d
  BY <1>1, TreeAssumption
<1>3. e \in Present
  BY <1>2 DEF Closed, Present
<1> QED
  BY <1>2, <1>3 DEF Present, Entries

\* Files and directories that come bring the directories above them along.
LEMMA ClosedKept ==
  ASSUME TypeOK, Closed, [Next]_vars
  PROVE  Closed'
<1> USE DEF tree, page, pageVars, scan, store, bounds, history
<1>0. /\ home \in [Paths -> Contents \cup {Gone}] /\ dirs \subseteq Dirs
      /\ r \in [Requests -> RequestType]
  BY DEF TypeOK, CleanTypeOK
<1>1. ASSUME UNCHANGED dirs, \A p \in Paths : home'[p] # Gone => home[p] # Gone
      PROVE  Closed'
  BY <1>1 DEF Closed, Present
<1>2. ASSUME NEW p \in Paths, UNCHANGED home \/ (\E x : home' = [home EXCEPT ![p] = x]),
             dirs' = dirs \cup Above[p]
      PROVE  Closed'
  <2>1. \A x \in Present' : x \in Present \/ x = p \/ x \in Above[p]
    BY <1>0, <1>2 DEF Present
  <2> QED
    BY <1>2, <2>1, AboveAbove DEF Closed
<1>3. ASSUME NEW p \in Paths, Up[p] \in dirs, UNCHANGED dirs,
             \E x : home' = [home EXCEPT ![p] = x]
      PROVE  Closed'
  <2>1. \A x \in Present' : x \in Present \/ x = p
    BY <1>0, <1>3 DEF Present
  <2>2. Above[p] \subseteq dirs
    BY <1>3, AboveFile DEF Closed, Present
  <2> QED
    BY <1>3, <2>1, <2>2 DEF Closed
<1>4. ASSUME UNCHANGED home, NEW d \in dirs, Entries(d) = {}, dirs' = dirs \ {d}
      PROVE  Closed'
  <2>1. \A x \in Present' : x \in Present
    BY <1>4 DEF Present
  <2>2. \A x \in Present : d \notin Above[x]
    BY <1>4, Crowded
  <2> QED
    BY <1>4, <2>1, <2>2 DEF Closed
<1>5. CASE UNCHANGED vars
  BY <1>1, <1>5 DEF vars
<1>6. CASE (\E D \in Scans : StartScan(D)) \/ StopScan \/ Task \/ Rule
  BY <1>1, <1>6 DEF StartScan, StopScan, Task, Visit, EndScan, Rule
<1>7. ASSUME NEW p \in Paths, Vanish(p)
      PROVE  Closed'
  BY <1>0, <1>1, <1>7 DEF Vanish
<1>8. ASSUME NEW p \in Paths, NEW x \in Contents, Appear(p, x)
      PROVE  Closed'
  BY <1>2, <1>8 DEF Appear
<1>9. ASSUME NEW q \in Requests, Own(q)
      PROVE  Closed'
  <2>1. CASE Cleaning(q)
    <3>1. CASE RemoveDir(q) /\ ~UNCHANGED dirs
      BY <1>4, <3>1 DEF RemoveDir
    <3>2. CASE TakePath(q) \/ Look(q) \/ UNCHANGED dirs
      BY <1>1, <2>1, <3>2 DEF Cleaning, CleanStep, TakePath, Look, RemoveDir
    <3> QED
      BY <2>1, <3>1, <3>2 DEF Cleaning, CleanStep
  <2>2. ASSUME NEW p \in Paths, DeleteFile(q, p) \/ DeleteByCopy(q, p)
        PROVE  Closed'
    <3>1. home' = [home EXCEPT ![p] = Gone] /\ UNCHANGED dirs
      BY <2>2 DEF DeleteFile, DeleteByCopy, Gets
    <3> QED
      BY <1>0, <1>1, <3>1
  <2>3. CASE MakeParents(q) \/ MoveBack(q)
    <3> DEFINE p == Head(r[q].plan).source
    <3>1. r[q].plan \in Seq(Mapping) /\ r[q].plan # <<>>
      BY <1>0, <2>3 DEF TypeOK, RequestType, MakeParents, MoveBack
    <3>2. p \in Paths
      <4>1. Head(r[q].plan) \in Mapping
        BY <3>1, HeadTailProperties
      <4> QED
        BY <4>1 DEF Mapping
    <3>3. CASE MakeParents(q)
      <4>1. UNCHANGED home /\ dirs' = dirs \cup Above[p]
        BY <3>3 DEF MakeParents, Parents
      <4> QED
        BY <1>2, <3>2, <4>1
    <3>4. CASE MoveBack(q)
      <4>1. Up[p] \in dirs /\ UNCHANGED dirs /\ \E x : home' = [home EXCEPT ![p] = x]
        BY <3>4 DEF MoveBack
      <4> QED
        BY <1>3, <3>2, <4>1
    <3> QED
      BY <2>3, <3>3, <3>4
  <2>4. CASE UNCHANGED <<home, dirs>>
    BY <1>1, <2>4
  <2> QED
    BY <1>9, <2>1, <2>2, <2>3, <2>4
       DEF Own, Request, Delete, Restoring, Confirm, Listing, Choose, ListDeletes, Resort,
           Refuse, Accept, DeleteFails, EndDelete, CleaningFails, CleanError, EndCleaning,
           Restore, SkipMapping, MoveBackFails, EndRestore
<1> QED
  BY <1>5, <1>6, <1>7, <1>8, <1>9 DEF Next, Own

LEMMA ClosedHolds == Spec => []Closed
<1>1. Init => Closed
  <2>1. \A x \in Paths \cup Dirs : Above[x] \subseteq Dirs
    BY TreeAssumption
  <2> QED
    BY <2>1 DEF Init, Closed, Present
<1> QED
  BY <1>1, ClosedKept, TypeCorrect, PTL DEF Spec

\* Directory d is not there, out of bounds or not empty.
Swept(q, d) == d \in dirs /\ Within(d, c[q].bounds) => Entries(d) # {}

\* The loop is at d or below.
OnWay(q, d) == c[q].dir # NoDir /\ (d = c[q].dir \/ d \in Above[c[q].dir])

\* While a cleanup is calm and nothing failed, every directory above a path that was
\* taken is swept, or the loop is on its way there; so is every directory above one
\* that was removed, which is why the loop may stop where it meets its own traces:
\* it stands there only on a way it has not been before.
SweepOK(q) ==
    r[q].pc = "clean" /\ r[q].calm /\ c[q].failed = {} =>
        /\ \A p \in Wanted(q) \ c[q].from : \A d \in Above[p] : Swept(q, d) \/ OnWay(q, d)
        /\ c[q].seen \cap dirs = {}
        /\ \A e \in c[q].seen : \A d \in Above[e] :
              Swept(q, d) \/ (OnWay(q, d) /\ c[q].dir \in Above[e])

LEMMA SweepTakes ==
  ASSUME TypeOK, NEW o \in Requests, LoopOK(o), SweepOK(o), TakePath(o), r'[o] = r[o]
  PROVE  SweepOK(o)'
<1>0. c \in [Requests -> LoopType] /\ c[o] \in LoopType
  BY DEF TypeOK, CleanTypeOK
<1>1. PICK p \in c[o].from : c' = [c EXCEPT ![o].from = @ \ {p}, ![o].dir = Up[p]]
  BY DEF TakePath
<1>2. /\ c'[o].from = c[o].from \ {p} /\ c'[o].dir = Up[p] /\ c[o].dir = NoDir
      /\ c'[o].bounds = c[o].bounds /\ c'[o].seen = c[o].seen
      /\ c'[o].failed = c[o].failed /\ UNCHANGED <<home, dirs>>
  BY <1>0, <1>1 DEF LoopType, TakePath
<1>3. p \in Wanted(o) /\ p \in Paths /\ Up[p] # NoDir
  BY <1>1, WantedType, AboveFile, TreeAssumption DEF LoopOK
<1>4. \A d : Swept(o, d) = Swept(o, d)' /\ ~OnWay(o, d)
  BY <1>2 DEF Swept, OnWay, Entries
<1>5. \A d \in Above[p] : OnWay(o, d)'
  BY <1>2, <1>3, AboveFile DEF OnWay
<1> QED
  BY <1>2, <1>4, <1>5 DEF SweepOK, Wanted

\* Where the loop stops without an error, nothing is left to do above.
LEMMA SweepStops ==
  ASSUME Bare = {}, TypeOK, Closed, NEW o \in Requests, SweepOK(o), LoopOK(o),
         r[o].pc = "clean", r[o].calm, c[o].failed = {}, c[o].dir # NoDir,
         \/ Passed(o, c[o].dir)
         \/ c[o].dir \in dirs /\ Entries(c[o].dir) # {}
  PROVE  \A x : OnWay(o, x) => Swept(o, x)
<1> DEFINE d == c[o].dir
<1> SUFFICES ASSUME NEW x, x = d \/ x \in Above[d], x \in dirs, Within(x, c[o].bounds)
             PROVE  Entries(x) # {}
  BY DEF OnWay, Swept
<1>0. d \in Dirs
  BY DEF LoopOK
<1>1. CASE d \in c[o].seen
  <2>1. x # d
    BY <1>1 DEF SweepOK
  <2>2. Swept(o, x) \/ d \in Above[d]
    BY <1>1, <2>1 DEF SweepOK
  <2> QED
    BY <1>0, <2>2, AboveDir DEF Swept
<1>2. CASE ~Within(d, c[o].bounds)
  <2>1. x # d /\ x \in Above[d] /\ Above[x] \subseteq Above[d]
    BY <1>0, <1>2, AboveAbove
  <2> QED
    BY <1>2, <2>1 DEF Within
<1>3. CASE d \in dirs /\ Entries(d) # {}
  BY <1>3, Crowded DEF Present
<1> QED
  BY <1>1, <1>2, <1>3 DEF Passed

LEMMA SweepLooks ==
  ASSUME Bare = {}, TypeOK, Closed, NEW o \in Requests, LoopOK(o), SweepOK(o),
         Look(o), r'[o] = r[o]
  PROVE  SweepOK(o)'
<1> DEFINE d == c[o].dir
<1>0. /\ c \in [Requests -> LoopType] /\ c[o] \in LoopType /\ d # NoDir
      /\ UNCHANGED <<home, dirs>>
  BY DEF TypeOK, CleanTypeOK, Look
<1>1. CASE c' = [c EXCEPT ![o].empty = TRUE]
  <2>1. /\ c'[o].from = c[o].from /\ c'[o].dir = c[o].dir /\ c'[o].bounds = c[o].bounds
        /\ c'[o].seen = c[o].seen /\ c'[o].failed = c[o].failed
    BY <1>0, <1>1 DEF LoopType
  <2>2. \A x : Swept(o, x) = Swept(o, x)' /\ OnWay(o, x) = OnWay(o, x)'
    BY <1>0, <2>1 DEF Swept, OnWay, Entries
  <2> QED
    BY <1>0, <2>1, <2>2 DEF SweepOK, Wanted
<1>2. ASSUME NEW failed \in SUBSET Dirs, Break(o, failed)
      PROVE  /\ c'[o].from = c[o].from /\ c'[o].dir = NoDir
             /\ c'[o].bounds = c[o].bounds /\ c'[o].seen = c[o].seen
             /\ c'[o].failed = c[o].failed \cup failed
  BY <1>0, <1>2 DEF LoopType, Break
<1>3. CASE Break(o, {d})
  <2>1. d \in Dirs
    BY <1>0 DEF LoopOK
  <2> QED
    BY <1>2, <1>3, <2>1 DEF SweepOK
<1>4. CASE Break(o, {}) /\ (Passed(o, d) \/ (d \in dirs /\ Entries(d) # {}))
  <2>1. SUFFICES ASSUME r[o].pc = "clean", r[o].calm, c[o].failed = {}
                 PROVE  SweepOK(o)'
    BY <1>2, <1>4 DEF SweepOK
  <2>2. \A x : OnWay(o, x) => Swept(o, x)
    BY <1>0, <1>4, <2>1, SweepStops
  <2>3. \A x : Swept(o, x) = Swept(o, x)'
    BY <1>0, <1>2, <1>4 DEF Swept, Entries
  <2> QED
    BY <1>0, <1>2, <1>4, <2>1, <2>2, <2>3 DEF SweepOK, Wanted
<1> QED
  BY <1>1, <1>3, <1>4 DEF Look

LEMMA SweepRemoves ==
  ASSUME TypeOK, NEW o \in Requests, LoopOK(o), SweepOK(o), RemoveDir(o), r'[o] = r[o]
  PROVE  SweepOK(o)'
<1> DEFINE d == c[o].dir  u == Up[d]
<1>0. /\ c \in [Requests -> LoopType] /\ c[o] \in LoopType /\ d \in Dirs
      /\ dirs \subseteq Dirs /\ UNCHANGED home /\ u \in Dirs
  BY AboveDir DEF TypeOK, CleanTypeOK, RemoveDir
<1>1. CASE Break(o, {d})
  <2>1. c'[o].failed = c[o].failed \cup {d}
    BY <1>0, <1>1 DEF LoopType, Break
  <2> QED
    BY <2>1 DEF SweepOK
<1>2. CASE /\ d \in dirs /\ dirs' = dirs \ {d}
           /\ c' = [c EXCEPT ![o].dir = IF Topmost(d) THEN NoDir ELSE Up[d],
                             ![o].empty = FALSE, ![o].seen = @ \cup {d}]
  <2>1. /\ c'[o].from = c[o].from /\ c'[o].dir = IF Topmost(d) THEN NoDir ELSE u
        /\ c'[o].bounds = c[o].bounds /\ c'[o].seen = c[o].seen \cup {d}
        /\ c'[o].failed = c[o].failed
    BY <1>0, <1>2 DEF LoopType
  <2>2. NoDir \notin Dirs /\ Paths \cap Dirs = {}
    BY TreeAssumption
  <2>3. ASSUME NEW x, x \in dirs', x # u, Entries(x) # {}
        PROVE  Entries(x)' # {}
    <3>1. d \notin Entries(x)
      BY <1>0, <2>2, <2>3 DEF Entries
    <3>2. Entries(x) \subseteq Entries(x)'
      BY <1>0, <1>2, <3>1 DEF Entries
    <3> QED
      BY <2>3, <3>2
  <2>4. ~Topmost(d) => u \in Above[d] /\ Above[d] = {u} \cup Above[u]
    BY <1>0, AboveDir
  <2>5. Topmost(d) => u \notin dirs' /\ Above[d] = {}
    BY <1>0, <1>2, AboveDir DEF Topmost
  <2>6. \A x \in Above[d] : OnWay(o, x)' /\ c'[o].dir \in Above[d]
    BY <1>0, <2>1, <2>2, <2>4, <2>5 DEF OnWay
  <2>7. ASSUME NEW x, Swept(o, x)
        PROVE  Swept(o, x)' \/ (x \in Above[d] /\ x = c'[o].dir)
    <3>1. SUFFICES ASSUME x \in dirs', Within(x, c[o].bounds)
                   PROVE  Entries(x)' # {} \/ (x \in Above[d] /\ x = c'[o].dir)
      BY <2>1 DEF Swept
    <3>2. Entries(x) # {}
      BY <1>2, <2>7, <3>1 DEF Swept
    <3>3. CASE x # u
      BY <2>3, <3>1, <3>2, <3>3
    <3>4. CASE x = u
      BY <2>1, <2>4, <2>5, <3>1, <3>4
    <3> QED
      BY <3>3, <3>4
  <2>8. ASSUME NEW x, OnWay(o, x)
        PROVE  Swept(o, x)' \/ x \in Above[d]
    BY <1>2, <2>8 DEF OnWay, Swept
  <2>9. SUFFICES ASSUME r[o].pc = "clean", r[o].calm, c[o].failed = {}
                 PROVE  SweepOK(o)'
    BY <2>1 DEF SweepOK
  <2>10. ASSUME NEW p \in Wanted(o) \ c[o].from, NEW x \in Above[p]
         PROVE  Swept(o, x)' \/ OnWay(o, x)'
    <3>1. Swept(o, x) \/ OnWay(o, x)
      BY <2>9, <2>10 DEF SweepOK
    <3> QED
      BY <2>6, <2>7, <2>8, <3>1
  <2>11. ASSUME NEW e \in c[o].seen \cup {d}, NEW x \in Above[e]
         PROVE  Swept(o, x)' \/ (OnWay(o, x)' /\ c'[o].dir \in Above[e])
    <3>1. CASE e = d
      BY <2>6, <2>11, <3>1
    <3>2. CASE e \in c[o].seen /\ Swept(o, x)
      BY <2>6, <2>7, <2>11, <3>2
    <3>3. CASE e \in c[o].seen /\ OnWay(o, x) /\ d \in Above[e]
      <4>1. Above[d] \subseteq Above[e]
        BY <1>0, <3>3, AboveAbove DEF LoopType
      <4> QED
        BY <2>6, <2>8, <3>3, <4>1
    <3> QED
      BY <2>9, <2>11, <3>1, <3>2, <3>3 DEF SweepOK
  <2>12. (c[o].seen \cup {d}) \cap dirs' = {}
    BY <1>2, <2>9 DEF SweepOK
  <2> QED
    BY <2>1, <2>10, <2>11, <2>12 DEF SweepOK, Wanted
<1> QED
  BY <1>1, <1>2 DEF RemoveDir

SweepsOK == \A q \in Requests : SweepOK(q)

\* README.md, "Clean Empty Dirs": an undisturbed cleanup without errors leaves no empty
\* directory above a listed path and within the bounds, for any tree, any list in any
\* order and any bounds but "." and "/".
THEOREM CleanCompleteHolds ==
  ASSUME Bare = {}
  PROVE  Spec => []CleanComplete
<1>1. Init => SweepsOK
  BY DEF Init, SweepsOK, SweepOK, IdleRequest
<1>2. TypeOK /\ Closed /\ LoopsOK /\ SweepsOK /\ [Next]_vars => SweepsOK'
  <2> SUFFICES ASSUME TypeOK, Closed, LoopsOK, SweepsOK, [Next]_vars, NEW o \in Requests
               PROVE  SweepOK(o)'
    BY DEF SweepsOK
  <2>0. LoopOK(o) /\ SweepOK(o)
    BY DEF LoopsOK, SweepsOK
  <2>1. CASE Cleaning(o)
    <3>1. r'[o] = r[o] /\ CleanStep(o)
      BY <2>1, OwnLocals DEF Cleaning
    <3> QED
      BY <2>0, <3>1, SweepTakes, SweepLooks, SweepRemoves DEF CleanStep
  <2>E. CASE CleaningFails(o)
    <3>1. c'[o].failed = c[o].failed \cup {c[o].dir}
      BY <2>E DEF CleaningFails, CleanError, Break, TypeOK, CleanTypeOK, LoopType
    <3> QED
      BY <3>1 DEF SweepOK
  <2>2. CASE EndDelete(o)
    BY <2>2, CleanupBegins DEF SweepOK, Wanted
  <2>3. CASE EndCleaning(o)
    <3>1. r'[o] = IdleRequest
      BY <2>3, OwnLocals DEF EndCleaning
    <3> QED
      BY <3>1 DEF SweepOK, IdleRequest
  <2>4. CASE /\ Own(o) /\ ~Cleaning(o) /\ ~CleaningFails(o)
             /\ ~EndDelete(o) /\ ~EndCleaning(o)
    BY <2>4, OwnPc DEF SweepOK
  <2>5. CASE Foreign(o) \/ UNCHANGED vars
    <3>1. CASE c'[o] = c[o] /\ r'[o] = r[o] /\ UNCHANGED <<home, dirs>>
      BY <2>0, <3>1 DEF SweepOK, Wanted, Swept, OnWay, Entries
    <3>2. CASE SameButCalm(o)
      BY <3>2 DEF SweepOK, SameButCalm
    <3> QED
      BY <2>5, <3>1, <3>2, Undisturbed, Asleep
  <2> QED
    BY <2>1, <2>E, <2>2, <2>3, <2>4, <2>5, OwnOrForeign
<1>3. SweepsOK => CleanComplete
  <2> SUFFICES ASSUME NEW q \in Requests, SweepOK(q), r[q].pc = "clean", Cleaned(q),
                      r[q].calm, c[q].failed = {},
                      NEW k \in DOMAIN r[q].asked, NEW d \in Above[r[q].asked[k]] \cap dirs,
                      d \in c[q].bounds \/ Above[d] \cap c[q].bounds # {}
               PROVE  Entries(d) # {}
    BY DEF SweepsOK, CleanComplete
  <2>1. r[q].asked[k] \in Wanted(q) \ c[q].from /\ c[q].dir = NoDir
    BY DEF Wanted, Cleaned
  <2>2. Swept(q, d)
    BY <2>1 DEF SweepOK, OnWay
  <2> QED
    BY <2>2 DEF Swept, Within
<1> QED
  BY <1>1, <1>2, <1>3, TypeCorrect, ClosedHolds, LoopsHold, PTL DEF Spec

-----------------------------------------------------------------------------
\* The completeness of the restore.

\* The file of mapping m is at its place, or its backup is not there.
Settled(m) == home[m.source] # Gone \/ backups[m.backup].content = Gone

\* What is left of the manifest is plan, and the mappings before it are settled.
LeftOver(plan) ==
    /\ Len(plan) <= Len(manifest)
    /\ \A k \in 1..Len(plan) : plan[k] = manifest[Len(manifest) - Len(plan) + k]
    /\ \A k \in 1..Len(manifest) - Len(plan) : Settled(manifest[k])

RestoreOK(q) ==
    r[q].calm /\ r[q].pc \in {"next", "move"} /\ manifest # Absent =>
        /\ LeftOver(r[q].plan)
        /\ r[q].pc = "move" => Up[Head(r[q].plan).source] \in dirs

\* The plan of a request, and its first mapping.
LEMMA PlanType ==
  ASSUME TypeOK, NEW o \in Requests
  PROVE  /\ r[o].plan \in Seq(Mapping) /\ Len(r[o].plan) \in Nat
         /\ r[o].plan # <<>> =>
               /\ Len(r[o].plan) > 0 /\ Head(r[o].plan) = r[o].plan[1]
               /\ Head(r[o].plan) \in Mapping /\ Head(r[o].plan).source \in Paths
               /\ Head(r[o].plan).backup \in DOMAIN backups
               /\ Tail(r[o].plan) \in Seq(Mapping)
               /\ Len(Tail(r[o].plan)) = Len(r[o].plan) - 1
               /\ \A k \in 1..Len(r[o].plan) - 1 : Tail(r[o].plan)[k] = r[o].plan[k + 1]
<1> DEFINE s == r[o].plan
<1>1. s \in Seq(Mapping) /\ \A k \in DOMAIN s : s[k].backup \in DOMAIN backups
  BY DEF TypeOK, RequestType
<1> HIDE DEF s
<1>2. Len(s) \in Nat /\ DOMAIN s = 1..Len(s)
  BY <1>1, LenProperties
<1>3. ASSUME s # <<>>
      PROVE  /\ Len(s) > 0 /\ Head(s) = s[1] /\ Head(s) \in Mapping
             /\ Head(s).backup \in DOMAIN backups /\ Head(s).source \in Paths
             /\ Tail(s) \in Seq(Mapping) /\ Len(Tail(s)) = Len(s) - 1
             /\ \A k \in 1..Len(s) - 1 : Tail(s)[k] = s[k + 1]
  <2>1. Len(s) > 0
    BY <1>1, <1>2, <1>3, EmptySeq
  <2>2. Head(s) = s[1] /\ 1 \in DOMAIN s
    BY <1>2, <2>1
  <2>3. Head(s) \in Mapping /\ Tail(s) \in Seq(Mapping) /\ Len(Tail(s)) = Len(s) - 1
    BY <1>1, <1>3, HeadTailProperties
  <2>4. \A k \in 1..Len(Tail(s)) : Tail(s)[k] = s[k + 1]
    BY <1>1, <1>3, HeadTailProperties
  <2>5. Head(s).source \in Paths
    BY <2>3 DEF Mapping
  <2> QED
    BY <1>1, <2>1, <2>2, <2>3, <2>4, <2>5
<1> QED
  BY <1>1, <1>2, <1>3 DEF s

\* The first mapping of the plan is settled and leaves it.
LEMMA FirstSettled ==
  ASSUME TypeOK, NEW o \in Requests, r[o].plan # <<>>, manifest # Absent,
         LeftOver(r[o].plan), UNCHANGED manifest,
         home'[Head(r[o].plan).source] # Gone \/ backups'[Head(r[o].plan).backup].content = Gone,
         \A m : Settled(m) => Settled(m)',
         r'[o].plan = Tail(r[o].plan)
  PROVE  LeftOver(r[o].plan)'
<1> DEFINE s == r[o].plan  t == r'[o].plan  M == manifest
<1>1. /\ Len(s) \in Nat /\ Len(s) > 0 /\ Head(s) = s[1] /\ Len(t) = Len(s) - 1
      /\ \A k \in 1..Len(s) - 1 : t[k] = s[k + 1]
  BY PlanType
<1>2. Len(M) \in Nat
  BY LenProperties DEF TypeOK
<1>3. /\ Len(s) <= Len(M)
      /\ \A k \in 1..Len(s) : s[k] = M[Len(M) - Len(s) + k]
      /\ \A k \in 1..Len(M) - Len(s) : Settled(M[k])
  BY DEF LeftOver
<1> HIDE DEF s, t, M
<1>4. Len(t) <= Len(M)
  BY <1>1, <1>2, <1>3
<1>5. ASSUME NEW k \in 1..Len(t)
      PROVE  t[k] = M[Len(M) - Len(t) + k]
  <2>1. t[k] = s[k + 1] /\ k + 1 \in 1..Len(s)
    BY <1>1, <1>5
  <2>2. Len(M) - Len(s) + (k + 1) = Len(M) - Len(t) + k
    BY <1>1, <1>2, <1>5
  <2> QED
    BY <1>3, <2>1, <2>2
<1>6. M[Len(M) - Len(s) + 1] = Head(s)
  BY <1>1, <1>2, <1>3
<1>7. ASSUME NEW k \in 1..Len(M) - Len(t)
      PROVE  Settled(M[k])'
  <2>0. k \in 1..Len(M) - Len(s) \/ k = Len(M) - Len(s) + 1
    <3>1. Len(M) - Len(t) = Len(M) - Len(s) + 1 /\ Len(M) - Len(s) \in Nat
      BY <1>1, <1>2, <1>3
    <3> DEFINE n == Len(M) - Len(s)
    <3>2. k \in 1..n + 1 /\ n \in Nat
      BY <3>1
    <3> HIDE DEF n
    <3>3. k \in 1..n \/ k = n + 1
      BY <3>2
    <3> QED
      BY <3>3 DEF n
  <2>1. CASE k \in 1..Len(M) - Len(s)
    BY <1>3, <2>1 DEF M
  <2>2. CASE k = Len(M) - Len(s) + 1
    <3>1. manifest[k] = Head(r[o].plan) /\ manifest'[k] = manifest[k]
      BY <1>6, <2>2 DEF s, M
    <3>2. \/ home'[manifest'[k].source] # Gone
          \/ backups'[manifest'[k].backup].content = Gone
      BY <3>1
    <3> QED
      BY <3>2 DEF Settled, M
  <2> QED
    BY <2>0, <2>1, <2>2
<1> QED
  BY <1>4, <1>5, <1>7 DEF LeftOver, t, M

\* Backups are only used up and files only come while the steps of a restore are made.
LEMMA SettledStays ==
  ASSUME TypeOK, NEW o \in Requests,
         Restore(o) \/ Restoring(o)
  PROVE  \A m : Settled(m) => Settled(m)'
<1> USE DEF tree, page, pageVars, scan, store, bounds, history
<1>1. CASE UNCHANGED <<home, backups>>
  BY <1>1 DEF Settled
<1>2. CASE MoveBack(o)
  <2> DEFINE p == Head(r[o].plan).source  n == Head(r[o].plan).backup
  <2>1. /\ home' = [home EXCEPT ![p] = backups[n].content] /\ backups[n].content # Gone
        /\ backups' = [backups EXCEPT ![n].content = Gone] /\ r[o].plan # <<>>
    BY <1>2 DEF MoveBack, TypeOK
  <2>2. n \in DOMAIN backups /\ backups[n] \in BackupFile
    BY <2>1, PlanType, ElementOfSeq, LenProperties DEF TypeOK
  <2>3. \A x : backups[x].content = Gone => backups'[x].content = Gone
    BY <2>1, <2>2 DEF BackupFile
  <2>4. \A x : home[x] # Gone => home'[x] # Gone
    BY <2>1
  <2> QED
    BY <2>3, <2>4 DEF Settled
<1> QED
  BY <1>1, <1>2 DEF Restore, Restoring, SkipMapping, MakeParents, MoveBackFails, EndRestore

\* The own steps of a restore.
LEMMA RestoreGoesOn ==
  ASSUME TypeOK, TypeOK', NEW o \in Requests, RestoreOK(o), Restore(o) \/ Restoring(o)
  PROVE  RestoreOK(o)'
<1> USE DEF tree, page, pageVars, scan, store, bounds, history
<1>0. /\ r[o] \in RequestType /\ UNCHANGED manifest
      /\ \A m : Settled(m) => Settled(m)'
  BY SettledStays
     DEF TypeOK, Restore, Restoring, SkipMapping, MakeParents, MoveBack, MoveBackFails,
         EndRestore
<1>1. ASSUME r'[o] = Rest(o) \/ r'[o] = [Rest(o) EXCEPT !.calm = FALSE]
      PROVE  /\ r'[o].pc = "next" /\ r'[o].plan = Tail(r[o].plan)
             /\ r'[o].calm => r[o].calm
  BY <1>0, <1>1 DEF Rest, RequestType
<1>2. ASSUME r'[o] = Rest(o) \/ r'[o] = [Rest(o) EXCEPT !.calm = FALSE],
             r[o].plan # <<>>, r[o].pc \in {"next", "move"},
             r'[o].calm =>
                home'[Head(r[o].plan).source] # Gone
                \/ backups'[Head(r[o].plan).backup].content = Gone
      PROVE  RestoreOK(o)'
  <2>1. SUFFICES ASSUME r'[o].calm, manifest # Absent
                 PROVE  LeftOver(r[o].plan)'
    BY <1>0, <1>1, <1>2 DEF RestoreOK
  <2>2. LeftOver(r[o].plan)
    BY <1>1, <1>2, <2>1 DEF RestoreOK
  <2> QED
    BY <1>0, <1>1, <1>2, <2>1, <2>2, FirstSettled
<1>3. CASE Restore(o)
  <2> DEFINE l == [IdleRequest EXCEPT !.pc = "next", !.plan = manifest, !.calm = TRUE]
  <2>1. r'[o] = l
    BY <1>3, OwnLocals DEF Restore
  <2>2. l.pc = "next" /\ l.plan = manifest
    BY DEF IdleRequest
  <2>3. manifest \in Seq(Mapping) /\ Len(manifest) \in Nat
    BY <1>3, LenProperties DEF Restore, TypeOK
  <2>4. LeftOver(r[o].plan)'
    BY <1>0, <2>1, <2>2, <2>3 DEF LeftOver
  <2> QED
    BY <2>1, <2>2, <2>4 DEF RestoreOK
<1>4. CASE SkipMapping(o)
  <2>1. /\ r'[o] = Rest(o) /\ r[o].plan # <<>> /\ r[o].pc = "next"
        /\ home'[Head(r[o].plan).source] # Gone
    BY <1>4, OwnLocals DEF SkipMapping
  <2> QED
    BY <1>2, <2>1
<1>5. CASE MakeParents(o)
  <2> DEFINE p == Head(r[o].plan).source
  <2>1. /\ r'[o] = [r[o] EXCEPT !.pc = "move"] /\ dirs' = dirs \cup Above[p]
        /\ r[o].plan # <<>> /\ r[o].pc = "next" /\ UNCHANGED <<home, backups>>
    BY <1>5, OwnLocals DEF MakeParents, Parents
  <2>2. r'[o].plan = r[o].plan /\ r'[o].calm = r[o].calm /\ r'[o].pc = "move"
    BY <1>0, <2>1 DEF RequestType
  <2>3. p \in Paths
    BY <2>1, PlanType
  <2>4. Up[p] \in dirs'
    BY <2>1, <2>3, AboveFile
  <2> QED
    BY <1>0, <2>1, <2>2, <2>4 DEF RestoreOK, LeftOver, Settled
<1>6. CASE MoveBack(o)
  <2> DEFINE m == Head(r[o].plan)
  <2>1. /\ r'[o] = Rest(o) /\ r[o].pc = "move" /\ r[o].plan # <<>>
        /\ home' = [home EXCEPT ![m.source] = backups[m.backup].content]
        /\ backups[m.backup].content # Gone
    BY <1>6, OwnLocals DEF MoveBack, TypeOK
  <2>2. m.source \in Paths
    BY <2>1, PlanType
  <2>3. home'[m.source] # Gone
    BY <2>1, <2>2 DEF TypeOK, CleanTypeOK
  <2> QED
    BY <1>2, <2>1, <2>3
<1>7. CASE MoveBackFails(o)
  <2> DEFINE m == Head(r[o].plan)
  <2>1. r[o].pc = "move" /\ r[o].plan # <<>> /\ UNCHANGED <<dirs, home, backups>>
    BY <1>7 DEF MoveBackFails, TypeOK
  <2>2. CASE Up[m.source] \in dirs /\ backups[m.backup].content # Gone
    <3>1. r'[o] = [Rest(o) EXCEPT !.calm = FALSE]
      BY <1>7, <2>2, OwnLocals DEF MoveBackFails
    <3>2. ~r'[o].calm
      BY <1>0, <3>1 DEF Rest, RequestType
    <3> QED
      BY <3>2 DEF RestoreOK
  <2>3. CASE ~(Up[m.source] \in dirs /\ backups[m.backup].content # Gone)
    <3>1. r'[o] = Rest(o)
      BY <1>7, <2>3, OwnLocals DEF MoveBackFails
    <3>2. CASE r'[o].calm /\ manifest # Absent
      <4>1. r[o].calm
        BY <1>1, <3>1, <3>2
      <4>2. backups'[m.backup].content = Gone
        BY <2>1, <2>3, <3>2, <4>1 DEF RestoreOK
      <4> QED
        BY <1>2, <2>1, <3>1, <4>2
    <3> QED
      BY <1>0, <3>2 DEF RestoreOK
  <2> QED
    BY <2>2, <2>3
<1>8. CASE EndRestore(o)
  <2>1. r'[o] = IdleRequest
    BY <1>8, OwnLocals DEF EndRestore
  <2> QED
    BY <2>1 DEF RestoreOK, IdleRequest
<1> QED
  BY <1>3, <1>4, <1>5, <1>6, <1>7, <1>8 DEF Restoring

\* The steps of a delete lead to no restore.
LEMMA NoRestore ==
  ASSUME TypeOK, NEW o \in Requests,
         \/ \E mode \in Modes, clean \in BOOLEAN : Confirm(o, mode, clean)
         \/ Delete(o)
  PROVE  r'[o].pc \notin {"next", "move"}
<1>1. CASE \/ \E mode \in Modes, clean \in BOOLEAN : Confirm(o, mode, clean)
           \/ Listing(o) \/ Refuse(o) \/ Accept(o)
           \/ \E p \in Paths : DeleteFile(o, p) \/ DeleteByCopy(o, p) \/ DeleteFails(o, p)
  BY <1>1, DeletePc
<1>2. CASE EndCleaning(o)
  <2>1. r'[o] = IdleRequest
    BY <1>2, OwnLocals DEF EndCleaning
  <2> QED
    BY <2>1 DEF IdleRequest
<1>3. CASE EndDelete(o)
  BY <1>3, CleanupBegins
<1>4. CASE Cleaning(o) \/ CleaningFails(o)
  <2>1. r'[o] = r[o] /\ r[o].pc = "clean"
    BY <1>4, OwnLocals DEF Cleaning, CleaningFails
  <2> QED
    BY <2>1
<1> QED
  BY <1>1, <1>2, <1>3, <1>4 DEF Delete

\* README.md, "Restore Last": an undisturbed restore without errors leaves no file in the
\* backup whose path is free, however long the manifest and whatever directories are gone.
THEOREM RestoreCompleteHolds == Spec => []RestoreComplete
<1> DEFINE Inv == \A q \in Requests : RestoreOK(q)
<1>1. Init => Inv
  BY DEF Init, RestoreOK, IdleRequest
<1>2. TypeOK /\ TypeOK' /\ Inv /\ [Next]_vars => Inv'
  <2> SUFFICES ASSUME TypeOK, TypeOK', [Next]_vars, NEW o \in Requests, RestoreOK(o)
               PROVE  RestoreOK(o)'
    OBVIOUS
  <2>1. CASE Restore(o) \/ Restoring(o)
    BY <2>1, RestoreGoesOn
  <2>2. CASE \/ \E mode \in Modes, clean \in BOOLEAN : Confirm(o, mode, clean)
             \/ Delete(o)
    BY <2>2, NoRestore DEF RestoreOK
  <2>3. CASE Foreign(o) \/ UNCHANGED vars
    <3>1. CASE r'[o] = r[o] /\ UNCHANGED <<home, dirs, manifest, backups>>
      BY <3>1 DEF RestoreOK, LeftOver, Settled
    <3>2. CASE SameButCalm(o)
      BY <3>2 DEF RestoreOK, SameButCalm
    <3> QED
      BY <2>3, <3>1, <3>2, Undisturbed, Asleep
  <2> QED
    BY <2>1, <2>2, <2>3, OwnOrForeign DEF Own, Request
<1>3. TypeOK /\ Inv => RestoreComplete
  <2> SUFFICES ASSUME TypeOK, NEW q \in Requests, RestoreOK(q),
                      r[q].pc = "next", r[q].plan = <<>>, r[q].calm, manifest # Absent,
                      NEW k \in DOMAIN manifest
               PROVE  Settled(manifest[k])
    BY DEF RestoreComplete, Settled
  <2>1. manifest \in Seq(Mapping) /\ k \in 1..Len(manifest) /\ Len(manifest) \in Nat
    BY LenProperties DEF TypeOK
  <2>2. Len(r[q].plan) = 0
    BY EmptySeq
  <2>3. LeftOver(r[q].plan)
    BY DEF RestoreOK
  <2> QED
    BY <2>1, <2>2, <2>3 DEF LeftOver
<1> QED
  BY <1>1, <1>2, <1>3, TypeCorrect, PTL DEF Spec
=============================================================================
