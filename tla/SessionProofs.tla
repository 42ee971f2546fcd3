---------------------------- MODULE SessionProofs ----------------------------
(***************************************************************************)
(* Theorems about module Session, and with it Cleanup and Page, for every  *)
(* value of the constants: any tree of files, any number of requests and   *)
(* scans, any rules that choose as Apply does.                             *)
(***************************************************************************)
EXTENDS Session, SequenceTheorems, FiniteSetTheorems, TLAPS

-----------------------------------------------------------------------------
\* The local variables of requests.

\* What TypeOK says of one request, when backups has the domain B.
RequestOK(l, B) ==
    /\ l \in RequestType
    /\ Len(l.moved) <= Len(l.asked)
    /\ \A k \in DOMAIN l.moved : l.moved[k] \in B
    /\ \A k \in DOMAIN l.plan : l.plan[k].backup \in B
    /\ l.pc = "move" => l.plan # <<>>
    /\ l.pc = "check" => l.mode # "permanent"
    /\ l.pc = "list" => l.at # Gone

RequestsOK == /\ r \in [Requests -> RequestType]
              /\ \A q \in Requests : RequestOK(r[q], DOMAIN backups)

\* The part of TypeOK about requests.
LEMMA RequestsTyped == TypeOK => RequestsOK
BY DEF TypeOK, RequestsOK, RequestOK

LEMMA CalmType ==
  ASSUME NEW l \in RequestType
  PROVE  [l EXCEPT !.calm = FALSE] \in RequestType
BY DEF RequestType

\* Step sets the local variables of one request and calms no other.
LEMMA StepEffect ==
  ASSUME r \in [Requests -> RequestType], NEW q \in Requests, NEW l \in RequestType,
         Step(q, l)
  PROVE  /\ r' \in [Requests -> RequestType]
         /\ r'[q] = l
         /\ \A x \in Requests \ {q} : r'[x] = [r[x] EXCEPT !.calm = FALSE]
BY CalmType DEF Step

\* Quiet sets the local variables of one request.
LEMMA QuietEffect ==
  ASSUME r \in [Requests -> RequestType], NEW q \in Requests, NEW l \in RequestType,
         Quiet(q, l)
  PROVE  /\ r' \in [Requests -> RequestType]
         /\ r'[q] = l
         /\ \A x \in Requests \ {q} : r'[x] = r[x]
BY DEF Quiet

\* More backups do no harm to a request.
LEMMA RequestStays ==
  ASSUME NEW l, NEW B, NEW B2, RequestOK(l, B), B \subseteq B2
  PROVE  RequestOK(l, B2) /\ RequestOK([l EXCEPT !.calm = FALSE], B2)
BY DEF RequestOK, RequestType

\* A step of one request keeps the types of all.
LEMMA RequestsKept ==
  ASSUME RequestsOK, NEW q \in Requests, NEW l,
         RequestOK(l, DOMAIN backups'), Step(q, l) \/ Quiet(q, l),
         DOMAIN backups \subseteq DOMAIN backups'
  PROVE  RequestsOK'
<1>1. l \in RequestType
  BY DEF RequestOK
<1>2. /\ r' \in [Requests -> RequestType] /\ r'[q] = l
      /\ \A x \in Requests \ {q} : r'[x] = [r[x] EXCEPT !.calm = FALSE] \/ r'[x] = r[x]
  BY <1>1, StepEffect, QuietEffect DEF RequestsOK
<1>3. ASSUME NEW x \in Requests
      PROVE  RequestOK(r'[x], DOMAIN backups')
  BY <1>2, RequestStays DEF RequestsOK
<1> QED
  BY <1>2, <1>3 DEF RequestsOK

\* A request before it is made and after its reply.
LEMMA IdleType == \A B : RequestOK(IdleRequest, B)
<1> IdleRequest \in RequestType
  BY PageAssumption, EmptySeq DEF IdleRequest, RequestType
<1> QED
  BY DEF RequestOK, IdleRequest

\* The loop of a cleanup that has not begun.
LEMMA IdleLoopType == IdleLoop \in LoopType
BY DEF IdleLoop, LoopType

-----------------------------------------------------------------------------
\* Type correctness.

\* TypeOK without its part about requests.
OtherTypesOK ==
    /\ CleanTypeOK /\ PageTypeOK
    /\ opts \subseteq Dirs /\ running \in BOOLEAN /\ toVisit \subseteq Paths
    /\ found \in [Paths -> Contents \cup {Gone}]
    /\ backups \in Seq(BackupFile) /\ manifest \in Seq(Mapping) \cup {Absent}
    /\ manifest # Absent => \A k \in DOMAIN manifest : manifest[k].backup \in DOMAIN backups
    /\ targets \subseteq {"backup", "trash"} /\ free \in Nat
    /\ scans \in Nat /\ calls \in Nat /\ trouble \in Nat
    /\ applied \subseteq RuleSets /\ touched \subseteq Contents \cup {Gone}
    /\ mixed \subseteq Contents

LEMMA TypesSplit == TypeOK => OtherTypesOK /\ RequestsOK
BY DEF TypeOK, OtherTypesOK, RequestsOK, RequestOK

LEMMA TypesJoined ==
  ASSUME OtherTypesOK', RequestsOK'
  PROVE  TypeOK'
BY DEF TypeOK, OtherTypesOK, RequestsOK, RequestOK

\* Steps that leave a part alone.
LEMMA PageRest ==
  ASSUME PageTypeOK, UNCHANGED page
  PROVE  PageTypeOK'
BY DEF PageTypeOK, page, pageVars

LEMMA TreeRest ==
  ASSUME CleanTypeOK, UNCHANGED tree
  PROVE  CleanTypeOK'
BY DEF CleanTypeOK, tree

LEMMA RequestsRest ==
  ASSUME RequestsOK, UNCHANGED <<r, backups>>
  PROVE  RequestsOK'
BY DEF RequestsOK

\* A sequence is one of any set that has its elements.
LEMMA SeqRestricted ==
  ASSUME NEW S, NEW R, NEW s \in Seq(S), \A k \in 1..Len(s) : s[k] \in R
  PROVE  s \in Seq(R)
<1>1. Len(s) \in Nat /\ s \in [1..Len(s) -> S]
  BY LenProperties
<1>2. s \in [1..Len(s) -> R]
  BY <1>1
<1> QED
  BY <1>1, <1>2, SeqDef

\* Removing one element of a sequence, as Deliver and Lose do.
LEMMA OneRemoved ==
  ASSUME NEW S, NEW s \in Seq(S), NEW i \in DOMAIN s,
         NEW t, t = SubSeq(s, 1, i - 1) \o SubSeq(s, i + 1, Len(s))
  PROVE  t \in Seq(S)
<1> DEFINE n == Len(s)  u == SubSeq(s, 1, i - 1)  v == SubSeq(s, i + 1, n)
<1>1. n \in Nat /\ DOMAIN s = 1..n /\ i \in 1..n
  BY LenProperties
<1>2. u \in Seq(S) /\ v \in Seq(S)
  <2>1. 1 \in 1..n+1 /\ i - 1 \in 0..n /\ i + 1 \in 1..n+1 /\ n \in 0..n
    BY <1>1
  <2>2. \A k \in 1..n : s[k] \in S
    BY ElementOfSeq
  <2> QED
    BY <1>1, <2>1, <2>2, SubSeqProperties
<1> QED
  BY <1>2, ConcatProperties

\* The page keeps the types of its variables.
LEMMA PageType ==
  ASSUME PageTypeOK, PageNext
  PROVE  PageTypeOK'
<1>0. ASSUME NEW rs \in RuleSets, Posted(rs)
      PROVE  posts' \in Seq(RuleSets) /\ rivals' \subseteq RuleSets
  <2>1. \A i \in DOMAIN posts : posts[i] \in RuleSets
    BY ElementOfSeq, LenProperties DEF PageTypeOK
  <2> QED
    BY <1>0, <2>1, AppendProperties DEF PageTypeOK, Posted
<1>1. ASSUME NEW rs \in RuleSets, ChangeAtOnce(rs)
      PROVE  PageTypeOK'
  BY <1>0, <1>1 DEF PageTypeOK, ChangeAtOnce, Change, Another, UpdateRules
<1>2. ASSUME NEW rs \in RuleSets, ChangeDebounced(rs)
      PROVE  PageTypeOK'
  BY <1>2 DEF PageTypeOK, ChangeDebounced, Change, Another
<1>3. CASE TimerFires
  <2>1. form \in RuleSets /\ Posted(form)
    BY <1>3 DEF PageTypeOK, TimerFires, UpdateRules
  <2> QED
    BY <1>0, <1>3, <2>1 DEF PageTypeOK, TimerFires
<1>4. CASE Reload
  <2>1. form' = Shown /\ timer' \in BOOLEAN /\ rivals' \subseteq RuleSets
    BY <1>4 DEF Reload
  <2>2. posts' = posts /\ ruleSet' = ruleSet /\ changes' \in Nat
    BY <1>4 DEF PageTypeOK, Reload, Another
  <2> QED
    BY <2>1, <2>2, PageAssumption DEF PageTypeOK
<1>5. ASSUME NEW i \in DOMAIN posts, Deliver(i) \/ Lose(i)
      PROVE  PageTypeOK'
  <2>1. posts' \in Seq(RuleSets)
    BY <1>5, OneRemoved DEF PageTypeOK, Deliver, Lose, Without
  <2>2. posts[i] \in RuleSets
    BY ElementOfSeq, LenProperties DEF PageTypeOK
  <2> QED
    BY <1>5, <2>1, <2>2 DEF PageTypeOK, Deliver, Lose
<1> QED
  BY <1>1, <1>2, <1>3, <1>4, <1>5 DEF PageNext

\* So does the loop of CleanEmptyDirs.
LEMMA CleanStepType ==
  ASSUME CleanTypeOK, NEW q \in Requests, CleanStep(q)
  PROVE  CleanTypeOK'
<1>1. CASE TakePath(q)
  BY <1>1, TreeAssumption DEF CleanTypeOK, TakePath, LoopType
<1>2. CASE Look(q)
  <2>1. c[q] \in LoopType /\ c[q].dir \in Dirs
    BY <1>2 DEF CleanTypeOK, Look, LoopType
  <2>2. ASSUME NEW F \in SUBSET Dirs, Break(q, F)
        PROVE  c' \in [Requests -> LoopType] /\ c'[q].empty = FALSE
    BY <2>1, <2>2 DEF CleanTypeOK, Break, LoopType
  <2>3. ASSUME c' = [c EXCEPT ![q].empty = TRUE]
        PROVE  CleanTypeOK'
    BY <1>2, <2>1, <2>3 DEF CleanTypeOK, Look, LoopType
  <2>4. ASSUME Break(q, {}) \/ Break(q, {c[q].dir})
        PROVE  CleanTypeOK'
    <3>1. c' \in [Requests -> LoopType] /\ c'[q].empty = FALSE
      BY <2>1, <2>2, <2>4
    <3>2. \A x \in Requests \ {q} : c'[x] = c[x]
      BY <2>4 DEF Break, CleanTypeOK
    <3> QED
      BY <1>2, <3>1, <3>2 DEF CleanTypeOK, Look
  <2> QED
    BY <1>2, <2>3, <2>4 DEF Look
<1>3. CASE RemoveDir(q)
  <2> DEFINE d == c[q].dir
  <2>1. c[q] \in LoopType /\ d \in Dirs
    BY <1>3 DEF CleanTypeOK, RemoveDir
  <2>2. Up[d] \in Dirs
    BY <2>1, TreeAssumption
  <2>3. CASE d \in dirs \ Bare /\ Entries(d) = {}
    <3>1. c'[q] \in LoopType /\ c'[q].empty = FALSE
      BY <1>3, <2>1, <2>2, <2>3 DEF RemoveDir, CleanTypeOK, LoopType
    <3> QED
      BY <1>3, <2>3, <3>1 DEF CleanTypeOK, RemoveDir
  <2>4. CASE ~(d \in dirs \ Bare /\ Entries(d) = {})
    BY <1>3, <2>1, <2>4 DEF RemoveDir, Break, CleanTypeOK, LoopType
  <2> QED
    BY <2>3, <2>4
<1> QED
  BY <1>1, <1>2, <1>3 DEF CleanStep

\* Also when it fails.
LEMMA CleanErrorType ==
  ASSUME CleanTypeOK, NEW q \in Requests, CleanError(q)
  PROVE  CleanTypeOK'
<1>1. c[q] \in LoopType /\ c[q].dir \in Dirs
  BY DEF CleanTypeOK, CleanError, LoopType
<1>2. c' \in [Requests -> LoopType] /\ c'[q].empty = FALSE
  BY <1>1 DEF CleanTypeOK, CleanError, Break, LoopType
<1>3. \A x \in Requests \ {q} : c'[x] = c[x]
  BY DEF CleanError, Break, CleanTypeOK
<1> QED
  BY <1>2, <1>3 DEF CleanTypeOK, CleanError

\* Scans, rules and other programs.
LEMMA OutsideType ==
  ASSUME TypeOK,
         \/ \E D \in Scans : StartScan(D)
         \/ StopScan \/ Task \/ Rule
         \/ \E p \in Paths : Vanish(p) \/ \E x \in Contents : Appear(p, x)
  PROVE  TypeOK'
<1> USE TypesSplit DEF tree, page, pageVars, scan, store, bounds, history
<1>1. ASSUME NEW D \in Scans, StartScan(D)
      PROVE  TypeOK'
  <2>1. D \subseteq Dirs
    BY SessionAssumption
  <2>2. OtherTypesOK'
    BY <1>1, <2>1 DEF StartScan, OtherTypesOK, CleanTypeOK, PageTypeOK
  <2> QED
    BY <1>1, <2>2, RequestsRest, TypesJoined DEF StartScan
<1>2. CASE StopScan
  <2>0. toVisit' \subseteq Paths
    BY <1>2 DEF StopScan, OtherTypesOK
  <2>1. OtherTypesOK'
    BY <1>2, <2>0 DEF StopScan, OtherTypesOK, CleanTypeOK, PageTypeOK
  <2> QED
    BY <1>2, <2>1, RequestsRest, TypesJoined DEF StopScan
<1>3. ASSUME NEW p \in Paths, Visit(p)
      PROVE  TypeOK'
  <2>1. OtherTypesOK'
    BY <1>3 DEF Visit, OtherTypesOK, CleanTypeOK, PageTypeOK
  <2> QED
    BY <1>3, <2>1, RequestsRest, TypesJoined DEF Visit
<1>4. CASE EndScan
  <2>1. OtherTypesOK'
    BY <1>4 DEF EndScan, OtherTypesOK, CleanTypeOK, PageTypeOK
  <2> QED
    BY <1>4, <2>1, RequestsRest, TypesJoined DEF EndScan
<1>5. CASE Rule
  <2>1. OtherTypesOK'
    BY <1>5, PageType DEF Rule, OtherTypesOK, CleanTypeOK
  <2> QED
    BY <1>5, <2>1, RequestsRest, TypesJoined DEF Rule
<1>6. ASSUME r' = Disturbed, UNCHANGED backups
      PROVE  RequestsOK'
  <2>1. \A q \in Requests : r'[q] = [r[q] EXCEPT !.calm = FALSE]
    BY <1>6 DEF Disturbed
  <2>2. \A q \in Requests : RequestOK(r'[q], DOMAIN backups')
    BY <1>6, <2>1, RequestStays DEF RequestsOK
  <2>3. r' \in [Requests -> RequestType]
    BY <1>6, <2>2 DEF Disturbed, RequestOK
  <2> QED
    BY <2>2, <2>3 DEF RequestsOK
<1>7. ASSUME NEW p \in Paths, NEW x \in Contents, Appear(p, x)
      PROVE  TypeOK'
  <2>0. Above[p] \subseteq Dirs
    BY TreeAssumption
  <2>1. CleanTypeOK'
    BY <1>7, <2>0 DEF Appear, OtherTypesOK, CleanTypeOK
  <2>2. PageTypeOK'
    BY <1>7 DEF Appear, OtherTypesOK, PageTypeOK
  <2>3. OtherTypesOK'
    BY <1>7, <2>1, <2>2 DEF Appear, Trouble, OtherTypesOK
  <2> QED
    BY <1>6, <1>7, <2>3, TypesJoined DEF Appear
<1>8. ASSUME NEW p \in Paths, Vanish(p)
      PROVE  TypeOK'
  <2>1. OtherTypesOK'
    BY <1>8, SessionAssumption DEF Vanish, Trouble, OtherTypesOK, CleanTypeOK, PageTypeOK
  <2> QED
    BY <1>6, <1>8, <2>1, TypesJoined DEF Vanish
<1> QED
  BY <1>1, <1>2, <1>3, <1>4, <1>5, <1>7, <1>8 DEF Task

\* A file that was asked for, and one that was moved as well.
LEMMA AskedType ==
  ASSUME NEW q \in Requests, NEW p \in Paths, NEW B, RequestOK(r[q], B)
  PROVE  RequestOK(Asked(q, p), B) /\ Len(Asked(q, p).moved) < Len(Asked(q, p).asked)
<1> DEFINE l == r[q]
<1>1. /\ Append(l.asked, p) \in Seq(Paths)
      /\ Len(Append(l.asked, p)) = Len(l.asked) + 1
      /\ Len(l.asked) \in Nat /\ Len(l.moved) \in Nat
  BY AppendProperties, LenProperties DEF RequestOK, RequestType
<1>2. l \in RequestType
  BY DEF RequestOK
<1>3. Asked(q, p) \in RequestType
  BY <1>1, <1>2 DEF RequestType, Asked
<1>4. /\ Asked(q, p).asked = Append(l.asked, p)
      /\ Asked(q, p).moved = l.moved /\ Asked(q, p).plan = l.plan
      /\ Asked(q, p).pc = l.pc /\ Asked(q, p).mode = l.mode /\ Asked(q, p).at = l.at
  BY <1>2 DEF RequestType, Asked
<1> QED
  BY <1>1, <1>3, <1>4 DEF RequestOK

LEMMA MovedType ==
  ASSUME NEW l, NEW B, RequestOK(l, B), Len(l.moved) < Len(l.asked), NEW n \in Nat
  PROVE  RequestOK([l EXCEPT !.moved = Append(@, n)], B \cup {n})
<1> DEFINE m == Append(l.moved, n)  a == [l EXCEPT !.moved = m]
<1>1. /\ Len(l.asked) \in Nat /\ Len(l.moved) \in Nat /\ l.moved \in Seq(Nat)
  BY LenProperties DEF RequestOK, RequestType
<1>2. /\ m \in Seq(Nat) /\ Len(m) = Len(l.moved) + 1
      /\ \A k \in DOMAIN m : m[k] \in B \cup {n}
  BY <1>1, AppendProperties, LenProperties DEF RequestOK
<1>3. l \in RequestType
  BY DEF RequestOK
<1>4. a \in RequestType
  BY <1>2, <1>3 DEF RequestType
<1>5. /\ a.asked = l.asked /\ a.moved = m /\ a.plan = l.plan
      /\ a.pc = l.pc /\ a.mode = l.mode /\ a.at = l.at
  BY <1>3 DEF RequestType
<1>6. RequestOK(a, B \cup {n})
  BY <1>1, <1>2, <1>4, <1>5 DEF RequestOK
<1> QED
  BY <1>6

\* The lists of a confirm and what follows them.
LEMMA GoOnType ==
  ASSUME NEW l, NEW B, RequestOK(l, B)
  PROVE  RequestOK(GoOn(l), B)
<1> DEFINE a == [l EXCEPT !.pc = "apply", !.at = Gone, !.kept = {}]
           d == [IdleRequest EXCEPT !.pc = IF l.mode = "permanent" THEN "delete" ELSE "check",
                             !.mode = l.mode, !.clean = l.clean, !.todo = l.todo]
<1>1. l \in RequestType
  BY DEF RequestOK
<1>2. RequestOK(a, B)
  BY <1>1 DEF RequestOK, RequestType
<1>3. RequestOK(d, B)
  <2>1. IdleRequest \in RequestType
    BY IdleType DEF RequestOK
  <2>2. /\ l.mode \in {"backup", "trash", "permanent"} /\ l.clean \in BOOLEAN
        /\ l.todo \in SUBSET Paths
    BY <1>1 DEF RequestType
  <2>3. d \in RequestType
    BY <2>1, <2>2 DEF RequestType
  <2>4. /\ d.moved = <<>> /\ d.asked = <<>> /\ d.plan = <<>> /\ d.mode = l.mode
        /\ d.pc = IF l.mode = "permanent" THEN "delete" ELSE "check"
    BY DEF IdleRequest
  <2> QED
    BY <2>3, <2>4 DEF RequestOK
<1> QED
  BY <1>2, <1>3 DEF GoOn

LEMMA ListingType ==
  ASSUME TypeOK, NEW q \in Requests,
         \/ \E mode \in Modes, clean \in BOOLEAN : Confirm(q, mode, clean)
         \/ Listing(q)
  PROVE  TypeOK'
<1> USE DEF tree, page, pageVars, scan, store, bounds, history
<1>0. OtherTypesOK /\ RequestsOK /\ RequestOK(r[q], DOMAIN backups) /\ r[q] \in RequestType
  BY TypesSplit DEF RequestsOK, RequestOK
<1>1. ASSUME NEW l, RequestOK(l, DOMAIN backups), Quiet(q, l), UNCHANGED backups
      PROVE  RequestsOK'
  BY <1>0, <1>1, RequestsKept
<1>2. ASSUME NEW mode \in Modes, NEW clean \in BOOLEAN, Confirm(q, mode, clean)
      PROVE  TypeOK'
  <2> DEFINE l == [IdleRequest EXCEPT !.mode = mode, !.clean = clean, !.rs = ruleSet,
                                      !.scan = scans, !.view = Groups]
  <2>1. Groups \in [Contents -> SUBSET Paths]
    BY DEF Groups, Same
  <2>2. mode \in {"backup", "trash", "permanent"}
    BY SessionAssumption
  <2>3. ruleSet \in RuleSets /\ scans \in Nat
    BY <1>0 DEF OtherTypesOK, PageTypeOK
  <2>4. RequestOK(l, DOMAIN backups)
    <3>1. IdleRequest \in RequestType
      BY IdleType DEF RequestOK
    <3>2. l \in RequestType
      BY <2>1, <2>2, <2>3, <3>1 DEF RequestType
    <3>3. l.moved = <<>> /\ l.asked = <<>> /\ l.plan = <<>> /\ l.pc = "idle"
      BY DEF IdleRequest
    <3> QED
      BY <3>2, <3>3 DEF RequestOK
  <2>5. RequestsOK'
    BY <1>1, <1>2, <2>4, GoOnType DEF Confirm
  <2>6. /\ calls' = calls + 1 /\ applied' = applied \cup {ruleSet}
        /\ UNCHANGED <<tree, page, scan, store, scans, trouble, touched, mixed>>
    BY <1>2 DEF Confirm
  <2>7. OtherTypesOK'
    BY <1>0, <2>6 DEF OtherTypesOK, PageTypeOK, CleanTypeOK
  <2> QED
    BY <2>5, <2>7, TypesJoined
<1>3. ASSUME NEW x \in Contents, Choose(q, x)
      PROVE  TypeOK'
  <2> DEFINE K == Keep[r[q].rs][r[q].view[x]]
  <2>1. r[q].view[x] \in Group /\ r[q].rs \in RuleSets
    BY <1>0, <1>3 DEF Choose, RequestType, Group
  <2>2. K \in Paths /\ x # Gone
    BY <2>1, SessionAssumption, TreeAssumption DEF Group
  <2>3. RequestOK([r[q] EXCEPT !.pc = "list", !.at = x, !.kept = {K}], DOMAIN backups)
    BY <1>0, <2>2 DEF RequestOK, RequestType
  <2>4. RequestsOK'
    BY <1>1, <1>3, <2>3 DEF Choose
  <2>5. OtherTypesOK'
    BY <1>0, <1>3 DEF Choose, OtherTypesOK, PageTypeOK, CleanTypeOK
  <2> QED
    BY <2>4, <2>5, TypesJoined
<1>4. CASE ListDeletes(q)
  <2> DEFINE v == [r[q].view EXCEPT ![r[q].at] = {}]  t == r[q].todo \cup Listed(r[q])
             l == [r[q] EXCEPT !.todo = @ \cup Listed(r[q]), !.view = [@ EXCEPT ![r[q].at] = {}]]
  <2>1. r[q].at \in Contents
    BY <1>0, <1>4 DEF ListDeletes, RequestOK, RequestType
  <2>2. v \in [Contents -> SUBSET Paths] /\ t \subseteq Paths
    BY <1>0, <2>1 DEF RequestType, Listed
  <2>3. RequestOK([r[q] EXCEPT !.todo = t, !.view = v], DOMAIN backups)
    BY <1>0, <2>2 DEF RequestOK, RequestType
  <2>4. l = [r[q] EXCEPT !.todo = t, !.view = v]
    BY <1>0 DEF RequestType
  <2>5. RequestsOK'
    BY <1>1, <1>4, <2>3, <2>4, GoOnType DEF ListDeletes
  <2>6. OtherTypesOK'
    BY <1>0, <1>4 DEF ListDeletes, OtherTypesOK, PageTypeOK, CleanTypeOK
  <2> QED
    BY <2>5, <2>6, TypesJoined
<1>5. ASSUME NEW x \in Contents, Resort(q, x)
      PROVE  TypeOK'
  <2>1. PICK v \in SUBSET Same(x) : Quiet(q, [r[q] EXCEPT !.view = [@ EXCEPT ![x] = v]])
    BY <1>5 DEF Resort
  <2> DEFINE w == [r[q].view EXCEPT ![x] = v]
  <2>2. w \in [Contents -> SUBSET Paths]
    BY <1>0 DEF RequestType, Same
  <2>3. RequestOK([r[q] EXCEPT !.view = w], DOMAIN backups)
    BY <1>0, <2>2 DEF RequestOK, RequestType
  <2>4. [r[q] EXCEPT !.view = [@ EXCEPT ![x] = v]] = [r[q] EXCEPT !.view = w]
    BY <1>0 DEF RequestType
  <2>5. RequestsOK'
    BY <1>1, <1>5, <2>1, <2>3, <2>4 DEF Resort
  <2>6. OtherTypesOK'
    BY <1>0, <1>5 DEF Resort, OtherTypesOK, PageTypeOK, CleanTypeOK
  <2> QED
    BY <2>5, <2>6, TypesJoined
<1> QED
  BY <1>2, <1>3, <1>4, <1>5 DEF Listing

\* Copies take a whole number of blocks.
LEMMA BlocksType == \A x \in Contents \cup {Gone} : Blocks(x) \in Nat
<1>1. \A n \in Nat, m \in Nat \ {0} : (n + m - 1) \div m \in Nat
  OBVIOUS
<1> QED
  BY <1>1, SessionAssumption DEF Blocks, Size

\* A file that is deleted, and its backup.
LEMMA GetsType ==
  ASSUME OtherTypesOK, RequestsOK, NEW q \in Requests, NEW p \in Paths, NEW l,
         RequestOK(l, DOMAIN backups), Len(l.moved) < Len(l.asked), Gets(q, p, l)
  PROVE  /\ RequestsOK' /\ backups' \in Seq(BackupFile)
         /\ DOMAIN backups \subseteq DOMAIN backups'
<1> DEFINE b == [from |-> p, content |-> home[p]]
<1>1. backups \in Seq(BackupFile) /\ home \in [Paths -> Contents \cup {Gone}]
  BY DEF OtherTypesOK, CleanTypeOK
<1>2. b \in BackupFile
  BY <1>1 DEF BackupFile
<1>3. /\ Append(backups, b) \in Seq(BackupFile)
      /\ DOMAIN Append(backups, b) = DOMAIN backups \cup {Len(backups) + 1}
      /\ Len(backups) \in Nat
  BY <1>1, <1>2, AppendProperties, LenProperties
<1>4. CASE r[q].mode = "backup"
  <2>1. /\ backups' = Append(backups, b)
        /\ Step(q, [l EXCEPT !.moved = Append(@, Len(backups) + 1)])
    BY <1>4 DEF Gets
  <2>2. DOMAIN backups' = DOMAIN backups \cup {Len(backups) + 1}
    BY <1>3, <2>1
  <2>3. RequestOK([l EXCEPT !.moved = Append(@, Len(backups) + 1)],
                  DOMAIN backups \cup {Len(backups) + 1})
    BY <1>3, MovedType
  <2>4. RequestsOK'
    BY <2>1, <2>2, <2>3, RequestsKept
  <2> QED
    BY <1>3, <2>1, <2>2, <2>4
<1>5. CASE r[q].mode # "backup"
  <2>1. UNCHANGED backups /\ Step(q, l)
    BY <1>5 DEF Gets
  <2> QED
    BY <1>1, <2>1, RequestsKept
<1> QED
  BY <1>4, <1>5

\* The delete handler.
LEMMA DeleteType ==
  ASSUME TypeOK, NEW q \in Requests,
         \/ \E mode \in Modes, clean \in BOOLEAN : Confirm(q, mode, clean)
         \/ Delete(q)
  PROVE  TypeOK'
<1> USE DEF tree, page, pageVars, scan, store, bounds, history
<1>0. OtherTypesOK /\ RequestsOK /\ RequestOK(r[q], DOMAIN backups)
  BY TypesSplit DEF RequestsOK
<1>1. CASE \/ \E mode \in Modes, clean \in BOOLEAN : Confirm(q, mode, clean)
           \/ Listing(q)
  BY <1>1, ListingType
<1>2. CASE Refuse(q)
  <2>1. RequestsOK'
    BY <1>0, <1>2, IdleType, RequestsKept DEF Refuse
  <2>2. OtherTypesOK'
    BY <1>0, <1>2 DEF Refuse, OtherTypesOK, CleanTypeOK, PageTypeOK
  <2> QED
    BY <2>1, <2>2, TypesJoined
<1>3. CASE Accept(q)
  <2> DEFINE l == [r[q] EXCEPT !.pc = "delete", !.checked = Checkable(q), !.calm = TRUE,
                               !.room = free, !.sizes = home]
  <2>0. free \in Nat /\ home \in [Paths -> Contents \cup {Gone}] /\ Checkable(q) \in BOOLEAN
    BY <1>0 DEF OtherTypesOK, CleanTypeOK, Checkable
  <2>1. RequestOK(l, DOMAIN backups')
    BY <1>0, <1>3, <2>0 DEF Accept, RequestOK, RequestType
  <2>2. RequestsOK'
    BY <1>0, <1>3, <2>1, RequestsKept DEF Accept
  <2>3. r[q].mode \in {"backup", "trash"}
    BY <1>0, <1>3 DEF Accept, RequestOK, RequestType
  <2>4. OtherTypesOK'
    BY <1>0, <1>3, <2>3 DEF Accept, OtherTypesOK, CleanTypeOK, PageTypeOK
  <2> QED
    BY <2>2, <2>4, TypesJoined
<1>4. ASSUME NEW p \in Paths, DeleteFile(q, p) \/ DeleteByCopy(q, p)
      PROVE  TypeOK'
  <2>1. PICK l : /\ l \in {Asked(q, p), [Asked(q, p) EXCEPT !.calm = FALSE]}
                 /\ Gets(q, p, l)
    BY <1>4 DEF DeleteFile, DeleteByCopy
  <2>2. RequestOK(Asked(q, p), DOMAIN backups) /\ Len(Asked(q, p).moved) < Len(Asked(q, p).asked)
    BY <1>0, AskedType
  <2>3. RequestOK(l, DOMAIN backups) /\ Len(l.moved) < Len(l.asked)
    <3>1. RequestOK(l, DOMAIN backups)
      BY <2>1, <2>2, RequestStays
    <3>2. l.moved = Asked(q, p).moved /\ l.asked = Asked(q, p).asked
      BY <2>1, <2>2 DEF RequestOK, RequestType
    <3> QED
      BY <2>2, <3>1, <3>2
  <2>4. /\ RequestsOK' /\ backups' \in Seq(BackupFile)
        /\ DOMAIN backups \subseteq DOMAIN backups'
    BY <1>0, <2>1, <2>3, GetsType
  <2>5. /\ home' = [home EXCEPT ![p] = Gone]
        /\ UNCHANGED <<dirs, c, page, scan, manifest, targets, scans, calls, applied, mixed>>
    BY <2>1 DEF Gets
  <2>6. CleanTypeOK' /\ PageTypeOK'
    BY <1>0, <2>5 DEF OtherTypesOK, CleanTypeOK, PageTypeOK
  <2>7. home[p] \in Contents \cup {Gone} /\ Blocks(home[p]) \in Nat /\ free \in Nat
    BY <1>0, BlocksType DEF OtherTypesOK, CleanTypeOK
  <2>8. free' \in Nat
    BY <1>4, <2>7 DEF DeleteFile, DeleteByCopy, Fits
  <2>9. touched' \subseteq Contents \cup {Gone} /\ trouble' \in Nat
    BY <1>0, <1>4, <2>7 DEF DeleteFile, DeleteByCopy, Trouble, OtherTypesOK
  <2>10. OtherTypesOK'
    BY <1>0, <2>4, <2>5, <2>6, <2>8, <2>9 DEF OtherTypesOK
  <2> QED
    BY <2>4, <2>10, TypesJoined
<1>5. ASSUME NEW p \in Paths, DeleteFails(q, p)
      PROVE  TypeOK'
  <2>1. RequestOK(Asked(q, p), DOMAIN backups)
    BY <1>0, AskedType
  <2>2. RequestOK([Asked(q, p) EXCEPT !.lacked = TRUE], DOMAIN backups)
    BY <2>1 DEF RequestOK, RequestType
  <2>3. RequestOK([Asked(q, p) EXCEPT !.calm = FALSE], DOMAIN backups)
    BY <2>1, RequestStays
  <2>4. /\ UNCHANGED <<tree, page, scan, backups, manifest, targets, scans, calls, history>>
        /\ \/ Step(q, Asked(q, p))
           \/ Step(q, [Asked(q, p) EXCEPT !.lacked = TRUE])
           \/ Step(q, [Asked(q, p) EXCEPT !.calm = FALSE])
    BY <1>5 DEF DeleteFails
  <2>5. RequestsOK'
    BY <1>0, <2>1, <2>2, <2>3, <2>4, RequestsKept
  <2>6. free' \in Nat /\ trouble' \in Nat
    BY <1>0, <1>5 DEF DeleteFails, OtherTypesOK, Trouble
  <2>7. OtherTypesOK'
    BY <1>0, <2>4, <2>6 DEF OtherTypesOK, CleanTypeOK, PageTypeOK
  <2> QED
    BY <2>5, <2>7, TypesJoined
<1>6. CASE EndDelete(q)
  <2> DEFINE from == {r[q].asked[k] : k \in DOMAIN r[q].asked}
  <2>1. /\ r[q] \in RequestType /\ opts \subseteq Dirs
        /\ r[q].asked \in Seq(Paths) /\ r[q].moved \in Seq(Nat)
    BY <1>0 DEF RequestOK, RequestType, OtherTypesOK
  <2>2. from \subseteq Paths
    BY <2>1, ElementOfSeq, LenProperties
  <2>3. CleanStart(from, opts) \in LoopType /\ CleanStart(from, opts).empty = FALSE
    BY <2>1, <2>2, IdleLoopType DEF CleanStart, LoopType, IdleLoop
  <2>4. /\ Mappings(q) \in Seq(Mapping)
        /\ \A k \in DOMAIN Mappings(q) : Mappings(q)[k].backup \in DOMAIN backups
    <3>1. /\ Len(r[q].moved) \in Nat /\ Len(r[q].asked) \in Nat
          /\ DOMAIN r[q].moved = 1..Len(r[q].moved)
          /\ Len(r[q].moved) <= Len(r[q].asked)
      BY <1>0, <2>1, LenProperties DEF RequestOK
    <3>2. \A k \in 1..Len(r[q].moved) : r[q].asked[k] \in Paths /\ r[q].moved[k] \in Nat
      BY <2>1, <3>1, ElementOfSeq
    <3>3. Mappings(q) \in [1..Len(r[q].moved) -> Mapping]
      BY <3>1, <3>2 DEF Mappings, Mapping
    <3>4. Mappings(q) \in Seq(Mapping)
      BY <3>1, <3>3, SeqDef
    <3> QED
      BY <1>0, <3>1, <3>4 DEF Mappings, RequestOK
  <2>5. RequestsOK'
    <3>1. CASE r[q].clean
      <4> DEFINE l == [IdleRequest EXCEPT !.pc = "clean", !.asked = r[q].asked, !.calm = TRUE]
      <4>1. RequestOK(l, DOMAIN backups)
        <5>1. IdleRequest \in RequestType
          BY IdleType DEF RequestOK
        <5>2. l \in RequestType
          BY <2>1, <5>1 DEF RequestType
        <5>3. l.moved = <<>> /\ l.plan = <<>> /\ l.pc = "clean" /\ l.asked \in Seq(Paths)
          BY <2>1 DEF IdleRequest
        <5> QED
          BY <5>2, <5>3, LenProperties, EmptySeq DEF RequestOK
      <4>2. Step(q, l) /\ UNCHANGED backups
        BY <1>6, <3>1 DEF EndDelete
      <4> QED
        BY <1>0, <4>1, <4>2, RequestsKept
    <3>2. CASE ~r[q].clean
      <4>1. Step(q, IdleRequest) /\ UNCHANGED backups
        BY <1>6, <3>2 DEF EndDelete
      <4> QED
        BY <1>0, <4>1, IdleType, RequestsKept
    <3> QED
      BY <3>1, <3>2
  <2>6. CleanTypeOK'
    <3>1. c' = [c EXCEPT ![q] = CleanStart(from, opts)] \/ UNCHANGED c
      BY <1>6 DEF EndDelete
    <3>2. UNCHANGED <<home, dirs>>
      BY <1>6 DEF EndDelete
    <3> QED
      BY <1>0, <2>3, <3>1, <3>2 DEF OtherTypesOK, CleanTypeOK
  <2>7. manifest' = Mappings(q) \/ UNCHANGED manifest
    BY <1>6 DEF EndDelete
  <2>8. UNCHANGED <<page, scan, backups, targets, free, bounds, history>>
    BY <1>6 DEF EndDelete
  <2>9. OtherTypesOK'
    BY <1>0, <2>4, <2>6, <2>7, <2>8 DEF OtherTypesOK, PageTypeOK
  <2> QED
    BY <2>5, <2>9, TypesJoined
<1>7. CASE Cleaning(q)
  <2>1. CleanTypeOK'
    BY <1>0, <1>7, CleanStepType DEF Cleaning, OtherTypesOK
  <2>2. OtherTypesOK'
    BY <1>0, <1>7, <2>1 DEF Cleaning, OtherTypesOK, PageTypeOK
  <2>3. RequestsOK'
    BY <1>0, <1>7, RequestsKept, RequestsRest DEF Cleaning
  <2> QED
    BY <2>2, <2>3, TypesJoined
<1>9. CASE CleaningFails(q)
  <2>1. CleanTypeOK'
    BY <1>0, <1>9, CleanErrorType DEF CleaningFails, OtherTypesOK
  <2>2. OtherTypesOK'
    BY <1>0, <1>9, <2>1 DEF CleaningFails, Trouble, OtherTypesOK, PageTypeOK
  <2> QED
    BY <1>0, <1>9, <2>2, RequestsRest, TypesJoined DEF CleaningFails
<1>8. CASE EndCleaning(q)
  <2>1. CleanTypeOK'
    BY <1>0, <1>8, IdleLoopType DEF EndCleaning, OtherTypesOK, CleanTypeOK, IdleLoop
  <2>2. OtherTypesOK'
    BY <1>0, <1>8, <2>1 DEF EndCleaning, OtherTypesOK, PageTypeOK
  <2>3. RequestsOK'
    BY <1>0, <1>8, IdleType, RequestsKept DEF EndCleaning
  <2> QED
    BY <2>2, <2>3, TypesJoined
<1> QED
  BY <1>1, <1>2, <1>3, <1>4, <1>5, <1>6, <1>7, <1>8, <1>9 DEF Delete

\* The restore handler.
LEMMA RestoreType ==
  ASSUME TypeOK, NEW q \in Requests, Restore(q) \/ Restoring(q)
  PROVE  TypeOK'
<1> USE DEF tree, page, pageVars, scan, store, bounds, history
<1>0. OtherTypesOK /\ RequestsOK /\ RequestOK(r[q], DOMAIN backups)
  BY TypesSplit DEF RequestsOK
<1>1. CASE Restore(q)
  <2> DEFINE l == [IdleRequest EXCEPT !.pc = "next", !.plan = manifest, !.calm = TRUE]
  <2>1. manifest \in Seq(Mapping)
        /\ \A k \in DOMAIN manifest : manifest[k].backup \in DOMAIN backups
    BY <1>0, <1>1 DEF Restore, OtherTypesOK
  <2>2. RequestOK(l, DOMAIN backups)
    BY <2>1, IdleType DEF RequestOK, RequestType, IdleRequest
  <2>3. /\ Quiet(q, l) /\ calls' = calls + 1
        /\ UNCHANGED <<tree, page, scan, store, scans, trouble, history>>
    BY <1>1 DEF Restore
  <2>4. RequestsOK'
    BY <1>0, <2>2, <2>3, RequestsKept
  <2>5. OtherTypesOK'
    BY <1>0, <2>3 DEF OtherTypesOK, CleanTypeOK, PageTypeOK
  <2> QED
    BY <2>4, <2>5, TypesJoined
<1>2. ASSUME r[q].plan # <<>>
      PROVE  /\ RequestOK(Rest(q), DOMAIN backups)
             /\ RequestOK([Rest(q) EXCEPT !.calm = FALSE], DOMAIN backups)
             /\ Head(r[q].plan) \in Mapping
             /\ Head(r[q].plan).backup \in DOMAIN backups
  <2> DEFINE p == r[q].plan
  <2>1. p \in Seq(Mapping) /\ \A k \in DOMAIN p : p[k].backup \in DOMAIN backups
    BY <1>0 DEF RequestOK, RequestType
  <2>2. /\ Tail(p) \in Seq(Mapping) /\ Len(p) \in Nat \ {0}
        /\ Len(Tail(p)) = Len(p) - 1
        /\ \A k \in 1..Len(Tail(p)) : Tail(p)[k] = p[k + 1]
        /\ Head(p) \in Mapping
    BY <1>2, <2>1, HeadTailProperties, EmptySeq
  <2>3. DOMAIN p = 1..Len(p) /\ DOMAIN Tail(p) = 1..Len(Tail(p)) /\ Head(p) = p[1]
    BY <2>1, <2>2, LenProperties
  <2>4. \A k \in DOMAIN Tail(p) : Tail(p)[k].backup \in DOMAIN backups
    BY <2>1, <2>2, <2>3
  <2>5. RequestOK(Rest(q), DOMAIN backups)
    BY <1>0, <2>2, <2>4 DEF RequestOK, RequestType, Rest
  <2> QED
    BY <2>1, <2>2, <2>3, <2>5, RequestStays
<1>3. CASE SkipMapping(q)
  <2>1. RequestsOK'
    BY <1>0, <1>2, <1>3, RequestsKept DEF SkipMapping
  <2>2. OtherTypesOK'
    BY <1>0, <1>3 DEF SkipMapping, OtherTypesOK, CleanTypeOK, PageTypeOK
  <2> QED
    BY <2>1, <2>2, TypesJoined
<1>4. CASE MakeParents(q)
  <2>1. Parents(Head(r[q].plan).source) \subseteq Dirs
    BY <1>2, <1>4, TreeAssumption DEF MakeParents, Parents, Mapping
  <2>2. RequestOK([r[q] EXCEPT !.pc = "move"], DOMAIN backups)
    BY <1>0, <1>4 DEF MakeParents, RequestOK, RequestType
  <2>3. RequestsOK'
    BY <1>0, <1>4, <2>2, RequestsKept DEF MakeParents
  <2>4. OtherTypesOK'
    BY <1>0, <1>4, <2>1 DEF MakeParents, Trouble, OtherTypesOK, CleanTypeOK, PageTypeOK
  <2> QED
    BY <2>3, <2>4, TypesJoined
<1>5. CASE MoveBack(q)
  <2> DEFINE m == Head(r[q].plan)  b == backups[m.backup]
  <2>1. r[q].plan # <<>>
    BY <1>0, <1>5 DEF MoveBack, RequestOK
  <2>2. m \in Mapping /\ m.source \in Paths /\ m.backup \in DOMAIN backups
    BY <1>2, <2>1 DEF Mapping
  <2>3. b \in BackupFile /\ b.content \in Contents \cup {Gone}
        /\ DOMAIN backups = 1..Len(backups) /\ backups \in Seq(BackupFile)
    <3>1. backups \in Seq(BackupFile)
      BY <1>0 DEF OtherTypesOK
    <3>2. DOMAIN backups = 1..Len(backups)
      BY <3>1, LenProperties
    <3>3. b \in BackupFile
      BY <2>2, <3>1, <3>2, ElementOfSeq
    <3> QED
      BY <3>1, <3>2, <3>3 DEF BackupFile
  <2>4. /\ backups' \in Seq(BackupFile) /\ DOMAIN backups' = DOMAIN backups
    <3>1. [b EXCEPT !.content = Gone] \in BackupFile
      BY <2>3 DEF BackupFile
    <3>2. backups' = [backups EXCEPT ![m.backup] = [b EXCEPT !.content = Gone]]
      BY <1>5 DEF MoveBack
    <3> QED
      BY <2>2, <2>3, <3>1, <3>2, ExceptSeq, LenProperties
  <2>5. RequestsOK'
    <3>1. Step(q, Rest(q))
      BY <1>5 DEF MoveBack
    <3> QED
      BY <1>0, <1>2, <2>1, <2>4, <3>1, RequestsKept
  <2>6. /\ home' = [home EXCEPT ![m.source] = b.content]
        /\ free' \in {free, free + Blocks(b.content)}
        /\ touched' \subseteq touched \cup {home[m.source], b.content}
        /\ trouble' \in {trouble, trouble + 1}
        /\ UNCHANGED <<dirs, c, page, scan, manifest, targets, scans, calls, applied, mixed>>
    BY <1>5 DEF MoveBack, Trouble
  <2>7. CleanTypeOK'
    BY <1>0, <2>2, <2>3, <2>6 DEF OtherTypesOK, CleanTypeOK
  <2>8. touched' \subseteq Contents \cup {Gone}
    BY <1>0, <2>2, <2>3, <2>6 DEF OtherTypesOK, CleanTypeOK
  <2>9. free' \in Nat /\ trouble' \in Nat
    BY <1>0, <2>3, <2>6, BlocksType DEF OtherTypesOK
  <2>10. OtherTypesOK'
    BY <1>0, <2>4, <2>6, <2>7, <2>8, <2>9 DEF OtherTypesOK, PageTypeOK
  <2> QED
    BY <2>5, <2>10, TypesJoined
<1>6. CASE MoveBackFails(q)
  <2>1. r[q].plan # <<>>
    BY <1>0, <1>6 DEF MoveBackFails, RequestOK
  <2>2. /\ Quiet(q, [Rest(q) EXCEPT !.calm = FALSE]) \/ Quiet(q, Rest(q))
        /\ UNCHANGED <<tree, page, scan, store, scans, calls, history>>
    BY <1>6 DEF MoveBackFails
  <2>3. RequestsOK'
    BY <1>0, <1>2, <2>1, <2>2, RequestsKept
  <2>4. trouble' \in Nat
    BY <1>0, <1>6 DEF MoveBackFails, Trouble, OtherTypesOK
  <2>5. OtherTypesOK'
    BY <1>0, <2>2, <2>4 DEF OtherTypesOK, CleanTypeOK, PageTypeOK
  <2> QED
    BY <2>3, <2>5, TypesJoined
<1>7. CASE EndRestore(q)
  <2>1. RequestsOK'
    BY <1>0, <1>7, IdleType, RequestsKept DEF EndRestore
  <2>2. OtherTypesOK'
    BY <1>0, <1>7 DEF EndRestore, OtherTypesOK, CleanTypeOK, PageTypeOK
  <2> QED
    BY <2>1, <2>2, TypesJoined
<1> QED
  BY <1>1, <1>3, <1>4, <1>5, <1>6, <1>7 DEF Restoring

\* Nothing happens to the types when nothing happens.
LEMMA RestType ==
  ASSUME TypeOK, UNCHANGED vars
  PROVE  TypeOK'
BY DEF TypeOK, CleanTypeOK, PageTypeOK, vars, tree, page, pageVars, scan, store, bounds, history

\* The variables of Session, the loops of the cleanup and the page keep their types
\* (router.go, cleanup.go): what was moved never outgrows what was asked for, and
\* manifests name backups that were made.
THEOREM TypeCorrect == Spec => []TypeOK
<1>1. Init => TypeOK
  <2> SUFFICES ASSUME Init PROVE TypeOK
    OBVIOUS
  <2>1. r \in [Requests -> RequestType] /\ \A q \in Requests : RequestOK(r[q], DOMAIN backups)
    BY IdleType DEF Init, RequestOK
  <2>2. CleanTypeOK
    BY IdleLoopType, SessionAssumption DEF Init, CleanTypeOK, IdleLoop
  <2>3. PageTypeOK
    BY PageAssumption, EmptySeq DEF Init, PageInit, PageTypeOK
  <2>4. backups \in Seq(BackupFile) /\ manifest = Absent
    BY EmptySeq DEF Init
  <2>5. found \in [Paths -> Contents \cup {Gone}] /\ targets \subseteq {"backup", "trash"}
    BY SessionAssumption DEF Init
  <2>6. OtherTypesOK
    BY <2>2, <2>3, <2>4, <2>5, SessionAssumption DEF Init, OtherTypesOK
  <2> QED
    BY <2>1, <2>6 DEF TypeOK, OtherTypesOK, RequestOK
<1>2. TypeOK /\ [Next]_vars => TypeOK'
  BY OutsideType, DeleteType, RestoreType, RestType DEF Next, Request
<1> QED
  BY <1>1, <1>2, PTL DEF Spec

-----------------------------------------------------------------------------
\* The rules the server ends up with.

\* What is on its way, what the server has when nothing is, and what the page shows
\* unless it is still waiting: all are among the rules the last POST competed with.
PostsInv ==
    rivals # {} =>
        /\ \A i \in DOMAIN posts : posts[i] \in rivals
        /\ posts = <<>> => ruleSet \in rivals
        /\ ~timer => form \in rivals

LEMMA PageSettles ==
  ASSUME PageTypeOK, PostsInv, PageNext
  PROVE  PostsInv'
<1>0. posts \in Seq(RuleSets) /\ Len(posts) \in Nat /\ form \in RuleSets
  BY LenProperties DEF PageTypeOK
<1>1. ASSUME NEW rs \in RuleSets, Posted(rs)
      PROVE  /\ posts' # <<>> /\ rs \in rivals'
             /\ \A i \in DOMAIN posts' : posts'[i] \in rivals'
  <2>1. /\ Len(posts') = Len(posts) + 1 /\ DOMAIN posts' = 1..Len(posts) + 1
        /\ \A i \in 1..Len(posts) : posts'[i] = posts[i]
        /\ posts'[Len(posts) + 1] = rs
    BY <1>0, <1>1, AppendProperties, LenProperties DEF Posted
  <2>2. rs \in rivals' /\ \A i \in 1..Len(posts) : posts[i] \in rivals'
    BY <1>0, <1>1, LenProperties DEF Posted
  <2> QED
    BY <1>0, <2>1, <2>2
<1>2. ASSUME NEW rs \in RuleSets, ChangeAtOnce(rs)
      PROVE  PostsInv'
  BY <1>1, <1>2 DEF ChangeAtOnce, Change, UpdateRules, PostsInv
<1>3. ASSUME NEW rs \in RuleSets, ChangeDebounced(rs)
      PROVE  PostsInv'
  BY <1>3 DEF ChangeDebounced, PostsInv
<1>4. CASE TimerFires
  BY <1>0, <1>1, <1>4 DEF TimerFires, UpdateRules, PostsInv
<1>5. CASE Reload
  BY <1>5 DEF Reload, PostsInv
<1>6. ASSUME NEW i \in DOMAIN posts, Deliver(i) \/ Lose(i)
      PROVE  PostsInv'
  <2>1. posts' = SubSeq(posts, 1, i - 1) \o SubSeq(posts, i + 1, Len(posts))
    BY <1>6 DEF Deliver, Lose, Without
  <2>2. \A k \in DOMAIN posts' : \E j \in DOMAIN posts : posts'[k] = posts[j]
    <3> DEFINE R == {posts[j] : j \in DOMAIN posts}
    <3>1. i \in DOMAIN posts /\ \A k \in 1..Len(posts) : posts[k] \in R
      BY <1>0, <1>6, LenProperties
    <3> HIDE DEF R
    <3>2. posts' \in Seq(R)
      BY <1>0, <2>1, <3>1, SeqRestricted, OneRemoved
    <3>3. \A k \in DOMAIN posts' : posts'[k] \in R
      BY <3>2, LenProperties, ElementOfSeq
    <3> QED
      BY <3>3 DEF R
  <2>3. CASE Deliver(i)
    BY <1>6, <2>2, <2>3 DEF Deliver, PostsInv
  <2>4. CASE Lose(i)
    BY <1>6, <2>2, <2>4 DEF Lose, PostsInv
  <2> QED
    BY <1>6, <2>3, <2>4
<1> QED
  BY <1>2, <1>3, <1>4, <1>5, <1>6 DEF PageNext

\* router.go, updateRules: once a change was made and nothing is on its way, the server
\* applies what the page has posted last or what was under way with it, also where
\* POSTs overtake each other, are lost or the page is loaded anew; for any number of
\* changes.
THEOREM RulesSettleHolds == Spec => []RulesSettle
<1>1. Init => PostsInv
  BY DEF Init, PageInit, PostsInv
<1>2. TypeOK /\ PostsInv /\ [Next]_vars => PostsInv'
  <2> SUFFICES ASSUME TypeOK, PostsInv, [Next]_vars
               PROVE  PostsInv'
    OBVIOUS
  <2>1. CASE Rule
    BY <2>1, PageSettles DEF Rule, TypeOK
  <2>2. CASE UNCHANGED page
    BY <2>2 DEF PostsInv, page, pageVars
  <2>3. Rule \/ UNCHANGED page
    <3>1. ASSUME NEW q \in Requests, Delete(q) \/ Restoring(q) \/ Restore(q)
                 \/ \E mode \in Modes, clean \in BOOLEAN : Confirm(q, mode, clean)
          PROVE  UNCHANGED page
      BY <3>1 DEF Delete, Restoring, Confirm, Listing, Choose, ListDeletes, Resort, Refuse,
                  Accept, DeleteFile, DeleteByCopy, Gets, DeleteFails, EndDelete, Cleaning,
                  CleaningFails, EndCleaning, Restore, SkipMapping, MakeParents, MoveBack,
                  MoveBackFails, EndRestore
    <3>2. ASSUME \/ \E D \in Scans : StartScan(D)
                 \/ StopScan \/ Task
                 \/ \E p \in Paths : Vanish(p) \/ \E x \in Contents : Appear(p, x)
          PROVE  UNCHANGED page
      BY <3>2 DEF Task, StartScan, StopScan, Visit, EndScan, Vanish, Appear
    <3>3. ASSUME UNCHANGED vars
          PROVE  UNCHANGED page
      BY <3>3 DEF vars
    <3> QED
      BY <3>1, <3>2, <3>3 DEF Next, Request
  <2> QED
    BY <2>1, <2>2, <2>3
<1>3. PostsInv => RulesSettle
  BY DEF PostsInv, RulesSettle
<1> QED
  BY <1>1, <1>2, <1>3, TypeCorrect, PTL DEF Spec

-----------------------------------------------------------------------------
\* The last copy of a content stays.

Copies(x) == {p \in Paths : Initial[p] = x}

\* The lists of a request while deletes apply the rules rs only: the chosen file of x
\* is not to be deleted, and is kept when the group it is in is gone through.
Safe(l, rs, x) ==
    LET K == Keep[rs][Copies(x)] IN
    /\ K \notin l.todo
    /\ l.view[x] \subseteq Copies(x)
    /\ \A y \in Contents \ {x} : K \notin l.view[y]
    /\ l.at = x /\ K \in l.view[x] => l.kept = {K}
    /\ l.pc \in {"apply", "list"} => l.rs = rs

\* What is known of content x meanwhile: the chosen file is in place, and every other
\* trace of x leads to an old copy.
Kept(rs, x) ==
    LET K == Keep[rs][Copies(x)] IN
    /\ home[K] = x
    /\ \A p \in Paths : home[p] = x \/ found[p] = x => p \in Copies(x)
    /\ \A i \in DOMAIN backups : backups[i].content = x => backups[i].from \in Copies(x)
    /\ found[K] \in {x, Gone}
    /\ \A q \in Requests : Safe(r[q], rs, x)

LastInv ==
    \A rs \in RuleSets, x \in Contents \ (touched \cup mixed) :
        applied \subseteq {rs} /\ Copies(x) # {} => Kept(rs, x)

\* The chosen file is one of the copies.
LEMMA Chosen ==
  ASSUME NEW rs \in RuleSets, NEW x, Copies(x) # {}
  PROVE  Keep[rs][Copies(x)] \in Copies(x) /\ Keep[rs][Copies(x)] \in Paths
<1>1. Copies(x) \in Group
  BY DEF Copies, Group
<1> QED
  BY <1>1, SessionAssumption DEF Copies

\* Past its lists, a request only gets on with what is on them.
Fewer(l, k) ==
    /\ l.todo \subseteq k.todo /\ l.pc \notin {"apply", "list"}
    /\ \/ l.view = k.view /\ l.at = k.at /\ l.kept = k.kept
       \/ l.view = IdleRequest.view /\ l.at = Gone

AddsNothing(l, k) == l = k \/ l = [k EXCEPT !.calm = FALSE] \/ Fewer(l, k)

\* Lists of files that get no longer.
LEMMA ListsShrink ==
  ASSUME r \in [Requests -> RequestType], NEW q \in Requests, NEW l \in RequestType,
         Step(q, l) \/ Quiet(q, l), AddsNothing(l, r[q])
  PROVE  \A x \in Requests : AddsNothing(r'[x], r[x])
<1>1. r'[q] = l
  BY StepEffect, QuietEffect
<1>2. \A x \in Requests \ {q} : r'[x] = [r[x] EXCEPT !.calm = FALSE] \/ r'[x] = r[x]
  BY StepEffect, QuietEffect
<1> QED
  BY <1>1, <1>2 DEF AddsNothing

LEMMA SafeShrinks ==
  ASSUME NEW k \in RequestType, NEW l, AddsNothing(l, k),
         NEW rs, NEW x \in Contents, Safe(k, rs, x)
  PROVE  Safe(l, rs, x)
<1>1. CASE l = k
  BY <1>1
<1>2. CASE l = [k EXCEPT !.calm = FALSE]
  <2>1. /\ l.todo = k.todo /\ l.view = k.view /\ l.at = k.at /\ l.kept = k.kept
        /\ l.pc = k.pc /\ l.rs = k.rs
    BY <1>2 DEF RequestType
  <2> QED
    BY <2>1 DEF Safe
<1>3. CASE Fewer(l, k)
  <2>1. CASE l.view = k.view /\ l.at = k.at /\ l.kept = k.kept
    BY <1>3, <2>1 DEF Safe, Fewer
  <2>2. CASE l.view = IdleRequest.view /\ l.at = Gone
    <3>1. \A y \in Contents : l.view[y] = {}
      BY <2>2 DEF IdleRequest
    <3> QED
      BY <1>3, <2>2, <3>1, TreeAssumption DEF Safe, Fewer
  <2> QED
    BY <1>3, <2>1, <2>2 DEF Fewer
<1> QED
  BY <1>1, <1>2, <1>3 DEF AddsNothing

\* A step that leaves files, results and backups alone and adds to no list.
LEMMA KeptRests ==
  ASSUME LastInv, r \in [Requests -> RequestType],
         touched \subseteq touched', mixed \subseteq mixed', applied \subseteq applied',
         UNCHANGED <<home, found, backups>>,
         \A q \in Requests : AddsNothing(r'[q], r[q])
  PROVE  LastInv'
<1> SUFFICES ASSUME NEW rs \in RuleSets, NEW x \in Contents \ (touched' \cup mixed'),
                    applied' \subseteq {rs}, Copies(x) # {}
             PROVE  Kept(rs, x)'
  BY DEF LastInv, Copies
<1>1. Kept(rs, x)
  BY DEF LastInv
<1>2. \A q \in Requests : Safe(r'[q], rs, x)
  BY <1>1, SafeShrinks DEF Kept
<1> QED
  BY <1>1, <1>2 DEF Kept, Safe, Copies

\* Scans, rules and other programs.
LEMMA OutsideKeeps ==
  ASSUME TypeOK, LastInv,
         \/ \E D \in Scans : StartScan(D)
         \/ StopScan \/ Task \/ Rule
         \/ \E p \in Paths : Vanish(p) \/ \E x \in Contents : Appear(p, x)
  PROVE  LastInv'
<1> USE TypesSplit DEF OtherTypesOK, CleanTypeOK, RequestsOK, tree, page, scan, store, bounds, history
<1>1. CASE StopScan \/ EndScan \/ Rule
  BY <1>1, KeptRests DEF StopScan, EndScan, Rule, AddsNothing
<1>2. ASSUME NEW D \in Scans, StartScan(D),
             NEW rs \in RuleSets, NEW x \in Contents \ (touched' \cup mixed'),
             applied' \subseteq {rs}, Copies(x) # {}
      PROVE  Kept(rs, x)'
  <2>1. Kept(rs, x)
    BY <1>2 DEF LastInv, StartScan
  <2>2. \A p \in Paths : found'[p] = Gone
    BY <1>2 DEF StartScan
  <2>3. x # Gone /\ Keep[rs][Copies(x)] \in Paths
    BY <1>2, Chosen, TreeAssumption
  <2>4. UNCHANGED <<home, backups, r>>
    BY <1>2 DEF StartScan
  <2> QED
    BY <2>1, <2>2, <2>3, <2>4 DEF Kept, Safe, Copies
<1>3. ASSUME NEW p \in Paths, Visit(p),
             NEW rs \in RuleSets, NEW x \in Contents \ (touched' \cup mixed'),
             applied' \subseteq {rs}, Copies(x) # {}
      PROVE  Kept(rs, x)'
  <2>1. Kept(rs, x)
    BY <1>3 DEF LastInv, Visit
  <2>2. /\ found' = [found EXCEPT ![p] = home[p]] /\ found \in [Paths -> Contents \cup {Gone}]
        /\ UNCHANGED <<home, backups, r>>
    BY <1>3 DEF Visit
  <2>3. Keep[rs][Copies(x)] \in Paths
    BY <1>3, Chosen
  <2> QED
    BY <2>1, <2>2, <2>3 DEF Kept, Safe, Copies
<1>4. ASSUME r' = Disturbed, NEW rs \in RuleSets, NEW x \in Contents, Kept(rs, x)
      PROVE  \A q \in Requests : Safe(r'[q], rs, x)
  <2>1. \A q \in Requests : AddsNothing(r'[q], r[q])
    BY <1>4 DEF Disturbed, AddsNothing
  <2> QED
    BY <1>4, <2>1, SafeShrinks DEF Kept
<1>5. ASSUME NEW p \in Paths, NEW y \in Contents, Appear(p, y),
             NEW rs \in RuleSets, NEW x \in Contents \ (touched' \cup mixed'),
             applied' \subseteq {rs}, Copies(x) # {}
      PROVE  Kept(rs, x)'
  <2>1. Kept(rs, x) /\ x # y /\ x # Gone
    BY <1>5, TreeAssumption DEF LastInv, Appear
  <2>2. /\ home' = [home EXCEPT ![p] = y] /\ home[p] = Gone
        /\ home \in [Paths -> Contents \cup {Gone}]
        /\ r' = Disturbed /\ UNCHANGED <<found, backups>>
    BY <1>5 DEF Appear
  <2>3. Keep[rs][Copies(x)] \in Paths
    BY <1>5, Chosen
  <2>4. \A q \in Requests : Safe(r'[q], rs, x)
    BY <1>4, <1>5, <2>1, <2>2
  <2> QED
    BY <2>1, <2>2, <2>3, <2>4 DEF Kept, Safe, Copies
<1>6. ASSUME NEW p \in Paths, Vanish(p),
             NEW rs \in RuleSets, NEW x \in Contents \ (touched' \cup mixed'),
             applied' \subseteq {rs}, Copies(x) # {}
      PROVE  Kept(rs, x)'
  <2>1. Kept(rs, x) /\ x # home[p] /\ x # Gone
    BY <1>6, TreeAssumption DEF LastInv, Vanish
  <2>2. /\ home' = [home EXCEPT ![p] = Gone]
        /\ home \in [Paths -> Contents \cup {Gone}]
        /\ r' = Disturbed /\ UNCHANGED <<found, backups>>
    BY <1>6 DEF Vanish
  <2>3. Keep[rs][Copies(x)] \in Paths
    BY <1>6, Chosen
  <2>4. \A q \in Requests : Safe(r'[q], rs, x)
    BY <1>4, <1>6, <2>1, <2>2
  <2> QED
    BY <2>1, <2>2, <2>3, <2>4 DEF Kept, Safe, Copies
<1> QED
  BY <1>1, <1>2, <1>3, <1>5, <1>6 DEF Task, LastInv, Copies

\* Going on to the next group or to the files changes no list.
LEMMA GoOnSafe ==
  ASSUME NEW l \in RequestType, NEW rs, NEW x \in Contents, Safe(l, rs, x), l.rs = rs
  PROVE  Safe(GoOn(l), rs, x)
<1> DEFINE a == [l EXCEPT !.pc = "apply", !.at = Gone, !.kept = {}]
           d == [IdleRequest EXCEPT !.pc = IF l.mode = "permanent" THEN "delete" ELSE "check",
                             !.mode = l.mode, !.clean = l.clean, !.todo = l.todo]
<1>1. /\ a.todo = l.todo /\ a.view = l.view /\ a.at = Gone /\ a.pc = "apply" /\ a.rs = l.rs
  BY DEF RequestType
<1>2. Safe(a, rs, x)
  BY <1>1, TreeAssumption DEF Safe
<1>3. /\ d.todo = l.todo /\ d.at = Gone /\ d.pc \in {"delete", "check"}
      /\ \A y \in Contents : d.view[y] = {}
  BY DEF IdleRequest
<1>4. Safe(d, rs, x)
  BY <1>3, TreeAssumption DEF Safe
<1> QED
  BY <1>2, <1>4 DEF GoOn

\* A delete takes the chosen file off its lists.
LEMMA ListingKeeps ==
  ASSUME TypeOK, LastInv, NEW q \in Requests,
         \/ \E mode \in Modes, clean \in BOOLEAN : Confirm(q, mode, clean)
         \/ Listing(q)
  PROVE  LastInv'
<1> USE DEF tree, page, pageVars, scan, store, bounds, history
<1>0. /\ OtherTypesOK /\ RequestsOK /\ RequestOK(r[q], DOMAIN backups)
      /\ r[q] \in RequestType /\ r \in [Requests -> RequestType]
  BY TypesSplit DEF RequestsOK, RequestOK
<1>1. /\ UNCHANGED <<home, found, backups>>
      /\ touched \subseteq touched' /\ mixed \subseteq mixed' /\ applied \subseteq applied'
  BY DEF Confirm, Listing, Choose, ListDeletes, Resort
<1>2. SUFFICES ASSUME NEW rs \in RuleSets, NEW x \in Contents \ (touched' \cup mixed'),
                      applied' \subseteq {rs}, Copies(x) # {}
               PROVE  Kept(rs, x)'
  BY DEF LastInv, Copies
<1> DEFINE K == Keep[rs][Copies(x)]
<1>3. Kept(rs, x) /\ Safe(r[q], rs, x)
  BY <1>1, <1>2 DEF LastInv, Kept
<1>4. K \in Paths /\ K \in Copies(x) /\ Copies(x) \in Group /\ x # Gone /\ Gone \notin Contents
  <2>1. K \in Paths /\ K \in Copies(x)
    BY <1>2, Chosen
  <2>2. Copies(x) \in Group
    BY <2>1 DEF Copies, Group
  <2> QED
    BY <1>2, <2>1, <2>2, TreeAssumption
<1>5. Same(x) \subseteq Copies(x) /\ \A y \in Contents \ {x} : K \notin Same(y)
  BY <1>3, <1>4 DEF Same, Kept
<1>6. ASSUME NEW l, Quiet(q, l), Safe(l, rs, x)
      PROVE  Kept(rs, x)'
  <2>1. \A o \in Requests : r'[o] = IF o = q THEN l ELSE r[o]
    BY <1>0, <1>6 DEF Quiet
  <2>2. \A o \in Requests : Safe(r'[o], rs, x)
    BY <1>3, <1>6, <2>1 DEF Kept
  <2> QED
    BY <1>1, <1>3, <2>2 DEF Kept, Safe, Copies
<1>7. ASSUME NEW mode \in Modes, NEW clean \in BOOLEAN, Confirm(q, mode, clean)
      PROVE  Kept(rs, x)'
  <2> DEFINE l == [IdleRequest EXCEPT !.mode = mode, !.clean = clean, !.rs = ruleSet,
                                      !.scan = scans, !.view = Groups]
  <2>1. Groups \in [Contents -> SUBSET Paths] /\ \A y \in Contents : Groups[y] \subseteq Same(y)
    BY DEF Groups, Same
  <2>2. ruleSet = rs /\ ruleSet \in RuleSets /\ scans \in Nat
    BY <1>0, <1>2, <1>7 DEF Confirm, OtherTypesOK, PageTypeOK
  <2>3. IdleRequest \in RequestType /\ mode \in {"backup", "trash", "permanent"}
    BY IdleType, SessionAssumption DEF RequestOK
  <2>4. l \in RequestType /\ l.rs = rs
    BY <2>1, <2>2, <2>3 DEF RequestType
  <2>5. l.todo = {} /\ l.view = Groups /\ l.at = Gone /\ l.pc = "idle"
    BY DEF IdleRequest
  <2>6. Safe(l, rs, x)
    BY <1>4, <1>5, <2>1, <2>5 DEF Safe
  <2>7. Quiet(q, GoOn(l))
    BY <1>7 DEF Confirm
  <2> QED
    BY <1>6, <2>4, <2>6, <2>7, GoOnSafe
<1>8. ASSUME NEW y \in Contents, Choose(q, y)
      PROVE  Kept(rs, x)'
  <2> DEFINE k == Keep[r[q].rs][r[q].view[y]]
             l == [r[q] EXCEPT !.pc = "list", !.at = y, !.kept = {k}]
  <2>1. /\ l.todo = r[q].todo /\ l.view = r[q].view /\ l.at = y /\ l.kept = {k}
        /\ l.pc = "list" /\ l.rs = r[q].rs
    BY <1>0 DEF RequestType
  <2>2. r[q].rs = rs
    BY <1>3, <1>8 DEF Choose, Safe
  <2>3. y = x /\ K \in r[q].view[x] => k = K
    <3>1. r[q].view[x] \in SUBSET Paths /\ r[q].view[x] \subseteq Copies(x)
      BY <1>0, <1>2, <1>3 DEF RequestType, Safe
    <3> QED
      BY <1>2, <1>4, <2>2, <3>1, SessionAssumption DEF Group
  <2>4. Safe(l, rs, x)
    BY <1>3, <2>1, <2>2, <2>3 DEF Safe
  <2>5. Quiet(q, l)
    BY <1>8 DEF Choose
  <2> QED
    BY <1>6, <2>4, <2>5
<1>9. CASE ListDeletes(q)
  <2> DEFINE v == [r[q].view EXCEPT ![r[q].at] = {}]  t == r[q].todo \cup Listed(r[q])
             l == [r[q] EXCEPT !.todo = t, !.view = v]
  <2>1. r[q].at \in Contents /\ r[q].rs = rs
    BY <1>0, <1>3, <1>9 DEF ListDeletes, RequestOK, RequestType, Safe
  <2>2. v \in [Contents -> SUBSET Paths] /\ t \subseteq Paths
    BY <1>0, <2>1 DEF RequestType, Listed
  <2>3. l \in RequestType
    BY <1>0, <2>2 DEF RequestType
  <2>4. /\ l.todo = t /\ l.view = v /\ l.at = r[q].at /\ l.kept = r[q].kept
        /\ l.pc = "list" /\ l.rs = rs
    BY <1>0, <1>9, <2>1 DEF RequestType, ListDeletes
  <2>5. K \notin Listed(r[q])
    BY <1>3, <2>1 DEF Listed, Safe
  <2>6. \A y \in Contents : v[y] \subseteq r[q].view[y]
    BY <1>0, <2>1 DEF RequestType
  <2>7. Safe(l, rs, x)
    BY <1>3, <2>4, <2>5, <2>6 DEF Safe
  <2>8. Quiet(q, GoOn(l))
    <3>1. l = [r[q] EXCEPT !.todo = @ \cup Listed(r[q]), !.view = [@ EXCEPT ![r[q].at] = {}]]
      BY <1>0 DEF RequestType
    <3> QED
      BY <1>9, <3>1 DEF ListDeletes
  <2> QED
    BY <1>6, <2>3, <2>4, <2>7, <2>8, GoOnSafe
<1>10. ASSUME NEW y \in Contents, Resort(q, y)
       PROVE  Kept(rs, x)'
  <2>1. PICK v \in SUBSET Same(y) : Quiet(q, [r[q] EXCEPT !.view = [@ EXCEPT ![y] = v]])
    BY <1>10 DEF Resort
  <2> DEFINE w == [r[q].view EXCEPT ![y] = v]  l == [r[q] EXCEPT !.view = w]
  <2>2. /\ l.todo = r[q].todo /\ l.view = w /\ l.at = r[q].at /\ l.kept = r[q].kept
        /\ l.pc = r[q].pc /\ l.rs = r[q].rs
    BY <1>0 DEF RequestType
  <2>3. \A z \in Contents : w[z] = IF z = y THEN v ELSE r[q].view[z]
    BY <1>0 DEF RequestType
  <2>4. y = x => r[q].at # x
    BY <1>2, <1>10 DEF Resort
  <2>5. Safe(l, rs, x)
    BY <1>3, <1>5, <2>1, <2>2, <2>3, <2>4 DEF Safe
  <2>6. Quiet(q, l)
    <3>1. l = [r[q] EXCEPT !.view = [@ EXCEPT ![y] = v]]
      BY <1>0 DEF RequestType
    <3> QED
      BY <2>1, <3>1
  <2> QED
    BY <1>6, <2>5, <2>6
<1> QED
  BY <1>7, <1>8, <1>9, <1>10 DEF Listing

\* A delete then takes only files of the list.
LEMMA DeleteKeeps ==
  ASSUME TypeOK, TypeOK', LastInv, NEW q \in Requests, Delete(q)
  PROVE  LastInv'
<1> USE DEF tree, page, pageVars, scan, store, bounds, history
<1>0. /\ OtherTypesOK /\ RequestsOK /\ RequestsOK' /\ RequestOK(r[q], DOMAIN backups)
      /\ r[q] \in RequestType /\ r \in [Requests -> RequestType]
  <2>1. OtherTypesOK /\ RequestsOK
    BY TypesSplit
  <2>2. RequestsOK'
    BY DEF TypeOK, RequestsOK, RequestOK
  <2> QED
    BY <2>1, <2>2 DEF RequestsOK, RequestOK
<1>1. CASE Listing(q)
  BY <1>1, ListingKeeps
<1>L. ASSUME NEW l, Step(q, l) \/ Quiet(q, l), Fewer(l, r[q])
      PROVE  \A o \in Requests : AddsNothing(r'[o], r[o])
  <2>1. r'[q] = l
    BY <1>0, <1>L DEF Step, Quiet
  <2>2. l \in RequestType
    BY <1>0, <2>1 DEF RequestsOK
  <2> QED
    BY <1>0, <1>L, <2>2, ListsShrink DEF AddsNothing
<1>2. Fewer(IdleRequest, r[q])
  BY DEF IdleRequest, Fewer
<1>3. CASE Refuse(q)
  BY <1>0, <1>L, <1>2, <1>3, KeptRests DEF Refuse
<1>4. CASE Accept(q)
  <2> DEFINE l == [r[q] EXCEPT !.pc = "delete", !.checked = Checkable(q), !.calm = TRUE,
                               !.room = free, !.sizes = home]
  <2>1. Fewer(l, r[q])
    BY <1>0 DEF RequestType, Fewer
  <2>2. Quiet(q, l)
    BY <1>4 DEF Accept
  <2> QED
    BY <1>0, <1>L, <1>4, <2>1, <2>2, KeptRests DEF Accept
<1>5. ASSUME NEW p \in Paths, r[q].pc = "delete", NEW l,
             \/ l = Asked(q, p)
             \/ l = [Asked(q, p) EXCEPT !.lacked = TRUE]
             \/ l = [Asked(q, p) EXCEPT !.calm = FALSE]
      PROVE  /\ Fewer(l, r[q])
             /\ \A n : Fewer([l EXCEPT !.moved = Append(@, n)], r[q])
  <2>1. Asked(q, p) \in RequestType
    BY <1>0, <1>5, AskedType DEF RequestOK
  <2>2. /\ Asked(q, p).todo \subseteq r[q].todo /\ Asked(q, p).pc = "delete"
        /\ Asked(q, p).view = r[q].view /\ Asked(q, p).at = r[q].at
        /\ Asked(q, p).kept = r[q].kept
    BY <1>0, <1>5 DEF Asked, RequestType
  <2>3. /\ l.todo = Asked(q, p).todo /\ l.pc = "delete" /\ l.view = r[q].view
        /\ l.at = r[q].at /\ l.kept = r[q].kept
    BY <1>5, <2>1, <2>2 DEF RequestType
  <2>4. l \in RequestType
    <3>1. CASE l = Asked(q, p)
      BY <2>1, <3>1
    <3>2. CASE l = [Asked(q, p) EXCEPT !.lacked = TRUE]
      <4> DEFINE a == Asked(q, p)
      <4>1. a \in RequestType
        BY <2>1
      <4> HIDE DEF a
      <4>2. [a EXCEPT !.lacked = TRUE] \in RequestType
        BY <4>1 DEF RequestType
      <4> QED
        BY <3>2, <4>2 DEF a
    <3>3. CASE l = [Asked(q, p) EXCEPT !.calm = FALSE]
      BY <2>1, <3>3, CalmType
    <3> QED
      BY <1>5, <3>1, <3>2, <3>3
  <2>5. ASSUME NEW n, NEW k, k = [l EXCEPT !.moved = Append(@, n)]
        PROVE  /\ k.todo = l.todo /\ k.pc = l.pc /\ k.view = l.view
               /\ k.at = l.at /\ k.kept = l.kept
    BY <2>4, <2>5 DEF RequestType
  <2>6. \A n : Fewer([l EXCEPT !.moved = Append(@, n)], r[q])
    BY <2>2, <2>3, <2>5 DEF Fewer
  <2> QED
    BY <2>2, <2>3, <2>6 DEF Fewer
<1>6. ASSUME NEW p \in Paths, DeleteFile(q, p) \/ DeleteByCopy(q, p),
             NEW rs \in RuleSets, NEW x \in Contents \ (touched' \cup mixed'),
             applied' \subseteq {rs}, Copies(x) # {}
      PROVE  Kept(rs, x)'
  <2> DEFINE K == Keep[rs][Copies(x)]  b == [from |-> p, content |-> home[p]]
  <2>0. PICK l : /\ l \in {Asked(q, p), [Asked(q, p) EXCEPT !.calm = FALSE]}
                 /\ Gets(q, p, l)
    BY <1>6 DEF DeleteFile, DeleteByCopy
  <2>1. Kept(rs, x) /\ p \in r[q].todo
    BY <1>6, <2>0 DEF LastInv, DeleteFile, DeleteByCopy, Gets
  <2>2. K \in Paths /\ p # K /\ x # Gone
    BY <1>6, <2>1, Chosen, TreeAssumption DEF Kept, Safe
  <2>3. /\ home' = [home EXCEPT ![p] = Gone] /\ UNCHANGED found
        /\ home \in [Paths -> Contents \cup {Gone}]
    BY <1>0, <2>0 DEF Gets, OtherTypesOK, CleanTypeOK
  <2>4. \A o \in Requests : AddsNothing(r'[o], r[o])
    <3>1. r[q].pc = "delete"
      BY <2>0 DEF Gets
    <3>2. \/ Step(q, l)
          \/ Step(q, [l EXCEPT !.moved = Append(@, Len(backups) + 1)])
      BY <2>0 DEF Gets
    <3> QED
      BY <1>L, <1>5, <2>0, <3>1, <3>2
  <2>5. \A i \in DOMAIN backups' : backups'[i].content = x => backups'[i].from \in Copies(x)
    <3>1. CASE r[q].mode = "backup"
      <4>1. backups' = Append(backups, b) /\ backups \in Seq(BackupFile) /\ b \in BackupFile
        BY <1>0, <2>0, <2>3, <3>1 DEF Gets, OtherTypesOK, BackupFile
      <4>2. /\ DOMAIN backups = 1..Len(backups)
            /\ DOMAIN backups' = 1..Len(backups) + 1 /\ Len(backups) \in Nat
            /\ \A i \in 1..Len(backups) : backups'[i] = backups[i]
            /\ backups'[Len(backups) + 1] = b
        BY <4>1, AppendProperties, LenProperties
      <4>3. b.content = x => b.from \in Copies(x)
        BY <2>1 DEF Kept
      <4> QED
        BY <2>1, <4>2, <4>3 DEF Kept
    <3>2. CASE r[q].mode # "backup"
      BY <2>0, <2>1, <3>2 DEF Gets, Kept
    <3> QED
      BY <3>1, <3>2
  <2>6. \A o \in Requests : Safe(r'[o], rs, x)
    BY <1>0, <1>6, <2>1, <2>4, SafeShrinks DEF Kept
  <2> QED
    BY <2>1, <2>2, <2>3, <2>5, <2>6 DEF Kept, Safe, Copies
<1>7. ASSUME NEW p \in Paths, DeleteFails(q, p)
      PROVE  LastInv'
  <2>1. PICK l : /\ Step(q, l)
                 /\ \/ l = Asked(q, p)
                    \/ l = [Asked(q, p) EXCEPT !.lacked = TRUE]
                    \/ l = [Asked(q, p) EXCEPT !.calm = FALSE]
    BY <1>7 DEF DeleteFails
  <2>2. r[q].pc = "delete" /\ UNCHANGED <<home, found, backups, touched, mixed, applied>>
    BY <1>7 DEF DeleteFails
  <2>3. \A o \in Requests : AddsNothing(r'[o], r[o])
    BY <1>L, <1>5, <2>1, <2>2
  <2> QED
    BY <1>0, <2>2, <2>3, KeptRests
<1>8. CASE EndDelete(q)
  <2> DEFINE l == [IdleRequest EXCEPT !.pc = "clean", !.asked = r[q].asked, !.calm = TRUE]
  <2>1. Fewer(l, r[q])
    BY DEF IdleRequest, Fewer
  <2>2. Step(q, l) \/ Step(q, IdleRequest)
    BY <1>8 DEF EndDelete
  <2>3. \A o \in Requests : AddsNothing(r'[o], r[o])
    BY <1>L, <1>2, <2>1, <2>2
  <2> QED
    BY <1>0, <1>8, <2>3, KeptRests DEF EndDelete
<1>9. CASE Cleaning(q) \/ CleaningFails(q) \/ EndCleaning(q)
  <2>1. UNCHANGED <<home, found, backups, touched, mixed, applied>>
    BY <1>9 DEF Cleaning, CleaningFails, EndCleaning, CleanStep, CleanError, TakePath, Look, RemoveDir
  <2>2. \A o \in Requests : AddsNothing(r'[o], r[o])
    <3>1. UNCHANGED r \/ Step(q, r[q]) \/ Quiet(q, IdleRequest)
      BY <1>9 DEF Cleaning, CleaningFails, EndCleaning
    <3>2. CASE Step(q, r[q])
      BY <1>0, <3>2, ListsShrink DEF AddsNothing
    <3> QED
      BY <1>L, <1>2, <3>1, <3>2 DEF AddsNothing
  <2> QED
    BY <1>0, <2>1, <2>2, KeptRests
<1> QED
  BY <1>1, <1>3, <1>4, <1>6, <1>7, <1>8, <1>9 DEF Delete, LastInv, Copies

\* A restore puts old copies back where they were, or the content counts as touched.
LEMMA RestoreKeeps ==
  ASSUME TypeOK, TypeOK', LastInv, NEW q \in Requests, Restore(q) \/ Restoring(q)
  PROVE  LastInv'
<1> USE DEF tree, page, pageVars, scan, store, bounds, history
<1>0. /\ OtherTypesOK /\ RequestsOK /\ RequestsOK' /\ RequestOK(r[q], DOMAIN backups)
      /\ r[q] \in RequestType /\ r \in [Requests -> RequestType]
  <2>1. OtherTypesOK /\ RequestsOK
    BY TypesSplit
  <2>2. RequestsOK'
    BY DEF TypeOK, RequestsOK, RequestOK
  <2> QED
    BY <2>1, <2>2 DEF RequestsOK, RequestOK
<1>1. ASSUME NEW l, Step(q, l) \/ Quiet(q, l), Fewer(l, r[q])
      PROVE  \A o \in Requests : AddsNothing(r'[o], r[o])
  <2>1. r'[q] = l
    BY <1>0, <1>1 DEF Step, Quiet
  <2>2. l \in RequestType
    BY <1>0, <2>1 DEF RequestsOK
  <2> QED
    BY <1>0, <1>1, <2>2, ListsShrink DEF AddsNothing
<1>2. /\ Fewer(IdleRequest, r[q]) /\ Fewer([r[q] EXCEPT !.pc = "move"], r[q])
      /\ Fewer([IdleRequest EXCEPT !.pc = "next", !.plan = manifest, !.calm = TRUE], r[q])
      /\ Fewer(Rest(q), r[q]) /\ Fewer([Rest(q) EXCEPT !.calm = FALSE], r[q])
  <2>1. /\ Fewer(IdleRequest, r[q])
        /\ Fewer([IdleRequest EXCEPT !.pc = "next", !.plan = manifest, !.calm = TRUE], r[q])
    BY DEF IdleRequest, Fewer
  <2>2. /\ Fewer([r[q] EXCEPT !.pc = "move"], r[q])
        /\ Fewer(Rest(q), r[q]) /\ Fewer([Rest(q) EXCEPT !.calm = FALSE], r[q])
    BY <1>0 DEF Rest, RequestType, Fewer
  <2> QED
    BY <2>1, <2>2
<1>3. CASE Restore(q)
  BY <1>0, <1>1, <1>2, <1>3, KeptRests DEF Restore
<1>4. CASE SkipMapping(q) \/ EndRestore(q)
  BY <1>0, <1>1, <1>2, <1>4, KeptRests DEF SkipMapping, EndRestore
<1>5. CASE MakeParents(q)
  BY <1>0, <1>1, <1>2, <1>5, KeptRests DEF MakeParents
<1>6. CASE MoveBackFails(q)
  BY <1>0, <1>1, <1>2, <1>6, KeptRests DEF MoveBackFails
<1>7. ASSUME MoveBack(q), NEW rs \in RuleSets, NEW x \in Contents \ (touched' \cup mixed'),
             applied' \subseteq {rs}, Copies(x) # {}
      PROVE  Kept(rs, x)'
  <2> DEFINE K == Keep[rs][Copies(x)]  m == Head(r[q].plan)  b == backups[m.backup]
  <2>1. /\ Step(q, Rest(q)) /\ b.content # Gone
        /\ home' = [home EXCEPT ![m.source] = b.content]
        /\ backups' = [backups EXCEPT ![m.backup].content = Gone]
        /\ touched \cup {home[m.source]} \subseteq touched'
        /\ b.from # m.source => b.content \in touched'
        /\ UNCHANGED <<found, applied, mixed>>
    BY <1>7 DEF MoveBack
  <2>2. Kept(rs, x) /\ x # home[m.source] /\ (x = b.content => b.from = m.source)
    BY <1>7, <2>1 DEF LastInv
  <2>3. K \in Paths /\ x # Gone
    BY <1>7, Chosen, TreeAssumption
  <2>4. m \in Mapping /\ m.backup \in DOMAIN backups
    <3>1. r[q].plan \in Seq(Mapping) /\ r[q].plan # <<>>
          /\ \A k \in DOMAIN r[q].plan : r[q].plan[k].backup \in DOMAIN backups
      BY <1>0, <1>7 DEF MoveBack, RequestOK, RequestType
    <3>2. m = r[q].plan[1] /\ 1 \in DOMAIN r[q].plan
      BY <3>1, LenProperties, EmptySeq
    <3> QED
      BY <3>1, <3>2, HeadTailProperties
  <2>5. home \in [Paths -> Contents \cup {Gone}] /\ m.source \in Paths
    BY <1>0, <2>4 DEF OtherTypesOK, CleanTypeOK, Mapping
  <2>6. \A o \in Requests : Safe(r'[o], rs, x)
    <3>1. \A o \in Requests : AddsNothing(r'[o], r[o])
      BY <1>1, <1>2, <2>1
    <3> QED
      BY <1>0, <1>7, <2>2, <3>1, SafeShrinks DEF Kept
  <2>7. \A i \in DOMAIN backups' : backups'[i].content = x => backups'[i].from \in Copies(x)
    <3>1. backups \in Seq(BackupFile) /\ DOMAIN backups = 1..Len(backups)
      BY <1>0, LenProperties DEF OtherTypesOK
    <3>2. b \in BackupFile
      BY <2>4, <3>1, ElementOfSeq
    <3>3. /\ DOMAIN backups' = DOMAIN backups
          /\ backups'[m.backup].content = Gone
          /\ \A i \in DOMAIN backups \ {m.backup} : backups'[i] = backups[i]
      BY <2>1, <2>4, <3>1, <3>2 DEF BackupFile
    <3> QED
      BY <2>2, <2>3, <3>3 DEF Kept
  <2>8. home'[K] = x
    BY <2>1, <2>2, <2>3, <2>5 DEF Kept
  <2>9. \A p \in Paths : home'[p] = x \/ found'[p] = x => p \in Copies(x)
    BY <2>1, <2>2, <2>4, <2>5 DEF Kept
  <2> QED
    BY <2>1, <2>2, <2>6, <2>7, <2>8, <2>9 DEF Kept, Safe, Copies
<1> QED
  BY <1>3, <1>4, <1>5, <1>6, <1>7 DEF Restoring, LastInv, Copies

\* Nothing is lost while nothing happens.
LEMMA RestKeeps ==
  ASSUME TypeOK, LastInv, UNCHANGED vars
  PROVE  LastInv'
<1>1. UNCHANGED <<home, found, backups, r, touched, mixed, applied>>
  BY DEF vars, tree, scan, store, history
<1>2. \A q \in Requests : AddsNothing(r'[q], r[q])
  BY <1>1 DEF AddsNothing
<1> QED
  BY <1>1, <1>2, KeptRests DEF TypeOK

\* router.go, confirm: as long as deletes apply one rule set, one copy of each content
\* stays in place, however many requests, polls, scans and restores overlap and however
\* old the results are they work from, unless a list was sorted between the two reads
\* of rules.Apply; for any tree, any rules that stand by their choice and any number of
\* requests.
THEOREM LastCopyKeptHolds == Spec => []LastCopyKept
<1>1. Init => LastInv
  <2> SUFFICES ASSUME Init, NEW rs \in RuleSets, NEW x \in Contents, Copies(x) # {}
               PROVE  Kept(rs, x)
    BY DEF LastInv
  <2>1. Keep[rs][Copies(x)] \in Paths /\ Keep[rs][Copies(x)] \in Copies(x)
    BY Chosen
  <2>2. Gone # x
    BY TreeAssumption
  <2>3. /\ home = Initial /\ backups = <<>> /\ found = [p \in Paths |-> Gone]
        /\ \A q \in Requests : r[q] = IdleRequest
    BY DEF Init
  <2>4. \A q \in Requests : Safe(r[q], rs, x)
    BY <2>2, <2>3 DEF Safe, IdleRequest
  <2> QED
    BY <2>1, <2>2, <2>3, <2>4 DEF Kept, Copies
<1>2. TypeOK /\ TypeOK' /\ LastInv /\ [Next]_vars => LastInv'
  BY OutsideKeeps, ListingKeeps, DeleteKeeps, RestoreKeeps, RestKeeps DEF Next, Request
<1>3. LastInv => LastCopyKept
  BY DEF LastInv, Kept, LastCopyKept, Copies
<1> QED
  BY <1>1, <1>2, <1>3, TypeCorrect, PTL DEF Spec
=============================================================================
