---------------------------- MODULE BackupProofs ----------------------------
(***************************************************************************)
(* Theorems about module Backup for every value of the constants: any      *)
(* files, lists and modes, any failures and kills, and as many requests at *)
(* a time as each theorem allows.                                          *)
(***************************************************************************)
EXTENDS Backup, SequenceTheorems, FiniteSetTheorems, TLAPS

-----------------------------------------------------------------------------
\* The conditions on the requests that are served at the same time.

Running(p) == h[p].pc # "idle"
Restoring(p) == Running(p) /\ h[p].call = "restore"

\* Deletes may overlap each other, a restore overlaps nothing.
RestoresAlone == \A p, q \in Handlers : Restoring(p) /\ Running(q) => p = q

OneAtATime == \A p, q \in Handlers : Running(p) /\ Running(q) => p = q

-----------------------------------------------------------------------------
\* The inductive invariant of the types.

Working == {"rename", "open", "create", "copy", "remove"}

\* The number of files request l has asked the content of.
Asked(l) == IF l.pc \in Working \cup {"trashinfo"} THEN l.i ELSE l.i - 1

\* Of the local variables l when the nodes are D.
HandlerOK(l, D) ==
    /\ l \in HandlerType
    /\ l.pc = "idle" => l = IdleHandler
    /\ l.call # "restore" => Len(l.had) = Asked(l) /\ Asked(l) <= Len(l.files)
    /\ l.call \in {"backup", "trash"} =>
          /\ Len(l.moved) <= Asked(l) /\ l.moved \in Seq(Stored)
          /\ l.pc \in Working \cup {"trashinfo"} => l.to \in Stored
          /\ l.pc \in Working => Len(l.moved) < Asked(l)
    /\ l.pc \in Working =>
          /\ l.call = "restore" => l.i <= Len(l.mappings) /\ l.from \in Stored /\ l.to \in Source
          /\ l.call # "restore" => l.from = l.files[l.i] /\ l.had[l.i] \in Content \cup {Gone}
          /\ l.call = "permanent" => l.pc = "remove"
    /\ l.pc \in {"create", "copy"} => l.in \in D
    /\ l.pc = "copy" => l.out \in D
    /\ l.pc = "trashinfo" => l.call = "trash"
    /\ l.pc \in {"truncate", "write"} => l.call = "backup" /\ l.i = Len(l.files) + 1

\* Nodes are numbered as they are made.
NodesOK == /\ IsFiniteSet(DOMAIN data)
           /\ \A n \in (DOMAIN data) \cap Nat : n < NewNode

TypeInv == TypeOK /\ NodesOK /\ \A p \in Handlers : HandlerOK(h[p], DOMAIN data)

-----------------------------------------------------------------------------
\* The disk: no two names for one file, backup names older than the clock.

DiskInv ==
    /\ \A p, q \in DOMAIN dir : dir[p] = dir[q] => p = q
    /\ \A q \in (DOMAIN dir) \cap Stored : q[3] < clock

\* The name l.to is free, or was taken for free when os.Stat failed.
Takes(l) == Exists(l.to) => l.call = "restore" /\ Read(l.to) \in overlooked

\* The move of a file from l.from to l.to, wherever it is.
MoveInv(l) ==
    l.call # "permanent" =>
        /\ l.pc \in {"rename", "open", "create"} => Takes(l)
        /\ l.pc \in {"copy", "remove"} => Exists(l.to)
        /\ l.pc \in {"create", "copy"} /\ Exists(l.from) => l.in = dir[l.from]
        /\ l.pc = "copy" => l.out = dir[l.to] /\ Read(l.to) = Torn
        /\ l.pc = "remove" /\ Exists(l.from) => Read(l.to) = Read(l.from)

\* The names deletes are about to use are their own.
Moving(p) == h[p].pc \in Working /\ h[p].call \in {"backup", "trash"}

NamesInv ==
    \A p \in Handlers : Moving(p) =>
        /\ h[p].to[3] < clock
        /\ \A q \in Handlers : Moving(q) /\ h[q].to = h[p].to => p = q

LossInv == DiskInv /\ NamesInv /\ NothingLost /\ \A p \in Handlers : MoveInv(h[p])

-----------------------------------------------------------------------------
\* What a delete knows of the files it has dealt with.

Done(l) == IF l.pc = "trashinfo" THEN l.i ELSE l.i - 1

ReplyInv(l) ==
    l.call # "restore" /\ l.pc # "idle" =>
        /\ \A j, k \in DOMAIN l.files : l.files[j] = l.files[k] => j = k
        /\ l.failed \subseteq {l.files[k] : k \in 1..Done(l)}
        /\ \A k \in 1..Done(l) :
              IF l.files[k] \in l.failed THEN Read(l.files[k]) = l.had[k]
              ELSE /\ ~Exists(l.files[k])
                   /\ l.call = "permanent"
                      \/ \E j \in DOMAIN l.moved : Read(l.moved[j]) = l.had[k]
        /\ l.pc \in Working => l.had[l.i] = Read(l.files[l.i])
        /\ l.call # "permanent" =>
              \A j \in DOMAIN l.moved :
                  /\ Exists(l.moved[j])
                  /\ l.pc \in Working => l.moved[j] # l.to

\* While nothing has failed, what was moved is parallel to the list.
ParallelInv(l) ==
    l.call = "backup" /\ l.failed = {} =>
        /\ Len(l.moved) = Done(l)
        /\ \A k \in 1..Done(l) : l.had[k] # Gone /\ Read(l.moved[k]) = l.had[k]
        /\ \A j, k \in DOMAIN l.moved : l.moved[j] = l.moved[k] => j = k

\* A manifest that is complete leads each file to a backup of its own.
CleanInv ==
    clean =>
        /\ manifest \in Seq(Mapping)
        /\ \A j, k \in DOMAIN manifest :
              manifest[j].source = manifest[k].source \/ manifest[j].backup = manifest[k].backup
                  => j = k
        /\ \A x \in batch : x[2] # Gone
        /\ \A x \in batch, k \in DOMAIN manifest :
              manifest[k].source = x[1] => Read(manifest[k].backup) \in {x[2], Gone}
        /\ Accounted

\* A restore from such a manifest has the content it is moving in its hands, unless
\* it is back at its path already and the restore did not see it there.
RestoreInv(l) ==
    l.pc # "idle" /\ clean =>
        /\ l.call = "restore" /\ l.mappings = manifest
        /\ l.pc \in Working =>
              /\ l.from = manifest[l.i].backup /\ l.to = manifest[l.i].source
              /\ \A x \in batch : x[1] = l.to => Read(l.from) \in {x[2], Gone}
              /\ l.pc \in {"create", "copy", "remove"} => Exists(l.from)

CallInv ==
    /\ CleanInv
    /\ \A p \in Handlers : \A l \in {h[p]} : ReplyInv(l) /\ ParallelInv(l) /\ RestoreInv(l)

-----------------------------------------------------------------------------
\* The local variables of requests.

\* The file the loop of l is at.
ItemOf(l) == IF l.call = "restore" THEN l.mappings[l.i].source ELSE l.files[l.i]

Failed(l) == [l EXCEPT !.pc = "next", !.i = @ + 1, !.failed = @ \cup {ItemOf(l)},
                       !.in = NoNode, !.out = NoNode]

Succeeded(l) ==
    [l EXCEPT !.pc = IF l.call = "trash" THEN "trashinfo" ELSE "next",
              !.i = IF l.call = "trash" THEN @ ELSE @ + 1,
              !.moved = Append(@, IF l.call = "permanent" THEN l.from ELSE l.to),
              !.in = NoNode, !.out = NoNode]

HandlersOK == /\ h \in [Handlers -> HandlerType]
              /\ \A p \in Handlers : HandlerOK(h[p], DOMAIN data)

\* More nodes do no harm to a request.
LEMMA HandlerStays ==
  ASSUME NEW l, NEW D, NEW D2, HandlerOK(l, D), D \subseteq D2
  PROVE  HandlerOK(l, D2)
BY DEF HandlerOK

\* A step of one request keeps the types of all.
LEMMA HandlersKept ==
  ASSUME HandlersOK, NEW p \in Handlers, NEW l, h' = [h EXCEPT ![p] = l],
         HandlerOK(l, DOMAIN data'), DOMAIN data \subseteq DOMAIN data'
  PROVE  HandlersOK'
<1>1. l \in HandlerType
  BY DEF HandlerOK
<1>2. /\ h' \in [Handlers -> HandlerType] /\ h'[p] = l
      /\ \A q \in Handlers \ {p} : h'[q] = h[q]
  BY <1>1 DEF HandlersOK
<1>3. \A q \in Handlers : HandlerOK(h'[q], DOMAIN data')
  BY <1>2, HandlerStays DEF HandlersOK
<1> QED
  BY <1>2, <1>3 DEF HandlersOK

\* The three ways an action updates them.
LEMMA Updates ==
  ASSUME HandlersOK, NEW p \in Handlers
  PROVE  /\ Fail(p) => h' = [h EXCEPT ![p] = Failed(h[p])]
         /\ Succeed(p) => h' = [h EXCEPT ![p] = Succeeded(h[p])]
         /\ \A x : Goto(p, x) => h' = [h EXCEPT ![p] = [h[p] EXCEPT !.pc = x]]
<1> USE DEF HandlersOK
<1>1. Fail(p) => h' = [h EXCEPT ![p] = Failed(h[p])]
  BY DEF Fail, Failed, Item, ItemOf, HandlerType
<1>2. Succeed(p) => h' = [h EXCEPT ![p] = Succeeded(h[p])]
  BY DEF Succeed, Succeeded, HandlerType
<1>3. \A x : Goto(p, x) => h' = [h EXCEPT ![p] = [h[p] EXCEPT !.pc = x]]
  BY DEF Goto
<1> QED
  BY <1>1, <1>2, <1>3

\* A request before it is made and after its reply.
LEMMA IdleType == \A D : HandlerOK(IdleHandler, D)
<1>1. IdleHandler \in HandlerType
  BY DEF IdleHandler, HandlerType, Calls
<1> QED
  BY <1>1 DEF HandlerOK, IdleHandler, Working

\* The lengths that bound the positions of a request.
LEMMA Lengths ==
  ASSUME NEW l \in HandlerType
  PROVE  /\ l.i \in Nat \ {0} /\ Asked(l) \in Nat
         /\ Len(l.files) \in Nat /\ DOMAIN l.files = 1..Len(l.files)
         /\ Len(l.mappings) \in Nat /\ DOMAIN l.mappings = 1..Len(l.mappings)
         /\ Len(l.moved) \in Nat /\ DOMAIN l.moved = 1..Len(l.moved)
         /\ Len(l.had) \in Nat /\ DOMAIN l.had = 1..Len(l.had)
         /\ \A k \in 1..Len(l.files) : l.files[k] \in Source
         /\ \A k \in 1..Len(l.mappings) : /\ l.mappings[k].source \in Source
                                          /\ l.mappings[k].backup \in Stored
         /\ \A k \in 1..Len(l.moved) : l.moved[k] \in Path
         /\ \A k \in 1..Len(l.had) : l.had[k] \in Content \cup {Gone}
<1>1. /\ l.i \in Nat \ {0} /\ l.files \in Seq(Source) /\ l.mappings \in Seq(Mapping)
      /\ l.moved \in Seq(Path) /\ l.had \in Seq(Content \cup {Gone})
  BY DEF HandlerType
<1>2. Asked(l) \in Nat
  BY <1>1 DEF Asked
<1>3. \A k \in 1..Len(l.mappings) : l.mappings[k] \in Mapping
  BY <1>1, ElementOfSeq
<1> QED
  BY <1>1, <1>2, <1>3, LenProperties, ElementOfSeq DEF Mapping

\* The loop goes on behind a file that failed.
LEMMA FailedOK ==
  ASSUME NEW D, NEW l, HandlerOK(l, D),
         \/ l.pc \in Working
         \/ l.pc = "next" /\ l.call = "restore" /\ l.i <= Len(l.mappings)
  PROVE  HandlerOK(Failed(l), D)
<1> DEFINE m == Failed(l)
<1>1. l \in HandlerType
  BY DEF HandlerOK
<1>2. ItemOf(l) \in Source
  BY <1>1, Lengths DEF HandlerOK, ItemOf, Asked
<1>3. /\ m.pc = "next" /\ m.i = l.i + 1 /\ m.call = l.call /\ m.files = l.files
      /\ m.mappings = l.mappings /\ m.moved = l.moved /\ m.had = l.had
      /\ m \in HandlerType
  <2>1. l.failed \cup {ItemOf(l)} \in SUBSET Source /\ l.i + 1 \in Nat \ {0}
    BY <1>1, <1>2 DEF HandlerType
  <2> QED
    BY <1>1, <2>1 DEF Failed, HandlerType
<1>4. l.i \in Nat /\ Asked(m) = l.i
  BY <1>1, <1>3, Lengths DEF Asked, Working
<1>5. l.call # "restore" => Asked(l) = l.i
  BY DEF Asked, Working
<1> HIDE DEF m
<1>6. m.call # "restore" => Len(m.had) = Asked(m) /\ Asked(m) <= Len(m.files)
  BY <1>3, <1>4, <1>5 DEF HandlerOK
<1>7. m.call \in {"backup", "trash"} => Len(m.moved) <= Asked(m) /\ m.moved \in Seq(Stored)
  BY <1>3, <1>4, <1>5 DEF HandlerOK
<1>8. HandlerOK(m, D)
  BY <1>3, <1>6, <1>7 DEF HandlerOK, Working
<1> QED
  BY <1>8 DEF m

\* The loop goes on behind a file that was moved.
LEMMA SucceededOK ==
  ASSUME NEW D, NEW l, HandlerOK(l, D), l.pc \in {"rename", "remove"}
  PROVE  HandlerOK(Succeeded(l), D)
<1> DEFINE m == Succeeded(l)
           e == IF l.call = "permanent" THEN l.from ELSE l.to
           pc == IF l.call = "trash" THEN "trashinfo" ELSE "next"
           i == IF l.call = "trash" THEN l.i ELSE l.i + 1
<1>1. l \in HandlerType /\ l.pc \in Working
  BY DEF HandlerOK, Working
<1>2. /\ e \in Path
      /\ l.call \in {"backup", "trash"} => e \in Stored
  <2>1. l.call = "restore" => l.to \in Source
    BY <1>1 DEF HandlerOK
  <2>2. l.call \in {"backup", "trash"} => l.to \in Stored
    BY <1>1 DEF HandlerOK
  <2>3. l.call = "permanent" => l.from \in Source
    BY <1>1, Lengths DEF HandlerOK, Asked
  <2>4. l.call \in {"restore", "backup", "trash", "permanent"}
    BY <1>1, BackupAssumption DEF HandlerType, Calls
  <2> QED
    BY <2>1, <2>2, <2>3, <2>4 DEF Path
<1>3. /\ Append(l.moved, e) \in Seq(Path) /\ Len(Append(l.moved, e)) = Len(l.moved) + 1
      /\ l.call \in {"backup", "trash"} => Append(l.moved, e) \in Seq(Stored)
  BY <1>1, <1>2, AppendProperties DEF HandlerOK, HandlerType
<1>4. l.i \in Nat \ {0} /\ Len(l.moved) \in Nat
  BY <1>1, Lengths
<1>5. /\ m.pc = pc /\ m.i = i
      /\ m.call = l.call /\ m.files = l.files /\ m.to = l.to
      /\ m.mappings = l.mappings /\ m.moved = Append(l.moved, e) /\ m.had = l.had
      /\ m \in HandlerType
  <2>1. m = [l EXCEPT !.pc = pc, !.i = i, !.moved = Append(l.moved, e),
                      !.in = NoNode, !.out = NoNode]
    BY <1>1 DEF Succeeded, HandlerType
  <2>2. pc \in {"trashinfo", "next"} /\ i \in Nat \ {0}
    BY <1>4
  <2> HIDE DEF m, e, pc, i
  <2> QED
    BY <1>1, <1>3, <2>1, <2>2 DEF HandlerType
<1>6. Asked(m) = l.i /\ Asked(l) = l.i
  BY <1>1, <1>4, <1>5 DEF Asked, Working
<1> HIDE DEF m, e
<1>7. m.call # "restore" => Len(m.had) = Asked(m) /\ Asked(m) <= Len(m.files)
  BY <1>5, <1>6 DEF HandlerOK
<1>8. m.call \in {"backup", "trash"} => Len(m.moved) <= Asked(m) /\ m.moved \in Seq(Stored)
  BY <1>1, <1>3, <1>4, <1>5, <1>6 DEF HandlerOK
<1>9. m.call \in {"backup", "trash"} => m.to \in Stored
  BY <1>1, <1>5 DEF HandlerOK
<1>10. HandlerOK(m, D)
  BY <1>5, <1>7, <1>8, <1>9 DEF HandlerOK, Working
<1> QED
  BY <1>10 DEF m

\* Another label for a request that is at work on a file.
Labelled(l, x, in, out) == [l EXCEPT !.pc = x, !.in = in, !.out = out]

\* A label of that kind keeps the types.
LEMMA LabelOK ==
  ASSUME NEW D, NEW l, HandlerOK(l, D), NEW x, NEW in, NEW out,
         x \in Working, l.pc \in Working, l.call = "permanent" => x = "remove",
         in \in Node \cup {NoNode}, out \in Node \cup {NoNode},
         x \in {"create", "copy"} => in \in D,
         x = "copy" => out \in D
  PROVE  HandlerOK(Labelled(l, x, in, out), D)
<1> DEFINE m == Labelled(l, x, in, out)
<1>1. l \in HandlerType
  BY DEF HandlerOK
<1>2. /\ m \in HandlerType /\ m.pc = x /\ m.in = in /\ m.out = out /\ m.i = l.i
      /\ m.call = l.call /\ m.files = l.files /\ m.mappings = l.mappings
      /\ m.moved = l.moved /\ m.had = l.had /\ m.from = l.from /\ m.to = l.to
  BY <1>1 DEF Labelled, HandlerType, Working
<1> HIDE DEF m
<1>3. Asked(m) = Asked(l)
  BY <1>2 DEF Asked
<1>4. HandlerOK(m, D)
  BY <1>2, <1>3 DEF HandlerOK, Working
<1> QED
  BY <1>4 DEF m

\* Where a request that is at work on a file takes it from and to.
LEMMA Ways ==
  ASSUME NEW D, NEW l, HandlerOK(l, D), l.pc \in Working
  PROVE  /\ l \in HandlerType /\ l.from \in Path /\ l.i \in Nat \ {0}
         /\ l.call = "restore" => /\ l.from \in Stored /\ l.to \in Source
                                  /\ l.i \in DOMAIN l.mappings
                                  /\ ItemOf(l) = l.mappings[l.i].source
         /\ l.call # "restore" => /\ l.from \in Source /\ l.i \in DOMAIN l.files
                                  /\ ItemOf(l) = l.files[l.i] /\ ItemOf(l) = l.from
                                  /\ Len(l.had) = l.i
         /\ l.call \in {"backup", "trash"} => l.to \in Stored
         /\ l.call # "permanent" => l.to \in Path
         /\ l.call \in {"restore", "backup", "trash", "permanent"}
         /\ l.call = "permanent" => l.pc = "remove"
         /\ ItemOf(l) \in Source
<1>1. l \in HandlerType /\ l.call \in {"restore", "backup", "trash", "permanent"}
  BY BackupAssumption DEF HandlerOK, HandlerType, Calls
<1>2. l.i \in Nat \ {0} /\ Asked(l) = l.i
  BY <1>1, Lengths DEF Asked
<1>3. l.call # "restore" => l.i \in DOMAIN l.files /\ l.files[l.i] \in Source
                            /\ Len(l.had) = l.i
  BY <1>1, <1>2, Lengths DEF HandlerOK
<1>4. l.call = "restore" => l.i \in DOMAIN l.mappings /\ l.mappings[l.i].source \in Source
  BY <1>1, <1>2, Lengths DEF HandlerOK
<1> QED
  BY <1>1, <1>2, <1>3, <1>4 DEF HandlerOK, ItemOf, Path

-----------------------------------------------------------------------------
\* The disk.

DataOK == /\ DOMAIN data \subseteq Node /\ \A n \in DOMAIN data : data[n] \in Content

DirOK == DOMAIN dir \subseteq Path /\ \A p \in DOMAIN dir : dir[p] \in DOMAIN data

\* A node that is new is not in use.
LEMMA FreshNode ==
  ASSUME NodesOK
  PROVE  NewNode \in Nat /\ NewNode \in Node /\ NewNode \notin DOMAIN data
<1>1. NewNode \in Nat
  BY FS_CardinalityType DEF NodesOK, NewNode
<1> QED
  BY <1>1 DEF NodesOK, Node

\* Writing a content to a node that is there, or to a new one.
LEMMA Written ==
  ASSUME NodesOK, DataOK, NEW n \in DOMAIN data \cup {NewNode}, NEW c \in Content,
         data' = WithData(n, c)
  PROVE  /\ NodesOK' /\ DataOK'
         /\ DOMAIN data' = DOMAIN data \cup {n} /\ data'[n] = c
         /\ \A m \in DOMAIN data \ {n} : data'[m] = data[m]
<1>1. /\ DOMAIN data' = DOMAIN data \cup {n} /\ data'[n] = c
      /\ \A m \in DOMAIN data \ {n} : data'[m] = data[m]
  BY DEF WithData
<1>2. NewNode \in Nat /\ NewNode \in Node /\ NewNode \notin DOMAIN data
  BY FreshNode
<1>3. DataOK'
  BY <1>1, <1>2 DEF DataOK
<1>4. NodesOK'
  <2>1. CASE n \in DOMAIN data
    BY <1>1, <2>1 DEF NodesOK, NewNode
  <2>2. CASE n = NewNode
    <3>1. IsFiniteSet(DOMAIN data) /\ Cardinality(DOMAIN data) = NewNode
      BY DEF NodesOK, NewNode
    <3>2. IsFiniteSet(DOMAIN data') /\ NewNode' = NewNode + 1
      BY <1>1, <1>2, <2>2, <3>1, FS_AddElement DEF NewNode
    <3>3. \A m \in (DOMAIN data') \cap Nat : m < NewNode'
      BY <1>1, <1>2, <2>2, <3>2 DEF NodesOK
    <3> QED
      BY <3>2, <3>3 DEF NodesOK
  <2> QED
    BY <2>1, <2>2
<1> QED
  BY <1>1, <1>3, <1>4

\* What a path holds.
LEMMA ReadType ==
  ASSUME DirOK, DataOK
  PROVE  \A q : /\ Read(q) \in Content \cup {Gone}
                /\ Exists(q) => Read(q) \in Content /\ Read(q) # Gone
                /\ ~Exists(q) => Read(q) = Gone
BY BackupAssumption DEF DirOK, DataOK, Read, Exists

-----------------------------------------------------------------------------
\* What every step keeps: the types.

RestOK ==
    /\ manifest \in Seq(Mapping) \cup {Absent, Torn}
    /\ trashinfo \subseteq Stored /\ clock \in Nat
    /\ calls \in Nat /\ faults \in Nat /\ kills \in Nat /\ edits \in Nat
    /\ givenUp \subseteq Content /\ overlooked \subseteq Content
    /\ \A x \in batch : x \in Source \X (Content \cup {Gone})
    /\ clean \in BOOLEAN

\* The invariant in its parts.
LEMMA TypeParts ==
  /\ TypeInv <=> DirOK /\ DataOK /\ NodesOK /\ RestOK /\ HandlersOK
  /\ TypeInv' <=> DirOK' /\ DataOK' /\ NodesOK' /\ RestOK' /\ HandlersOK'
BY DEF TypeInv, TypeOK, DirOK, DataOK, RestOK, HandlersOK

\* The counters of calls, failures, kills and edits.
LEMMA FaultType ==
  ASSUME RestOK
  PROVE  /\ Fault => faults' \in Nat
         /\ NoFault => faults' \in Nat
BY DEF RestOK, Fault, NoFault

\* Confirm keeps the types.
LEMMA ConfirmType ==
  ASSUME TypeInv, NEW p \in Handlers, NEW mode \in Modes, NEW b \in Batches, Confirm(p, mode, b)
  PROVE  TypeInv'
<1> USE TypeParts
<1> DEFINE l == [IdleHandler EXCEPT !.pc = "next", !.call = mode, !.files = b]
<1>1. /\ l \in HandlerType /\ l.pc = "next" /\ l.call = mode /\ l.files = b /\ l.had = <<>>
      /\ l.moved = <<>> /\ l.i = 1
  <2>1. IdleHandler \in HandlerType
    BY IdleType DEF HandlerOK
  <2>2. mode \in Calls /\ b \in Seq(Source)
    BY BackupAssumption DEF Calls
  <2>3. l \in HandlerType
    BY <2>1, <2>2 DEF HandlerType
  <2> QED
    BY <2>3 DEF IdleHandler
<1>2. Len(l.had) = 0 /\ Len(l.moved) = 0 /\ Len(l.files) \in Nat /\ Asked(l) = 0
  BY <1>1, Lengths DEF Asked, Working
<1>3. l.moved \in Seq(Stored)
  BY <1>1, EmptySeq
<1>4. h' = [h EXCEPT ![p] = l] /\ UNCHANGED data
  BY DEF Confirm, disk
<1> HIDE DEF l
<1>5. HandlerOK(l, DOMAIN data)
  BY <1>1, <1>2, <1>3 DEF HandlerOK, Working
<1>6. HandlersOK'
  BY <1>4, <1>5, HandlersKept
<1>7. DirOK' /\ DataOK' /\ NodesOK'
  BY DEF Confirm, disk, DirOK, DataOK, NodesOK, NewNode
<1>8. RestOK'
  <2>1. batch' = {} /\ clean' = FALSE /\ calls' = calls + 1
        /\ UNCHANGED <<manifest, trashinfo, clock, faults, kills, edits, givenUp,
                       overlooked>>
    BY DEF Confirm
  <2>2. RestOK /\ clean' \in BOOLEAN /\ \A x \in batch' : x \in Source \X (Content \cup {Gone})
    BY <2>1
  <2> QED
    BY <2>1, <2>2 DEF RestOK
<1> QED
  BY <1>6, <1>7, <1>8

\* Restore keeps the types.
LEMMA RestoreType ==
  ASSUME TypeInv, NEW p \in Handlers, Restore(p)
  PROVE  TypeInv'
<1> USE TypeParts
<1> DEFINE l == [IdleHandler EXCEPT !.pc = "next", !.call = "restore", !.mappings = manifest]
<1>1. /\ l \in HandlerType /\ l.pc = "next" /\ l.call = "restore"
  <2>1. IdleHandler \in HandlerType
    BY IdleType DEF HandlerOK
  <2>2. manifest \in Seq(Mapping) /\ "restore" \in Calls
    BY DEF Restore, RestOK, Calls
  <2> QED
    BY <2>1, <2>2 DEF HandlerType
<1>2. h' = [h EXCEPT ![p] = l] /\ UNCHANGED data
  BY DEF Restore, disk
<1> HIDE DEF l
<1>3. HandlerOK(l, DOMAIN data)
  BY <1>1 DEF HandlerOK, Working
<1>4. HandlersOK'
  BY <1>2, <1>3, HandlersKept
<1>5. RestOK' /\ DirOK' /\ DataOK' /\ NodesOK'
  BY DEF Restore, disk, history, RestOK, DirOK, DataOK, NodesOK, NewNode
<1> QED
  BY <1>4, <1>5

\* NextFile keeps the types: there is a file left, and its backup name is one.
LEMMA NextFileType ==
  ASSUME TypeInv, NEW p \in Handlers, NextFile(p)
  PROVE  TypeInv'
<1> USE TypeParts
<1> DEFINE l == h[p]
           src == l.files[l.i]
           to == <<IF l.call = "trash" THEN "trash" ELSE "backup", Base[src], clock>>
           x == IF l.call = "permanent" THEN "remove" ELSE "rename"
           m == [l EXCEPT !.from = src, !.had = Append(@, Read(src)), !.to = to, !.pc = x]
<1>1. HandlerOK(l, DOMAIN data) /\ l \in HandlerType
  BY DEF HandlersOK
<1>2. l.pc = "next" /\ l.call # "restore" /\ l.i <= Len(l.files) /\ l.i \in Nat \ {0}
  BY <1>1, Lengths DEF NextFile
<1>3. src \in Source /\ Read(src) \in Content \cup {Gone}
  BY <1>1, <1>2, Lengths, ReadType
<1>4. to \in Stored
  BY <1>3 DEF Stored, Bases, RestOK
<1>5. x \in {"remove", "rename"} /\ (l.call = "permanent" => x = "remove")
  OBVIOUS
<1>6. /\ Append(l.had, Read(src)) \in Seq(Content \cup {Gone})
      /\ Len(Append(l.had, Read(src))) = Len(l.had) + 1
      /\ Append(l.had, Read(src))[Len(l.had) + 1] = Read(src)
  BY <1>1, <1>3, AppendProperties DEF HandlerType
<1>7. h' = [h EXCEPT ![p] = m]
  BY <1>1 DEF NextFile, Unique, HandlerType
<1>8. Asked(l) = l.i - 1 /\ Len(l.had) = l.i - 1
  BY <1>1, <1>2 DEF HandlerOK, Asked, Working
<1> HIDE DEF l, src, to, x
<1>9. /\ m \in HandlerType /\ m.pc = x /\ m.call = l.call /\ m.files = l.files
      /\ m.i = l.i /\ m.from = src /\ m.to = to /\ m.moved = l.moved
      /\ m.had = Append(l.had, Read(src)) /\ m.mappings = l.mappings
  BY <1>1, <1>3, <1>4, <1>5, <1>6 DEF HandlerType, Path
<1> HIDE DEF m
<1>10. Asked(m) = m.i
  BY <1>5, <1>9 DEF Asked, Working
<1>11. Len(m.had) = m.i /\ m.i <= Len(m.files) /\ m.had[m.i] = Read(src)
  BY <1>2, <1>6, <1>8, <1>9
<1>12. m.call \in {"backup", "trash"} =>
          Len(m.moved) < m.i /\ m.moved \in Seq(Stored) /\ m.to \in Stored
  BY <1>1, <1>2, <1>4, <1>8, <1>9, Lengths DEF HandlerOK
<1>13. m.from = m.files[m.i]
  BY <1>9 DEF src
<1>14. HandlerOK(m, DOMAIN data)
  BY <1>2, <1>3, <1>5, <1>9, <1>10, <1>11, <1>12, <1>13, Lengths DEF HandlerOK, Working
<1>15. HandlersOK'
  BY <1>7, <1>14, HandlersKept DEF NextFile, disk
<1>16. RestOK' /\ DirOK' /\ DataOK' /\ NodesOK'
  BY DEF NextFile, disk, bounds, history, RestOK, DirOK, DataOK, NodesOK, NewNode
<1> QED
  BY <1>15, <1>16

\* NextMapping keeps the types.
LEMMA NextMappingType ==
  ASSUME TypeInv, NEW p \in Handlers, NextMapping(p)
  PROVE  TypeInv'
<1> USE TypeParts
<1> DEFINE l == h[p]
           m == [l EXCEPT !.pc = "rename", !.from = l.mappings[l.i].backup,
                          !.to = l.mappings[l.i].source]
<1>1. HandlerOK(l, DOMAIN data) /\ l \in HandlerType
  BY DEF HandlersOK
<1>2. l.pc = "next" /\ l.call = "restore" /\ l.i <= Len(l.mappings) /\ l.i \in Nat \ {0}
  BY <1>1, Lengths DEF NextMapping
<1>3. l.mappings[l.i].backup \in Stored /\ l.mappings[l.i].source \in Source
  BY <1>1, <1>2, Lengths
<1>4. /\ m \in HandlerType /\ m.pc = "rename" /\ m.call = "restore" /\ m.i = l.i
      /\ m.mappings = l.mappings /\ m.from \in Stored /\ m.to \in Source
  BY <1>1, <1>2, <1>3 DEF HandlerType, Path
<1>5. h' = [h EXCEPT ![p] = Failed(l)] \/ h' = [h EXCEPT ![p] = m]
  <2>1. CASE Fail(p)
    BY <2>1, Updates
  <2>2. CASE ~Fail(p)
    BY <1>1, <2>2 DEF NextMapping, HandlerType
  <2> QED
    BY <2>1, <2>2
<1> HIDE DEF m
<1>6. HandlerOK(m, DOMAIN data)
  BY <1>2, <1>4 DEF HandlerOK, Working
<1>7. HandlerOK(Failed(l), DOMAIN data)
  BY <1>1, <1>2, FailedOK
<1>8. HandlersOK'
  BY <1>5, <1>6, <1>7, HandlersKept DEF NextMapping, disk
<1>9. DirOK' /\ DataOK' /\ NodesOK'
  BY DEF NextMapping, disk, DirOK, DataOK, NodesOK, NewNode
<1>10. overlooked' \subseteq Content
  BY ReadType DEF NextMapping, RestOK
<1>11. RestOK'
  BY <1>10, FaultType DEF NextMapping, RestOK
<1> QED
  BY <1>8, <1>9, <1>11

\* RenameOk keeps the types.
LEMMA RenameOkType ==
  ASSUME TypeInv, NEW p \in Handlers, RenameOk(p)
  PROVE  TypeInv'
<1> USE TypeParts
<1> DEFINE l == h[p]
<1>1. HandlerOK(l, DOMAIN data) /\ l.pc = "rename" /\ l.pc \in Working
  BY DEF HandlersOK, RenameOk, Working
<1>2. l.from \in DOMAIN dir /\ l.to \in Path
  BY <1>1, Ways DEF RenameOk, Exists
<1>3. h' = [h EXCEPT ![p] = Succeeded(l)] /\ HandlerOK(Succeeded(l), DOMAIN data)
  BY <1>1, Updates, SucceededOK DEF RenameOk
<1>4. HandlersOK'
  BY <1>3, HandlersKept DEF RenameOk
<1>5. DirOK'
  BY <1>2 DEF RenameOk, Renamed, DirOK
<1>6. RestOK' /\ DataOK' /\ NodesOK'
  BY DEF RenameOk, bounds, history, RestOK, DataOK, NodesOK, NewNode
<1> QED
  BY <1>4, <1>5, <1>6

\* RenameFails keeps the types.
LEMMA RenameFailsType ==
  ASSUME TypeInv, NEW p \in Handlers, RenameFails(p)
  PROVE  TypeInv'
<1> USE TypeParts
<1> DEFINE l == h[p]
<1>1. HandlerOK(l, DOMAIN data) /\ l.pc = "rename" /\ l.pc \in Working
  BY DEF HandlersOK, RenameFails, Working
<1>2. l \in HandlerType /\ l.call # "permanent"
  BY <1>1, Ways
<1>3. HandlerOK(Labelled(l, "open", l.in, l.out), DOMAIN data)
  <2>1. l.in \in Node \cup {NoNode} /\ l.out \in Node \cup {NoNode}
    BY <1>2 DEF HandlerType
  <2> QED
    BY <1>1, <1>2, <2>1, LabelOK DEF Working
<1>4. Labelled(l, "open", l.in, l.out) = [l EXCEPT !.pc = "open"]
  BY <1>2 DEF Labelled, HandlerType
<1>5. h' = [h EXCEPT ![p] = [l EXCEPT !.pc = "open"]]
  BY Updates DEF RenameFails
<1>6. HandlersOK'
  BY <1>3, <1>4, <1>5, HandlersKept DEF RenameFails, disk
<1>7. DirOK' /\ DataOK' /\ NodesOK'
  BY DEF RenameFails, disk, DirOK, DataOK, NodesOK, NewNode
<1>8. RestOK'
  BY FaultType DEF RenameFails, history, RestOK
<1> QED
  BY <1>6, <1>7, <1>8

\* Open keeps the types.
LEMMA OpenType ==
  ASSUME TypeInv, NEW p \in Handlers, Open(p)
  PROVE  TypeInv'
<1> USE TypeParts
<1> DEFINE l == h[p]
           m == Labelled(l, "create", dir[l.from], l.out)
<1>1. HandlerOK(l, DOMAIN data) /\ l.pc = "open" /\ l.pc \in Working
  BY DEF HandlersOK, Open, Working
<1>2. l \in HandlerType /\ l.call # "permanent" /\ l.out \in Node \cup {NoNode}
  BY <1>1, Ways DEF HandlerType
<1>3. HandlerOK(Failed(l), DOMAIN data)
  BY <1>1, FailedOK
<1>4. Exists(l.from) => HandlerOK(m, DOMAIN data)
  <2>1. Exists(l.from) => dir[l.from] \in DOMAIN data /\ dir[l.from] \in Node
    BY DEF DirOK, DataOK, Exists
  <2> QED
    BY <1>1, <1>2, <2>1, LabelOK DEF Working
<1>5. m = [l EXCEPT !.pc = "create", !.in = dir[l.from]]
  BY <1>2 DEF Labelled, HandlerType
<1>6. h' = [h EXCEPT ![p] = Failed(l)] \/ (Exists(l.from) /\ h' = [h EXCEPT ![p] = m])
  <2>1. CASE Fail(p)
    BY <2>1, Updates
  <2>2. CASE ~Fail(p)
    <3>1. Exists(l.from) /\ h' = [h EXCEPT ![p] = [l EXCEPT !.pc = "create", !.in = dir[l.from]]]
      BY <2>2, <1>2 DEF Open, HandlersOK, HandlerType
    <3> QED
      BY <3>1, <1>5
  <2> QED
    BY <2>1, <2>2
<1> HIDE DEF m
<1>7. HandlersOK'
  BY <1>3, <1>4, <1>6, HandlersKept DEF Open, disk
<1>8. DirOK' /\ DataOK' /\ NodesOK'
  BY DEF Open, disk, DirOK, DataOK, NodesOK, NewNode
<1>9. RestOK'
  BY FaultType DEF Open, history, RestOK
<1> QED
  BY <1>7, <1>8, <1>9

\* Create keeps the types.
LEMMA CreateType ==
  ASSUME TypeInv, NEW p \in Handlers, Create(p)
  PROVE  TypeInv'
<1> USE TypeParts
<1> DEFINE l == h[p]
           n == IF Exists(l.to) THEN dir[l.to] ELSE NewNode
           m == Labelled(l, "copy", l.in, n)
<1>1. HandlerOK(l, DOMAIN data) /\ l.pc = "create" /\ l.pc \in Working
  BY DEF HandlersOK, Create, Working
<1>2. /\ l \in HandlerType /\ l.call # "permanent" /\ l.to \in Path
      /\ l.in \in Node \cup {NoNode} /\ l.in \in DOMAIN data
  BY <1>1, Ways DEF HandlerType, HandlerOK
<1>3. n \in DOMAIN data \cup {NewNode} /\ n \in Node
  BY FreshNode DEF DirOK, DataOK, Exists
<1>4. RestOK'
  BY FaultType DEF Create, history, RestOK
<1>5. CASE Fail(p) /\ UNCHANGED disk
  <2>1. h' = [h EXCEPT ![p] = Failed(l)] /\ HandlerOK(Failed(l), DOMAIN data)
    BY <1>1, <1>5, Updates, FailedOK
  <2>2. HandlersOK'
    BY <1>5, <2>1, HandlersKept DEF disk
  <2>3. DirOK' /\ DataOK' /\ NodesOK'
    BY <1>5 DEF disk, DirOK, DataOK, NodesOK, NewNode
  <2> QED
    BY <1>4, <2>2, <2>3
<1>6. CASE ~(Fail(p) /\ UNCHANGED disk)
  <2>1. /\ dir' = Linked(l.to, n) /\ data' = WithData(n, Torn)
        /\ h' = [h EXCEPT ![p].pc = "copy", ![p].out = n]
    BY <1>6 DEF Create
  <2> HIDE DEF n
  <2>2. h' = [h EXCEPT ![p] = m]
    <3>1. m = [l EXCEPT !.pc = "copy", !.out = n]
      BY <1>2 DEF Labelled, HandlerType
    <3> HIDE DEF m
    <3>2. h' = [h EXCEPT ![p] = [l EXCEPT !.pc = "copy", !.out = n]]
      BY <2>1 DEF HandlersOK, HandlerType
    <3> QED
      BY <3>1, <3>2
  <2>3. NodesOK' /\ DataOK' /\ DOMAIN data' = DOMAIN data \cup {n}
    BY <1>3, <2>1, Written DEF Content
  <2>4. HandlerOK(m, DOMAIN data')
    <3>1. HandlerOK(l, DOMAIN data')
      BY <1>1, <2>3, HandlerStays
    <3> QED
      BY <1>1, <1>2, <1>3, <2>3, <3>1, LabelOK DEF Working
  <2> HIDE DEF m
  <2>5. HandlersOK'
    BY <2>2, <2>3, <2>4, HandlersKept
  <2>6. DirOK'
    BY <1>2, <2>1, <2>3 DEF Linked, DirOK
  <2> QED
    BY <1>4, <2>3, <2>5, <2>6
<1> QED
  BY <1>5, <1>6

\* Copy keeps the types.
LEMMA CopyType ==
  ASSUME TypeInv, NEW p \in Handlers, Copy(p)
  PROVE  TypeInv'
<1> USE TypeParts
<1> DEFINE l == h[p]
           m == Labelled(l, "remove", l.in, l.out)
<1>1. HandlerOK(l, DOMAIN data) /\ l.pc = "copy" /\ l.pc \in Working
  BY DEF HandlersOK, Copy, Working
<1>2. /\ l \in HandlerType /\ l.call # "permanent"
      /\ l.in \in Node \cup {NoNode} /\ l.out \in Node \cup {NoNode}
      /\ l.in \in DOMAIN data /\ l.out \in DOMAIN data
  BY <1>1, Ways DEF HandlerType, HandlerOK
<1>3. NodesOK' /\ DataOK' /\ DOMAIN data' = DOMAIN data
  <2>1. CASE UNCHANGED data
    BY <2>1 DEF NodesOK, DataOK, NewNode
  <2>2. CASE data' = WithData(l.out, data[l.in])
    BY <1>2, <2>2, Written DEF DataOK
  <2> QED
    BY <2>1, <2>2 DEF Copy
<1>4. DirOK' /\ RestOK'
  BY <1>3, FaultType DEF Copy, history, RestOK, DirOK
<1>5. HandlerOK(Failed(l), DOMAIN data) /\ HandlerOK(m, DOMAIN data)
  BY <1>1, <1>2, FailedOK, LabelOK DEF Working
<1>6. m = [l EXCEPT !.pc = "remove"]
  BY <1>2 DEF Labelled, HandlerType
<1> HIDE DEF m
<1>7. h' = [h EXCEPT ![p] = Failed(l)] \/ h' = [h EXCEPT ![p] = m]
  BY <1>6, Updates DEF Copy
<1>8. HandlersOK'
  BY <1>3, <1>5, <1>7, HandlersKept
<1> QED
  BY <1>3, <1>4, <1>8

\* Remove keeps the types.
LEMMA RemoveType ==
  ASSUME TypeInv, NEW p \in Handlers, Remove(p)
  PROVE  TypeInv'
<1> USE TypeParts
<1> DEFINE l == h[p]
<1>1. HandlerOK(l, DOMAIN data) /\ l.pc = "remove" /\ l.pc \in Working
  BY DEF HandlersOK, Remove, Working
<1>2. HandlerOK(Failed(l), DOMAIN data) /\ HandlerOK(Succeeded(l), DOMAIN data)
  BY <1>1, FailedOK, SucceededOK
<1>3. h' = [h EXCEPT ![p] = Failed(l)] \/ h' = [h EXCEPT ![p] = Succeeded(l)]
  BY Updates DEF Remove
<1>4. HandlersOK'
  BY <1>2, <1>3, HandlersKept DEF Remove
<1>5. DirOK' /\ DataOK' /\ NodesOK'
  BY DEF Remove, Unlinked, DirOK, DataOK, NodesOK, NewNode
<1>6. givenUp' \subseteq Content
  BY ReadType DEF Remove, RestOK
<1>7. RestOK'
  BY <1>6, FaultType DEF Remove, RestOK
<1> QED
  BY <1>4, <1>5, <1>7

\* WriteTrashInfo keeps the types.
LEMMA WriteTrashInfoType ==
  ASSUME TypeInv, NEW p \in Handlers, WriteTrashInfo(p)
  PROVE  TypeInv'
<1> USE TypeParts
<1> DEFINE l == h[p]
           m == [l EXCEPT !.pc = "next", !.i = @ + 1]
<1>1. HandlerOK(l, DOMAIN data) /\ l.pc = "trashinfo" /\ l.call = "trash" /\ l \in HandlerType
  BY DEF HandlersOK, WriteTrashInfo, HandlerOK
<1>2. l.to \in Stored /\ l.i \in Nat \ {0}
  BY <1>1 DEF HandlerOK, HandlerType
<1>3. /\ m \in HandlerType /\ m.pc = "next" /\ m.call = "trash" /\ m.i = l.i + 1
      /\ m.files = l.files /\ m.had = l.had /\ m.moved = l.moved
  <2>1. l.i + 1 \in Nat \ {0}
    BY <1>2
  <2> QED
    BY <1>1, <2>1 DEF HandlerType
<1>4. h' = [h EXCEPT ![p] = m]
  BY <1>1 DEF WriteTrashInfo, HandlerType, HandlersOK
<1> HIDE DEF m
<1>5. Asked(m) = l.i /\ Asked(l) = l.i
  BY <1>1, <1>2, <1>3 DEF Asked, Working
<1>6. HandlerOK(m, DOMAIN data)
  BY <1>1, <1>3, <1>5 DEF HandlerOK, Working
<1>7. HandlersOK'
  BY <1>4, <1>6, HandlersKept DEF WriteTrashInfo, disk
<1>8. DirOK' /\ DataOK' /\ NodesOK'
  BY DEF WriteTrashInfo, disk, DirOK, DataOK, NodesOK, NewNode
<1>9. trashinfo' \subseteq Stored
  BY <1>2 DEF WriteTrashInfo, RestOK
<1>10. RestOK'
  BY <1>9, FaultType DEF WriteTrashInfo, history, RestOK
<1> QED
  BY <1>7, <1>8, <1>10

\* A request is over.
LEMMA ReplyType ==
  ASSUME HandlersOK, NEW p \in Handlers, h' = [h EXCEPT ![p] = IdleHandler], UNCHANGED data
  PROVE  HandlersOK'
BY IdleType, HandlersKept

\* EndLoop keeps the types.
LEMMA EndLoopType ==
  ASSUME TypeInv, NEW p \in Handlers, EndLoop(p)
  PROVE  TypeInv'
<1> USE TypeParts
<1> DEFINE l == h[p]
           m == [l EXCEPT !.pc = "truncate"]
<1>1. HandlerOK(l, DOMAIN data) /\ l.pc = "next" /\ l \in HandlerType
  BY DEF HandlersOK, EndLoop, HandlerOK
<1>2. DirOK' /\ DataOK' /\ NodesOK' /\ RestOK' /\ UNCHANGED data
  BY DEF EndLoop, disk, bounds, history, DirOK, DataOK, NodesOK, NewNode, RestOK
<1>3. CASE l.call = "backup"
  <2>1. /\ m \in HandlerType /\ m.pc = "truncate" /\ m.call = "backup" /\ m.i = l.i
        /\ m.files = l.files /\ m.had = l.had /\ m.moved = l.moved
    BY <1>1, <1>3 DEF HandlerType
  <2>2. h' = [h EXCEPT ![p] = m]
    BY <1>3, Updates DEF EndLoop
  <2> HIDE DEF m
  <2>3. Asked(m) = l.i - 1 /\ Asked(l) = l.i - 1 /\ l.i \in Nat /\ Len(l.files) \in Nat
    BY <1>1, <2>1, Lengths DEF Asked, Working
  <2>4. l.i = Len(l.files) + 1
    BY <1>1, <1>3, <2>3 DEF EndLoop, HandlerOK
  <2>5. HandlerOK(m, DOMAIN data)
    BY <1>1, <1>3, <2>1, <2>3, <2>4 DEF HandlerOK, Working
  <2>6. HandlersOK'
    BY <1>2, <2>2, <2>5, HandlersKept
  <2> QED
    BY <1>2, <2>6
<1>4. CASE l.call # "backup"
  BY <1>2, <1>4, ReplyType DEF EndLoop
<1> QED
  BY <1>3, <1>4

\* TruncateManifest keeps the types.
LEMMA TruncateManifestType ==
  ASSUME TypeInv, NEW p \in Handlers, TruncateManifest(p)
  PROVE  TypeInv'
<1> USE TypeParts
<1> DEFINE l == h[p]
           m == [l EXCEPT !.pc = "write"]
<1>1. HandlerOK(l, DOMAIN data) /\ l.pc = "truncate" /\ l \in HandlerType
  BY DEF HandlersOK, TruncateManifest, HandlerOK
<1>2. DirOK' /\ DataOK' /\ NodesOK' /\ UNCHANGED data
  BY DEF TruncateManifest, disk, DirOK, DataOK, NodesOK, NewNode
<1>3. RestOK'
  BY FaultType DEF TruncateManifest, history, RestOK
<1>4. HandlerOK(m, DOMAIN data)
  <2>1. /\ m \in HandlerType /\ m.pc = "write" /\ m.call = l.call /\ m.i = l.i
        /\ m.files = l.files /\ m.had = l.had /\ m.moved = l.moved
    BY <1>1 DEF HandlerType
  <2> HIDE DEF m
  <2>2. Asked(m) = Asked(l)
    BY <1>1, <2>1 DEF Asked, Working
  <2> QED
    BY <1>1, <2>1, <2>2 DEF HandlerOK, Working
<1>5. HandlersOK'
  <2>1. CASE Goto(p, "write")
    BY <1>2, <1>4, <2>1, Updates, HandlersKept
  <2>2. CASE h' = [h EXCEPT ![p] = IdleHandler]
    BY <1>2, <2>2, ReplyType
  <2> QED
    BY <2>1, <2>2 DEF TruncateManifest
<1> QED
  BY <1>2, <1>3, <1>5

\* The manifest pairs each file that was moved with one that was asked for.
LEMMA MappingsType ==
  ASSUME NEW D, NEW p \in Handlers, HandlerOK(h[p], D), h[p].call = "backup"
  PROVE  /\ Mappings(p) \in Seq(Mapping)
         /\ Len(Mappings(p)) = Len(h[p].moved)
         /\ \A k \in 1..Len(h[p].moved) : /\ k \in DOMAIN h[p].files
                                          /\ Mappings(p)[k].source = h[p].files[k]
                                          /\ Mappings(p)[k].backup = h[p].moved[k]
<1> DEFINE l == h[p]
<1>1. l \in HandlerType
  BY DEF HandlerOK
<1>2. Len(l.moved) \in Nat /\ DOMAIN l.moved = 1..Len(l.moved)
  BY <1>1, Lengths
<1>3. Len(l.moved) <= Len(l.files) /\ l.moved \in Seq(Stored) /\ l.files \in Seq(Source)
  BY <1>1, Lengths DEF HandlerOK, HandlerType
<1>4. \A k \in 1..Len(l.moved) : l.files[k] \in Source /\ l.moved[k] \in Stored
                                 /\ k \in DOMAIN l.files
  BY <1>2, <1>3, ElementOfSeq, LenProperties
<1>5. Mappings(p) \in [1..Len(l.moved) -> Mapping]
  BY <1>2, <1>4 DEF Mappings, Mapping
<1>6. Mappings(p) \in Seq(Mapping) /\ Len(Mappings(p)) = Len(l.moved)
  BY <1>2, <1>5, SeqDef, LenProperties
<1> QED
  BY <1>2, <1>4, <1>6 DEF Mappings

\* WriteManifest keeps the types.
LEMMA WriteManifestType ==
  ASSUME TypeInv, NEW p \in Handlers, WriteManifest(p)
  PROVE  TypeInv'
<1> USE TypeParts
<1> DEFINE l == h[p]
<1>1. HandlerOK(l, DOMAIN data) /\ l.pc = "write" /\ l \in HandlerType
  BY DEF HandlersOK, WriteManifest, HandlerOK
<1>2. /\ l.call = "backup" /\ Len(l.had) = Len(l.files)
      /\ Len(l.files) \in Nat /\ DOMAIN l.files = 1..Len(l.files)
      /\ DOMAIN l.had = 1..Len(l.had)
  BY <1>1, Lengths DEF HandlerOK, Asked, Working
<1>3. \A k \in DOMAIN l.files : l.files[k] \in Source /\ l.had[k] \in Content \cup {Gone}
  BY <1>1, <1>2, Lengths
<1>4. \A x \in batch' : x \in Source \X (Content \cup {Gone})
  BY <1>3 DEF WriteManifest
<1>5. manifest' \in Seq(Mapping) \cup {Absent, Torn} /\ faults' \in Nat
  BY <1>1, <1>2, MappingsType, FaultType DEF WriteManifest
<1>6. clean' \in BOOLEAN
  BY DEF WriteManifest
<1>7. UNCHANGED <<trashinfo, clock, calls, kills, edits, givenUp, overlooked>>
  BY DEF WriteManifest
<1>8. RestOK'
  BY <1>4, <1>5, <1>6, <1>7 DEF RestOK
<1>9. DirOK' /\ DataOK' /\ NodesOK' /\ UNCHANGED data
  BY DEF WriteManifest, disk, DirOK, DataOK, NodesOK, NewNode
<1>10. HandlersOK'
  BY <1>9, ReplyType DEF WriteManifest
<1> QED
  BY <1>8, <1>9, <1>10

\* Other programs keep the types.
LEMMA EditType ==
  ASSUME TypeInv, NEW s \in Source, Appear(s) \/ Vanish(s)
  PROVE  TypeInv'
<1> USE TypeParts
<1>1. CASE Appear(s)
  <2>1. NewNode \in Nat /\ Foreign \in Content /\ data' = WithData(NewNode, Foreign)
    BY <1>1, FreshNode DEF Content, Appear
  <2>2. NodesOK' /\ DataOK' /\ DOMAIN data' = DOMAIN data \cup {NewNode}
    BY <2>1, Written
  <2>3. DirOK'
    BY <1>1, <2>2 DEF Appear, Linked, DirOK, Path
  <2>4. HandlersOK'
    BY <1>1, <2>2, HandlerStays DEF Appear, Edit, HandlersOK
  <2>5. RestOK'
    BY <1>1 DEF Appear, Edit, history, RestOK
  <2> QED
    BY <2>2, <2>3, <2>4, <2>5
<1>2. CASE Vanish(s)
  <2>1. NodesOK' /\ DataOK' /\ DirOK'
    BY <1>2 DEF Vanish, Unlinked, NodesOK, DataOK, DirOK, NewNode
  <2>2. HandlersOK'
    BY <1>2 DEF Vanish, Edit, HandlersOK
  <2>3. givenUp' \subseteq Content /\ \A x \in batch' : x \in Source \X (Content \cup {Gone})
    BY <1>2, ReadType DEF Vanish, RestOK
  <2>4. RestOK'
    BY <1>2, <2>3 DEF Vanish, Edit, RestOK
  <2> QED
    BY <2>1, <2>2, <2>4
<1> QED
  BY <1>1, <1>2

\* Being killed and started again keeps the types.
LEMMA KillType ==
  ASSUME TypeInv, Kill
  PROVE  TypeInv'
<1> USE TypeParts
<1>1. HandlersOK'
  <2>1. \A D : IdleHandler \in HandlerType /\ HandlerOK(IdleHandler, D)
    BY IdleType DEF HandlerOK
  <2> QED
    BY <2>1 DEF Kill, HandlersOK
<1>2. DirOK' /\ DataOK' /\ NodesOK' /\ RestOK'
  BY DEF Kill, disk, history, DirOK, DataOK, NodesOK, NewNode, RestOK
<1> QED
  BY <1>1, <1>2

-----------------------------------------------------------------------------
\* The types hold when the server is started for the first time.
LEMMA InitType == Init => TypeInv
<1> SUFFICES ASSUME Init
             PROVE  TypeInv
  OBVIOUS
<1> USE TypeParts
<1>1. DataOK /\ DirOK
  BY DEF Init, DataOK, DirOK, Node, Content, Path
<1>2. NodesOK
  BY BackupAssumption DEF Init, NodesOK
<1>3. HandlersOK
  <2>1. \A D : IdleHandler \in HandlerType /\ HandlerOK(IdleHandler, D)
    BY IdleType DEF HandlerOK
  <2> QED
    BY <2>1 DEF Init, HandlersOK
<1>4. RestOK
  BY DEF Init, RestOK
<1> QED
  BY <1>1, <1>2, <1>3, <1>4

\* Every step keeps the types.
LEMMA NextType ==
  ASSUME TypeInv, [Next]_vars
  PROVE  TypeInv'
<1>1. CASE UNCHANGED vars
  BY <1>1 DEF vars, disk, bounds, history, TypeInv, TypeOK, NodesOK, NewNode
<1>2. CASE Kill
  BY <1>2, KillType
<1>3. CASE \E s \in Source : Appear(s) \/ Vanish(s)
  BY <1>3, EditType
<1>4. ASSUME NEW p \in Handlers, Handler(p)
      PROVE  TypeInv'
  BY <1>4, ConfirmType, RestoreType, NextFileType, NextMappingType, RenameOkType,
     RenameFailsType, OpenType, CreateType, CopyType, RemoveType, WriteTrashInfoType,
     EndLoopType, TruncateManifestType, WriteManifestType DEF Handler
<1> QED
  BY <1>1, <1>2, <1>3, <1>4 DEF Next

\* The types, and what each request knows about its lists.
THEOREM TypeInvariant == Spec => []TypeInv
BY InitType, NextType, PTL DEF Spec

\* The types of all variables, whatever fails and however many requests run.
THEOREM TypeCorrect == Spec => []TypeOK
<1>1. TypeInv => TypeOK
  BY DEF TypeInv
<1> QED
  BY <1>1, TypeInvariant, PTL

-----------------------------------------------------------------------------
\* What the steps do to the disk.

\* The step leaves path r alone.
Same(r) == /\ Exists(r)' <=> Exists(r)
           /\ Read(r)' = Read(r)
           /\ Exists(r) => dir'[r] = dir[r]

\* A disk that does not change.
LEMMA DiskStays ==
  ASSUME UNCHANGED disk
  PROVE  /\ \A r : Same(r)
         /\ DiskInv /\ clock' = clock => DiskInv'
BY DEF disk, Same, Exists, Read, DiskInv

\* A rename carries the content from one name to the other.
LEMMA RenamedDisk ==
  ASSUME NEW from, NEW to, Exists(from), from # to, dir' = Renamed(from, to),
         UNCHANGED data
  PROVE  /\ ~Exists(from)' /\ Exists(to)' /\ Read(to)' = Read(from)
         /\ \A r : r \notin {from, to} => Same(r)
         /\ DiskInv /\ clock' = clock /\ (to \in Stored => to[3] < clock) => DiskInv'
<1>1. /\ DOMAIN dir' = (DOMAIN dir \ {from}) \cup {to} /\ dir'[to] = dir[from]
      /\ \A r \in DOMAIN dir' \ {to} : r # from /\ dir'[r] = dir[r] /\ r \in DOMAIN dir
  BY DEF Renamed, Exists
<1>2. ~Exists(from)' /\ Exists(to)' /\ Read(to)' = Read(from)
  BY <1>1 DEF Exists, Read
<1>3. \A r : r \notin {from, to} => Same(r)
  BY <1>1 DEF Same, Exists, Read
<1>4. ASSUME DiskInv, clock' = clock, to \in Stored => to[3] < clock
      PROVE  DiskInv'
  BY <1>1, <1>4 DEF DiskInv, Exists
<1> QED
  BY <1>1, <1>2, <1>3, <1>4

\* os.Create of a name that is not in use makes a file of its own.
LEMMA CreatedDisk ==
  ASSUME NodesOK, DataOK, DirOK, NEW to, ~Exists(to), NEW c \in Content,
         dir' = Linked(to, NewNode), data' = WithData(NewNode, c)
  PROVE  /\ Exists(to)' /\ Read(to)' = c /\ dir'[to] = NewNode
         /\ \A r : r # to => Same(r)
         /\ DiskInv /\ clock' = clock /\ (to \in Stored => to[3] < clock) => DiskInv'
<1>1. /\ DOMAIN dir' = DOMAIN dir \cup {to} /\ dir'[to] = NewNode
      /\ \A r \in DOMAIN dir : dir'[r] = dir[r] /\ r # to
  BY DEF Linked, Exists
<1>2. NewNode \notin DOMAIN data
  BY FreshNode
<1>3. data'[NewNode] = c /\ \A m \in DOMAIN data : data'[m] = data[m]
  BY <1>2, Written
<1>4. \A r \in DOMAIN dir : dir[r] \in DOMAIN data /\ dir[r] # NewNode
  BY <1>2 DEF DirOK
<1>5. Exists(to)' /\ Read(to)' = c
  BY <1>1, <1>3 DEF Exists, Read
<1>6. \A r : r # to => Same(r)
  BY <1>1, <1>3, <1>4 DEF Same, Exists, Read
<1>7. ASSUME DiskInv, clock' = clock, to \in Stored => to[3] < clock
      PROVE  DiskInv'
  BY <1>1, <1>4, <1>7 DEF DiskInv
<1> QED
  BY <1>1, <1>5, <1>6, <1>7

\* Writing to a file changes what its own name holds and nothing else.
LEMMA FilledDisk ==
  ASSUME NodesOK, DataOK, DirOK, DiskInv, NEW to, Exists(to), NEW c \in Content,
         data' = WithData(dir[to], c), clock' = clock,
         DOMAIN dir' = DOMAIN dir, \A r \in DOMAIN dir : dir'[r] = dir[r]
  PROVE  /\ Exists(to)' /\ Read(to)' = c /\ DiskInv'
         /\ \A r : r # to => Same(r)
<1>1. dir[to] \in DOMAIN data
  BY DEF DirOK, Exists
<1>2. data'[dir[to]] = c /\ \A m \in DOMAIN data \ {dir[to]} : data'[m] = data[m]
  BY <1>1, Written
<1>3. \A r \in DOMAIN dir : r # to => dir[r] \in DOMAIN data \ {dir[to]}
  BY DEF DirOK, DiskInv, Exists
<1>4. \A r : r # to => Same(r)
  BY <1>2, <1>3 DEF Same, Exists, Read
<1> QED
  BY <1>2, <1>4 DEF Exists, Read, DiskInv

\* os.Remove.
LEMMA UnlinkedDisk ==
  ASSUME NEW from, Exists(from), dir' = Unlinked(from), UNCHANGED data
  PROVE  /\ ~Exists(from)' /\ \A r : r # from => Same(r)
         /\ DiskInv /\ clock' = clock => DiskInv'
<1>1. /\ DOMAIN dir' = DOMAIN dir \ {from}
      /\ \A r \in DOMAIN dir' : dir'[r] = dir[r]
  BY DEF Unlinked
<1> QED
  BY <1>1 DEF Same, Exists, Read, DiskInv

-----------------------------------------------------------------------------
\* What request p, whose local variables are l, does to the disk when the move
\* it is at is in order.

MovingTo(l) == l.pc \in Working /\ l.call \in {"backup", "trash"}

Before(p, l) == /\ TypeInv /\ DiskInv /\ l = h[p] /\ MoveInv(l)
                /\ MovingTo(l) => l.to[3] < clock

\* A request that may use the disk has a name for what it makes.
LEMMA BeforeFacts ==
  ASSUME NEW p \in Handlers, NEW l, Before(p, l), l.pc \in Working
  PROVE  /\ DirOK /\ DataOK /\ NodesOK /\ RestOK /\ HandlersOK
         /\ HandlerOK(l, DOMAIN data) /\ l \in HandlerType /\ l = h[p]
         /\ l.call # "permanent" => /\ l.to \in Path /\ l.to # l.from
                                    /\ l.to \in Stored => l.to[3] < clock
<1>1. /\ DirOK /\ DataOK /\ NodesOK /\ RestOK /\ HandlersOK
      /\ HandlerOK(l, DOMAIN data) /\ l = h[p]
  BY TypeParts DEF Before, HandlersOK
<1>2. Source \cap Stored = {}
  BY BackupAssumption
<1>3. ASSUME l.call # "permanent"
      PROVE  l.to \in Path /\ l.to # l.from /\ (l.to \in Stored => l.to[3] < clock)
  <2>1. CASE l.call = "restore"
    BY <1>1, <1>2, <2>1, Ways DEF Path
  <2>2. CASE l.call # "restore"
    BY <1>1, <1>2, <1>3, <2>2, Ways DEF Path, Before, MovingTo
  <2> QED
    BY <2>1, <2>2
<1> QED
  BY <1>1, <1>3, Ways

\* RenameOk moves the file.
LEMMA RenameEffect ==
  ASSUME NEW p \in Handlers, NEW l, Before(p, l), RenameOk(p)
  PROVE  /\ l.pc = "rename" /\ h' = [h EXCEPT ![p] = Succeeded(l)]
         /\ Exists(l.from) /\ Takes(l) /\ l.from # l.to
         /\ ~Exists(l.from)' /\ Exists(l.to)' /\ Read(l.to)' = Read(l.from)
         /\ \A r : r \notin {l.from, l.to} => Same(r)
         /\ DiskInv'
<1>1. l = h[p] /\ l.pc = "rename" /\ l.pc \in Working
  BY DEF Before, RenameOk, Working
<1>2. l.call # "permanent" /\ Takes(l) /\ l.from # l.to
  BY <1>1, BeforeFacts, Ways DEF Before, MoveInv
<1>3. /\ Exists(l.from) /\ dir' = Renamed(l.from, l.to) /\ UNCHANGED data
      /\ clock' = clock /\ Succeed(p)
  BY <1>1 DEF RenameOk
<1>4. h' = [h EXCEPT ![p] = Succeeded(l)]
  BY <1>1, <1>3, BeforeFacts, Updates
<1>5. l.to \in Stored => l.to[3] < clock
  BY <1>1, <1>2, BeforeFacts
<1>6. DiskInv
  BY DEF Before
<1> QED
  BY <1>1, <1>2, <1>3, <1>4, <1>5, <1>6, RenamedDisk

\* Open looks the file up.
LEMMA OpenEffect ==
  ASSUME NEW p \in Handlers, NEW l, Before(p, l), Open(p)
  PROVE  /\ l.pc = "open" /\ UNCHANGED <<disk, clock>>
         /\ \/ h' = [h EXCEPT ![p] = Failed(l)]
            \/ /\ Exists(l.from)
               /\ h' = [h EXCEPT ![p] = Labelled(l, "create", dir[l.from], l.out)]
<1>1. l = h[p] /\ l.pc = "open" /\ l.pc \in Working /\ l \in HandlerType /\ HandlersOK
  BY BeforeFacts DEF Before, Open, Working
<1>2. CASE Fail(p)
  BY <1>1, <1>2, Updates DEF Open
<1>3. CASE ~Fail(p)
  <2>1. /\ Exists(l.from)
        /\ h' = [h EXCEPT ![p] = [l EXCEPT !.pc = "create", !.in = dir[l.from]]]
    BY <1>1, <1>3 DEF Open, HandlersOK, HandlerType
  <2>2. Labelled(l, "create", dir[l.from], l.out)
           = [l EXCEPT !.pc = "create", !.in = dir[l.from]]
    BY <1>1 DEF Labelled, HandlerType
  <2> QED
    BY <1>1, <2>1, <2>2 DEF Open
<1> QED
  BY <1>2, <1>3

\* Create makes a file that is not complete, of a file the restore overlooked or of
\* none.
LEMMA CreateEffect ==
  ASSUME NEW p \in Handlers, NEW l, Before(p, l), Create(p)
  PROVE  /\ l.pc = "create" /\ Takes(l) /\ l.from # l.to /\ l.call # "permanent"
         /\ DiskInv'
         /\ \/ h' = [h EXCEPT ![p] = Failed(l)] /\ UNCHANGED disk
            \/ /\ h' = [h EXCEPT ![p] = Labelled(l, "copy", l.in, dir'[l.to])]
               /\ Exists(l.to)' /\ Read(l.to)' = Torn
               /\ \A r : r # l.to => Same(r)
               /\ \A r : Exists(r) => Exists(r)' /\ dir'[r] = dir[r]
<1>1. l = h[p] /\ l.pc = "create" /\ l.pc \in Working
  BY DEF Before, Create, Working
<1>2. l.call # "permanent" /\ Takes(l) /\ l.from # l.to /\ l \in HandlerType /\ HandlersOK
  BY <1>1, BeforeFacts, Ways DEF Before, MoveInv
<1>3. clock' = clock /\ DiskInv
  BY DEF Create, Before
<1>4. CASE Fail(p) /\ UNCHANGED disk
  BY <1>1, <1>2, <1>3, <1>4, Updates, DiskStays
<1>5. CASE ~(Fail(p) /\ UNCHANGED disk)
  <2>1. PICK n : /\ n = IF Exists(l.to) THEN dir[l.to] ELSE NewNode
                 /\ dir' = Linked(l.to, n) /\ data' = WithData(n, Torn)
                 /\ h' = [h EXCEPT ![p].pc = "copy", ![p].out = n]
    BY <1>1, <1>2, <1>5 DEF Create
  <2>2. Labelled(l, "copy", l.in, n) = [l EXCEPT !.pc = "copy", !.out = n]
    BY <1>2 DEF Labelled, HandlerType
  <2>3. h' = [h EXCEPT ![p] = Labelled(l, "copy", l.in, n)]
    <3>1. h' = [h EXCEPT ![p] = [l EXCEPT !.pc = "copy", !.out = n]]
      BY <1>1, <1>2, <2>1 DEF HandlersOK, HandlerType
    <3> QED
      BY <2>2, <3>1
  <2>4. NodesOK /\ DataOK /\ DirOK /\ Torn \in Content /\ (l.to \in Stored => l.to[3] < clock)
    BY <1>1, <1>2, BeforeFacts DEF Content
  <2>5. /\ DOMAIN dir' = DOMAIN dir \cup {l.to} /\ dir'[l.to] = n
        /\ \A r \in DOMAIN dir : dir'[r] = dir[r]
    BY <2>1 DEF Linked, Exists
  <2>6. CASE Exists(l.to)
    <3>1. DOMAIN dir' = DOMAIN dir /\ data' = WithData(dir[l.to], Torn)
      BY <2>1, <2>5, <2>6 DEF Exists
    <3>2. Exists(l.to)' /\ Read(l.to)' = Torn /\ DiskInv' /\ \A r : r # l.to => Same(r)
      BY <1>3, <2>4, <2>5, <2>6, <3>1, FilledDisk
    <3> QED
      BY <1>1, <1>2, <2>3, <2>5, <3>2 DEF Exists
  <2>7. CASE ~Exists(l.to)
    <3>1. dir' = Linked(l.to, NewNode) /\ data' = WithData(NewNode, Torn)
      BY <2>1, <2>7
    <3>2. Exists(l.to)' /\ Read(l.to)' = Torn /\ DiskInv' /\ \A r : r # l.to => Same(r)
      BY <1>3, <2>4, <2>7, <3>1, CreatedDisk
    <3> QED
      BY <1>1, <1>2, <2>3, <2>5, <3>2 DEF Exists
  <2> QED
    BY <2>6, <2>7
<1> QED
  BY <1>4, <1>5

\* Copy completes the file, with what was opened.
LEMMA CopyEffect ==
  ASSUME NEW p \in Handlers, NEW l, Before(p, l), Copy(p)
  PROVE  /\ l.pc = "copy" /\ Exists(l.to) /\ Read(l.to) = Torn /\ l.from # l.to
         /\ l.call # "permanent" /\ DiskInv'
         /\ \/ h' = [h EXCEPT ![p] = Failed(l)] /\ UNCHANGED disk
            \/ /\ h' = [h EXCEPT ![p] = Labelled(l, "remove", l.in, l.out)]
               /\ Exists(l.to)' /\ (Exists(l.from) => Read(l.to)' = Read(l.from))
               /\ Read(l.to)' = data[l.in] /\ data[l.in] \in Content
               /\ \A r : r # l.to => Same(r)
<1>1. l = h[p] /\ l.pc = "copy" /\ l.pc \in Working
  BY DEF Before, Copy, Working
<1>2. /\ l.call # "permanent" /\ Exists(l.to) /\ l.out = dir[l.to] /\ Read(l.to) = Torn
      /\ Exists(l.from) => l.in = dir[l.from]
      /\ l.from # l.to /\ l \in HandlerType /\ HandlersOK /\ l.in \in DOMAIN data
  BY <1>1, BeforeFacts, Ways DEF Before, MoveInv, HandlerOK
<1>3. clock' = clock /\ dir' = dir /\ DiskInv
  BY DEF Copy, Before
<1>4. CASE Fail(p) /\ UNCHANGED data
  BY <1>1, <1>2, <1>3, <1>4, Updates, DiskStays DEF disk
<1>5. CASE ~(Fail(p) /\ UNCHANGED data)
  <2>1. data' = WithData(dir[l.to], data[l.in]) /\ Goto(p, "remove")
    BY <1>1, <1>2, <1>5 DEF Copy
  <2>2. Labelled(l, "remove", l.in, l.out) = [l EXCEPT !.pc = "remove"]
    BY <1>2 DEF Labelled, HandlerType
  <2>3. h' = [h EXCEPT ![p] = Labelled(l, "remove", l.in, l.out)]
    BY <1>1, <1>2, <2>1, <2>2, Updates
  <2>4. NodesOK /\ DataOK /\ DirOK
    BY <1>1, BeforeFacts
  <2>5. data[l.in] \in Content
    BY <1>2, <2>4 DEF DataOK
  <2>6. Exists(l.from) => data[l.in] = Read(l.from)
    BY <1>2 DEF Read
  <2> QED
    BY <1>1, <1>2, <1>3, <2>1, <2>3, <2>4, <2>5, <2>6, FilledDisk
<1> QED
  BY <1>4, <1>5

\* Remove takes the file away, which by then is complete elsewhere unless it is
\* deleted for good.
LEMMA RemoveEffect ==
  ASSUME NEW p \in Handlers, NEW l, Before(p, l), Remove(p)
  PROVE  /\ l.pc = "remove" /\ DiskInv'
         /\ l.call # "permanent" => /\ l.from # l.to /\ Exists(l.to)
                                    /\ Exists(l.from) => Read(l.to) = Read(l.from)
         /\ \/ h' = [h EXCEPT ![p] = Failed(l)] /\ UNCHANGED <<disk, givenUp, overlooked>>
            \/ /\ h' = [h EXCEPT ![p] = Succeeded(l)]
               /\ Exists(l.from) /\ ~Exists(l.from)' /\ \A r : r # l.from => Same(r)
               /\ givenUp' = IF l.call = "permanent" THEN givenUp \cup {Read(l.from)}
                             ELSE givenUp
               /\ UNCHANGED overlooked
<1>1. l = h[p] /\ l.pc = "remove" /\ l.pc \in Working
  BY DEF Before, Remove, Working
<1>2. HandlersOK /\ DiskInv /\ clock' = clock /\ UNCHANGED data
  BY <1>1, BeforeFacts DEF Remove, Before
<1>3. l.call # "permanent" => /\ l.from # l.to /\ Exists(l.to)
                              /\ Exists(l.from) => Read(l.to) = Read(l.from)
  BY <1>1, BeforeFacts DEF Before, MoveInv
<1>4. CASE Fail(p) /\ UNCHANGED dir
  <2>1. UNCHANGED <<disk, givenUp, overlooked>>
    BY <1>1, <1>2, <1>4 DEF Remove, Exists, disk
  <2> QED
    BY <1>1, <1>2, <1>3, <1>4, <2>1, Updates, DiskStays
<1>5. CASE ~(Fail(p) /\ UNCHANGED dir)
  <2>1. Exists(l.from) /\ dir' = Unlinked(l.from) /\ Succeed(p)
    BY <1>1, <1>5 DEF Remove
  <2>2. h' = [h EXCEPT ![p] = Succeeded(l)]
    BY <1>1, <1>2, <2>1, Updates
  <2>3. /\ ~Exists(l.from)' /\ DiskInv' /\ \A r : r # l.from => Same(r)
    BY <1>2, <2>1, UnlinkedDisk
  <2>4. l.from \notin DOMAIN dir'
    BY <2>1 DEF Unlinked
  <2>5. /\ givenUp' = IF l.call = "permanent" THEN givenUp \cup {Read(l.from)} ELSE givenUp
        /\ UNCHANGED overlooked
    BY <1>1, <2>1, <2>4 DEF Remove
  <2> QED
    BY <1>1, <1>3, <2>1, <2>2, <2>3, <2>5
<1> QED
  BY <1>4, <1>5

\* NextFile: the backup name carries the time.
Started(l, c, t) ==
    [l EXCEPT !.from = l.files[l.i], !.had = Append(@, c),
              !.to = <<IF l.call = "trash" THEN "trash" ELSE "backup",
                       Base[l.files[l.i]], t>>,
              !.pc = IF l.call = "permanent" THEN "remove" ELSE "rename"]

\* What NextFile does.
LEMMA StartEffect ==
  ASSUME NEW p \in Handlers, NEW l, TypeInv, l = h[p], NextFile(p)
  PROVE  /\ l.pc = "next" /\ l.call # "restore" /\ l.i <= Len(l.files)
         /\ h' = [h EXCEPT ![p] = Started(l, Read(l.files[l.i]), clock)]
         /\ clock' = IF l.call = "permanent" THEN clock ELSE clock + 1
         /\ UNCHANGED <<disk, manifest, history>>
<1>1. l \in HandlerType /\ h \in [Handlers -> HandlerType]
  BY TypeParts DEF HandlersOK
<1>2. h' = [h EXCEPT ![p] = Started(l, Read(l.files[l.i]), clock)]
  BY <1>1 DEF NextFile, Unique, Started, HandlerType
<1> QED
  BY <1>2 DEF NextFile

\* The fields of what NextFile makes of l.
LEMMA StartedFields ==
  ASSUME NEW l \in HandlerType, NEW c \in Content \cup {Gone}, NEW t, NEW m,
         m = Started(l, c, t)
  PROVE  /\ m.from = l.files[l.i] /\ m.had = Append(l.had, c)
         /\ m.to[3] = t /\ m.to[2] = Base[l.files[l.i]]
         /\ m.pc = IF l.call = "permanent" THEN "remove" ELSE "rename"
         /\ m.call = l.call /\ m.files = l.files /\ m.i = l.i
         /\ m.moved = l.moved /\ m.failed = l.failed /\ m.mappings = l.mappings
BY DEF Started, HandlerType

\* NextMapping: os.Stat found nothing at the path of the file, or failed.
Fetched(l) == [l EXCEPT !.pc = "rename", !.from = l.mappings[l.i].backup,
                        !.to = l.mappings[l.i].source]

\* What NextMapping does.
LEMMA FetchEffect ==
  ASSUME NEW p \in Handlers, NEW l, TypeInv, l = h[p], NextMapping(p)
  PROVE  /\ l.pc = "next" /\ l.call = "restore" /\ l.i \in DOMAIN l.mappings
         /\ UNCHANGED <<disk, manifest, clock, givenUp, batch, clean>>
         /\ overlooked \subseteq overlooked'
         /\ \/ h' = [h EXCEPT ![p] = Failed(l)] /\ UNCHANGED overlooked
            \/ /\ h' = [h EXCEPT ![p] = Fetched(l)]
               /\ Exists(l.mappings[l.i].source) =>
                      overlooked' = overlooked \cup {Read(l.mappings[l.i].source)}
               /\ ~Exists(l.mappings[l.i].source) => UNCHANGED overlooked
<1>1. l \in HandlerType /\ HandlersOK
  BY TypeParts DEF HandlersOK
<1>2. l.i \in DOMAIN l.mappings
  BY <1>1, Lengths DEF NextMapping
<1>3. CASE Fail(p) /\ UNCHANGED overlooked
  BY <1>1, <1>2, <1>3, Updates DEF NextMapping
<1>4. CASE ~(Fail(p) /\ UNCHANGED overlooked)
  <2>1. h' = [h EXCEPT ![p] = Fetched(l)]
    BY <1>1, <1>4 DEF NextMapping, Fetched, HandlerType, HandlersOK
  <2> QED
    BY <1>2, <1>4, <2>1 DEF NextMapping
<1> QED
  BY <1>3, <1>4

\* The fields of what NextMapping makes of l.
LEMMA FetchedFields ==
  ASSUME NEW l \in HandlerType, NEW m, m = Fetched(l)
  PROVE  /\ m.pc = "rename" /\ m.from = l.mappings[l.i].backup
         /\ m.to = l.mappings[l.i].source /\ m.call = l.call /\ m.i = l.i
         /\ m.mappings = l.mappings
BY DEF Fetched, HandlerType

\* The fields of a file that is done.
LEMMA FailedFields ==
  ASSUME NEW l \in HandlerType, NEW m, m = Failed(l)
  PROVE  /\ m.pc = "next" /\ m.i = l.i + 1 /\ m.failed = l.failed \cup {ItemOf(l)}
         /\ m.call = l.call /\ m.files = l.files /\ m.mappings = l.mappings
         /\ m.moved = l.moved /\ m.had = l.had /\ m.from = l.from /\ m.to = l.to
BY DEF Failed, HandlerType

\* The fields of a file that was moved.
LEMMA SucceededFields ==
  ASSUME NEW l \in HandlerType, NEW m, m = Succeeded(l)
  PROVE  /\ m.pc = IF l.call = "trash" THEN "trashinfo" ELSE "next"
         /\ m.i = IF l.call = "trash" THEN l.i ELSE l.i + 1
         /\ m.moved = Append(l.moved, IF l.call = "permanent" THEN l.from ELSE l.to)
         /\ m.call = l.call /\ m.files = l.files /\ m.mappings = l.mappings
         /\ m.failed = l.failed /\ m.had = l.had /\ m.from = l.from /\ m.to = l.to
BY DEF Succeeded, HandlerType

\* The fields of a move that is under way.
LEMMA LabelledFields ==
  ASSUME NEW l \in HandlerType, NEW x, NEW in, NEW out, NEW m, m = Labelled(l, x, in, out)
  PROVE  /\ m.pc = x /\ m.in = in /\ m.out = out /\ m.i = l.i
         /\ m.call = l.call /\ m.files = l.files /\ m.mappings = l.mappings
         /\ m.moved = l.moved /\ m.had = l.had /\ m.from = l.from /\ m.to = l.to
         /\ m.failed = l.failed
BY DEF Labelled, HandlerType

\* What RenameFails does.
LEMMA RenameFailsEffect ==
  ASSUME NEW p \in Handlers, NEW l, TypeInv, l = h[p], RenameFails(p)
  PROVE  /\ l.pc = "rename"
         /\ h' = [h EXCEPT ![p] = Labelled(l, "open", l.in, l.out)]
         /\ UNCHANGED <<disk, manifest, clock, history>>
<1>1. l \in HandlerType /\ HandlersOK
  BY TypeParts DEF HandlersOK
<1>2. h' = [h EXCEPT ![p] = [l EXCEPT !.pc = "open"]]
  BY <1>1, Updates DEF RenameFails
<1>3. Labelled(l, "open", l.in, l.out) = [l EXCEPT !.pc = "open"]
  BY <1>1 DEF Labelled, HandlerType
<1> QED
  BY <1>2, <1>3 DEF RenameFails

-----------------------------------------------------------------------------
\* Nothing is lost.

\* A move whose names are left alone stays in order.
LEMMA MoveStays ==
  ASSUME NEW l, MoveInv(l), Same(l.to), Exists(l.from)' => Same(l.from),
         overlooked \subseteq overlooked'
  PROVE  MoveInv(l)'
BY DEF MoveInv, Takes, Same, Exists

\* A content that is on the disk may change its name.
LEMMA LossStays ==
  ASSUME NothingLost, givenUp \subseteq givenUp', overlooked \subseteq overlooked',
         \A r : Exists(r) /\ Read(r) \notin givenUp' \cup overlooked' =>
                   Read(r) = Torn \/ \E q : Exists(q)' /\ Read(q)' = Read(r)
  PROVE  NothingLost'
<1> SUFFICES ASSUME NEW s \in Source, s \notin givenUp' \cup overlooked'
             PROVE  \E q \in DOMAIN dir' : Read(q)' = s
  BY DEF NothingLost
<1>1. PICK r \in DOMAIN dir : Read(r) = s
  BY DEF NothingLost
<1>2. s # Torn
  BY BackupAssumption
<1>3. PICK q : Exists(q)' /\ Read(q)' = Read(r)
  BY <1>1, <1>2 DEF Exists
<1> QED
  BY <1>1, <1>3 DEF Exists

\* A step of request p, whose local variables are l before it and m after it,
\* that leaves the names of the others alone.
Aside(l) ==
    \/ \A r : Same(r)
    \/ l.pc # "idle" /\ l.call = "restore"
    \/ /\ l.pc # "idle"
       /\ \A r \in Source : Exists(r)' => Same(r)
       /\ \A r \in Stored : (MovingTo(l) /\ r = l.to) \/ Same(r)

\* Such a step keeps the invariant if it keeps its own move in order.
LEMMA LossKept ==
  ASSUME TypeInv, LossInv, RestoresAlone, NEW p \in Handlers, NEW l, l = h[p], NEW m,
         h' = [h EXCEPT ![p] = m],
         DiskInv', NothingLost', MoveInv(m)', Aside(l), overlooked \subseteq overlooked',
         clock' \in {clock, clock + 1},
         MovingTo(m) => /\ m.to[3] < clock'
                        /\ m.to[3] = clock \/ (MovingTo(l) /\ m.to = l.to)
  PROVE  LossInv'
<1>1. HandlersOK /\ clock \in Nat
  BY TypeParts DEF RestOK
<1>2. h'[p] = m /\ \A q \in Handlers : q # p => h'[q] = h[q]
  BY <1>1 DEF HandlersOK
<1>3. ASSUME NEW q \in Handlers, q # p, NEW n, n = h[q]
      PROVE  MoveInv(n)'
  <2>1. MoveInv(n)
    BY <1>3 DEF LossInv
  <2>2. CASE \A r : Same(r)
    BY <2>1, <2>2, MoveStays
  <2>3. CASE n.pc \notin Working
    BY <2>3 DEF MoveInv, Working
  <2>4. CASE n.call = "permanent"
    BY <2>4 DEF MoveInv
  <2>5. CASE /\ n.pc \in Working /\ n.call # "permanent" /\ ~\A r : Same(r)
    <3>1. n.pc # "idle" /\ l.pc # "idle"
      BY <2>5 DEF Working, Aside
    <3>2. l.call # "restore" /\ n.call # "restore"
      BY <1>3, <3>1 DEF RestoresAlone, Restoring, Running
    <3>3. HandlerOK(n, DOMAIN data)
      BY <1>1, <1>3 DEF HandlersOK
    <3>4. n.from \in Source /\ n.to \in Stored /\ n.call \in {"backup", "trash"}
      BY <2>5, <3>2, <3>3, Ways
    <3>5. MovingTo(l) => n.to # l.to
      BY <1>3, <2>5, <3>4 DEF LossInv, NamesInv, Moving, MovingTo
    <3>6. Same(n.to) /\ (Exists(n.from)' => Same(n.from))
      BY <2>5, <3>2, <3>4, <3>5 DEF Aside
    <3> QED
      BY <2>1, <3>6, MoveStays
  <2> QED
    BY <2>2, <2>3, <2>4, <2>5
<1>4. \A q \in Handlers : MoveInv(h[q])'
  <2> SUFFICES ASSUME NEW q \in Handlers
               PROVE  MoveInv(h[q])'
    OBVIOUS
  <2>1. PICK n : n = h'[q]
    OBVIOUS
  <2>2. MoveInv(n)'
    BY <1>2, <1>3, <2>1
  <2> QED
    BY <2>1, <2>2 DEF MoveInv, Takes, Exists, Read
<1>5. NamesInv'
  <2>1. \A q \in Handlers : Moving(q) =>
           /\ h[q].to \in Stored /\ h[q].to[3] < clock
           /\ \A r \in Handlers : Moving(r) /\ h[r].to = h[q].to => q = r
    <3> SUFFICES ASSUME NEW q \in Handlers, Moving(q)
                 PROVE  h[q].to \in Stored
      BY DEF LossInv, NamesInv
    <3>1. HandlerOK(h[q], DOMAIN data) /\ h[q].pc \in Working /\ h[q].call \in {"backup", "trash"}
      BY <1>1 DEF HandlersOK, Moving
    <3> QED
      BY <3>1, Ways
  <2>2. \A q \in Handlers : Moving(q)' =>
           h'[q].to[3] < clock' /\ (q # p => Moving(q) /\ h'[q].to = h[q].to)
    <3>1. \A q \in Handlers : h[q].to \in Stored => h[q].to[3] \in Nat
      BY DEF Stored
    <3> SUFFICES ASSUME NEW q \in Handlers, Moving(q)'
                 PROVE  h'[q].to[3] < clock' /\ (q # p => Moving(q) /\ h'[q].to = h[q].to)
      OBVIOUS
    <3>2. CASE q = p
      BY <1>2, <3>2 DEF Moving, MovingTo
    <3>3. CASE q # p
      <4>1. Moving(q) /\ h'[q].to = h[q].to
        BY <1>2, <3>3 DEF Moving
      <4> QED
        BY <1>1, <2>1, <3>1, <3>3, <4>1
    <3> QED
      BY <3>2, <3>3
  <2>3. \A q \in Handlers : Moving(q)' /\ Moving(p)' /\ h'[q].to = h'[p].to => q = p
    <3> SUFFICES ASSUME NEW q \in Handlers, Moving(q)', Moving(p)', h'[q].to = m.to, q # p
                 PROVE  FALSE
      BY <1>2
    <3>1. Moving(q) /\ h'[q].to = h[q].to /\ h[q].to[3] < clock /\ h[q].to[3] \in Nat
      BY <2>1, <2>2 DEF Stored
    <3>2. m.to[3] = clock \/ (MovingTo(l) /\ m.to = l.to)
      BY <1>2 DEF Moving, MovingTo
    <3>3. ~(MovingTo(l) /\ m.to = l.to)
      BY <2>1, <3>1 DEF Moving, MovingTo
    <3> QED
      BY <1>1, <3>1, <3>2, <3>3
  <2> QED
    BY <2>1, <2>2, <2>3 DEF NamesInv
<1> QED
  BY <1>4, <1>5 DEF LossInv

\* A step of request p that leaves the disk alone.
LEMMA LossQuiet ==
  ASSUME TypeInv, LossInv, RestoresAlone, NEW p \in Handlers, NEW l, l = h[p], NEW m,
         h' = [h EXCEPT ![p] = m], UNCHANGED <<disk, givenUp>>,
         overlooked \subseteq overlooked', MoveInv(m)',
         clock' \in {clock, clock + 1},
         MovingTo(m) => /\ m.to[3] < clock'
                        /\ m.to[3] = clock \/ (MovingTo(l) /\ m.to = l.to)
  PROVE  LossInv'
<1>1. \A r : Same(r)
  BY DiskStays
<1>2. DiskInv'
  <2>1. clock \in Nat /\ DirOK
    BY TypeParts DEF RestOK
  <2>2. UNCHANGED dir /\ DiskInv
    BY DEF disk, LossInv
  <2>3. \A q \in (DOMAIN dir) \cap Stored : q[3] < clock /\ q[3] \in Nat
    BY <2>2 DEF DiskInv, Stored
  <2>4. \A q \in (DOMAIN dir) \cap Stored : q[3] < clock'
    BY <2>1, <2>3
  <2> QED
    BY <2>2, <2>4 DEF DiskInv
<1>3. NothingLost'
  BY DEF LossInv, NothingLost, Read, Exists, disk
<1> QED
  BY <1>1, <1>2, <1>3, LossKept DEF Aside

\* Such a step to where no file is in hand.
LEMMA LossRest ==
  ASSUME TypeInv, LossInv, RestoresAlone, NEW p \in Handlers, NEW m,
         h' = [h EXCEPT ![p] = m], UNCHANGED <<disk, givenUp, overlooked, clock>>, m.pc \notin Working
  PROVE  LossInv'
<1>1. MoveInv(m)' /\ ~MovingTo(m)
  BY DEF MoveInv, MovingTo, Working
<1>2. PICK l : l = h[p]
  OBVIOUS
<1> QED
  BY <1>1, <1>2, LossQuiet

\* What the invariants say of one request.
LEMMA LossBefore ==
  ASSUME TypeInv, LossInv, NEW p \in Handlers, NEW l, l = h[p]
  PROVE  Before(p, l) /\ l \in HandlerType /\ HandlerOK(l, DOMAIN data) /\ clock \in Nat
<1>1. l \in HandlerType /\ HandlerOK(l, DOMAIN data) /\ clock \in Nat
  BY TypeParts DEF HandlersOK, RestOK
<1>2. MoveInv(l) /\ DiskInv
  BY DEF LossInv
<1>3. MovingTo(l) => l.to[3] < clock
  BY DEF LossInv, NamesInv, Moving, MovingTo
<1> QED
  BY <1>1, <1>2, <1>3 DEF Before

\* The steps of a request that are not about the file in hand.
LEMMA LossOther ==
  ASSUME TypeInv, LossInv, RestoresAlone, NEW p \in Handlers,
         \/ \E mode \in Modes, b \in Batches : Confirm(p, mode, b)
         \/ Restore(p) \/ WriteTrashInfo(p) \/ EndLoop(p) \/ TruncateManifest(p)
         \/ WriteManifest(p)
  PROVE  LossInv'
<1>1. UNCHANGED <<disk, givenUp, overlooked, clock>>
  BY DEF Confirm, Restore, WriteTrashInfo, EndLoop, TruncateManifest, WriteManifest, history
<1>2. \E m : h' = [h EXCEPT ![p] = m] /\ m.pc \notin Working
  <2>1. h[p] \in HandlerType /\ h \in [Handlers -> HandlerType]
    BY TypeParts DEF HandlersOK
  <2>2. ASSUME NEW mode \in Modes, NEW b \in Batches, Confirm(p, mode, b)
        PROVE  \E m : h' = [h EXCEPT ![p] = m] /\ m.pc \notin Working
    <3>1. h' = [h EXCEPT ![p] = [IdleHandler EXCEPT !.pc = "next", !.call = mode, !.files = b]]
      BY <2>2 DEF Confirm
    <3>2. [IdleHandler EXCEPT !.pc = "next", !.call = mode, !.files = b].pc = "next"
      BY DEF IdleHandler
    <3> QED
      BY <3>1, <3>2 DEF Working
  <2>3. ASSUME Restore(p)
        PROVE  \E m : h' = [h EXCEPT ![p] = m] /\ m.pc \notin Working
    <3>1. h' = [h EXCEPT ![p] = [IdleHandler EXCEPT !.pc = "next", !.call = "restore",
                                                    !.mappings = manifest]]
      BY <2>3 DEF Restore
    <3>2. [IdleHandler EXCEPT !.pc = "next", !.call = "restore", !.mappings = manifest].pc
             = "next"
      BY DEF IdleHandler
    <3> QED
      BY <3>1, <3>2 DEF Working
  <2>4. ASSUME WriteTrashInfo(p)
        PROVE  \E m : h' = [h EXCEPT ![p] = m] /\ m.pc \notin Working
    <3>1. h' = [h EXCEPT ![p] = [h[p] EXCEPT !.pc = "next", !.i = @ + 1]]
      BY <2>1, <2>4 DEF WriteTrashInfo, HandlerType
    <3>2. [h[p] EXCEPT !.pc = "next", !.i = @ + 1].pc = "next"
      BY <2>1 DEF HandlerType
    <3> QED
      BY <3>1, <3>2 DEF Working
  <2>5. IdleHandler.pc \notin Working
    BY DEF IdleHandler, Working
  <2>6. \A x \in {"truncate", "write"} : [h[p] EXCEPT !.pc = x].pc \notin Working
    BY <2>1 DEF HandlerType, Working
  <2>7. ASSUME EndLoop(p) \/ TruncateManifest(p) \/ WriteManifest(p)
        PROVE  \E m : h' = [h EXCEPT ![p] = m] /\ m.pc \notin Working
    BY <2>5, <2>6, <2>7 DEF EndLoop, TruncateManifest, WriteManifest, Goto
  <2> QED
    BY <2>2, <2>3, <2>4, <2>7
<1> QED
  BY <1>1, <1>2, LossRest

\* NextFile: the name is new, for the disk and for the other requests.
LEMMA LossNextFile ==
  ASSUME TypeInv, LossInv, RestoresAlone, NEW p \in Handlers, NextFile(p)
  PROVE  LossInv'
<1>1. PICK l : l = h[p]
  OBVIOUS
<1>2. l \in HandlerType /\ clock \in Nat /\ DirOK /\ DataOK
  BY <1>1, LossBefore, TypeParts
<1>3. PICK m : m = Started(l, Read(l.files[l.i]), clock)
  OBVIOUS
<1>4. /\ h' = [h EXCEPT ![p] = m] /\ UNCHANGED <<disk, givenUp, overlooked>>
      /\ clock' = IF l.call = "permanent" THEN clock ELSE clock + 1
  BY <1>1, <1>3, StartEffect DEF history
<1>5. /\ m.to[3] = clock /\ m.call = l.call
      /\ m.pc = IF l.call = "permanent" THEN "remove" ELSE "rename"
  BY <1>2, <1>3, ReadType, StartedFields
<1>6. m.call # "permanent" => ~Exists(m.to)'
  <2> SUFFICES ASSUME m.call # "permanent", m.to \in DOMAIN dir
               PROVE  FALSE
    BY <1>4 DEF Exists, disk
  <2>1. HandlersOK'
    BY TypeParts, NextFileType
  <2>2. h'[p] = m
    BY <1>2, <1>4, TypeParts DEF HandlersOK
  <2>3. HandlerOK(m, DOMAIN data') /\ m.pc \in Working /\ m.call # "restore"
    BY <1>1, <1>5, <2>1, <2>2, StartEffect DEF HandlersOK, Working
  <2>4. m.to \in Stored
    BY <2>3, Ways
  <2> QED
    BY <1>2, <1>5, <2>4 DEF LossInv, DiskInv
<1>7. MoveInv(m)'
  BY <1>5, <1>6 DEF MoveInv, Takes
<1>8. MovingTo(m) => m.to[3] < clock' /\ m.to[3] = clock
  BY <1>2, <1>4, <1>5 DEF MovingTo
<1> QED
  BY <1>1, <1>2, <1>4, <1>7, <1>8, LossQuiet

\* NextMapping: the path of the file is free, or overlooked from now on.
LEMMA LossNextMapping ==
  ASSUME TypeInv, LossInv, RestoresAlone, NEW p \in Handlers, NextMapping(p)
  PROVE  LossInv'
<1>1. PICK l : l = h[p]
  OBVIOUS
<1>2. l \in HandlerType
  BY <1>1, LossBefore
<1>3. /\ l.call = "restore" /\ UNCHANGED <<disk, givenUp, clock>>
      /\ overlooked \subseteq overlooked'
      /\ \/ h' = [h EXCEPT ![p] = Failed(l)] /\ UNCHANGED overlooked
         \/ /\ h' = [h EXCEPT ![p] = Fetched(l)]
            /\ Exists(l.mappings[l.i].source) =>
                   overlooked' = overlooked \cup {Read(l.mappings[l.i].source)}
  BY <1>1, FetchEffect
<1>4. CASE h' = [h EXCEPT ![p] = Failed(l)] /\ UNCHANGED overlooked
  BY <1>2, <1>3, <1>4, FailedFields, LossRest DEF Working
<1>5. CASE /\ h' = [h EXCEPT ![p] = Fetched(l)]
           /\ Exists(l.mappings[l.i].source) =>
                  overlooked' = overlooked \cup {Read(l.mappings[l.i].source)}
  <2>1. PICK m : m = Fetched(l)
    OBVIOUS
  <2>2. m.pc = "rename" /\ m.to = l.mappings[l.i].source /\ m.call = "restore"
    BY <1>2, <1>3, <2>1, FetchedFields
  <2>3. Same(m.to)
    BY <1>3, DiskStays
  <2>4. MoveInv(m)'
    BY <1>5, <2>2, <2>3 DEF MoveInv, Takes, Same
  <2>5. ~MovingTo(m)
    BY <2>2 DEF MovingTo
  <2> QED
    BY <1>1, <1>3, <1>5, <2>1, <2>4, <2>5, LossQuiet
<1> QED
  BY <1>3, <1>4, <1>5

\* RenameFails: the file is where it was.
LEMMA LossRenameFails ==
  ASSUME TypeInv, LossInv, RestoresAlone, NEW p \in Handlers, RenameFails(p)
  PROVE  LossInv'
<1>1. PICK l : l = h[p]
  OBVIOUS
<1>2. l \in HandlerType /\ MoveInv(l) /\ (MovingTo(l) => l.to[3] < clock)
  BY <1>1, LossBefore DEF Before
<1>3. PICK m : m = Labelled(l, "open", l.in, l.out)
  OBVIOUS
<1>4. l.pc = "rename" /\ h' = [h EXCEPT ![p] = m] /\ UNCHANGED <<disk, givenUp, overlooked, clock>>
  BY <1>1, <1>3, RenameFailsEffect DEF history
<1>5. m.pc = "open" /\ m.to = l.to /\ m.from = l.from /\ m.call = l.call
  BY <1>2, <1>3, LabelledFields
<1>6. MoveInv(m)'
  BY <1>2, <1>4, <1>5 DEF MoveInv, Takes, Exists, Read, disk
<1>7. MovingTo(m) => m.to[3] < clock' /\ MovingTo(l) /\ m.to = l.to
  BY <1>2, <1>4, <1>5 DEF MovingTo, Working
<1> QED
  BY <1>1, <1>4, <1>6, <1>7, LossQuiet

\* Open: what is open is the file.
LEMMA LossOpen ==
  ASSUME TypeInv, LossInv, RestoresAlone, NEW p \in Handlers, Open(p)
  PROVE  LossInv'
<1>1. PICK l : l = h[p]
  OBVIOUS
<1>2. l \in HandlerType /\ MoveInv(l) /\ (MovingTo(l) => l.to[3] < clock) /\ Before(p, l)
  BY <1>1, LossBefore DEF Before
<1>3. /\ l.pc = "open" /\ UNCHANGED <<disk, clock, givenUp, overlooked>>
      /\ \/ h' = [h EXCEPT ![p] = Failed(l)]
         \/ /\ Exists(l.from)
            /\ h' = [h EXCEPT ![p] = Labelled(l, "create", dir[l.from], l.out)]
  BY <1>2, OpenEffect DEF Open, history
<1>4. CASE h' = [h EXCEPT ![p] = Failed(l)]
  BY <1>2, <1>3, <1>4, FailedFields, LossRest DEF Working
<1>5. CASE h' = [h EXCEPT ![p] = Labelled(l, "create", dir[l.from], l.out)]
  <2>1. PICK m : m = Labelled(l, "create", dir[l.from], l.out)
    OBVIOUS
  <2>2. m.pc = "create" /\ m.to = l.to /\ m.from = l.from /\ m.call = l.call
        /\ m.in = dir[l.from]
    BY <1>2, <2>1, LabelledFields
  <2>3. MoveInv(m)'
    BY <1>2, <1>3, <2>2 DEF MoveInv, Takes, Exists, Read, disk
  <2>4. MovingTo(m) => m.to[3] < clock' /\ MovingTo(l) /\ m.to = l.to
    BY <1>2, <1>3, <2>2 DEF MovingTo, Working
  <2> QED
    BY <1>1, <1>3, <1>5, <2>1, <2>3, <2>4, LossQuiet
<1> QED
  BY <1>3, <1>4, <1>5

\* A move that is under way or over leaves the names of the others alone.
LEMMA MoveAside ==
  ASSUME NEW p \in Handlers, NEW l, Before(p, l), l.pc \in Working,
         \A r : r \notin {l.from, l.to} => Same(r),
         l.call = "permanent" => \A r : r # l.from => Same(r),
         Exists(l.from)' => Same(l.from)
  PROVE  Aside(l)
<1>1. HandlerOK(l, DOMAIN data) /\ l.pc # "idle"
  BY BeforeFacts DEF Working
<1>2. Source \cap Stored = {}
  BY BackupAssumption
<1>3. CASE l.call = "restore"
  BY <1>1, <1>3 DEF Aside
<1>4. CASE l.call = "permanent"
  <2>1. l.from \in Source
    BY <1>1, <1>4, Ways
  <2> QED
    BY <1>1, <1>2, <1>4, <2>1 DEF Aside, MovingTo
<1>5. CASE l.call \in {"backup", "trash"}
  <2>1. l.from \in Source /\ l.to \in Stored /\ MovingTo(l)
    BY <1>1, <1>5, Ways DEF MovingTo
  <2> QED
    BY <1>1, <1>2, <1>5, <2>1 DEF Aside
<1> QED
  BY <1>1, <1>3, <1>4, <1>5, Ways

\* RenameOk: the content has changed its name.
LEMMA LossRenameOk ==
  ASSUME TypeInv, LossInv, RestoresAlone, NEW p \in Handlers, RenameOk(p)
  PROVE  LossInv'
<1>1. PICK l : l = h[p]
  OBVIOUS
<1>2. Before(p, l) /\ l \in HandlerType
  BY <1>1, LossBefore
<1>3. PICK m : m = Succeeded(l)
  OBVIOUS
<1>4. /\ l.pc = "rename" /\ h' = [h EXCEPT ![p] = m] /\ Takes(l) /\ DiskInv'
      /\ ~Exists(l.from)' /\ Exists(l.to)' /\ Read(l.to)' = Read(l.from)
      /\ \A r : r \notin {l.from, l.to} => Same(r)
  BY <1>2, <1>3, RenameEffect
<1>5. UNCHANGED <<clock, givenUp, overlooked>>
  BY DEF RenameOk, history
<1>6. m.pc \notin Working
  BY <1>2, <1>3, SucceededFields DEF Working
<1>7. MoveInv(m)' /\ ~MovingTo(m)
  BY <1>6 DEF MoveInv, MovingTo, Working
<1>8. Aside(l)
  <2>1. l.pc \in Working /\ l.call # "permanent"
    BY <1>2, <1>4, BeforeFacts, Ways DEF Working
  <2> QED
    BY <1>2, <1>4, <2>1, MoveAside
<1>9. NothingLost'
  <2>1. \A r : Exists(r) /\ Read(r) \notin overlooked =>
                  \E q : Exists(q)' /\ Read(q)' = Read(r)
    <3> SUFFICES ASSUME NEW r, Exists(r), Read(r) \notin overlooked
                 PROVE  \E q : Exists(q)' /\ Read(q)' = Read(r)
      OBVIOUS
    <3>1. CASE r = l.from
      BY <1>4, <3>1
    <3>2. CASE r # l.from
      BY <1>4, <3>2 DEF Same, Takes
    <3> QED
      BY <3>1, <3>2
  <2> QED
    BY <1>5, <2>1, LossStays DEF LossInv
<1> QED
  BY <1>1, <1>4, <1>5, <1>7, <1>8, <1>9, LossKept

\* Create: the new file takes the name of no other, or of one that was overlooked.
LEMMA LossCreate ==
  ASSUME TypeInv, LossInv, RestoresAlone, NEW p \in Handlers, Create(p)
  PROVE  LossInv'
<1>1. PICK l : l = h[p]
  OBVIOUS
<1>2. Before(p, l) /\ l \in HandlerType /\ MoveInv(l) /\ (MovingTo(l) => l.to[3] < clock)
  BY <1>1, LossBefore DEF Before
<1>3. UNCHANGED <<clock, givenUp, overlooked>>
  BY DEF Create, history
<1>4. /\ l.pc = "create" /\ Takes(l) /\ l.from # l.to /\ l.call # "permanent" /\ DiskInv'
      /\ \/ h' = [h EXCEPT ![p] = Failed(l)] /\ UNCHANGED disk
         \/ /\ h' = [h EXCEPT ![p] = Labelled(l, "copy", l.in, dir'[l.to])]
            /\ Exists(l.to)' /\ Read(l.to)' = Torn
            /\ \A r : r # l.to => Same(r)
            /\ \A r : Exists(r) => Exists(r)' /\ dir'[r] = dir[r]
  BY <1>2, CreateEffect
<1>5. CASE h' = [h EXCEPT ![p] = Failed(l)] /\ UNCHANGED disk
  BY <1>2, <1>3, <1>5, FailedFields, LossRest DEF Working
<1>6. CASE /\ h' = [h EXCEPT ![p] = Labelled(l, "copy", l.in, dir'[l.to])]
           /\ Exists(l.to)' /\ Read(l.to)' = Torn
           /\ \A r : r # l.to => Same(r)
           /\ \A r : Exists(r) => Exists(r)' /\ dir'[r] = dir[r]
  <2>1. PICK m : m = Labelled(l, "copy", l.in, dir'[l.to])
    OBVIOUS
  <2>2. /\ m.pc = "copy" /\ m.to = l.to /\ m.from = l.from /\ m.call = l.call
        /\ m.in = l.in /\ m.out = dir'[l.to]
    BY <1>2, <2>1, LabelledFields
  <2>3. Same(l.from) /\ (Exists(l.from) => l.in = dir[l.from])
    BY <1>2, <1>4, <1>6 DEF MoveInv
  <2>4. MoveInv(m)'
    <3>1. Exists(m.from)' => m.in = dir'[m.from]
      BY <2>2, <2>3 DEF Same
    <3>2. Exists(m.to)' /\ Read(m.to)' = Torn /\ m.out = dir'[m.to]
      BY <1>6, <2>2
    <3> QED
      BY <2>2, <3>1, <3>2 DEF MoveInv
  <2>5. Aside(l)
    BY <1>2, <1>4, <1>6, <2>3, MoveAside DEF Working
  <2>6. NothingLost'
    <3>1. \A r : Exists(r) /\ Read(r) \notin overlooked => Exists(r)' /\ Read(r)' = Read(r)
      BY <1>4, <1>6 DEF Same, Takes
    <3> QED
      BY <1>3, <3>1, LossStays DEF LossInv
  <2>7. MovingTo(m) => m.to[3] < clock' /\ MovingTo(l) /\ m.to = l.to
    BY <1>2, <1>3, <1>4, <2>2 DEF MovingTo, Working
  <2>8. h' = [h EXCEPT ![p] = m]
    BY <1>6, <2>1
  <2> QED
    BY <1>1, <1>3, <1>4, <2>4, <2>5, <2>6, <2>7, <2>8, LossKept
<1> QED
  BY <1>4, <1>5, <1>6

\* Copy: the new file holds what the old one holds, if that is there.
LEMMA LossCopy ==
  ASSUME TypeInv, LossInv, RestoresAlone, NEW p \in Handlers, Copy(p)
  PROVE  LossInv'
<1>1. PICK l : l = h[p]
  OBVIOUS
<1>2. Before(p, l) /\ l \in HandlerType /\ MoveInv(l) /\ (MovingTo(l) => l.to[3] < clock)
  BY <1>1, LossBefore DEF Before
<1>3. UNCHANGED <<clock, givenUp, overlooked>>
  BY DEF Copy, history
<1>4. /\ l.pc = "copy" /\ Exists(l.to) /\ Read(l.to) = Torn /\ l.from # l.to
      /\ l.call # "permanent" /\ DiskInv'
      /\ \/ h' = [h EXCEPT ![p] = Failed(l)] /\ UNCHANGED disk
         \/ /\ h' = [h EXCEPT ![p] = Labelled(l, "remove", l.in, l.out)]
            /\ Exists(l.to)' /\ (Exists(l.from) => Read(l.to)' = Read(l.from))
            /\ \A r : r # l.to => Same(r)
  BY <1>2, CopyEffect
<1>5. CASE h' = [h EXCEPT ![p] = Failed(l)] /\ UNCHANGED disk
  BY <1>2, <1>3, <1>5, FailedFields, LossRest DEF Working
<1>6. CASE /\ h' = [h EXCEPT ![p] = Labelled(l, "remove", l.in, l.out)]
           /\ Exists(l.to)' /\ (Exists(l.from) => Read(l.to)' = Read(l.from))
           /\ \A r : r # l.to => Same(r)
  <2>1. PICK m : m = Labelled(l, "remove", l.in, l.out)
    OBVIOUS
  <2>2. m.pc = "remove" /\ m.to = l.to /\ m.from = l.from /\ m.call = l.call
    BY <1>2, <2>1, LabelledFields
  <2>3. Same(l.from)
    BY <1>4, <1>6
  <2>4. MoveInv(m)'
    <3>1. Exists(m.from)' => Read(m.to)' = Read(m.from)'
      BY <1>6, <2>2, <2>3 DEF Same
    <3>2. Exists(m.to)'
      BY <1>6, <2>2
    <3> QED
      BY <2>2, <3>1, <3>2 DEF MoveInv
  <2>5. Aside(l)
    BY <1>2, <1>4, <1>6, <2>3, MoveAside DEF Working
  <2>6. NothingLost'
    <3>1. \A r : Exists(r) => Read(r) = Torn \/ (Exists(r)' /\ Read(r)' = Read(r))
      BY <1>4, <1>6 DEF Same
    <3> QED
      BY <1>3, <3>1, LossStays DEF LossInv
  <2>7. MovingTo(m) => m.to[3] < clock' /\ MovingTo(l) /\ m.to = l.to
    BY <1>2, <1>3, <1>4, <2>2 DEF MovingTo, Working
  <2>8. h' = [h EXCEPT ![p] = m]
    BY <1>6, <2>1
  <2> QED
    BY <1>1, <1>3, <1>4, <2>4, <2>5, <2>6, <2>7, <2>8, LossKept
<1> QED
  BY <1>4, <1>5, <1>6

\* Remove: what is taken away is complete elsewhere, or was given up.
LEMMA LossRemove ==
  ASSUME TypeInv, LossInv, RestoresAlone, NEW p \in Handlers, Remove(p)
  PROVE  LossInv'
<1>1. PICK l : l = h[p]
  OBVIOUS
<1>2. Before(p, l) /\ l \in HandlerType
  BY <1>1, LossBefore
<1>3. UNCHANGED clock
  BY DEF Remove
<1>4. /\ l.pc = "remove" /\ DiskInv'
      /\ l.call # "permanent" => /\ l.from # l.to /\ Exists(l.to)
                                 /\ Exists(l.from) => Read(l.to) = Read(l.from)
      /\ \/ h' = [h EXCEPT ![p] = Failed(l)] /\ UNCHANGED <<disk, givenUp, overlooked>>
         \/ /\ h' = [h EXCEPT ![p] = Succeeded(l)]
            /\ Exists(l.from) /\ ~Exists(l.from)' /\ \A r : r # l.from => Same(r)
            /\ givenUp' = IF l.call = "permanent" THEN givenUp \cup {Read(l.from)}
                          ELSE givenUp
            /\ UNCHANGED overlooked
  BY <1>2, RemoveEffect
<1>5. CASE h' = [h EXCEPT ![p] = Failed(l)] /\ UNCHANGED <<disk, givenUp, overlooked>>
  BY <1>2, <1>3, <1>5, FailedFields, LossRest DEF Working
<1>6. CASE /\ h' = [h EXCEPT ![p] = Succeeded(l)]
           /\ Exists(l.from) /\ ~Exists(l.from)' /\ \A r : r # l.from => Same(r)
           /\ givenUp' = IF l.call = "permanent" THEN givenUp \cup {Read(l.from)}
                         ELSE givenUp
           /\ UNCHANGED overlooked
  <2>1. PICK m : m = Succeeded(l)
    OBVIOUS
  <2>2. m.pc \notin Working
    BY <1>2, <2>1, SucceededFields DEF Working
  <2>3. MoveInv(m)' /\ ~MovingTo(m)
    BY <2>2 DEF MoveInv, MovingTo, Working
  <2>4. Aside(l)
    BY <1>2, <1>4, <1>6, MoveAside DEF Working
  <2>5. NothingLost'
    <3>1. ASSUME NEW r, Exists(r), Read(r) \notin givenUp' \cup overlooked'
          PROVE  \E q : Exists(q)' /\ Read(q)' = Read(r)
      <4>1. CASE r # l.from
        BY <1>6, <3>1, <4>1 DEF Same
      <4>2. CASE r = l.from
        <5>1. l.call # "permanent"
          BY <1>6, <3>1, <4>2
        <5>2. Exists(l.to)' /\ Read(l.to)' = Read(l.from)
          BY <1>4, <1>6, <5>1 DEF Same
        <5> QED
          BY <4>2, <5>2
      <4> QED
        BY <4>1, <4>2
    <3> QED
      BY <1>6, <3>1, LossStays DEF LossInv
  <2>6. h' = [h EXCEPT ![p] = m]
    BY <1>6, <2>1
  <2> QED
    BY <1>1, <1>3, <1>4, <2>3, <2>4, <2>5, <2>6, LossKept
<1> QED
  BY <1>4, <1>5, <1>6

\* Other programs, between requests, and a kill.
LEMMA LossAround ==
  ASSUME ~EditDuringCalls, TypeInv, LossInv,
         Kill \/ \E s \in Source : Appear(s) \/ Vanish(s)
  PROVE  LossInv'
<1>1. \A p \in Handlers : h'[p].pc \notin Working
  BY DEF Kill, Appear, Vanish, Edit, IdleHandler, Working
<1>2. NamesInv' /\ \A p \in Handlers : MoveInv(h[p])'
  BY <1>1 DEF NamesInv, Moving, MoveInv, Working
<1>3. CASE Kill
  BY <1>2, <1>3 DEF Kill, disk, history, LossInv, DiskInv, NothingLost, Exists, Read
<1>4. ASSUME NEW s \in Source, Appear(s)
      PROVE  LossInv'
  <2>1. NodesOK /\ DataOK /\ DirOK /\ Foreign \in Content /\ s \notin Stored
    BY BackupAssumption, TypeParts DEF Content
  <2>2. DiskInv' /\ (\A r : r # s => Same(r)) /\ ~Exists(s)
    BY <1>4, <2>1, CreatedDisk DEF Appear, Edit, LossInv
  <2>3. NothingLost'
    BY <1>4, <2>2, LossStays DEF Appear, history, Same, LossInv
  <2> QED
    BY <1>2, <2>2, <2>3 DEF LossInv
<1>5. ASSUME NEW s \in Source, Vanish(s)
      PROVE  LossInv'
  <2>1. DiskInv' /\ \A r : r # s => Same(r)
    BY <1>5, UnlinkedDisk DEF Vanish, Edit, LossInv
  <2>2. NothingLost'
    BY <1>5, <2>1, LossStays DEF Vanish, Same, LossInv
  <2> QED
    BY <1>2, <2>1, <2>2 DEF LossInv
<1> QED
  BY <1>3, <1>4, <1>5

\* Nothing is lost when the server is started for the first time.
LEMMA LossInit == Init => LossInv
<1> SUFFICES ASSUME Init
             PROVE  LossInv
  OBVIOUS
<1>1. \A p \in Handlers : h[p].pc = "idle"
  BY DEF Init, IdleHandler
<1>2. DiskInv
  BY BackupAssumption DEF Init, DiskInv
<1>3. NothingLost
  BY DEF Init, NothingLost, Read, Exists
<1> QED
  BY <1>1, <1>2, <1>3 DEF LossInv, NamesInv, Moving, MoveInv, Working

\* No step loses a content, while restores run alone.
LEMMA LossNext ==
  ASSUME ~EditDuringCalls, TypeInv, LossInv, RestoresAlone, [Next]_vars
  PROVE  LossInv'
<1>1. CASE UNCHANGED vars
  BY <1>1 DEF vars, disk, bounds, history, LossInv, DiskInv, NamesInv, NothingLost, Moving,
     MoveInv, Takes, Exists, Read
<1>2. CASE Kill \/ \E s \in Source : Appear(s) \/ Vanish(s)
  BY <1>2, LossAround
<1>3. ASSUME NEW p \in Handlers, Handler(p)
      PROVE  LossInv'
  BY <1>3, LossOther, LossNextFile, LossNextMapping, LossRenameOk, LossRenameFails,
     LossOpen, LossCreate, LossCopy, LossRemove DEF Handler
<1> QED
  BY <1>1, <1>2, <1>3 DEF Next

\* The invariant behind it, for any number of deletes at a time.
THEOREM LossInvariant ==
  ASSUME ~EditDuringCalls
  PROVE  Spec /\ []RestoresAlone => []LossInv
BY LossInit, LossNext, TypeInvariant, PTL DEF Spec

\* backup.go, "no permanent deletion": however many deletes overlap, whatever
\* fails and whenever the server is killed, every content that was not given up
\* and not overlooked is complete somewhere on the disk, provided that no restore runs together
\* with another request and other programs wait for the requests to end.
THEOREM NothingLostHolds ==
  ASSUME ~EditDuringCalls
  PROVE  Spec /\ []RestoresAlone => []NothingLost
<1>1. LossInv => NothingLost
  BY DEF LossInv
<1> QED
  BY <1>1, LossInvariant, PTL

-----------------------------------------------------------------------------
\* One request at a time.

\* It runs no restore beside another request.
LEMMA OneIsAlone == OneAtATime => RestoresAlone
BY DEF OneAtATime, RestoresAlone, Restoring

\* A step of request p, with l before it and m after it, keeps what is known of
\* the calls if it keeps it of the disk, of the manifest and of p.
LEMMA CallKept ==
  ASSUME TypeInv, OneAtATime, OneAtATime', NEW p \in Handlers, NEW l, l = h[p], NEW m,
         h' = [h EXCEPT ![p] = m], l.pc # "idle" \/ m.pc # "idle",
         CleanInv', ReplyInv(m)', ParallelInv(m)', RestoreInv(m)'
  PROVE  CallInv'
<1>1. HandlersOK
  BY TypeParts
<1>2. h'[p] = m /\ \A q \in Handlers : q # p => h'[q] = h[q]
  BY <1>1 DEF HandlersOK
<1>3. \A q \in Handlers : q # p => h'[q] = IdleHandler
  <2> SUFFICES ASSUME NEW q \in Handlers, q # p
               PROVE  h[q].pc = "idle"
    BY <1>1, <1>2 DEF HandlersOK, HandlerOK
  <2> QED
    BY <1>2 DEF OneAtATime, Running
<1>4. ASSUME NEW n, n = IdleHandler
      PROVE  ReplyInv(n)' /\ ParallelInv(n)' /\ RestoreInv(n)'
  BY <1>4 DEF IdleHandler, ReplyInv, ParallelInv, RestoreInv
<1>5. ASSUME NEW q \in Handlers, NEW n \in {h'[q]}
      PROVE  ReplyInv(n)' /\ ParallelInv(n)' /\ RestoreInv(n)'
  BY <1>2, <1>3, <1>4, <1>5
<1> QED
  BY <1>5 DEF CallInv

\* While a delete runs, the manifest is not that of the last delete.
LEMMA CallDelete ==
  ASSUME TypeInv, OneAtATime, OneAtATime', NEW p \in Handlers, NEW l, l = h[p], NEW m,
         h' = [h EXCEPT ![p] = m], RestoreInv(l), l.pc # "idle", l.call # "restore",
         clean' = clean, ReplyInv(m)', ParallelInv(m)'
  PROVE  CallInv'
<1>1. ~clean'
  BY DEF RestoreInv
<1>2. CleanInv' /\ RestoreInv(m)'
  BY <1>1 DEF CleanInv, RestoreInv
<1> QED
  BY <1>2, CallKept

\* A restore has nothing to reply of files it deletes.
LEMMA CallRestore ==
  ASSUME TypeInv, OneAtATime, OneAtATime', NEW p \in Handlers, NEW l, l = h[p], NEW m,
         h' = [h EXCEPT ![p] = m], l.pc # "idle" \/ m.pc # "idle", m.call = "restore",
         CleanInv', RestoreInv(m)'
  PROVE  CallInv'
<1>1. ReplyInv(m)' /\ ParallelInv(m)'
  BY DEF ReplyInv, ParallelInv
<1> QED
  BY <1>1, CallKept

\* The manifest stays as good as it was while the contents are where it says.
LEMMA CleanStays ==
  ASSUME CleanInv, UNCHANGED <<manifest, clean>>, batch' \subseteq batch,
         clean => \A x \in batch', k \in DOMAIN manifest :
             /\ manifest[k].source = x[1] /\ x[2] # Gone
             /\ Read(manifest[k].backup) \in {x[2], Gone}
             => /\ Read(manifest[k].backup)' \in {x[2], Gone}
                /\ x[2] \in {Read(x[1]), Read(manifest[k].backup)} =>
                       x[2] \in {Read(x[1])', Read(manifest[k].backup)'}
  PROVE  CleanInv'
<1> SUFFICES ASSUME clean'
             PROVE  CleanInv'
  BY DEF CleanInv
<1>1. Accounted'
  <2> SUFFICES ASSUME NEW x \in batch'
               PROVE  \E k \in DOMAIN manifest :
                         /\ manifest[k].source = x[1]
                         /\ x[2] \in {Read(x[1])', Read(manifest[k].backup)'}
    BY DEF Accounted
  <2>1. PICK k \in DOMAIN manifest : /\ manifest[k].source = x[1]
                                     /\ x[2] \in {Read(x[1]), Read(manifest[k].backup)}
    BY DEF CleanInv, Accounted
  <2>2. x[2] # Gone
    BY DEF CleanInv
  <2>3. x[2] \in {Read(x[1])', Read(manifest[k].backup)'}
    BY <2>1, <2>2 DEF CleanInv
  <2> QED
    BY <2>1, <2>3
<1>2. \A x \in batch', k \in DOMAIN manifest :
         manifest[k].source = x[1] => Read(manifest[k].backup)' \in {x[2], Gone}
  BY DEF CleanInv
<1>3. \A x \in batch', k \in DOMAIN manifest' :
         manifest'[k].source = x[1] => Read(manifest[k].backup)' \in {x[2], Gone}
  BY <1>2
<1> QED
  BY <1>1, <1>3 DEF CleanInv

\* A delete that is at work on a file knows it from the others.
LEMMA DeleteFacts ==
  ASSUME NEW D, NEW l, HandlerOK(l, D), l.pc \in Working, l.call # "restore", ReplyInv(l)
  PROVE  /\ l \in HandlerType /\ l.i \in Nat \ {0} /\ Done(l) = l.i - 1 /\ l.pc # "idle"
         /\ l.i \in DOMAIN l.files /\ l.from = l.files[l.i] /\ l.from \in Source
         /\ ItemOf(l) = l.from /\ l.had[l.i] = Read(l.from) /\ l.from \notin l.failed
         /\ \A k \in 1..(l.i - 1) : /\ k \in DOMAIN l.files /\ l.files[k] \in Source
                                    /\ l.files[k] # l.from
         /\ Len(l.moved) \in Nat /\ DOMAIN l.moved = 1..Len(l.moved)
         /\ l.call # "permanent" =>
               /\ l.to \in Stored
               /\ \A j \in DOMAIN l.moved : /\ l.moved[j] \in Stored /\ l.moved[j] # l.to
                                            /\ Exists(l.moved[j])
<1>1. /\ l \in HandlerType /\ l.i \in Nat \ {0} /\ l.i \in DOMAIN l.files
      /\ l.from \in Source /\ l.pc # "idle" /\ Done(l) = l.i - 1
      /\ l.call \in {"restore", "backup", "trash", "permanent"} /\ ItemOf(l) = l.from
  BY Ways DEF Working, Done
<1>2. /\ DOMAIN l.files = 1..Len(l.files) /\ Len(l.files) \in Nat
      /\ Len(l.moved) \in Nat /\ DOMAIN l.moved = 1..Len(l.moved)
      /\ \A k \in 1..Len(l.files) : l.files[k] \in Source
  BY <1>1, Lengths
<1>3. /\ l.from = l.files[l.i] /\ l.had[l.i] = Read(l.from)
      /\ \A j, k \in DOMAIN l.files : l.files[j] = l.files[k] => j = k
      /\ l.failed \subseteq {l.files[k] : k \in 1..(l.i - 1)}
  BY <1>1 DEF HandlerOK, ReplyInv
<1>4. \A k \in 1..(l.i - 1) : /\ k \in DOMAIN l.files /\ l.files[k] \in Source
                              /\ l.files[k] # l.from
  BY <1>1, <1>2, <1>3
<1>5. l.from \notin l.failed
  BY <1>3, <1>4
<1>6. ASSUME l.call # "permanent"
      PROVE  /\ l.to \in Stored
             /\ \A j \in DOMAIN l.moved : /\ l.moved[j] \in Stored /\ l.moved[j] # l.to
                                          /\ Exists(l.moved[j])
  <2>1. l.moved \in Seq(Stored) /\ l.to \in Stored
    BY <1>1, <1>6 DEF HandlerOK
  <2>2. \A j \in DOMAIN l.moved : l.moved[j] \in Stored
    BY <1>2, <2>1, ElementOfSeq
  <2> QED
    BY <1>1, <1>6, <2>1, <2>2 DEF ReplyInv
<1> QED
  BY <1>1, <1>2, <1>3, <1>4, <1>5, <1>6

\* What was moved is as long as the files asked for.
LEMMA DoneFacts ==
  ASSUME NEW D, NEW l, HandlerOK(l, D), l.call # "restore"
  PROVE  /\ Done(l) \in Nat /\ \A k \in 1..Done(l) : k \in DOMAIN l.files /\ l.files[k] \in Source
         /\ Len(l.moved) \in Nat /\ DOMAIN l.moved = 1..Len(l.moved)
<1>1. l \in HandlerType
  BY DEF HandlerOK
<1>2. l.i \in Nat \ {0} /\ Len(l.files) \in Nat
  BY <1>1, Lengths
<1>3. Done(l) \in Nat /\ Done(l) <= Len(l.files)
  BY <1>2 DEF HandlerOK, Asked, Done, Working
<1> QED
  BY <1>1, <1>2, <1>3, Lengths

\* What is known of the files that are done stays true while they are left alone.
LEMMA ReplyStays ==
  ASSUME NEW D, NEW l, HandlerOK(l, D), l.call # "restore", l.pc # "idle", NEW m,
         m.call = l.call, m.files = l.files, m.failed = l.failed, m.moved = l.moved,
         m.had = l.had, Done(m) = Done(l),
         m.pc \in Working => l.pc \in Working /\ m.i = l.i /\ m.to = l.to /\ m.from = l.from,
         ReplyInv(l), ParallelInv(l),
         \A r \in Source : Same(r),
         l.call # "permanent" => \A j \in DOMAIN l.moved : Same(l.moved[j])
  PROVE  ReplyInv(m)' /\ ParallelInv(m)'
<1>1. /\ Done(l) \in Nat /\ \A k \in 1..Done(l) : k \in DOMAIN l.files /\ l.files[k] \in Source
      /\ Len(l.moved) \in Nat /\ DOMAIN l.moved = 1..Len(l.moved)
  BY DoneFacts
<1>2. ASSUME NEW k \in 1..Done(l)
      PROVE  IF l.files[k] \in l.failed THEN Read(l.files[k])' = l.had[k]
             ELSE /\ ~Exists(l.files[k])'
                  /\ l.call = "permanent"
                     \/ \E j \in DOMAIN l.moved : Read(l.moved[j])' = l.had[k]
  <2>1. IF l.files[k] \in l.failed THEN Read(l.files[k]) = l.had[k]
        ELSE /\ ~Exists(l.files[k])
             /\ l.call = "permanent"
                \/ \E j \in DOMAIN l.moved : Read(l.moved[j]) = l.had[k]
    BY DEF ReplyInv
  <2>2. Same(l.files[k])
    BY <1>1
  <2> QED
    BY <2>1, <2>2 DEF Same
<1>3. m.pc \in Working => m.had[m.i] = Read(m.files[m.i])'
  <2> SUFFICES ASSUME m.pc \in Working
               PROVE  l.had[l.i] = Read(l.files[l.i])'
    OBVIOUS
  <2>1. l.had[l.i] = Read(l.files[l.i]) /\ l.files[l.i] \in Source
    BY DeleteFacts
  <2> QED
    BY <2>1 DEF Same
<1>4. l.call # "permanent" =>
         \A j \in DOMAIN l.moved : /\ Exists(l.moved[j])'
                                   /\ m.pc \in Working => l.moved[j] # m.to
  BY DEF ReplyInv, Same
<1>5. /\ \A j, k \in DOMAIN l.files : l.files[j] = l.files[k] => j = k
      /\ l.failed \subseteq {l.files[k] : k \in 1..Done(l)}
  BY DEF ReplyInv
<1>6. ReplyInv(m)'
  BY <1>2, <1>3, <1>4, <1>5 DEF ReplyInv
<1>7. ParallelInv(m)'
  <2> SUFFICES ASSUME l.call = "backup", l.failed = {}
               PROVE  /\ Len(l.moved) = Done(l)
                      /\ \A k \in 1..Done(l) : l.had[k] # Gone /\ Read(l.moved[k])' = l.had[k]
                      /\ \A j, k \in DOMAIN l.moved : l.moved[j] = l.moved[k] => j = k
    BY DEF ParallelInv
  <2>1. /\ Len(l.moved) = Done(l)
        /\ \A k \in 1..Done(l) : l.had[k] # Gone /\ Read(l.moved[k]) = l.had[k]
        /\ \A j, k \in DOMAIN l.moved : l.moved[j] = l.moved[k] => j = k
    BY DEF ParallelInv
  <2> QED
    BY <1>1, <2>1 DEF Same
<1> QED
  BY <1>6, <1>7

\* A file that failed is where it was.
LEMMA ReplyFailed ==
  ASSUME NEW D, NEW l, HandlerOK(l, D), l.pc \in Working, l.call # "restore", NEW m,
         m = Failed(l), ReplyInv(l), UNCHANGED disk
  PROVE  ReplyInv(m)' /\ ParallelInv(m)'
<1>1. /\ l \in HandlerType /\ l.i \in Nat \ {0} /\ Done(l) = l.i - 1 /\ l.pc # "idle"
      /\ l.i \in DOMAIN l.files /\ l.from = l.files[l.i]
      /\ ItemOf(l) = l.from /\ l.had[l.i] = Read(l.from)
      /\ \A k \in 1..(l.i - 1) : k \in DOMAIN l.files /\ l.files[k] # l.from
  BY DeleteFacts
<1>2. /\ m.pc = "next" /\ m.i = l.i + 1 /\ m.failed = l.failed \cup {l.from}
      /\ m.call = l.call /\ m.files = l.files /\ m.moved = l.moved /\ m.had = l.had
  BY <1>1, FailedFields
<1>3. Done(m) = l.i /\ m.pc \notin Working
  BY <1>1, <1>2 DEF Done, Working
<1>4. \A r : Same(r)
  BY DiskStays
<1>5. ASSUME NEW k \in 1..l.i
      PROVE  IF l.files[k] \in m.failed THEN Read(l.files[k])' = l.had[k]
             ELSE /\ ~Exists(l.files[k])'
                  /\ l.call = "permanent"
                     \/ \E j \in DOMAIN l.moved : Read(l.moved[j])' = l.had[k]
  <2>1. CASE k = l.i
    BY <1>1, <1>2, <1>4, <2>1 DEF Same
  <2>2. CASE k # l.i
    <3>1. k \in 1..(l.i - 1)
      BY <1>1, <2>2
    <3>2. l.files[k] # l.from
      BY <1>1, <3>1
    <3>3. IF l.files[k] \in l.failed THEN Read(l.files[k]) = l.had[k]
          ELSE /\ ~Exists(l.files[k])
               /\ l.call = "permanent"
                  \/ \E j \in DOMAIN l.moved : Read(l.moved[j]) = l.had[k]
      BY <1>1, <3>1 DEF ReplyInv
    <3>4. l.files[k] \in m.failed <=> l.files[k] \in l.failed
      BY <1>2, <3>2
    <3> QED
      BY <1>4, <3>3, <3>4 DEF Same
  <2> QED
    BY <2>1, <2>2
<1>6. m.failed \subseteq {l.files[k] : k \in 1..l.i}
  <2>1. l.failed \subseteq {l.files[k] : k \in 1..(l.i - 1)}
    BY <1>1 DEF ReplyInv
  <2>2. 1..(l.i - 1) \subseteq 1..l.i /\ l.i \in 1..l.i
    BY <1>1
  <2> QED
    BY <1>1, <1>2, <2>1, <2>2
<1>7. /\ \A j, k \in DOMAIN l.files : l.files[j] = l.files[k] => j = k
      /\ l.call # "permanent" => \A j \in DOMAIN l.moved : Exists(l.moved[j])'
  BY <1>1, <1>4 DEF ReplyInv, Same
<1>8. ReplyInv(m)'
  BY <1>2, <1>3, <1>5, <1>6, <1>7 DEF ReplyInv
<1>9. ParallelInv(m)'
  BY <1>2 DEF ParallelInv
<1> QED
  BY <1>8, <1>9

\* A file that was moved is complete where it went and nowhere else.
LEMMA ReplyMoved ==
  ASSUME NEW D, NEW l, HandlerOK(l, D), l.pc \in Working, l.call # "restore", NEW m,
         m = Succeeded(l), ReplyInv(l), ParallelInv(l),
         ~Exists(l.from)', Read(l.from) # Gone,
         l.call # "permanent" => Exists(l.to)' /\ Read(l.to)' = Read(l.from),
         \A r : r \notin {l.from, l.to} => Same(r),
         l.call = "permanent" => \A r : r # l.from => Same(r)
  PROVE  ReplyInv(m)' /\ ParallelInv(m)'
<1> DEFINE e == IF l.call = "permanent" THEN l.from ELSE l.to
<1>1. /\ l \in HandlerType /\ l.i \in Nat \ {0} /\ Done(l) = l.i - 1 /\ l.pc # "idle"
      /\ l.i \in DOMAIN l.files /\ l.from = l.files[l.i] /\ l.from \in Source
      /\ l.had[l.i] = Read(l.from) /\ l.from \notin l.failed
      /\ \A k \in 1..(l.i - 1) : /\ k \in DOMAIN l.files /\ l.files[k] \in Source
                                 /\ l.files[k] # l.from
      /\ Len(l.moved) \in Nat /\ DOMAIN l.moved = 1..Len(l.moved)
      /\ l.call # "permanent" =>
            /\ l.to \in Stored
            /\ \A j \in DOMAIN l.moved : /\ l.moved[j] \in Stored /\ l.moved[j] # l.to
                                         /\ Exists(l.moved[j])
  BY DeleteFacts
<1>2. /\ m.pc = IF l.call = "trash" THEN "trashinfo" ELSE "next"
      /\ m.i = IF l.call = "trash" THEN l.i ELSE l.i + 1
      /\ m.moved = Append(l.moved, e) /\ m.failed = l.failed
      /\ m.call = l.call /\ m.files = l.files /\ m.had = l.had
  BY <1>1, SucceededFields
<1>3. Done(m) = l.i /\ m.pc \notin Working /\ m.pc # "idle"
  BY <1>1, <1>2 DEF Done, Working
<1>4. Source \cap Stored = {}
  BY BackupAssumption
<1>5. \A k \in 1..(l.i - 1) : Same(l.files[k])
  BY <1>1, <1>4
<1>6. l.call # "permanent" => \A j \in DOMAIN l.moved : Same(l.moved[j])
  BY <1>1, <1>4
<1> HIDE DEF e
<1>7. /\ DOMAIN m.moved = 1..(Len(l.moved) + 1) /\ Len(m.moved) = Len(l.moved) + 1
      /\ m.moved[Len(l.moved) + 1] = e
      /\ \A j \in DOMAIN l.moved : j \in DOMAIN m.moved /\ m.moved[j] = l.moved[j]
  BY <1>1, <1>2, AppendProperties DEF HandlerType
<1>8. l.call # "permanent" => e = l.to
  BY DEF e
<1>9. ASSUME NEW k \in 1..l.i
      PROVE  IF l.files[k] \in l.failed THEN Read(l.files[k])' = l.had[k]
             ELSE /\ ~Exists(l.files[k])'
                  /\ l.call = "permanent"
                     \/ \E j \in DOMAIN m.moved : Read(m.moved[j])' = l.had[k]
  <2>1. CASE k = l.i
    <3>1. l.call # "permanent" => Read(m.moved[Len(l.moved) + 1])' = l.had[l.i]
      BY <1>1, <1>7, <1>8
    <3>2. Len(l.moved) + 1 \in DOMAIN m.moved
      BY <1>1, <1>7
    <3> QED
      BY <1>1, <2>1, <3>1, <3>2
  <2>2. CASE k # l.i
    <3>1. k \in 1..(l.i - 1)
      BY <1>1, <2>2
    <3>2. IF l.files[k] \in l.failed THEN Read(l.files[k]) = l.had[k]
          ELSE /\ ~Exists(l.files[k])
               /\ l.call = "permanent"
                  \/ \E j \in DOMAIN l.moved : Read(l.moved[j]) = l.had[k]
      BY <1>1, <3>1 DEF ReplyInv
    <3>3. Same(l.files[k])
      BY <1>5, <3>1
    <3>4. ASSUME l.call # "permanent", NEW j \in DOMAIN l.moved, Read(l.moved[j]) = l.had[k]
          PROVE  j \in DOMAIN m.moved /\ Read(m.moved[j])' = l.had[k]
      BY <1>6, <1>7, <3>4 DEF Same
    <3> QED
      BY <3>2, <3>3, <3>4 DEF Same
  <2> QED
    BY <2>1, <2>2
<1>10. l.failed \subseteq {l.files[k] : k \in 1..l.i}
  <2>1. l.failed \subseteq {l.files[k] : k \in 1..(l.i - 1)}
    BY <1>1 DEF ReplyInv
  <2>2. 1..(l.i - 1) \subseteq 1..l.i
    BY <1>1
  <2> QED
    BY <2>1, <2>2
<1>11. \A j, k \in DOMAIN l.files : l.files[j] = l.files[k] => j = k
  BY <1>1 DEF ReplyInv
<1>12. \A j \in DOMAIN m.moved : j = Len(l.moved) + 1 \/ j \in DOMAIN l.moved
  BY <1>1, <1>7
<1>13. l.call # "permanent" => \A j \in DOMAIN m.moved : Exists(m.moved[j])'
  <2> SUFFICES ASSUME l.call # "permanent", NEW j \in DOMAIN m.moved
               PROVE  Exists(m.moved[j])'
    OBVIOUS
  <2>1. CASE j = Len(l.moved) + 1
    BY <1>7, <1>8, <2>1
  <2>2. CASE j \in DOMAIN l.moved
    BY <1>1, <1>6, <1>7, <2>2 DEF Same
  <2> QED
    BY <1>12, <2>1, <2>2
<1>14. ReplyInv(m)'
  BY <1>2, <1>3, <1>9, <1>10, <1>11, <1>13 DEF ReplyInv
<1>15. ParallelInv(m)'
  <2> SUFFICES ASSUME l.call = "backup", l.failed = {}
               PROVE  /\ Len(m.moved) = l.i
                      /\ \A k \in 1..l.i : l.had[k] # Gone /\ Read(m.moved[k])' = l.had[k]
                      /\ \A j, k \in DOMAIN m.moved : m.moved[j] = m.moved[k] => j = k
    BY <1>2, <1>3 DEF ParallelInv
  <2>1. /\ Len(l.moved) = l.i - 1
        /\ \A k \in 1..(l.i - 1) : l.had[k] # Gone /\ Read(l.moved[k]) = l.had[k]
        /\ \A j, k \in DOMAIN l.moved : l.moved[j] = l.moved[k] => j = k
    BY <1>1 DEF ParallelInv
  <2>2. Len(m.moved) = l.i
    BY <1>1, <1>7, <2>1
  <2>3. ASSUME NEW k \in 1..l.i
        PROVE  l.had[k] # Gone /\ Read(m.moved[k])' = l.had[k]
    <3>1. CASE k = l.i
      BY <1>1, <1>7, <1>8, <2>1, <3>1
    <3>2. CASE k \in 1..(l.i - 1)
      <4>1. k \in DOMAIN l.moved
        BY <1>1, <2>1, <3>2
      <4>2. Same(l.moved[k]) /\ m.moved[k] = l.moved[k]
        BY <1>6, <1>7, <4>1
      <4> QED
        BY <2>1, <3>2, <4>2 DEF Same
    <3> QED
      BY <1>1, <3>1, <3>2
  <2>4. \A j, k \in DOMAIN m.moved : m.moved[j] = m.moved[k] => j = k
    <3>1. \A j \in DOMAIN l.moved : m.moved[j] = l.moved[j] /\ m.moved[j] # e
      BY <1>1, <1>7, <1>8
    <3> QED
      BY <1>7, <1>12, <2>1, <3>1
  <2> QED
    BY <2>2, <2>3, <2>4
<1> QED
  BY <1>14, <1>15

\* What the invariants say of the request that takes the step.
LEMMA CallBefore ==
  ASSUME TypeInv, LossInv, CallInv, NEW p \in Handlers, NEW l, l = h[p]
  PROVE  /\ Before(p, l) /\ l \in HandlerType /\ HandlerOK(l, DOMAIN data) /\ MoveInv(l)
         /\ ReplyInv(l) /\ ParallelInv(l) /\ RestoreInv(l) /\ CleanInv
         /\ clock \in Nat /\ Source \cap Stored = {}
         /\ clean => \A k \in DOMAIN manifest : /\ manifest[k].source \in Source
                                                /\ manifest[k].backup \in Stored
<1>1. Before(p, l) /\ l \in HandlerType /\ HandlerOK(l, DOMAIN data) /\ clock \in Nat
  BY LossBefore
<1>2. ReplyInv(l) /\ ParallelInv(l) /\ RestoreInv(l) /\ CleanInv
  BY DEF CallInv
<1>3. ASSUME clean
      PROVE  \A k \in DOMAIN manifest : /\ manifest[k].source \in Source
                                        /\ manifest[k].backup \in Stored
  <2>1. manifest \in Seq(Mapping)
    BY <1>2, <1>3 DEF CleanInv
  <2>2. \A k \in DOMAIN manifest : manifest[k] \in Mapping
    BY <2>1, ElementOfSeq, LenProperties
  <2> QED
    BY <2>2 DEF Mapping
<1> QED
  BY <1>1, <1>2, <1>3, BackupAssumption DEF Before

\* A disk that is left alone keeps the manifest as good as it was.
LEMMA CleanQuiet ==
  ASSUME CleanInv, UNCHANGED <<disk, manifest, clean, batch>>
  PROVE  CleanInv'
<1>1. \A r : Same(r)
  BY DiskStays
<1> QED
  BY <1>1, CleanStays DEF Same

\* A restore keeps it so, too, while the content in hand is at one of its names.
LEMMA CleanMoved ==
  ASSUME CleanInv, NEW D, NEW l, HandlerOK(l, D), l.pc \in Working, RestoreInv(l),
         clean => \A k \in DOMAIN manifest : /\ manifest[k].source \in Source
                                             /\ manifest[k].backup \in Stored,
         UNCHANGED <<manifest, clean, batch>>,
         \A r : r \notin {l.from, l.to} => Same(r),
         clean => Read(l.from) # Gone,
         Same(l.from) \/ (~Exists(l.from)' /\ Read(l.to)' = Read(l.from))
  PROVE  CleanInv'
<1> SUFFICES ASSUME clean, NEW x \in batch', NEW k \in DOMAIN manifest,
                    manifest[k].source = x[1], x[2] # Gone,
                    Read(manifest[k].backup) \in {x[2], Gone}
             PROVE  /\ Read(manifest[k].backup)' \in {x[2], Gone}
                    /\ x[2] \in {Read(x[1]), Read(manifest[k].backup)} =>
                           x[2] \in {Read(x[1])', Read(manifest[k].backup)'}
  BY CleanStays
<1>1. /\ l.call = "restore" /\ l.mappings = manifest
      /\ l.from = manifest[l.i].backup /\ l.to = manifest[l.i].source
      /\ \A y \in batch : y[1] = l.to => Read(l.from) \in {y[2], Gone}
  BY DEF RestoreInv, Working
<1>2. l.i \in DOMAIN manifest
  BY <1>1, Ways
<1>3. Source \cap Stored = {}
  BY BackupAssumption
<1>4. CASE k = l.i
  <2>1. Read(l.from) = x[2] /\ l.to = x[1] /\ l.from = manifest[k].backup
    BY <1>1, <1>4
  <2>2. ~Exists(l.from)' => Read(l.from)' = Gone
    BY DEF Read, Exists
  <2>3. Same(l.from) => Read(l.from)' \in {x[2], Gone}
    BY <2>1 DEF Same, Read, Exists
  <2>4. x[2] \in {Read(l.to)', Read(l.from)'}
    BY <2>1 DEF Same, Read, Exists
  <2>5. Read(l.from)' \in {x[2], Gone}
    BY <2>2, <2>3
  <2>6. Read(manifest[k].backup)' = Read(l.from)' /\ Read(x[1])' = Read(l.to)'
    BY <2>1 DEF Read, Exists
  <2> QED
    BY <2>4, <2>5, <2>6
<1>5. CASE k # l.i
  <2>1. manifest[k].source # l.to /\ manifest[k].backup # l.from
    BY <1>1, <1>2, <1>5 DEF CleanInv
  <2>2. manifest[k].source # l.from /\ manifest[k].backup # l.to
    BY <1>1, <1>2, <1>3
  <2>3. Same(x[1]) /\ Same(manifest[k].backup)
    BY <2>1, <2>2
  <2>4. Read(manifest[k].backup)' = Read(manifest[k].backup) /\ Read(x[1])' = Read(x[1])
    BY <2>3 DEF Same, Read, Exists
  <2> QED
    BY <2>4
<1> QED
  BY <1>4, <1>5

\* Confirm: a list of different files, and nothing done yet.
LEMMA CallConfirm ==
  ASSUME TypeInv, CallInv, OneAtATime, OneAtATime',
         NEW p \in Handlers, NEW mode \in Modes, NEW b \in Batches, Confirm(p, mode, b)
  PROVE  CallInv'
<1>1. PICK l : l = h[p]
  OBVIOUS
<1>2. PICK m : m = [IdleHandler EXCEPT !.pc = "next", !.call = mode, !.files = b]
  OBVIOUS
<1>3. h' = [h EXCEPT ![p] = m] /\ clean' = FALSE
  BY <1>2 DEF Confirm
<1>4. /\ m.pc = "next" /\ m.i = 1 /\ m.files = b /\ m.failed = {} /\ m.moved = <<>>
  BY <1>2 DEF IdleHandler
<1>5. Done(m) = 0 /\ Len(m.moved) = 0 /\ DOMAIN m.moved = {}
  BY <1>4 DEF Done
<1>6. CleanInv' /\ RestoreInv(m)'
  BY <1>3 DEF CleanInv, RestoreInv
<1>7. ReplyInv(m)' /\ ParallelInv(m)'
  <2>1. \A k \in 1..Done(m) : FALSE
    BY <1>5
  <2>2. \A j, k \in DOMAIN m.files : m.files[j] = m.files[k] => j = k
    BY <1>4, BackupAssumption
  <2>3. m.pc \notin Working /\ m.failed \subseteq {m.files[k] : k \in 1..Done(m)}
    BY <1>4 DEF Working
  <2> QED
    BY <1>5, <2>1, <2>2, <2>3 DEF ReplyInv, ParallelInv
<1> QED
  BY <1>1, <1>3, <1>4, <1>6, <1>7, CallKept

\* Restore: it works on the manifest as it is.
LEMMA CallRestoreStarts ==
  ASSUME TypeInv, CallInv, OneAtATime, OneAtATime', NEW p \in Handlers, Restore(p)
  PROVE  CallInv'
<1>1. PICK l : l = h[p]
  OBVIOUS
<1>2. PICK m : m = [IdleHandler EXCEPT !.pc = "next", !.call = "restore", !.mappings = manifest]
  OBVIOUS
<1>3. h' = [h EXCEPT ![p] = m] /\ UNCHANGED <<disk, manifest, clean, batch>>
  BY <1>2 DEF Restore, history
<1>4. m.pc = "next" /\ m.call = "restore" /\ m.mappings = manifest
  BY <1>2 DEF IdleHandler
<1>5. CleanInv'
  BY <1>3, CleanQuiet DEF CallInv
<1>6. RestoreInv(m)'
  BY <1>3, <1>4 DEF RestoreInv, Working
<1> QED
  BY <1>1, <1>3, <1>4, <1>5, <1>6, CallRestore

\* NextFile: what it has read is what the file holds.
LEMMA CallNextFile ==
  ASSUME TypeInv, LossInv, CallInv, OneAtATime, OneAtATime', NEW p \in Handlers, NextFile(p)
  PROVE  CallInv'
<1>1. PICK l : l = h[p]
  OBVIOUS
<1>2. /\ l \in HandlerType /\ HandlerOK(l, DOMAIN data) /\ clock \in Nat
      /\ ReplyInv(l) /\ ParallelInv(l) /\ RestoreInv(l) /\ DirOK /\ DataOK
  BY <1>1, CallBefore, TypeParts
<1>3. PICK c : c = Read(l.files[l.i])
  OBVIOUS
<1>4. PICK t : t = clock
  OBVIOUS
<1>5. PICK m : m = Started(l, c, t)
  OBVIOUS
<1>6. /\ l.pc = "next" /\ l.call # "restore" /\ h' = [h EXCEPT ![p] = m]
      /\ l.i <= Len(l.files) /\ UNCHANGED <<disk, manifest, clean, batch>>
  BY <1>1, <1>3, <1>4, <1>5, StartEffect DEF history
<1>7. /\ m.from = l.files[l.i] /\ m.had = Append(l.had, c) /\ m.to[3] = t
      /\ m.pc = IF l.call = "permanent" THEN "remove" ELSE "rename"
      /\ m.call = l.call /\ m.files = l.files /\ m.i = l.i
      /\ m.moved = l.moved /\ m.failed = l.failed
  BY <1>2, <1>3, <1>5, ReadType, StartedFields
<1>8. /\ Done(l) = l.i - 1 /\ Done(m) = Done(l) /\ l.i \in Nat \ {0}
      /\ Len(l.had) = l.i - 1 /\ DOMAIN l.had = 1..Len(l.had)
  BY <1>2, <1>6, <1>7, Lengths DEF Done, HandlerOK, Asked, Working
<1>9. /\ \A k \in 1..(l.i - 1) : m.had[k] = l.had[k]
      /\ m.had[l.i] = c
  <2>1. l.had \in Seq(Content \cup {Gone}) /\ c \in Content \cup {Gone}
    BY <1>2, <1>3, ReadType DEF HandlerType
  <2> QED
    BY <1>7, <1>8, <2>1, AppendProperties
<1>10. \A r : Same(r)
  BY <1>6, DiskStays
<1>11. m.had[m.i] = Read(m.files[m.i])'
  BY <1>3, <1>7, <1>9, <1>10 DEF Same
<1>12. l.call # "permanent" => \A j \in DOMAIN l.moved : Exists(l.moved[j]) /\ l.moved[j] # m.to
  <2> SUFFICES ASSUME l.call # "permanent", NEW j \in DOMAIN l.moved
               PROVE  Exists(l.moved[j]) /\ l.moved[j] # m.to
    OBVIOUS
  <2>1. Exists(l.moved[j])
    BY <1>2, <1>6 DEF ReplyInv
  <2>2. l.call \in {"backup", "trash"}
    BY <1>2, <1>6, BackupAssumption DEF HandlerType, Calls
  <2>3. l.moved[j] \in Stored
    BY <1>2, <2>2, ElementOfSeq, LenProperties DEF HandlerOK
  <2>4. l.moved[j][3] < clock
    BY <2>1, <2>3 DEF LossInv, DiskInv, Exists
  <2> QED
    BY <1>2, <1>4, <1>7, <2>1, <2>4
<1>13. ReplyInv(m)'
  <2>1. ASSUME NEW k \in 1..(l.i - 1)
        PROVE  IF l.files[k] \in l.failed THEN Read(l.files[k])' = m.had[k]
               ELSE /\ ~Exists(l.files[k])'
                    /\ l.call = "permanent"
                       \/ \E j \in DOMAIN l.moved : Read(l.moved[j])' = m.had[k]
    <3>1. IF l.files[k] \in l.failed THEN Read(l.files[k]) = l.had[k]
          ELSE /\ ~Exists(l.files[k])
               /\ l.call = "permanent"
                  \/ \E j \in DOMAIN l.moved : Read(l.moved[j]) = l.had[k]
      BY <1>2, <1>6, <1>8 DEF ReplyInv
    <3> QED
      BY <1>9, <1>10, <3>1 DEF Same
  <2>2. /\ \A j, k \in DOMAIN l.files : l.files[j] = l.files[k] => j = k
        /\ l.failed \subseteq {l.files[k] : k \in 1..(l.i - 1)}
    BY <1>2, <1>6, <1>8 DEF ReplyInv
  <2>3. l.call # "permanent" => \A j \in DOMAIN l.moved : Exists(l.moved[j])' /\ l.moved[j] # m.to
    BY <1>10, <1>12 DEF Same
  <2> QED
    BY <1>7, <1>8, <1>11, <2>1, <2>2, <2>3 DEF ReplyInv
<1>14. ParallelInv(m)'
  <2> SUFFICES ASSUME l.call = "backup", l.failed = {}
               PROVE  /\ Len(l.moved) = l.i - 1
                      /\ \A k \in 1..(l.i - 1) : m.had[k] # Gone /\ Read(l.moved[k])' = m.had[k]
                      /\ \A j, k \in DOMAIN l.moved : l.moved[j] = l.moved[k] => j = k
    BY <1>7, <1>8 DEF ParallelInv
  <2>1. /\ Len(l.moved) = l.i - 1
        /\ \A k \in 1..(l.i - 1) : l.had[k] # Gone /\ Read(l.moved[k]) = l.had[k]
        /\ \A j, k \in DOMAIN l.moved : l.moved[j] = l.moved[k] => j = k
    BY <1>2, <1>8 DEF ParallelInv
  <2> QED
    BY <1>9, <1>10, <2>1 DEF Same
<1> QED
  BY <1>1, <1>2, <1>6, <1>13, <1>14, CallDelete

\* NextMapping: the content is at the backup, or, where os.Stat failed on a path in
\* use, there is nothing at the backup that the restore could move.
LEMMA CallNextMapping ==
  ASSUME TypeInv, LossInv, CallInv, OneAtATime, OneAtATime', NEW p \in Handlers, NextMapping(p)
  PROVE  CallInv'
<1>1. PICK l : l = h[p]
  OBVIOUS
<1>2. l \in HandlerType /\ HandlerOK(l, DOMAIN data) /\ RestoreInv(l) /\ CleanInv
  BY <1>1, CallBefore
<1>3. /\ l.pc = "next" /\ l.call = "restore" /\ l.i \in DOMAIN l.mappings
      /\ UNCHANGED <<disk, manifest, clean, batch>>
      /\ h' = [h EXCEPT ![p] = Failed(l)] \/ h' = [h EXCEPT ![p] = Fetched(l)]
  BY <1>1, FetchEffect
<1>4. CleanInv'
  BY <1>2, <1>3, CleanQuiet
<1>5. \A r : Same(r)
  BY <1>3, DiskStays
<1>6. CASE h' = [h EXCEPT ![p] = Failed(l)]
  <2>1. PICK m : m = Failed(l)
    OBVIOUS
  <2>2. m.pc = "next" /\ m.call = "restore" /\ m.mappings = l.mappings
    BY <1>2, <1>3, <2>1, FailedFields
  <2>3. RestoreInv(m)'
    BY <1>2, <1>3, <2>2 DEF RestoreInv, Working
  <2> QED
    BY <1>1, <1>4, <1>6, <2>1, <2>2, <2>3, CallRestore
<1>7. CASE h' = [h EXCEPT ![p] = Fetched(l)]
  <2>1. PICK m : m = Fetched(l)
    OBVIOUS
  <2>2. /\ m.pc = "rename" /\ m.call = "restore" /\ m.mappings = l.mappings /\ m.i = l.i
        /\ m.from = l.mappings[l.i].backup /\ m.to = l.mappings[l.i].source
    BY <1>2, <1>3, <2>1, FetchedFields
  <2>3. ASSUME clean
        PROVE  /\ l.mappings = manifest
               /\ \A x \in batch : x[1] = m.to => Read(m.from) \in {x[2], Gone}
    <3>1. l.mappings = manifest
      BY <1>2, <1>3, <2>3 DEF RestoreInv
    <3>2. l.i \in DOMAIN manifest /\ m.to = manifest[l.i].source /\ m.from = manifest[l.i].backup
      BY <1>3, <2>2, <3>1
    <3> QED
      BY <1>2, <2>3, <3>1, <3>2 DEF CleanInv
  <2>4. RestoreInv(m)'
    BY <1>3, <1>5, <2>2, <2>3 DEF RestoreInv, Same
  <2>5. h' = [h EXCEPT ![p] = m]
    BY <1>7, <2>1
  <2> QED
    BY <1>1, <1>3, <1>4, <2>2, <2>4, <2>5, CallRestore
<1> QED
  BY <1>3, <1>6, <1>7

\* A file in hand that fails, with nothing else done to the disk.
LEMMA CallFailed ==
  ASSUME TypeInv, LossInv, CallInv, OneAtATime, OneAtATime', NEW p \in Handlers, NEW l, l = h[p],
         l.pc \in Working, h' = [h EXCEPT ![p] = Failed(l)],
         UNCHANGED <<disk, manifest, clean, batch>>
  PROVE  CallInv'
<1>1. /\ l \in HandlerType /\ HandlerOK(l, DOMAIN data) /\ ReplyInv(l) /\ RestoreInv(l)
      /\ CleanInv /\ l.pc # "idle"
  BY CallBefore DEF Working
<1>2. PICK m : m = Failed(l)
  OBVIOUS
<1>3. m.pc = "next" /\ m.call = l.call /\ m.mappings = l.mappings
  BY <1>1, <1>2, FailedFields
<1>4. CASE l.call = "restore"
  <2>1. CleanInv'
    BY <1>1, CleanQuiet
  <2>2. RestoreInv(m)'
    BY <1>1, <1>3, <1>4 DEF RestoreInv, Working
  <2> QED
    BY <1>1, <1>2, <1>3, <1>4, <2>1, <2>2, CallRestore
<1>5. CASE l.call # "restore"
  <2>1. ReplyInv(m)' /\ ParallelInv(m)'
    BY <1>1, <1>2, <1>5, ReplyFailed
  <2> QED
    BY <1>1, <1>2, <1>5, <2>1, CallDelete
<1> QED
  BY <1>4, <1>5

\* A move that goes on, the file still at its old name.
LEMMA CallLabelled ==
  ASSUME TypeInv, LossInv, CallInv, OneAtATime, OneAtATime', NEW p \in Handlers, NEW l, l = h[p],
         l.pc \in Working, NEW x \in Working, NEW in, NEW out,
         h' = [h EXCEPT ![p] = Labelled(l, x, in, out)],
         UNCHANGED <<manifest, clean, batch>>,
         l.call # "permanent", l.from # l.to, \A r : r # l.to => Same(r),
         l.call = "restore" /\ clean /\ ~(UNCHANGED disk /\ x = "open") => Exists(l.from)
  PROVE  CallInv'
<1>1. /\ l \in HandlerType /\ HandlerOK(l, DOMAIN data) /\ ReplyInv(l) /\ ParallelInv(l)
      /\ RestoreInv(l) /\ CleanInv /\ l.pc # "idle" /\ Source \cap Stored = {}
      /\ clean => \A k \in DOMAIN manifest : /\ manifest[k].source \in Source
                                             /\ manifest[k].backup \in Stored
  BY CallBefore DEF Working
<1>2. PICK m : m = Labelled(l, x, in, out)
  OBVIOUS
<1>3. /\ m.pc = x /\ m.i = l.i /\ m.call = l.call /\ m.files = l.files
      /\ m.mappings = l.mappings /\ m.moved = l.moved /\ m.had = l.had
      /\ m.from = l.from /\ m.to = l.to /\ m.failed = l.failed
  BY <1>1, <1>2, LabelledFields
<1>4. Same(l.from)
  OBVIOUS
<1>5. CASE l.call = "restore"
  <2>1. clean /\ Exists(l.from) => Read(l.from) # Gone
    BY ReadType, TypeParts
  <2>2. CASE UNCHANGED disk /\ x = "open"
    <3>1. CleanInv'
      BY <1>1, <2>2, CleanQuiet
    <3>2. RestoreInv(m)'
      BY <1>1, <1>3, <1>4, <1>5, <2>2 DEF RestoreInv, Same
    <3> QED
      BY <1>1, <1>2, <1>3, <1>5, <3>1, <3>2, CallRestore
  <2>3. CASE ~(UNCHANGED disk /\ x = "open")
    <3>1. CleanInv'
      BY <1>1, <1>4, <1>5, <2>1, <2>3, CleanMoved
    <3>2. RestoreInv(m)'
      BY <1>1, <1>3, <1>4, <1>5, <2>3 DEF RestoreInv, Same
    <3> QED
      BY <1>1, <1>2, <1>3, <1>5, <3>1, <3>2, CallRestore
  <2> QED
    BY <2>2, <2>3
<1>6. CASE l.call # "restore"
  <2>1. l.to \in Stored /\ \A j \in DOMAIN l.moved : l.moved[j] # l.to
    BY <1>1, <1>6, DeleteFacts
  <2>2. \A r \in Source : Same(r)
    BY <1>1, <2>1
  <2>3. Done(m) = Done(l)
    BY <1>3 DEF Done, Working
  <2>4. ReplyInv(m)' /\ ParallelInv(m)'
    BY <1>1, <1>3, <1>6, <2>1, <2>2, <2>3, ReplyStays
  <2> QED
    BY <1>1, <1>2, <1>6, <2>4, CallDelete
<1> QED
  BY <1>5, <1>6

\* A move that is over.
LEMMA CallMoved ==
  ASSUME TypeInv, LossInv, CallInv, OneAtATime, OneAtATime', NEW p \in Handlers, NEW l, l = h[p],
         l.pc \in Working, h' = [h EXCEPT ![p] = Succeeded(l)],
         UNCHANGED <<manifest, clean, batch>>,
         Exists(l.from), ~Exists(l.from)',
         l.call # "permanent" => Exists(l.to)' /\ Read(l.to)' = Read(l.from),
         \A r : r \notin {l.from, l.to} => Same(r),
         l.call = "permanent" => \A r : r # l.from => Same(r)
  PROVE  CallInv'
<1>1. /\ l \in HandlerType /\ HandlerOK(l, DOMAIN data) /\ ReplyInv(l) /\ ParallelInv(l)
      /\ RestoreInv(l) /\ CleanInv /\ l.pc # "idle"
      /\ clean => \A k \in DOMAIN manifest : /\ manifest[k].source \in Source
                                             /\ manifest[k].backup \in Stored
  BY CallBefore DEF Working
<1>2. PICK m : m = Succeeded(l)
  OBVIOUS
<1>3. /\ m.pc = (IF l.call = "trash" THEN "trashinfo" ELSE "next")
      /\ m.call = l.call /\ m.mappings = l.mappings
  BY <1>1, <1>2, SucceededFields
<1>4. CASE l.call = "restore"
  <2>1. Read(l.from) # Gone
    BY ReadType, TypeParts
  <2>2. CleanInv'
    BY <1>1, <1>4, <2>1, CleanMoved
  <2>3. RestoreInv(m)'
    BY <1>1, <1>3, <1>4 DEF RestoreInv, Working
  <2> QED
    BY <1>1, <1>2, <1>3, <1>4, <2>2, <2>3, CallRestore
<1>5. CASE l.call # "restore"
  <2>1. Read(l.from) # Gone
    BY ReadType, TypeParts
  <2>2. ReplyInv(m)' /\ ParallelInv(m)'
    BY <1>1, <1>2, <1>5, <2>1, ReplyMoved
  <2> QED
    BY <1>1, <1>2, <1>5, <2>2, CallDelete
<1> QED
  BY <1>4, <1>5

\* The calls to the file system, one after the other.
LEMMA CallMove ==
  ASSUME TypeInv, LossInv, CallInv, OneAtATime, OneAtATime', NEW p \in Handlers,
         RenameOk(p) \/ RenameFails(p) \/ Open(p) \/ Create(p) \/ Copy(p) \/ Remove(p)
  PROVE  CallInv'
<1>1. PICK l : l = h[p]
  OBVIOUS
<1>2. /\ Before(p, l) /\ l \in HandlerType /\ HandlerOK(l, DOMAIN data)
      /\ UNCHANGED <<manifest, clean, batch>>
  BY <1>1, CallBefore DEF RenameOk, RenameFails, Open, Create, Copy, Remove, history
<1>3. l.pc \in Working
  BY <1>1 DEF RenameOk, RenameFails, Open, Create, Copy, Remove, Working
<1>4. l.call # "permanent" => l.from # l.to
  BY <1>2, <1>3, BeforeFacts
<1>5. l.call = "permanent" => l.pc = "remove"
  BY <1>2, <1>3, Ways
<1>6. UNCHANGED disk => \A r : Same(r)
  BY DiskStays
<1>7. CASE RenameOk(p)
  BY <1>1, <1>2, <1>3, <1>5, <1>7, RenameEffect, CallMoved
<1>13. l.call = "restore" /\ clean /\ l.pc \in {"create", "copy"} => Exists(l.from)
  BY <1>1, <1>3, CallBefore DEF RestoreInv, Working
<1>8. CASE RenameFails(p)
  <2>1. l.pc = "rename" /\ h' = [h EXCEPT ![p] = Labelled(l, "open", l.in, l.out)]
        /\ UNCHANGED disk /\ "open" \in Working
    BY <1>1, <1>2, <1>8, RenameFailsEffect DEF Before, Working
  <2> QED
    BY <1>1, <1>2, <1>3, <1>4, <1>5, <1>6, <2>1, CallLabelled
<1>9. CASE Open(p)
  <2>1. l.pc = "open" /\ UNCHANGED disk /\ "create" \in Working
    BY <1>2, <1>9, OpenEffect DEF Working
  <2>2. CASE h' = [h EXCEPT ![p] = Failed(l)]
    BY <1>1, <1>2, <1>3, <2>1, <2>2, CallFailed
  <2>3. CASE /\ h' = [h EXCEPT ![p] = Labelled(l, "create", dir[l.from], l.out)]
             /\ Exists(l.from)
    <3>1. PICK n : n = dir[l.from]
      OBVIOUS
    <3> QED
      BY <1>1, <1>2, <1>3, <1>4, <1>5, <1>6, <2>1, <2>3, <3>1, CallLabelled
  <2> QED
    BY <1>2, <1>9, <2>2, <2>3, OpenEffect
<1>10. CASE Create(p)
  <2>1. l.pc = "create" /\ "copy" \in Working
    BY <1>2, <1>10, CreateEffect DEF Working
  <2>2. CASE h' = [h EXCEPT ![p] = Failed(l)] /\ UNCHANGED disk
    BY <1>1, <1>2, <1>3, <2>2, CallFailed
  <2>3. CASE /\ h' = [h EXCEPT ![p] = Labelled(l, "copy", l.in, dir'[l.to])]
             /\ \A r : r # l.to => Same(r)
    <3>1. PICK n : n = dir'[l.to]
      OBVIOUS
    <3> QED
      BY <1>1, <1>2, <1>3, <1>4, <1>5, <1>13, <2>1, <2>3, <3>1, CallLabelled
  <2> QED
    BY <1>2, <1>10, <2>2, <2>3, CreateEffect
<1>11. CASE Copy(p)
  <2>1. l.pc = "copy" /\ "remove" \in Working
    BY <1>2, <1>11, CopyEffect DEF Working
  <2>2. CASE h' = [h EXCEPT ![p] = Failed(l)] /\ UNCHANGED disk
    BY <1>1, <1>2, <1>3, <2>2, CallFailed
  <2>3. CASE /\ h' = [h EXCEPT ![p] = Labelled(l, "remove", l.in, l.out)]
             /\ \A r : r # l.to => Same(r)
    BY <1>1, <1>2, <1>3, <1>4, <1>5, <1>13, <2>1, <2>3, CallLabelled
  <2> QED
    BY <1>2, <1>11, <2>2, <2>3, CopyEffect
<1>12. CASE Remove(p)
  <2>1. l.call # "permanent" => /\ l.from # l.to /\ Exists(l.to)
                                /\ Exists(l.from) => Read(l.to) = Read(l.from)
    BY <1>2, <1>12, RemoveEffect
  <2>2. CASE h' = [h EXCEPT ![p] = Failed(l)] /\ UNCHANGED disk
    BY <1>1, <1>2, <1>3, <2>2, CallFailed
  <2>3. CASE /\ h' = [h EXCEPT ![p] = Succeeded(l)]
             /\ Exists(l.from) /\ ~Exists(l.from)' /\ \A r : r # l.from => Same(r)
    <3>1. l.call # "permanent" => Exists(l.to)' /\ Read(l.to)' = Read(l.from)
      BY <2>1, <2>3 DEF Same
    <3> QED
      BY <1>1, <1>2, <1>3, <2>3, <3>1, CallMoved
  <2> QED
    BY <1>2, <1>12, <2>2, <2>3, RemoveEffect
<1> QED
  BY <1>7, <1>8, <1>9, <1>10, <1>11, <1>12

\* Behind the file in hand: the .trashinfo, the end of the list and the manifest
\* before it is written.
LEMMA CallBetween ==
  ASSUME TypeInv, LossInv, CallInv, OneAtATime, OneAtATime', NEW p \in Handlers,
         WriteTrashInfo(p) \/ EndLoop(p) \/ TruncateManifest(p)
  PROVE  CallInv'
<1>1. PICK l : l = h[p]
  OBVIOUS
<1>2. /\ l \in HandlerType /\ HandlerOK(l, DOMAIN data) /\ ReplyInv(l) /\ ParallelInv(l)
      /\ RestoreInv(l) /\ CleanInv /\ HandlersOK
  BY <1>1, CallBefore, TypeParts
<1>3. UNCHANGED <<disk, clean, batch>> /\ l.pc # "idle"
  BY <1>1 DEF WriteTrashInfo, EndLoop, TruncateManifest, history
<1>4. \A r : Same(r)
  BY <1>3, DiskStays
<1>5. CASE WriteTrashInfo(p)
  <2>1. PICK m : m = [l EXCEPT !.pc = "next", !.i = @ + 1]
    OBVIOUS
  <2>2. h' = [h EXCEPT ![p] = m] /\ l.pc = "trashinfo" /\ l.call = "trash"
    BY <1>1, <1>2, <1>5, <2>1 DEF WriteTrashInfo, HandlerOK, HandlerType, HandlersOK
  <2>3. l.i \in Nat
    BY <1>2 DEF HandlerType
  <2>4. /\ m.pc = "next" /\ m.i = l.i + 1 /\ m.call = l.call /\ m.files = l.files
        /\ m.failed = l.failed /\ m.moved = l.moved /\ m.had = l.had
    BY <1>2, <2>1 DEF HandlerType
  <2>5. Done(m) = Done(l) /\ m.pc \notin Working
    BY <2>2, <2>3, <2>4 DEF Done, Working
  <2>6. ReplyInv(m)' /\ ParallelInv(m)'
    BY <1>2, <1>3, <1>4, <2>2, <2>4, <2>5, ReplyStays
  <2> QED
    BY <1>1, <1>2, <1>3, <2>2, <2>6, CallDelete
<1>6. CASE EndLoop(p) /\ l.call = "restore"
  <2>1. PICK m : m = IdleHandler
    OBVIOUS
  <2>2. h' = [h EXCEPT ![p] = m] /\ UNCHANGED manifest
    BY <1>1, <1>6, <2>1 DEF EndLoop
  <2>3. CleanInv'
    BY <1>2, <1>3, <2>2, CleanQuiet
  <2>4. m.call = "restore" /\ m.pc = "idle"
    BY <2>1 DEF IdleHandler
  <2>5. RestoreInv(m)'
    BY <2>4 DEF RestoreInv
  <2> QED
    BY <1>1, <1>3, <2>2, <2>3, <2>4, <2>5, CallRestore
<1>7. ASSUME h' = [h EXCEPT ![p] = IdleHandler], l.call # "restore"
      PROVE  CallInv'
  <2>1. PICK m : m = IdleHandler
    OBVIOUS
  <2>2. ReplyInv(m)' /\ ParallelInv(m)'
    BY <2>1 DEF ReplyInv, ParallelInv, IdleHandler
  <2> QED
    BY <1>1, <1>2, <1>3, <1>7, <2>1, <2>2, CallDelete
<1>8. ASSUME NEW x \in {"truncate", "write"}, h' = [h EXCEPT ![p] = [l EXCEPT !.pc = x]],
             l.call = "backup", l.pc \in {"next", "truncate"}
      PROVE  CallInv'
  <2>1. PICK m : m = [l EXCEPT !.pc = x]
    OBVIOUS
  <2>2. /\ m.pc = x /\ m.i = l.i /\ m.call = l.call /\ m.files = l.files
        /\ m.failed = l.failed /\ m.moved = l.moved /\ m.had = l.had
    BY <1>2, <2>1 DEF HandlerType
  <2>3. Done(m) = Done(l) /\ m.pc \notin Working
    BY <1>8, <2>2 DEF Done, Working
  <2>4. ReplyInv(m)' /\ ParallelInv(m)'
    BY <1>2, <1>3, <1>4, <1>8, <2>2, <2>3, ReplyStays
  <2> QED
    BY <1>1, <1>2, <1>3, <1>8, <2>1, <2>4, CallDelete
<1>9. CASE EndLoop(p) /\ l.call # "restore"
  BY <1>1, <1>2, <1>7, <1>8, <1>9, Updates DEF EndLoop
<1>10. CASE TruncateManifest(p)
  <2>1. l.call = "backup" /\ l.pc = "truncate"
    BY <1>1, <1>2, <1>10 DEF TruncateManifest, HandlerOK
  <2> QED
    BY <1>1, <1>2, <1>7, <1>8, <1>10, <2>1, Updates DEF TruncateManifest
<1> QED
  BY <1>5, <1>6, <1>9, <1>10

\* WriteManifest: without a failure each file of the list has a backup of its own.
LEMMA CallWriteManifest ==
  ASSUME TypeInv, LossInv, CallInv, OneAtATime, OneAtATime', NEW p \in Handlers, WriteManifest(p)
  PROVE  CallInv'
<1>1. PICK l : l = h[p]
  OBVIOUS
<1>2. /\ l \in HandlerType /\ HandlerOK(l, DOMAIN data) /\ ReplyInv(l) /\ ParallelInv(l)
  BY <1>1, CallBefore
<1>3. l.pc = "write" /\ l.call = "backup" /\ l.i = Len(l.files) + 1 /\ l.pc # "idle"
  BY <1>1, <1>2 DEF WriteManifest, HandlerOK
<1>4. /\ Done(l) = Len(l.files) /\ DOMAIN l.files = 1..Len(l.files) /\ Len(l.files) \in Nat
      /\ DOMAIN l.moved = 1..Len(l.moved)
  BY <1>2, <1>3, Lengths DEF Done
<1>5. \A r : Same(r)
  BY DiskStays DEF WriteManifest
<1>6. CleanInv'
  <2> SUFFICES ASSUME clean'
               PROVE  CleanInv'
    BY DEF CleanInv
  <2>1. l.failed = {} /\ manifest' # Torn
    BY <1>1 DEF WriteManifest
  <2>2. manifest' = Mappings(p)
    BY <2>1 DEF WriteManifest
  <2>3. /\ Len(l.moved) = Len(l.files)
        /\ \A k \in 1..Len(l.files) : l.had[k] # Gone /\ Read(l.moved[k]) = l.had[k]
        /\ \A j, k \in DOMAIN l.moved : l.moved[j] = l.moved[k] => j = k
    BY <1>2, <1>3, <1>4, <2>1 DEF ParallelInv
  <2>4. /\ manifest' \in Seq(Mapping) /\ DOMAIN manifest' = 1..Len(l.files)
        /\ \A k \in 1..Len(l.files) : /\ manifest'[k].source = l.files[k]
                                      /\ manifest'[k].backup = l.moved[k]
    <3>1. /\ Mappings(p) \in Seq(Mapping) /\ Len(Mappings(p)) = Len(l.moved)
          /\ \A k \in 1..Len(l.moved) : /\ Mappings(p)[k].source = l.files[k]
                                        /\ Mappings(p)[k].backup = l.moved[k]
      BY <1>1, <1>2, <1>3, MappingsType
    <3>2. DOMAIN Mappings(p) = 1..Len(Mappings(p))
      BY <3>1, LenProperties
    <3> QED
      BY <2>2, <2>3, <3>1, <3>2
  <2>5. \A x \in batch' : \E k \in 1..Len(l.files) : x = <<l.files[k], l.had[k]>>
    BY <1>1, <1>4 DEF WriteManifest
  <2>6. \A j, k \in DOMAIN l.files : l.files[j] = l.files[k] => j = k
    BY <1>2, <1>3 DEF ReplyInv
  <2>7. \A j, k \in DOMAIN manifest' :
           manifest'[j].source = manifest'[k].source \/ manifest'[j].backup = manifest'[k].backup
               => j = k
    BY <1>4, <2>3, <2>4, <2>6
  <2>8. \A x \in batch' : x[2] # Gone
    BY <2>3, <2>5
  <2>9. Accounted'
    <3> SUFFICES ASSUME NEW x \in batch'
                 PROVE  (\E k \in DOMAIN manifest :
                            /\ manifest[k].source = x[1]
                            /\ x[2] \in {Read(x[1]), Read(manifest[k].backup)})'
      BY DEF Accounted
    <3>1. PICK k \in 1..Len(l.files) : x = <<l.files[k], l.had[k]>>
      BY <2>5
    <3>2. Read(l.moved[k])' = x[2]
      BY <1>5, <2>3, <3>1 DEF Same
    <3>3. k \in DOMAIN manifest' /\ manifest'[k].source = x[1] /\ manifest'[k].backup = l.moved[k]
      BY <2>4, <3>1
    <3>4. Read(manifest[k].backup)' = x[2]
      BY <3>2, <3>3 DEF Read, Exists
    <3> QED
      BY <3>3, <3>4
  <2>10. ASSUME NEW x \in batch', NEW k \in DOMAIN manifest', manifest'[k].source = x[1]
         PROVE  Read(manifest[k].backup)' = x[2]
    <3>1. PICK j \in 1..Len(l.files) : x = <<l.files[j], l.had[j]>>
      BY <2>5
    <3>2. j = k
      BY <1>4, <2>4, <2>6, <2>10, <3>1
    <3>3. Read(l.moved[k])' = x[2] /\ manifest'[k].backup = l.moved[k]
      BY <1>5, <2>3, <2>4, <3>1, <3>2 DEF Same
    <3> QED
      BY <3>3 DEF Read, Exists
  <2> QED
    BY <2>4, <2>7, <2>8, <2>9, <2>10 DEF CleanInv
<1>7. PICK m : m = IdleHandler
  OBVIOUS
<1>8. ReplyInv(m)' /\ ParallelInv(m)' /\ RestoreInv(m)'
  BY <1>7 DEF ReplyInv, ParallelInv, RestoreInv, IdleHandler
<1> QED
  BY <1>1, <1>3, <1>6, <1>7, <1>8, CallKept DEF WriteManifest

\* Other programs, between requests, and a kill.
LEMMA CallAround ==
  ASSUME ~EditDuringCalls, TypeInv, LossInv, CallInv,
         Kill \/ \E s \in Source : Appear(s) \/ Vanish(s)
  PROVE  CallInv'
<1>1. \A p \in Handlers : h'[p] = IdleHandler
  <2>1. \A p \in Handlers : HandlerOK(h[p], DOMAIN data)
    BY TypeParts DEF HandlersOK
  <2> QED
    BY <2>1 DEF Kill, Appear, Vanish, Edit, HandlerOK
<1>2. ASSUME NEW n, n = IdleHandler
      PROVE  ReplyInv(n)' /\ ParallelInv(n)' /\ RestoreInv(n)'
  BY <1>2 DEF IdleHandler, ReplyInv, ParallelInv, RestoreInv
<1>3. ASSUME NEW p \in Handlers, NEW n \in {h'[p]}
      PROVE  ReplyInv(n)' /\ ParallelInv(n)' /\ RestoreInv(n)'
  BY <1>1, <1>2, <1>3
<1>4. SUFFICES CleanInv'
  BY <1>3 DEF CallInv
<1>5. CleanInv /\ Source \cap Stored = {}
  BY BackupAssumption DEF CallInv
<1>6. clean => \A k \in DOMAIN manifest : manifest[k].backup \in Stored
  <2> SUFFICES ASSUME clean, NEW k \in DOMAIN manifest
               PROVE  manifest[k].backup \in Stored
    OBVIOUS
  <2>1. manifest \in Seq(Mapping)
    BY <1>5 DEF CleanInv
  <2>2. manifest[k] \in Mapping
    BY <2>1, ElementOfSeq, LenProperties
  <2> QED
    BY <2>2 DEF Mapping
<1>7. CASE Kill
  BY <1>5, <1>7, CleanQuiet DEF Kill, history
<1>8. ASSUME NEW s \in Source, Appear(s)
      PROVE  CleanInv'
  <2>1. NodesOK /\ DataOK /\ DirOK /\ Foreign \in Content
    BY TypeParts DEF Content
  <2>2. (\A r : r # s => Same(r)) /\ Read(s) = Gone
    BY <1>8, <2>1, CreatedDisk DEF Appear, Edit, Read
  <2>3. UNCHANGED <<manifest, clean, batch>>
    BY <1>8 DEF Appear, Edit, history
  <2>4. ASSUME clean, NEW x \in batch', NEW k \in DOMAIN manifest, x[2] # Gone,
               Read(manifest[k].backup) \in {x[2], Gone}
        PROVE  /\ Read(manifest[k].backup)' \in {x[2], Gone}
               /\ x[2] \in {Read(x[1]), Read(manifest[k].backup)} =>
                      x[2] \in {Read(x[1])', Read(manifest[k].backup)'}
    <3>1. Read(manifest[k].backup)' = Read(manifest[k].backup)
      <4>1. Same(manifest[k].backup)
        BY <1>5, <1>6, <2>2, <2>4
      <4> QED
        BY <2>3, <4>1 DEF Same, Read, Exists
    <3>2. x[1] # s => Read(x[1])' = Read(x[1])
      BY <2>2 DEF Same, Read, Exists
    <3> QED
      BY <2>2, <2>4, <3>1, <3>2
  <2> QED
    BY <1>5, <2>3, <2>4, CleanStays
<1>9. ASSUME NEW s \in Source, Vanish(s)
      PROVE  CleanInv'
  <2>1. \A r : r # s => Same(r)
    BY <1>9, UnlinkedDisk DEF Vanish, Edit
  <2>2. UNCHANGED <<manifest, clean>> /\ batch' = {x \in batch : x[1] # s}
    BY <1>9 DEF Vanish, Edit
  <2>3. ASSUME clean, NEW x \in batch', NEW k \in DOMAIN manifest,
               Read(manifest[k].backup) \in {x[2], Gone}
        PROVE  /\ Read(manifest[k].backup)' \in {x[2], Gone}
               /\ x[2] \in {Read(x[1]), Read(manifest[k].backup)} =>
                      x[2] \in {Read(x[1])', Read(manifest[k].backup)'}
    <3>1. Same(manifest[k].backup) /\ Same(x[1])
      BY <1>5, <1>6, <2>1, <2>2, <2>3
    <3>2. Read(manifest[k].backup)' = Read(manifest[k].backup) /\ Read(x[1])' = Read(x[1])
      BY <3>1 DEF Same, Read, Exists
    <3> QED
      BY <2>3, <3>2
  <2> QED
    BY <1>5, <2>2, <2>3, CleanStays
<1> QED
  BY <1>7, <1>8, <1>9

\* Nothing has been asked for when the server is started for the first time.
LEMMA CallInit == Init => CallInv
<1> SUFFICES ASSUME Init
             PROVE  CallInv
  OBVIOUS
<1>1. \A p \in Handlers : \A l \in {h[p]} : ReplyInv(l) /\ ParallelInv(l) /\ RestoreInv(l)
  BY DEF Init, IdleHandler, ReplyInv, ParallelInv, RestoreInv
<1> QED
  BY <1>1 DEF Init, CallInv, CleanInv

\* Every step keeps it, one request at a time.
LEMMA CallNext ==
  ASSUME ~EditDuringCalls, TypeInv, LossInv, CallInv, OneAtATime, OneAtATime', [Next]_vars
  PROVE  CallInv'
<1>1. CASE UNCHANGED vars
  <2>1. UNCHANGED <<disk, manifest, clean, batch, h>>
    BY <1>1 DEF vars, history
  <2>2. \A r : Same(r)
    BY <2>1, DiskStays
  <2>3. CleanInv'
    BY <2>1, CleanQuiet DEF CallInv
  <2>4. ASSUME NEW l, ReplyInv(l)
        PROVE  ReplyInv(l)'
    BY <2>1, <2>4 DEF disk, ReplyInv, Exists, Read
  <2>5. ASSUME NEW l, ParallelInv(l), RestoreInv(l)
        PROVE  ParallelInv(l)' /\ RestoreInv(l)'
    BY <2>1, <2>5 DEF disk, ParallelInv, RestoreInv, Exists, Read
  <2> QED
    BY <2>1, <2>3, <2>4, <2>5 DEF CallInv
<1>2. CASE Kill \/ \E s \in Source : Appear(s) \/ Vanish(s)
  BY <1>2, CallAround
<1>3. ASSUME NEW p \in Handlers, Handler(p)
      PROVE  CallInv'
  BY <1>3, CallConfirm, CallRestoreStarts, CallNextFile, CallNextMapping, CallMove,
     CallBetween, CallWriteManifest DEF Handler
<1> QED
  BY <1>1, <1>2, <1>3 DEF Next

\* What the calls know of the disk, of their lists and of the manifest.
THEOREM CallInvariant ==
  ASSUME ~EditDuringCalls
  PROVE  Spec /\ []OneAtATime => []CallInv
BY CallInit, CallNext, OneIsAlone, TypeInvariant, LossInvariant, PTL DEF Spec

\* The reply of a delete tells the truth of every file it names, whatever fails,
\* when requests come one after the other.
THEOREM ReplyTruthfulHolds ==
  ASSUME ~EditDuringCalls
  PROVE  Spec /\ []OneAtATime => []ReplyTruthful
<1>1. TypeInv /\ CallInv => ReplyTruthful
  <2> SUFFICES ASSUME TypeInv, CallInv, NEW p \in Handlers, h[p].pc # "idle",
                      h[p].call # "restore", NEW k \in 1..h[p].i - 1
               PROVE  IF h[p].files[k] \in h[p].failed THEN Read(h[p].files[k]) = h[p].had[k]
                      ELSE /\ ~Exists(h[p].files[k])
                           /\ h[p].call = "permanent"
                              \/ \E j \in DOMAIN h[p].moved : Read(h[p].moved[j]) = h[p].had[k]
    BY DEF ReplyTruthful
  <2>1. ReplyInv(h[p]) /\ h[p].i \in Nat
    BY TypeParts DEF CallInv, HandlersOK, HandlerType
  <2>2. k \in 1..Done(h[p])
    BY <2>1 DEF Done
  <2> QED
    BY <2>1, <2>2 DEF ReplyInv
<1> QED
  BY <1>1, TypeInvariant, CallInvariant, PTL

\* After a delete that moved everything, no restore, be it repeated, failing or
\* killed half way, separates the manifest from the files, when requests come
\* one after the other.
THEOREM RecoverableHolds ==
  ASSUME ~EditDuringCalls
  PROVE  Spec /\ []OneAtATime => []Recoverable
<1>1. CallInv => Recoverable
  BY DEF CallInv, CleanInv, Recoverable
<1> QED
  BY <1>1, CallInvariant, PTL

-----------------------------------------------------------------------------
\* The promises of Vault.

\* What a name holds is what is read there.
LEMMA HeldIsRead ==
  /\ DOMAIN Holds = DOMAIN dir /\ \A r : Exists(r) <=> r \in DOMAIN Holds
  /\ \A r \in DOMAIN Holds : Holds[r] = Read(r)
  /\ DOMAIN Holds' = DOMAIN dir' /\ \A r : Exists(r)' <=> r \in DOMAIN Holds'
  /\ \A r \in DOMAIN Holds' : Holds'[r] = Read(r)'
BY DEF Holds, Exists

\* A name that is new, or holds something new.
LEMMA HoldsWith ==
  ASSUME NEW q, NEW c, Exists(q)', Read(q)' = c, \A r : r # q => Same(r)
  PROVE  Holds' = V!With(Holds, q, c)
<1> DEFINE W == V!With(Holds, q, c)
<1>1. W = [r \in DOMAIN Holds \cup {q} |-> IF r = q THEN c ELSE Holds[r]]
  BY DEF V!With
<1>2. DOMAIN Holds' = DOMAIN Holds \cup {q}
  BY HeldIsRead DEF Same
<1>3. \A r \in DOMAIN Holds' : Holds'[r] = IF r = q THEN c ELSE Holds[r]
  BY <1>2, HeldIsRead DEF Same
<1>4. Holds' = [r \in DOMAIN Holds' |-> Holds'[r]]
  BY DEF Holds
<1> QED
  BY <1>1, <1>2, <1>3, <1>4

\* A name that goes.
LEMMA HoldsWithout ==
  ASSUME NEW p, ~Exists(p)', \A r : r # p => Same(r)
  PROVE  Holds' = V!Without(Holds, p)
<1>1. V!Without(Holds, p) = [r \in DOMAIN Holds \ {p} |-> Holds[r]]
  BY DEF V!Without
<1>2. DOMAIN Holds' = DOMAIN Holds \ {p}
  BY HeldIsRead DEF Same
<1>3. \A r \in DOMAIN Holds' : Holds'[r] = Holds[r]
  BY <1>2, HeldIsRead DEF Same
<1>4. Holds' = [r \in DOMAIN Holds' |-> Holds'[r]]
  BY DEF Holds
<1> QED
  BY <1>1, <1>2, <1>3, <1>4

\* A name that gives its content to another.
LEMMA HoldsMoved ==
  ASSUME NEW p, NEW q, p # q, Exists(p), ~Exists(p)', Exists(q)', Read(q)' = Read(p),
         \A r : r \notin {p, q} => Same(r)
  PROVE  Holds' = V!With(V!Without(Holds, p), q, Holds[p])
<1> DEFINE U == V!Without(Holds, p)
<1>1. U = [r \in DOMAIN Holds \ {p} |-> Holds[r]]
  BY DEF V!Without
<1>2. V!With(U, q, Holds[p])
        = [r \in DOMAIN U \cup {q} |-> IF r = q THEN Holds[p] ELSE U[r]]
  BY DEF V!With
<1> HIDE DEF U
<1>3. DOMAIN U = DOMAIN Holds \ {p} /\ \A r \in DOMAIN U : U[r] = Holds[r]
  BY <1>1
<1>4. DOMAIN Holds' = DOMAIN U \cup {q}
  BY <1>3, HeldIsRead DEF Same
<1>5. \A r \in DOMAIN Holds' : Holds'[r] = IF r = q THEN Holds[p] ELSE U[r]
  BY <1>3, <1>4, HeldIsRead DEF Same
<1>6. Holds' = [r \in DOMAIN Holds' |-> Holds'[r]]
  BY DEF Holds
<1> QED
  BY <1>2, <1>4, <1>5, <1>6 DEF U

\* A step that leaves the disk and what was given up is none of Vault's.
LEMMA VaultStays ==
  ASSUME UNCHANGED <<disk, givenUp, overlooked>>
  PROVE  UNCHANGED V!vars
<1>1. dir' = dir /\ data' = data /\ givenUp' = givenUp /\ overlooked' = overlooked
  BY DEF disk
<1>2. \A r : Read(r)' = Read(r)
  BY <1>1 DEF Read, Exists
<1>3. Holds' = Holds
  BY <1>1, <1>2 DEF Holds
<1> QED
  BY <1>1, <1>3 DEF V!vars

\* A path that a restore overlooked is free to Vault.
LEMMA VaultFree ==
  ASSUME NEW p \in Handlers, NEW l, Before(p, l), l.pc \in Working, l.call # "permanent",
         Takes(l)
  PROVE  V!Free(l.to)
<1>1. l.to \in Path /\ HandlerOK(l, DOMAIN data)
  BY BeforeFacts
<1>2. l.call = "restore" => l.to \in Source
  BY <1>1, Ways
<1>3. l.to \in DOMAIN Holds => l.call = "restore" /\ Holds[l.to] \in overlooked
  BY HeldIsRead DEF Takes
<1> QED
  BY <1>1, <1>2, <1>3 DEF V!Free

\* RenameOk is a move to a name that is free.
LEMMA VaultRename ==
  ASSUME TypeInv, LossInv, NEW p \in Handlers, RenameOk(p)
  PROVE  V!Next
<1>1. PICK l : l = h[p]
  OBVIOUS
<1>2. Before(p, l)
  BY <1>1, LossBefore
<1>3. /\ l.pc = "rename" /\ Exists(l.from) /\ Takes(l) /\ l.from # l.to
      /\ ~Exists(l.from)' /\ Exists(l.to)' /\ Read(l.to)' = Read(l.from)
      /\ \A r : r \notin {l.from, l.to} => Same(r)
  BY <1>2, RenameEffect
<1>4. V!Free(l.to)
  BY <1>2, <1>3, BeforeFacts, Ways, VaultFree DEF Working
<1>5. givenUp' = givenUp /\ overlooked' = overlooked
  BY DEF RenameOk, history
<1>6. Holds' = V!With(V!Without(Holds, l.from), l.to, Holds[l.from])
  BY <1>3, HoldsMoved
<1>7. l.from \in DOMAIN Holds /\ l.to \in DOMAIN Holds'
  BY <1>3, HeldIsRead
<1>8. V!Move(l.from, l.to)
  BY <1>4, <1>5, <1>6, <1>7 DEF V!Move
<1> QED
  BY <1>7, <1>8 DEF V!Next

\* Create takes a name that is free.
LEMMA VaultCreate ==
  ASSUME TypeInv, LossInv, NEW p \in Handlers, Create(p)
  PROVE  V!Next \/ UNCHANGED V!vars
<1>1. PICK l : l = h[p]
  OBVIOUS
<1>2. Before(p, l)
  BY <1>1, LossBefore
<1>3. givenUp' = givenUp /\ overlooked' = overlooked
  BY DEF Create, history
<1>4. CASE UNCHANGED disk
  BY <1>3, <1>4, VaultStays
<1>5. CASE ~UNCHANGED disk
  <2>1. /\ l.pc = "create" /\ l.call # "permanent" /\ Takes(l)
        /\ Exists(l.to)' /\ Read(l.to)' = Torn /\ \A r : r # l.to => Same(r)
    BY <1>2, <1>5, CreateEffect
  <2>2. V!Free(l.to)
    BY <1>2, <2>1, VaultFree DEF Working
  <2>3. Holds' = V!With(Holds, l.to, Torn)
    BY <2>1, HoldsWith
  <2>4. l.to \in DOMAIN Holds'
    BY <2>1, HeldIsRead
  <2>5. V!Create(l.to)
    BY <1>3, <2>2, <2>3 DEF V!Create
  <2> QED
    BY <2>4, <2>5 DEF V!Next
<1> QED
  BY <1>4, <1>5

\* NextMapping overlooks what is at a path, or does nothing.
LEMMA VaultOverlook ==
  ASSUME TypeInv, NEW p \in Handlers, NextMapping(p)
  PROVE  V!Next \/ UNCHANGED V!vars
<1>1. PICK s : s = h[p].mappings[h[p].i].source
  OBVIOUS
<1>2. UNCHANGED <<disk, givenUp>>
  BY FetchEffect
<1>3. CASE UNCHANGED overlooked
  BY <1>2, <1>3, VaultStays
<1>4. CASE ~UNCHANGED overlooked
  <2>1. Exists(s) /\ overlooked' = overlooked \cup {Read(s)}
    BY <1>1, <1>4, FetchEffect
  <2>2. Holds' = Holds
    <3>1. dir' = dir /\ \A r : Read(r)' = Read(r)
      BY <1>2 DEF disk, Read, Exists
    <3> QED
      BY <3>1 DEF Holds
  <2>3. s \in DOMAIN Holds /\ Holds[s] = Read(s)
    BY <2>1, HeldIsRead
  <2>4. V!Overlook(s)
    BY <1>2, <2>1, <2>2, <2>3 DEF V!Overlook
  <2> QED
    BY <2>3, <2>4 DEF V!Next
<1> QED
  BY <1>3, <1>4

\* Copy completes a copy of what has a name, was given up meanwhile or came from
\* outside: nothing else is in a node.
LEMMA VaultCopy ==
  ASSUME TypeInv, LossInv, NEW p \in Handlers, Copy(p)
  PROVE  V!Next \/ UNCHANGED V!vars
<1>1. PICK l : l = h[p]
  OBVIOUS
<1>2. Before(p, l)
  BY <1>1, LossBefore
<1>3. givenUp' = givenUp /\ overlooked' = overlooked
  BY DEF Copy, history
<1>4. CASE UNCHANGED disk
  BY <1>3, <1>4, VaultStays
<1>5. CASE ~UNCHANGED disk
  <2>1. PICK c : c = data[l.in]
    OBVIOUS
  <2>2. /\ Exists(l.to) /\ Read(l.to) = Torn
        /\ Exists(l.to)' /\ Read(l.to)' = c /\ c \in Content
        /\ \A r : r # l.to => Same(r)
    BY <1>2, <1>5, <2>1, CopyEffect
  <2>3. Holds' = V!With(Holds, l.to, c)
    BY <2>2, HoldsWith
  <2>4. l.to \in DOMAIN Holds /\ l.to \in DOMAIN Holds' /\ Holds[l.to] = Torn
    BY <2>2, HeldIsRead
  <2>5. c \in givenUp \cup overlooked \cup {Foreign} \/ \E r \in DOMAIN Holds : Holds[r] = c
    <3>1. CASE c = Torn
      BY <2>4, <3>1
    <3>2. CASE c \in Source \ (givenUp \cup overlooked)
      <4>1. PICK r \in DOMAIN dir : Read(r) = c
        BY <3>2 DEF LossInv, NothingLost
      <4> QED
        BY <4>1, HeldIsRead
    <3> QED
      BY <2>2, <3>1, <3>2 DEF Content
  <2>6. V!Fill(l.to, c)
    BY <1>3, <2>3, <2>4, <2>5 DEF V!Fill
  <2> QED
    BY <2>4, <2>5, <2>6 DEF V!Next
<1> QED
  BY <1>4, <1>5

\* Remove drops a file that has a copy, or deletes one for good.
LEMMA VaultRemove ==
  ASSUME TypeInv, LossInv, NEW p \in Handlers, Remove(p)
  PROVE  V!Next \/ UNCHANGED V!vars
<1>1. PICK l : l = h[p]
  OBVIOUS
<1>2. Before(p, l)
  BY <1>1, LossBefore
<1>3. CASE UNCHANGED <<disk, givenUp, overlooked>>
  BY <1>3, VaultStays
<1>4. CASE ~UNCHANGED <<disk, givenUp, overlooked>>
  <2>1. /\ Exists(l.from) /\ ~Exists(l.from)' /\ \A r : r # l.from => Same(r)
        /\ givenUp' = IF l.call = "permanent" THEN givenUp \cup {Read(l.from)} ELSE givenUp
        /\ UNCHANGED overlooked
        /\ l.call # "permanent" => /\ l.from # l.to /\ Exists(l.to)
                                   /\ Read(l.to) = Read(l.from)
    BY <1>2, <1>4, RemoveEffect
  <2>2. Holds' = V!Without(Holds, l.from)
    BY <2>1, HoldsWithout
  <2>3. l.from \in DOMAIN Holds /\ Holds[l.from] = Read(l.from)
    BY <2>1, HeldIsRead
  <2>4. CASE l.call = "permanent"
    <3>1. V!GiveUp(l.from)
      BY <2>1, <2>2, <2>3, <2>4 DEF V!GiveUp
    <3> QED
      BY <2>3, <3>1 DEF V!Next
  <2>5. CASE l.call # "permanent"
    <3>1. l.to \in DOMAIN Holds /\ Holds[l.to] = Read(l.from)
      BY <2>1, <2>5, HeldIsRead
    <3>2. V!Drop(l.from, l.to)
      BY <2>1, <2>2, <2>3, <2>5, <3>1 DEF V!Drop
    <3> QED
      BY <2>3, <3>1, <3>2 DEF V!Next
  <2> QED
    BY <2>4, <2>5
<1> QED
  BY <1>3, <1>4

\* Other programs create files and delete them for good.
LEMMA VaultEdit ==
  ASSUME TypeInv, LossInv, NEW s \in Source, Appear(s) \/ Vanish(s)
  PROVE  V!Next
<1>1. CASE Appear(s)
  <2>1. NodesOK /\ DataOK /\ DirOK /\ Foreign \in Content
    BY TypeParts DEF Content
  <2>2. ~Exists(s) /\ Exists(s)' /\ Read(s)' = Foreign /\ \A r : r # s => Same(r)
    BY <1>1, <2>1, CreatedDisk DEF Appear
  <2>3. Holds' = V!With(Holds, s, Foreign)
    BY <2>2, HoldsWith
  <2>4. s \in DOMAIN Holds' /\ s \notin DOMAIN Holds /\ s \in Path
    BY <2>2, HeldIsRead DEF Path
  <2>5. V!Arrive(s)
    BY <1>1, <2>3, <2>4 DEF V!Arrive, Appear, history
  <2> QED
    BY <2>4, <2>5 DEF V!Next
<1>2. CASE Vanish(s)
  <2>1. Exists(s) /\ ~Exists(s)' /\ \A r : r # s => Same(r)
    BY <1>2, UnlinkedDisk DEF Vanish
  <2>2. Holds' = V!Without(Holds, s)
    BY <2>1, HoldsWithout
  <2>3. s \in DOMAIN Holds /\ Holds[s] = Read(s)
    BY <2>1, HeldIsRead
  <2>4. V!GiveUp(s)
    BY <1>2, <2>2, <2>3 DEF V!GiveUp, Vanish
  <2> QED
    BY <2>3, <2>4 DEF V!Next
<1> QED
  BY <1>1, <1>2

\* Every step is one of Vault's, or none.
LEMMA VaultStep ==
  ASSUME TypeInv, LossInv, [Next]_vars
  PROVE  [V!Next]_(V!vars)
<1>1. CASE UNCHANGED vars
  BY <1>1, VaultStays DEF vars, history
<1>2. CASE Kill
  BY <1>2, VaultStays DEF Kill, history
<1>3. CASE \E s \in Source : Appear(s) \/ Vanish(s)
  BY <1>3, VaultEdit
<1>4. ASSUME NEW p \in Handlers, Handler(p)
      PROVE  [V!Next]_(V!vars)
  <2>1. CASE RenameOk(p) \/ Create(p) \/ Copy(p) \/ Remove(p)
    BY <2>1, VaultRename, VaultCreate, VaultCopy, VaultRemove
  <2>2. CASE NextMapping(p)
    BY <2>2, VaultOverlook
  <2>3. CASE ~(RenameOk(p) \/ Create(p) \/ Copy(p) \/ Remove(p) \/ NextMapping(p))
    <3>1. UNCHANGED <<disk, givenUp, overlooked>>
      BY <1>4, <2>3 DEF Handler, Confirm, Restore, NextFile, RenameFails, Open,
         WriteTrashInfo, EndLoop, TruncateManifest, WriteManifest, history
    <3> QED
      BY <3>1, VaultStays
  <2> QED
    BY <2>1, <2>2, <2>3
<1> QED
  BY <1>1, <1>2, <1>3, <1>4 DEF Next

\* The disk starts as Vault does.
LEMMA VaultInit == Init => V!Init
<1> SUFFICES ASSUME Init
             PROVE  V!Init
  OBVIOUS
<1>1. DOMAIN dir = Source /\ \A s \in Source : Read(s) = s
  BY DEF Init, Read, Exists
<1>2. Holds = [s \in Source |-> s]
  BY <1>1 DEF Holds
<1> QED
  BY <1>2 DEF V!Init, Init

\* Deletes that overlap each other and restores that run alone, with all that may
\* fail, keep the promises of Vault: they take no name that is in use, but for a path on
\* which os.Stat failed, change nothing else that is complete, and remove only what has
\* a copy or is to go for good.
THEOREM ImplementsVaultHolds ==
  ASSUME ~EditDuringCalls
  PROVE  Spec /\ []RestoresAlone => ImplementsVault
BY VaultInit, VaultStep, TypeInvariant, LossInvariant, PTL DEF Spec, ImplementsVault, V!Spec

\* The promises of Vault are enough: whatever keeps them loses nothing.
THEOREM VaultLosesNothing == V!Spec => []NothingLost
<1>1. NothingLost <=> \A s \in Source \ (givenUp \cup overlooked) : \E r \in DOMAIN Holds : Holds[r] = s
  BY HeldIsRead DEF NothingLost
<1>2. NothingLost' <=> \A s \in Source \ (givenUp' \cup overlooked') :
                         \E r \in DOMAIN Holds' : Holds'[r] = s
  BY HeldIsRead DEF NothingLost
<1>3. V!Init => NothingLost
  BY <1>1 DEF V!Init
<1>4. ASSUME NothingLost, V!Next
      PROVE  NothingLost'
  <2> SUFFICES ASSUME NEW s \in Source \ (givenUp' \cup overlooked')
               PROVE  \E r \in DOMAIN Holds' : Holds'[r] = s
    BY <1>2
  <2>1. givenUp \subseteq givenUp' /\ overlooked \subseteq overlooked'
    BY <1>4 DEF V!Next, V!GiveUp, V!Overlook, V!Drop, V!Move, V!Fill, V!Create, V!Arrive
  <2>2. PICK r \in DOMAIN Holds : Holds[r] = s
    BY <1>1, <1>4, <2>1
  <2>3. \A q, c : /\ DOMAIN V!With(Holds, q, c) = DOMAIN Holds \cup {q}
                  /\ r # q => V!With(Holds, q, c)[r] = Holds[r]
    BY DEF V!With
  <2>4. \A p : /\ DOMAIN V!Without(Holds, p) = DOMAIN Holds \ {p}
               /\ \A x \in DOMAIN Holds : x # p => V!Without(Holds, p)[x] = Holds[x]
    BY DEF V!Without
  <2>5. ASSUME NEW p \in DOMAIN Holds, V!GiveUp(p)
        PROVE  r \in DOMAIN Holds' /\ Holds'[r] = s
    BY <2>2, <2>4, <2>5 DEF V!GiveUp
  <2>6. ASSUME NEW p \in DOMAIN Holds, NEW q, V!Drop(p, q)
        PROVE  \E x \in DOMAIN Holds' : Holds'[x] = s
    BY <2>2, <2>4, <2>6 DEF V!Drop
  <2>7. ASSUME NEW p \in DOMAIN Holds, NEW q, V!Move(p, q)
        PROVE  \E x \in DOMAIN Holds' : Holds'[x] = s
    <3>1. PICK U : U = V!Without(Holds, p)
      OBVIOUS
    <3>2. Holds' = [x \in DOMAIN U \cup {q} |-> IF x = q THEN Holds[p] ELSE U[x]]
      BY <2>7, <3>1 DEF V!Move, V!With
    <3>3. q \in DOMAIN Holds => Holds[q] # s
      BY <2>1, <2>7 DEF V!Move, V!Free
    <3>4. CASE r = p
      BY <2>2, <3>2, <3>4
    <3>5. CASE r # p
      <4>1. r \in DOMAIN U /\ U[r] = s /\ r # q
        BY <2>2, <2>4, <3>1, <3>3, <3>5
      <4> QED
        BY <3>2, <4>1
    <3> QED
      BY <3>4, <3>5
  <2>8. ASSUME NEW q, NEW c, V!Fill(q, c), s # Torn
        PROVE  r \in DOMAIN Holds' /\ Holds'[r] = s
    <3>1. Holds' = [x \in DOMAIN Holds \cup {q} |-> IF x = q THEN c ELSE Holds[x]]
      BY <2>8 DEF V!Fill, V!With
    <3>2. r # q
      BY <2>2, <2>8 DEF V!Fill
    <3> QED
      BY <2>2, <3>1, <3>2
  <2>9. ASSUME NEW q, V!Create(q) \/ V!Arrive(q)
        PROVE  r \in DOMAIN Holds' /\ Holds'[r] = s
    <3>1. PICK c : Holds' = [x \in DOMAIN Holds \cup {q} |-> IF x = q THEN c ELSE Holds[x]]
      BY <2>9 DEF V!Create, V!Arrive, V!With
    <3>2. r # q
      BY <2>1, <2>2, <2>9 DEF V!Create, V!Arrive, V!Free
    <3> QED
      BY <2>2, <3>1, <3>2
  <2>10. s # Torn
    BY BackupAssumption
  <2>11. ASSUME NEW p, V!Overlook(p)
         PROVE  r \in DOMAIN Holds' /\ Holds'[r] = s
    BY <2>2, <2>11 DEF V!Overlook
  <2> QED
    BY <1>4, <2>5, <2>6, <2>7, <2>8, <2>9, <2>10, <2>11 DEF V!Next
<1>5. NothingLost /\ UNCHANGED V!vars => NothingLost'
  BY <1>1, <1>2 DEF V!vars
<1> QED
  BY <1>3, <1>4, <1>5, PTL DEF V!Spec
=============================================================================
