---------------------------- MODULE ScannerProofs ----------------------------
(***************************************************************************)
(* Theorems about module Scanner for every value of the constants: any     *)
(* tree of directories, any options, any lists of roots, overlapping and   *)
(* missing ones included, and any number of workers.                       *)
(***************************************************************************)
EXTENDS Scanner, SequenceTheorems, FiniteSetTheorems, TLAPS

-----------------------------------------------------------------------------
\* The invariants.

Distinct(l) == \A i, j \in DOMAIN l : l[i] = l[j] => i = j

\* Where the walk is still to go, and what it is still to meet.
Ahead == Members(agenda) \cup Entered(roots)
Still == UNION {Offers(p) : p \in Ahead}

\* What was taken and what is still to come make up what is to be taken.
WalkInv ==
    /\ Accepted = visited \cup AcceptedOf(Still)
    /\ Unreachable = errors \cup UnreachableOf(Still)
    /\ stage # "walk" => agenda = <<>> /\ roots = <<>>

\* The buckets sort what was taken.
BucketInv ==
    \A s \in Sizes : /\ Members(buckets[s]) = {p \in visited : Length[p] = s}
                     /\ Distinct(buckets[s])

\* The stages of the pool.
PoolInv ==
    /\ slots <= maxWorkers
    /\ stage = "walk" => \A s \in Sizes : w[s] = NoWorker
    /\ stage # "spawn" => pending = {}
    /\ stage = "done" => wg = 0
    /\ \A s \in pending : w[s] = NoWorker
    /\ \A s \in Sizes : w[s].pc \in {"none", "release"} => w[s].todo = <<>>

\* The buckets to hash, what is left of each, and what was hashed.
Big == {s \in Sizes : Len(buckets[s]) >= 2}
Left(s) == IF s \in pending THEN Members(buckets[s]) ELSE Members(w[s].todo)
Hashed == UNION {Members(buckets[s]) \ Left(s) : s \in Big}

\* What was hashed is in its group, once.
GroupInv ==
    /\ stage = "walk" => \A x \in DOMAIN hashGroups : hashGroups[x] = <<>>
    /\ stage # "walk" =>
          /\ pending \subseteq Big
          /\ \A s \in Sizes : /\ Members(w[s].todo) \subseteq Members(buckets[s])
                              /\ Distinct(w[s].todo)
                              /\ s \notin Big => w[s].todo = <<>>
          /\ \A x \in DOMAIN hashGroups :
                /\ Distinct(hashGroups[x])
                /\ Members(hashGroups[x]) = {p \in Hashed : HashOf(p) = x}

-----------------------------------------------------------------------------
\* Sequences as lists of names.

\* The members of a list are elements of its set; none are those of the empty list.
LEMMA MembersType ==
    ASSUME NEW S, NEW l \in Seq(S)
    PROVE  /\ Members(l) \subseteq S
           /\ l = <<>> <=> Members(l) = {}
           /\ DOMAIN l = 1 .. Len(l) /\ Len(l) \in Nat
<1>1. DOMAIN l = 1 .. Len(l) /\ Len(l) \in Nat /\ l \in [1 .. Len(l) -> S]
  BY LenProperties
<1>2. Members(l) \subseteq S
  BY <1>1 DEF Members
<1>3. ASSUME l # <<>> PROVE Members(l) # {}
  <2>1. Len(l) \in Nat \ {0}
    BY <1>3, EmptySeq
  <2>2. 1 \in DOMAIN l
    BY <1>1, <2>1
  <2> QED BY <2>2 DEF Members
<1>4. ASSUME l = <<>> PROVE Members(l) = {}
  <2>1. DOMAIN l = {}
    BY <1>4
  <2> QED BY <2>1 DEF Members
<1> QED BY <1>1, <1>2, <1>3, <1>4

\* A list that is not empty is its head and its tail.
LEMMA MembersOfTail ==
    ASSUME NEW S, NEW l \in Seq(S), l # <<>>
    PROVE  /\ Head(l) \in S /\ Tail(l) \in Seq(S)
           /\ Members(l) = {Head(l)} \cup Members(Tail(l))
           /\ Distinct(l) => Distinct(Tail(l)) /\ Head(l) \notin Members(Tail(l))
<1>1. /\ Head(l) \in S /\ Tail(l) \in Seq(S)
      /\ Len(Tail(l)) = Len(l) - 1
      /\ \A i \in 1 .. Len(Tail(l)) : Tail(l)[i] = l[i+1]
  BY HeadTailProperties
<1>2. /\ DOMAIN l = 1 .. Len(l) /\ Len(l) \in Nat
      /\ DOMAIN Tail(l) = 1 .. Len(Tail(l)) /\ Len(Tail(l)) \in Nat
  BY <1>1, LenProperties
<1>3. Len(l) \in Nat \ {0}
  BY EmptySeq
<1>4. Head(l) = l[1]
  OBVIOUS
<1> DEFINE t == Tail(l)
           n == Len(l)
<1>5. /\ n \in Nat \ {0} /\ DOMAIN l = 1 .. n /\ DOMAIN t = 1 .. n - 1
      /\ \A i \in 1 .. n - 1 : t[i] = l[i+1]
  BY <1>1, <1>2, <1>3
<1> HIDE DEF t, n
<1>6. ASSUME NEW p PROVE p \in Members(l) <=> p = l[1] \/ p \in Members(t)
  <2>1. ASSUME p \in Members(l) PROVE p = l[1] \/ p \in Members(t)
    <3>1. PICK i \in 1 .. n : p = l[i]
      BY <2>1, <1>5 DEF Members
    <3>2. CASE i = 1
      BY <3>1, <3>2
    <3>3. CASE i # 1
      <4>1. i - 1 \in 1 .. n - 1 /\ i = (i - 1) + 1
        BY <3>3, <1>5
      <4>2. t[i - 1] = p
        BY <4>1, <3>1, <1>5
      <4> QED BY <4>1, <4>2, <1>5 DEF Members
    <3> QED BY <3>2, <3>3
  <2>2. ASSUME p = l[1] PROVE p \in Members(l)
    BY <2>2, <1>5 DEF Members
  <2>3. ASSUME p \in Members(t) PROVE p \in Members(l)
    <3>1. PICK i \in 1 .. n - 1 : p = t[i]
      BY <2>3, <1>5 DEF Members
    <3>2. i + 1 \in 1 .. n /\ p = l[i+1]
      BY <3>1, <1>5
    <3> QED BY <3>2, <1>5 DEF Members
  <2> QED BY <2>1, <2>2, <2>3
<1>7. ASSUME Distinct(l) PROVE Distinct(t) /\ l[1] \notin Members(t)
  <2>1. ASSUME NEW i \in 1 .. n - 1, NEW j \in 1 .. n - 1, t[i] = t[j] PROVE i = j
    <3>1. i + 1 \in 1 .. n /\ j + 1 \in 1 .. n /\ l[i+1] = l[j+1]
      BY <2>1, <1>5
    <3>2. i + 1 = j + 1
      BY <3>1, <1>7, <1>5 DEF Distinct
    <3> QED BY <3>2, <1>5
  <2>2. ASSUME NEW i \in 1 .. n - 1 PROVE t[i] # l[1]
    <3>1. i + 1 \in 1 .. n /\ 1 \in 1 .. n /\ i + 1 # 1 /\ t[i] = l[i+1]
      BY <2>2, <1>5
    <3> QED BY <3>1, <1>7, <1>5 DEF Distinct
  <2> QED BY <2>1, <2>2, <1>5 DEF Distinct, Members
<1> QED BY <1>1, <1>4, <1>6, <1>7 DEF t

\* What is appended is a member as well.
LEMMA MembersOfAppend ==
    ASSUME NEW S, NEW l \in Seq(S), NEW e \in S
    PROVE  /\ Append(l, e) \in Seq(S)
           /\ Members(Append(l, e)) = Members(l) \cup {e}
           /\ Distinct(l) /\ e \notin Members(l) => Distinct(Append(l, e))
<1> DEFINE a == Append(l, e)
           n == Len(l)
<1>1. /\ a \in Seq(S) /\ Len(a) = n + 1
      /\ \A i \in 1 .. n : a[i] = l[i]
      /\ a[n + 1] = e
  BY AppendProperties
<1>2. /\ n \in Nat /\ DOMAIN l = 1 .. n /\ DOMAIN a = 1 .. n + 1
  BY <1>1, LenProperties
<1> HIDE DEF a, n
<1>3. ASSUME NEW p PROVE p \in Members(a) <=> p \in Members(l) \/ p = e
  <2>1. ASSUME p \in Members(a) PROVE p \in Members(l) \/ p = e
    <3>1. PICK i \in 1 .. n + 1 : p = a[i]
      BY <2>1, <1>2 DEF Members
    <3>2. i \in 1 .. n \/ i = n + 1
      BY <1>2
    <3> QED BY <3>1, <3>2, <1>1, <1>2 DEF Members
  <2>2. ASSUME p \in Members(l) PROVE p \in Members(a)
    <3>1. PICK i \in 1 .. n : p = l[i]
      BY <2>2, <1>2 DEF Members
    <3>2. i \in 1 .. n + 1 /\ p = a[i]
      BY <3>1, <1>1, <1>2
    <3> QED BY <3>2, <1>2 DEF Members
  <2>3. ASSUME p = e PROVE p \in Members(a)
    <3>1. n + 1 \in 1 .. n + 1
      BY <1>2
    <3> QED BY <3>1, <2>3, <1>1, <1>2 DEF Members
  <2> QED BY <2>1, <2>2, <2>3
<1>4. ASSUME Distinct(l), e \notin Members(l) PROVE Distinct(a)
  <2>1. \A i \in 1 .. n : a[i] # e
    BY <1>1, <1>2, <1>4 DEF Members
  <2>2. ASSUME NEW i \in 1 .. n + 1, NEW j \in 1 .. n + 1, a[i] = a[j] PROVE i = j
    <3>1. (i \in 1 .. n \/ i = n + 1) /\ (j \in 1 .. n \/ j = n + 1)
      BY <1>2
    <3>2. CASE i \in 1 .. n /\ j \in 1 .. n
      <4>1. l[i] = l[j]
        BY <3>2, <2>2, <1>1
      <4> QED BY <4>1, <3>2, <1>4, <1>2 DEF Distinct
    <3>3. CASE i \in 1 .. n /\ j = n + 1
      BY <3>3, <2>1, <2>2, <1>1
    <3>4. CASE i = n + 1 /\ j \in 1 .. n
      BY <3>4, <2>1, <2>2, <1>1
    <3> QED BY <3>1, <3>2, <3>3, <3>4
  <2> QED BY <2>2, <1>2 DEF Distinct
<1> QED BY <1>1, <1>3, <1>4 DEF a

\* The members of two lists, one behind the other.
LEMMA MembersOfConcat ==
    ASSUME NEW S, NEW l \in Seq(S), NEW k \in Seq(S)
    PROVE  /\ l \o k \in Seq(S)
           /\ Members(l \o k) = Members(l) \cup Members(k)
<1> DEFINE c == l \o k
           m == Len(l)
           n == Len(k)
<1>1. /\ c \in Seq(S) /\ Len(c) = m + n
      /\ \A i \in 1 .. m + n : c[i] = IF i <= m THEN l[i] ELSE k[i - m]
  BY ConcatProperties
<1>2. /\ m \in Nat /\ n \in Nat /\ DOMAIN l = 1 .. m /\ DOMAIN k = 1 .. n
      /\ DOMAIN c = 1 .. m + n
  BY <1>1, LenProperties
<1> HIDE DEF c, m, n
<1>3. ASSUME NEW p PROVE p \in Members(c) <=> p \in Members(l) \/ p \in Members(k)
  <2>1. ASSUME p \in Members(c) PROVE p \in Members(l) \/ p \in Members(k)
    <3>1. PICK i \in 1 .. m + n : p = c[i]
      BY <2>1, <1>2 DEF Members
    <3>2. CASE i <= m
      <4>1. i \in 1 .. m /\ p = l[i]
        BY <3>1, <3>2, <1>1, <1>2
      <4> QED BY <4>1, <1>2 DEF Members
    <3>3. CASE ~(i <= m)
      <4>1. i - m \in 1 .. n /\ p = k[i - m]
        BY <3>1, <3>3, <1>1, <1>2
      <4> QED BY <4>1, <1>2 DEF Members
    <3> QED BY <3>2, <3>3
  <2>2. ASSUME p \in Members(l) PROVE p \in Members(c)
    <3>1. PICK i \in 1 .. m : p = l[i]
      BY <2>2, <1>2 DEF Members
    <3>2. i \in 1 .. m + n /\ i <= m
      BY <1>2
    <3>3. p = c[i]
      BY <3>1, <3>2, <1>1
    <3> QED BY <3>2, <3>3, <1>2 DEF Members
  <2>3. ASSUME p \in Members(k) PROVE p \in Members(c)
    <3>1. PICK i \in 1 .. n : p = k[i]
      BY <2>3, <1>2 DEF Members
    <3>2. i + m \in 1 .. m + n /\ ~(i + m <= m) /\ (i + m) - m = i
      BY <1>2
    <3>3. p = c[i + m]
      BY <3>1, <3>2, <1>1
    <3> QED BY <3>2, <3>3, <1>2 DEF Members
  <2> QED BY <2>1, <2>2, <2>3
<1> QED BY <1>1, <1>3 DEF c

\* A list of distinct members has as many as it is long.
LEMMA DistinctCounts ==
    ASSUME NEW S, NEW l \in Seq(S), Distinct(l)
    PROVE  NoRepetition(l)
<1>1. /\ Len(l) \in Nat /\ DOMAIN l = 1 .. Len(l) /\ l \in [1 .. Len(l) -> S]
  BY LenProperties
<1> DEFINE D == 1 .. Len(l)
<1>2. l \in [D -> Members(l)]
  BY <1>1 DEF Members
<1>3. l \in Bijection(D, Members(l))
  BY <1>1, <1>2 DEF Bijection, Injection, Surjection, Members, Distinct, IsInjective
<1>4. ExistsBijection(D, Members(l))
  BY <1>3 DEF ExistsBijection
<1>5. IsFiniteSet(D) /\ Cardinality(D) = Len(l)
  BY <1>1, FS_Interval
<1>6. Cardinality(Members(l)) = Cardinality(D)
  BY <1>4, <1>5, FS_Bijection
<1> QED BY <1>5, <1>6 DEF NoRepetition

\* There are finitely many sizes.
LEMMA SizesFinite == IsFiniteSet(Sizes) /\ Sizes \subseteq Nat
<1> DEFINE R == {Length[p] : p \in Names}
<1>1. Length \in [Names -> R]
  BY ScannerAssumption
<1>2. Length \in Surjection(Names, R)
  BY <1>1 DEF Surjection
<1>3. IsFiniteSet(R)
  BY <1>2, FS_Surjection, ScannerAssumption
<1>4. Sizes \in SUBSET R
  BY DEF Sizes
<1>5. R \subseteq Nat
  BY ScannerAssumption
<1> QED BY <1>3, <1>4, <1>5, FS_Subset

-----------------------------------------------------------------------------
\* The pool: its counters count goroutines.

WorkerType == [pc : {"none", "next", "get", "hash", "put", "group", "release"},
               todo : Seq(Names)]

Busy    == {s \in Sizes : w[s].pc # "none"}
Working == {s \in Sizes : w[s].pc \notin {"none", "release"}}

InFile == {"get", "hash", "put", "group"}

PoolOK == TypeOK /\ PoolInv

\* The two sets the counters are about are finite.
LEMMA CountsFinite ==
    /\ IsFiniteSet(Busy) /\ Cardinality(Busy) \in Nat
    /\ IsFiniteSet(Working) /\ Cardinality(Working) \in Nat
<1>1. Busy \in SUBSET Sizes /\ Working \in SUBSET Sizes
  BY DEF Busy, Working
<1>2. IsFiniteSet(Busy) /\ IsFiniteSet(Working)
  BY <1>1, SizesFinite, FS_Subset
<1> QED BY <1>2, FS_CardinalityType

\* A step that changes one goroutine changes no other, and counts it in or out.
LEMMA OneWorker ==
    ASSUME w \in [Sizes -> WorkerType], NEW s \in Sizes, NEW r \in WorkerType,
           w' = [w EXCEPT ![s] = r]
    PROVE  /\ w' \in [Sizes -> WorkerType] /\ w'[s] = r
           /\ \A t \in Sizes \ {s} : w'[t] = w[t]
           /\ Cardinality(Busy') =
                IF r.pc # "none"
                THEN IF s \in Busy THEN Cardinality(Busy) ELSE Cardinality(Busy) + 1
                ELSE IF s \in Busy THEN Cardinality(Busy) - 1 ELSE Cardinality(Busy)
           /\ Cardinality(Working') =
                IF r.pc \notin {"none", "release"}
                THEN IF s \in Working THEN Cardinality(Working) ELSE Cardinality(Working) + 1
                ELSE IF s \in Working THEN Cardinality(Working) - 1 ELSE Cardinality(Working)
<1>1. w' \in [Sizes -> WorkerType] /\ w'[s] = r /\ \A t \in Sizes \ {s} : w'[t] = w[t]
  OBVIOUS
<1>2. Busy' = IF r.pc # "none" THEN Busy \cup {s} ELSE Busy \ {s}
  BY <1>1 DEF Busy
<1>3. Working' = IF r.pc \notin {"none", "release"} THEN Working \cup {s} ELSE Working \ {s}
  BY <1>1 DEF Working
<1>4. /\ Cardinality(Busy \cup {s}) =
            IF s \in Busy THEN Cardinality(Busy) ELSE Cardinality(Busy) + 1
      /\ Cardinality(Working \cup {s}) =
            IF s \in Working THEN Cardinality(Working) ELSE Cardinality(Working) + 1
  BY CountsFinite, FS_AddElement
<1>5. /\ Cardinality(Busy \ {s}) =
            IF s \in Busy THEN Cardinality(Busy) - 1 ELSE Cardinality(Busy)
      /\ Cardinality(Working \ {s}) =
            IF s \in Working THEN Cardinality(Working) - 1 ELSE Cardinality(Working)
  BY CountsFinite, FS_RemoveElement
<1> QED BY <1>1, <1>2, <1>3, <1>4, <1>5

\* What the invariant says, in the words of these definitions.
LEMMA PoolParts ==
    /\ PoolOK <=>
         /\ dirs \in RootLists /\ digest \in Digests /\ opts \in Options /\ maxWorkers \in Workers
         /\ stage \in {"walk", "spawn", "wait", "done"}
         /\ roots \in Seq(Names) /\ agenda \in Seq(Names)
         /\ visited \subseteq Names /\ errors \subseteq Names
         /\ buckets \in [Sizes -> Seq(Names)] /\ pending \subseteq Sizes
         /\ w \in [Sizes -> WorkerType]
         /\ \A s \in Sizes : w[s].pc \in InFile => w[s].todo # <<>>
         /\ slots = Cardinality(Busy) /\ wg = Cardinality(Working)
         /\ hashGroups \in [Hashes \cup {NoHash} -> Seq(Names)]
         /\ PoolInv
    /\ PoolOK' <=>
         /\ dirs' \in RootLists /\ digest' \in Digests /\ opts' \in Options
         /\ maxWorkers' \in Workers
         /\ stage' \in {"walk", "spawn", "wait", "done"}
         /\ roots' \in Seq(Names) /\ agenda' \in Seq(Names)
         /\ visited' \subseteq Names /\ errors' \subseteq Names
         /\ buckets' \in [Sizes -> Seq(Names)] /\ pending' \subseteq Sizes
         /\ w' \in [Sizes -> WorkerType]
         /\ \A s \in Sizes : w'[s].pc \in InFile => w'[s].todo # <<>>
         /\ slots' = Cardinality(Busy') /\ wg' = Cardinality(Working')
         /\ hashGroups' \in [Hashes \cup {NoHash} -> Seq(Names)]
         /\ PoolInv'
<1>1. PoolOK <=> TypeOK /\ PoolInv
  BY DEF PoolOK
<1>2. PoolOK' <=> TypeOK' /\ PoolInv'
  BY DEF PoolOK
<1> QED BY <1>1, <1>2 DEF TypeOK, WorkerType, Busy, Working, InFile

\* At the start there is no goroutine.
LEMMA PoolInit == Init => PoolOK
<1> SUFFICES ASSUME Init PROVE PoolOK
  OBVIOUS
<1>1. w = [s \in Sizes |-> NoWorker] /\ NoWorker.pc = "none" /\ NoWorker.todo = <<>>
  BY DEF Init, NoWorker
<1>2. \A s \in Sizes : w[s] = NoWorker /\ w[s].pc = "none" /\ w[s].todo = <<>>
  BY <1>1
<1>3. \A S : <<>> \in Seq(S)
  BY EmptySeq
<1>4. NoWorker \in WorkerType
  BY <1>3 DEF NoWorker, WorkerType
<1>5. w \in [Sizes -> WorkerType]
  BY <1>1, <1>4
<1>6. Busy = {} /\ Working = {}
  BY <1>2 DEF Busy, Working
<1>7. slots = Cardinality(Busy) /\ wg = Cardinality(Working)
  BY <1>6, FS_EmptySet DEF Init
<1>8. buckets \in [Sizes -> Seq(Names)] /\ hashGroups \in [Hashes \cup {NoHash} -> Seq(Names)]
  BY <1>3 DEF Init
<1>9. maxWorkers \in Nat \ {0} /\ roots \in Seq(Names)
  BY ScannerAssumption DEF Init
<1>10. PoolInv
  BY <1>2, <1>9 DEF Init, PoolInv
<1> QED BY <1>2, <1>3, <1>5, <1>7, <1>8, <1>9, <1>10, PoolParts DEF Init, InFile

\* The walk leaves the pool alone.
LEMMA PoolInWalk ==
    ASSUME PoolOK, UNCHANGED <<input, stage, pool, hashGroups>>,
           roots' \in Seq(Names), agenda' \in Seq(Names),
           visited' \subseteq Names, errors' \subseteq Names,
           buckets' \in [Sizes -> Seq(Names)]
    PROVE  PoolOK'
<1>1. Busy' = Busy /\ Working' = Working
  BY DEF pool, Busy, Working
<1>2. PoolInv'
  BY PoolParts DEF PoolInv, input, pool
<1> QED BY <1>1, <1>2, PoolParts DEF input, pool

\* The next root.
LEMMA PoolNextRoot == PoolOK /\ NextRoot => PoolOK'
<1> SUFFICES ASSUME PoolOK, NextRoot PROVE PoolOK'
  OBVIOUS
<1>1. /\ roots \in Seq(Names) /\ roots # <<>>
      /\ UNCHANGED <<input, stage, pool, hashGroups>> /\ UNCHANGED <<visited, errors, buckets>>
  BY PoolParts DEF NextRoot
<1>2. Head(roots) \in Names /\ Tail(roots) \in Seq(Names)
  BY <1>1, HeadTailProperties
<1>3. roots' \in Seq(Names) /\ agenda' \in Seq(Names)
  BY <1>2 DEF NextRoot
<1> QED BY <1>1, <1>3, PoolInWalk, PoolParts

\* A directory is entered or not.
LEMMA PoolEnter == ASSUME NEW p \in Names PROVE PoolOK /\ Enter(p) => PoolOK'
<1> SUFFICES ASSUME PoolOK, Enter(p) PROVE PoolOK'
  OBVIOUS
<1>1. /\ agenda \in Seq(Names) /\ agenda # <<>>
      /\ UNCHANGED <<input, stage, pool, hashGroups>> /\ UNCHANGED <<roots, visited, buckets>>
  BY PoolParts DEF Enter, At
<1>2. Tail(agenda) \in Seq(Names)
  BY <1>1, HeadTailProperties
<1>3. Children[p] \o Tail(agenda) \in Seq(Names)
  BY <1>2, ScannerAssumption, ConcatProperties
<1>4. agenda' \in Seq(Names) /\ (errors' = errors \cup {p} \/ errors' = errors)
  BY <1>2, <1>3 DEF Enter
<1> QED BY <1>1, <1>4, PoolInWalk, PoolParts

\* A file is dropped.
LEMMA PoolDrop == ASSUME NEW p \in Names PROVE PoolOK /\ Drop(p) => PoolOK'
<1> SUFFICES ASSUME PoolOK, Drop(p) PROVE PoolOK'
  OBVIOUS
<1>1. /\ agenda \in Seq(Names) /\ agenda # <<>> /\ agenda' = Tail(agenda)
      /\ UNCHANGED <<input, stage, pool, hashGroups>>
      /\ UNCHANGED <<roots, visited, errors, buckets>>
  BY PoolParts DEF Drop, At, Skip
<1>2. Tail(agenda) \in Seq(Names)
  BY <1>1, HeadTailProperties
<1> QED BY <1>1, <1>2, PoolInWalk, PoolParts

\* The bucket of a file that is taken, and the others.
LEMMA TakenBuckets ==
    ASSUME PoolOK, NEW p \in Names, Take(p)
    PROVE  /\ buckets' \in [Sizes -> Seq(Names)]
           /\ \A s \in Sizes : buckets'[s] = IF s = Length[p] THEN Append(buckets[s], p)
                                             ELSE buckets[s]
<1>1. buckets \in [Sizes -> Seq(Names)]
  BY PoolParts
<1>2. CASE Length[p] = 0
  BY <1>1, <1>2 DEF Take, Sizes
<1>3. CASE Length[p] # 0
  <2>1. Length[p] \in Sizes
    BY <1>3 DEF Sizes
  <2>2. Append(buckets[Length[p]], p) \in Seq(Names)
    BY <1>1, <2>1, AppendProperties
  <2>3. buckets' = [buckets EXCEPT ![Length[p]] = Append(buckets[Length[p]], p)]
    BY <1>3 DEF Take
  <2> QED BY <1>1, <2>1, <2>2, <2>3
<1> QED BY <1>2, <1>3

\* A file is taken.
LEMMA PoolTake == ASSUME NEW p \in Names PROVE PoolOK /\ Take(p) => PoolOK'
<1> SUFFICES ASSUME PoolOK, Take(p) PROVE PoolOK'
  OBVIOUS
<1>1. /\ agenda \in Seq(Names) /\ agenda # <<>> /\ agenda' = Tail(agenda)
      /\ visited' = visited \cup {p}
      /\ UNCHANGED <<input, stage, pool, hashGroups>> /\ UNCHANGED <<roots, errors>>
  BY PoolParts DEF Take, At
<1>2. Tail(agenda) \in Seq(Names)
  BY <1>1, HeadTailProperties
<1>3. buckets' \in [Sizes -> Seq(Names)]
  BY TakenBuckets
<1> QED BY <1>1, <1>2, <1>3, PoolInWalk, PoolParts

\* The walk is over: the buckets to hash are chosen.
LEMMA PoolEndWalk == PoolOK /\ EndWalk => PoolOK'
<1> SUFFICES ASSUME PoolOK, EndWalk PROVE PoolOK'
  OBVIOUS
<1>1. Busy' = Busy /\ Working' = Working
  BY DEF EndWalk, Busy, Working
<1>2. pending' \subseteq Sizes /\ stage' = "spawn" /\ stage = "walk"
  BY DEF EndWalk
<1>3. PoolInv'
  BY <1>2, PoolParts DEF PoolInv, EndWalk, input
<1> QED BY <1>1, <1>2, <1>3, PoolParts DEF input, walk, EndWalk

\* All buckets have their goroutine; the scan waits.
LEMMA PoolAllSpawned == PoolOK /\ AllSpawned => PoolOK'
<1> SUFFICES ASSUME PoolOK, AllSpawned PROVE PoolOK'
  OBVIOUS
<1>1. Busy' = Busy /\ Working' = Working
  BY DEF AllSpawned, pool, Busy, Working
<1>2. PoolInv'
  BY PoolParts DEF PoolInv, AllSpawned, input, pool
<1> QED BY <1>1, <1>2, PoolParts DEF input, walk, pool, AllSpawned

\* The scan returns when no goroutine is counted.
LEMMA PoolReturn == PoolOK /\ Return => PoolOK'
<1> SUFFICES ASSUME PoolOK, Return PROVE PoolOK'
  OBVIOUS
<1>1. Busy' = Busy /\ Working' = Working
  BY DEF Return, pool, Busy, Working
<1>2. PoolInv'
  BY PoolParts DEF PoolInv, Return, Waited, input, pool
<1> QED BY <1>1, <1>2, PoolParts DEF input, walk, pool, Return

\* A bucket gets a goroutine and a slot.
LEMMA PoolSpawn == ASSUME NEW s \in Sizes PROVE PoolOK /\ Spawn(s) => PoolOK'
<1> SUFFICES ASSUME PoolOK, Spawn(s) PROVE PoolOK'
  OBVIOUS
<1> DEFINE r == [pc |-> "next", todo |-> buckets[s]]
<1>1. /\ stage = "spawn" /\ s \in pending /\ slots < maxWorkers
      /\ pending' = pending \ {s} /\ slots' = slots + 1 /\ wg' = wg + 1
      /\ w' = [w EXCEPT ![s] = r]
      /\ UNCHANGED <<input, stage, walk, hashGroups>>
  BY DEF Spawn, SlotFree
<1>2. r \in WorkerType /\ r.pc = "next"
  BY PoolParts DEF WorkerType
<1>3. w[s] = NoWorker /\ w[s].pc = "none"
  BY <1>1, PoolParts DEF PoolInv, NoWorker
<1>4. s \notin Busy /\ s \notin Working
  BY <1>3 DEF Busy, Working
<1> HIDE DEF r
<1>5. /\ w' \in [Sizes -> WorkerType] /\ w'[s] = r
      /\ \A t \in Sizes \ {s} : w'[t] = w[t]
      /\ Cardinality(Busy') = Cardinality(Busy) + 1
      /\ Cardinality(Working') = Cardinality(Working) + 1
  BY <1>1, <1>2, <1>4, OneWorker, PoolParts
<1>6. slots' = Cardinality(Busy') /\ wg' = Cardinality(Working')
  BY <1>1, <1>5, PoolParts
<1>7. \A t \in Sizes : w'[t].pc \in InFile => w'[t].todo # <<>>
  BY <1>2, <1>5, PoolParts DEF InFile
<1>8. PoolInv'
  <2>1. slots' <= maxWorkers'
    <3>1. slots \in Nat /\ maxWorkers \in Nat /\ maxWorkers' = maxWorkers
      BY <1>1, CountsFinite, PoolParts, ScannerAssumption DEF input
    <3> QED BY <3>1, <1>1
  <2>2. \A t \in pending' : w'[t] = NoWorker
    BY <1>1, <1>5, PoolParts DEF PoolInv
  <2>3. \A t \in Sizes : w'[t].pc \in {"none", "release"} => w'[t].todo = <<>>
    BY <1>2, <1>5, PoolParts DEF PoolInv
  <2> QED BY <1>1, <2>1, <2>2, <2>3 DEF PoolInv
<1> QED BY <1>1, <1>5, <1>6, <1>7, <1>8, PoolParts DEF input, walk

\* What a goroutine that takes a step finds: it runs, and its bucket is not pending.
LEMMA Running ==
    ASSUME PoolOK, NEW s \in Sizes, w[s].pc # "none"
    PROVE  /\ w[s] \in WorkerType /\ s \notin pending /\ stage # "walk"
           /\ s \in Busy /\ (w[s].pc # "release" => s \in Working /\ wg # 0 /\ stage # "done")
<1>1. w[s] # NoWorker /\ w[s] \in WorkerType
  BY PoolParts DEF NoWorker
<1>2. s \notin pending /\ stage # "walk"
  BY <1>1, PoolParts DEF PoolInv
<1>3. s \in Busy
  BY DEF Busy
<1>4. ASSUME w[s].pc # "release" PROVE s \in Working /\ wg # 0
  <2>1. s \in Working
    BY <1>4 DEF Working
  <2>2. Cardinality(Working) # 0
    BY <2>1, CountsFinite, FS_EmptySet
  <2> QED BY <2>1, <2>2, PoolParts
<1> QED BY <1>1, <1>2, <1>3, <1>4, PoolParts DEF PoolInv

\* A step of a goroutine that goes on working.
LEMMA PoolStaysBusy ==
    ASSUME PoolOK, NEW s \in Sizes, NEW r \in WorkerType,
           w[s].pc \notin {"none", "release"}, r.pc \notin {"none", "release"},
           r.pc \in InFile => r.todo # <<>>,
           w' = [w EXCEPT ![s] = r],
           UNCHANGED <<input, stage, walk, pending, slots, wg>>,
           hashGroups' \in [Hashes \cup {NoHash} -> Seq(Names)]
    PROVE  PoolOK'
<1>1. w[s] \in WorkerType /\ s \notin pending /\ s \in Busy /\ s \in Working /\ stage # "walk"
  BY Running
<1>2. /\ w' \in [Sizes -> WorkerType] /\ w'[s] = r
      /\ \A t \in Sizes \ {s} : w'[t] = w[t]
      /\ Cardinality(Busy') = Cardinality(Busy)
      /\ Cardinality(Working') = Cardinality(Working)
  BY <1>1, OneWorker, PoolParts
<1>3. \A t \in Sizes : w'[t].pc \in InFile => w'[t].todo # <<>>
  BY <1>2, PoolParts
<1>4. PoolInv'
  <2>1. \A t \in pending : w'[t] = NoWorker
    BY <1>1, <1>2, PoolParts DEF PoolInv
  <2>2. \A t \in Sizes : w'[t].pc \in {"none", "release"} => w'[t].todo = <<>>
    BY <1>2, PoolParts DEF PoolInv
  <2> QED BY <1>1, <2>1, <2>2, PoolParts DEF PoolInv, input
<1> QED BY <1>2, <1>3, <1>4, PoolParts DEF input, walk

\* A goroutine goes to another place of the same file.
LEMMA PoolGoto ==
    ASSUME PoolOK, NEW s \in Sizes, NEW label \in InFile, Goto(s, label),
           w[s].pc \notin {"none", "release"}, w[s].todo # <<>>
    PROVE  PoolOK'
<1> DEFINE r == [w[s] EXCEPT !.pc = label]
<1>1. w[s] \in WorkerType
  BY PoolParts
<1>2. r = [pc |-> label, todo |-> w[s].todo]
  BY <1>1 DEF WorkerType
<1>3. /\ r \in WorkerType /\ r.pc = label /\ r.todo = w[s].todo
      /\ label \notin {"none", "release"}
  BY <1>1, <1>2 DEF WorkerType, InFile
<1>4. /\ w' = [w EXCEPT ![s] = r]
      /\ UNCHANGED <<input, stage, walk, pending, slots, wg>> /\ hashGroups' = hashGroups
  BY PoolParts DEF Goto
<1> HIDE DEF r
<1> QED BY <1>3, <1>4, PoolStaysBusy, PoolParts

\* The steps on a file before it is hashed and after.
LEMMA PoolFileSteps ==
    ASSUME NEW s \in Sizes
    PROVE  PoolOK /\ (NextFile(s) \/ Get(s) \/ Hash(s) \/ Put(s)) => PoolOK'
<1> SUFFICES ASSUME PoolOK, NextFile(s) \/ Get(s) \/ Hash(s) \/ Put(s) PROVE PoolOK'
  OBVIOUS
<1>1. w[s].pc \in InFile => w[s].todo # <<>>
  BY PoolParts
<1>2. CASE NextFile(s)
  <2>1. PICK label \in {"get", "hash"} : Goto(s, label)
    BY <1>2 DEF NextFile
  <2>2. w[s].pc = "next" /\ w[s].todo # <<>>
    BY <1>2 DEF NextFile
  <2> QED BY <2>1, <2>2, PoolGoto DEF InFile
<1>3. CASE Get(s)
  <2>1. w[s].pc = "get" /\ Goto(s, "hash")
    BY <1>3 DEF Get
  <2> QED BY <2>1, <1>1, PoolGoto DEF InFile
<1>4. CASE Hash(s)
  <2>1. PICK label \in {"put", "group"} : Goto(s, label)
    BY <1>4 DEF Hash
  <2>2. w[s].pc = "hash"
    BY <1>4 DEF Hash
  <2> QED BY <2>1, <2>2, <1>1, PoolGoto DEF InFile
<1>5. CASE Put(s)
  <2>1. w[s].pc = "put" /\ Goto(s, "group")
    BY <1>5 DEF Put
  <2> QED BY <2>1, <1>1, PoolGoto DEF InFile
<1> QED BY <1>2, <1>3, <1>4, <1>5

\* The file a goroutine is at, and what follows it.
LEMMA FileOf ==
    ASSUME PoolOK, NEW s \in Sizes, w[s].pc \in InFile
    PROVE  /\ File(s) \in Names /\ Tail(w[s].todo) \in Seq(Names)
           /\ HashOf(File(s)) \in Hashes \cup {NoHash}
<1>1. w[s].todo \in Seq(Names) /\ w[s].todo # <<>>
  BY PoolParts DEF WorkerType
<1>2. File(s) \in Names /\ Tail(w[s].todo) \in Seq(Names)
  BY <1>1, HeadTailProperties DEF File
<1>3. Target[File(s)] \in Names /\ digest \in [Names -> Hashes \cup {NoHash}]
  BY <1>2, PoolParts, ScannerAssumption
<1> QED BY <1>2, <1>3 DEF HashOf

\* The groups after a file was put into its own.
LEMMA AppendedGroups ==
    ASSUME PoolOK, NEW s \in Sizes, AppendFile(s)
    PROVE  /\ w[s].pc = "group" /\ w[s].pc \in InFile
           /\ hashGroups' \in [Hashes \cup {NoHash} -> Seq(Names)]
           /\ \A x \in Hashes \cup {NoHash} :
                 hashGroups'[x] = IF x = HashOf(File(s)) THEN Append(hashGroups[x], File(s))
                                  ELSE hashGroups[x]
           /\ w' = [w EXCEPT ![s] = [pc |-> "next", todo |-> Tail(w[s].todo)]]
<1>1. w[s].pc = "group" /\ w[s].pc \in InFile
  BY DEF AppendFile, InFile
<1> DEFINE h == HashOf(File(s))
           f == File(s)
<1>2. h \in Hashes \cup {NoHash} /\ f \in Names
  BY <1>1, FileOf
<1>3. hashGroups' = [hashGroups EXCEPT ![h] = Append(hashGroups[h], f)]
  BY DEF AppendFile
<1>4. hashGroups \in [Hashes \cup {NoHash} -> Seq(Names)]
  BY PoolParts
<1>5. w' = [w EXCEPT ![s] = [pc |-> "next", todo |-> Tail(w[s].todo)]]
  BY DEF AppendFile
<1> HIDE DEF h, f
<1>6. Append(hashGroups[h], f) \in Seq(Names)
  BY <1>2, <1>4, AppendProperties
<1>7. /\ hashGroups' \in [Hashes \cup {NoHash} -> Seq(Names)]
      /\ \A x \in Hashes \cup {NoHash} :
            hashGroups'[x] = IF x = h THEN Append(hashGroups[x], f) ELSE hashGroups[x]
  BY <1>2, <1>3, <1>4, <1>6
<1> QED BY <1>1, <1>5, <1>7 DEF h, f

\* A file is put into its group.
LEMMA PoolAppendFile == ASSUME NEW s \in Sizes PROVE PoolOK /\ AppendFile(s) => PoolOK'
<1> SUFFICES ASSUME PoolOK, AppendFile(s) PROVE PoolOK'
  OBVIOUS
<1> DEFINE r == [pc |-> "next", todo |-> Tail(w[s].todo)]
<1>1. /\ w[s].pc = "group" /\ w[s].pc \in InFile /\ w' = [w EXCEPT ![s] = r]
      /\ hashGroups' \in [Hashes \cup {NoHash} -> Seq(Names)]
  BY AppendedGroups
<1>2. UNCHANGED <<input, stage, walk, pending, slots, wg>>
  BY DEF AppendFile
<1>3. r \in WorkerType /\ r.pc = "next"
  BY <1>1, FileOf DEF WorkerType
<1> HIDE DEF r
<1> QED BY <1>1, <1>2, <1>3, PoolStaysBusy DEF InFile

\* A goroutine is no longer waited for.
LEMMA PoolDone == ASSUME NEW s \in Sizes PROVE PoolOK /\ Done(s) => PoolOK'
<1> SUFFICES ASSUME PoolOK, Done(s) PROVE PoolOK'
  OBVIOUS
<1> DEFINE r == [w[s] EXCEPT !.pc = "release"]
<1>1. /\ w[s].pc = "next" /\ w[s].todo = <<>> /\ wg' = wg - 1 /\ w' = [w EXCEPT ![s] = r]
      /\ UNCHANGED <<input, stage, walk, pending, slots, hashGroups>>
  BY DEF Done
<1>2. w[s] \in WorkerType
  BY PoolParts
<1>3. r = [pc |-> "release", todo |-> w[s].todo]
  BY <1>2 DEF WorkerType
<1>4. r \in WorkerType /\ r.pc = "release" /\ r.todo = <<>>
  BY <1>1, <1>2, <1>3 DEF WorkerType
<1> HIDE DEF r
<1>5. s \notin pending /\ s \in Busy /\ s \in Working /\ stage \notin {"walk", "done"}
  BY <1>1, Running
<1>6. /\ w' \in [Sizes -> WorkerType] /\ w'[s] = r
      /\ \A t \in Sizes \ {s} : w'[t] = w[t]
      /\ Cardinality(Busy') = Cardinality(Busy)
      /\ Cardinality(Working') = Cardinality(Working) - 1
  BY <1>1, <1>4, <1>5, OneWorker, PoolParts
<1>7. \A t \in Sizes : w'[t].pc \in InFile => w'[t].todo # <<>>
  BY <1>4, <1>6, PoolParts DEF InFile
<1>8. slots' = Cardinality(Busy') /\ wg' = Cardinality(Working')
  BY <1>1, <1>6, PoolParts
<1>9. PoolInv'
  <2>1. \A t \in pending : w'[t] = NoWorker
    BY <1>5, <1>6, PoolParts DEF PoolInv
  <2>2. \A t \in Sizes : w'[t].pc \in {"none", "release"} => w'[t].todo = <<>>
    BY <1>4, <1>6, PoolParts DEF PoolInv
  <2> QED BY <1>1, <1>5, <2>1, <2>2, PoolParts DEF PoolInv, input
<1> QED BY <1>1, <1>6, <1>7, <1>8, <1>9, PoolParts DEF input, walk

\* A goroutine gives its slot back.
LEMMA PoolRelease == ASSUME NEW s \in Sizes PROVE PoolOK /\ Release(s) => PoolOK'
<1> SUFFICES ASSUME PoolOK, Release(s) PROVE PoolOK'
  OBVIOUS
<1>1. /\ w[s].pc = "release" /\ slots' = slots - 1 /\ w' = [w EXCEPT ![s] = NoWorker]
      /\ UNCHANGED <<input, stage, walk, pending, wg, hashGroups>>
  BY DEF Release, SlotBack
<1>2. <<>> \in Seq(Names)
  BY EmptySeq
<1>3. NoWorker \in WorkerType /\ NoWorker.pc = "none" /\ NoWorker.todo = <<>>
  BY <1>2 DEF NoWorker, WorkerType
<1>4. s \notin pending /\ s \in Busy /\ stage # "walk"
  BY <1>1, Running
<1>5. s \notin Working
  BY <1>1 DEF Working
<1>6. /\ w' \in [Sizes -> WorkerType] /\ w'[s] = NoWorker
      /\ \A t \in Sizes \ {s} : w'[t] = w[t]
      /\ Cardinality(Busy') = Cardinality(Busy) - 1
      /\ Cardinality(Working') = Cardinality(Working)
  BY <1>1, <1>3, <1>4, <1>5, OneWorker, PoolParts
<1>7. \A t \in Sizes : w'[t].pc \in InFile => w'[t].todo # <<>>
  BY <1>3, <1>6, PoolParts DEF InFile
<1>8. slots' = Cardinality(Busy') /\ wg' = Cardinality(Working')
  BY <1>1, <1>6, PoolParts
<1>9. PoolInv'
  <2>1. \A t \in pending : w'[t] = NoWorker
    BY <1>6, PoolParts DEF PoolInv
  <2>2. \A t \in Sizes : w'[t].pc \in {"none", "release"} => w'[t].todo = <<>>
    BY <1>3, <1>6, PoolParts DEF PoolInv
  <2>3. slots' <= maxWorkers'
    <3>1. slots \in Nat /\ maxWorkers \in Nat /\ maxWorkers' = maxWorkers /\ slots <= maxWorkers
      BY <1>1, CountsFinite, PoolParts, ScannerAssumption DEF input, PoolInv
    <3> QED BY <3>1, <1>1
  <2> QED BY <1>1, <1>4, <2>1, <2>2, <2>3, PoolParts DEF PoolInv
<1> QED BY <1>1, <1>6, <1>7, <1>8, <1>9, PoolParts DEF input, walk

\* Every step keeps the pool's invariant.
LEMMA PoolNext == PoolOK /\ [Next]_vars => PoolOK'
<1> SUFFICES ASSUME PoolOK, [Next]_vars PROVE PoolOK'
  OBVIOUS
<1>1. CASE UNCHANGED vars
  <2>1. UNCHANGED <<input, stage, walk, pool, hashGroups>>
    BY <1>1 DEF vars
  <2>2. UNCHANGED <<roots, agenda, visited, errors, buckets>>
    BY <2>1 DEF walk
  <2> QED BY <2>1, <2>2, PoolInWalk, PoolParts
<1>2. CASE WalkStep
  BY <1>2, PoolNextRoot, PoolEnter, PoolDrop, PoolTake, PoolEndWalk DEF WalkStep
<1>3. CASE \E s \in Sizes : Spawn(s)
  BY <1>3, PoolSpawn
<1>4. CASE AllSpawned \/ Return
  BY <1>4, PoolAllSpawned, PoolReturn
<1>5. CASE \E s \in Sizes : Worker(s)
  BY <1>5, PoolFileSteps, PoolAppendFile, PoolDone, PoolRelease DEF Worker
<1> QED BY <1>1, <1>2, <1>3, <1>4, <1>5 DEF Next, Main

\* The pool's invariant holds throughout.
THEOREM PoolInvariant == Spec => []PoolOK
<1>1. Init => PoolOK
  BY PoolInit
<1>2. PoolOK /\ [Next]_vars => PoolOK'
  BY PoolNext
<1> QED BY <1>1, <1>2, PTL DEF Spec

\* Every variable has its type and the two counters count the goroutines that hold a
\* slot and those that Scan waits for, in every interleaving of any number of them.
THEOREM TypeCorrect == Spec => []TypeOK
<1>1. PoolOK => TypeOK
  BY DEF PoolOK
<1> QED BY <1>1, PoolInvariant, PTL

\* With one worker no two goroutines are inside the cache map, and none is when Scan
\* saves it.
THEOREM SerialPoolSafeHolds == Spec => []SerialPoolSafe
<1>1. ASSUME PoolOK PROVE SerialPoolSafe
  <2> SUFFICES ASSUME opts.cache, maxWorkers = 1
               PROVE  LET inside == {s \in Sizes : w[s].pc \in {"get", "put"}} IN
                      /\ \A s, t \in inside : s = t
                      /\ stage = "done" => inside = {}
    BY DEF SerialPoolSafe
  <2> DEFINE inside == {s \in Sizes : w[s].pc \in {"get", "put"}}
  <2>1. Cardinality(Busy) \in Nat /\ Cardinality(Busy) <= 1 /\ IsFiniteSet(Busy)
    BY <1>1, CountsFinite, PoolParts DEF PoolInv
  <2>2. inside \subseteq Busy /\ inside \subseteq Working
    BY DEF Busy, Working
  <2>3. ASSUME NEW s \in Busy, NEW t \in Busy PROVE s = t
    <3>1. Cardinality(Busy) # 0
      BY <2>3, <2>1, FS_EmptySet
    <3>2. Cardinality(Busy) = 1
      BY <3>1, <2>1
    <3>3. PICK x : Busy = {x}
      BY <3>2, <2>1, FS_Singleton
    <3> QED BY <3>3, <2>3
  <2>4. ASSUME stage = "done" PROVE Working = {}
    <3>1. wg = 0
      BY <2>4, <1>1, PoolParts DEF PoolInv
    <3> QED BY <3>1, <1>1, CountsFinite, FS_EmptySet, PoolParts
  <2> QED BY <2>2, <2>3, <2>4
<1> QED BY <1>1, PoolInvariant, PTL

-----------------------------------------------------------------------------
\* The tree.

\* A walk meets at least the name it starts from.
LEMMA OffersItself == \A p \in Names : p \in Offers(p) /\ Offers(p) \subseteq Below(p)
<1> SUFFICES ASSUME NEW p \in Names PROVE p \in Offers(p) /\ Offers(p) \subseteq Below(p)
  OBVIOUS
<1>1. p \notin Above[p] /\ \A d \in Above[p] : Above[d] \subseteq Above[p]
  BY ScannerAssumption DEF Tree
<1>2. Above[p] \cap Below(p) = {}
  BY <1>1 DEF Below
<1> QED BY <1>2 DEF Offers, Below

\* What is below a directory is below one of its children.
LEMMA BelowChildren ==
    ASSUME NEW p \in Names, NEW q \in Below(p), q # p
    PROVE  /\ Kind[p] = "dir" /\ p \in Above[q]
           /\ \E c \in Members(Children[p]) : q \in Below(c)
<1>1. q \in Names /\ p \in Above[q]
  BY DEF Below
<1>2. PICK i \in DOMAIN Children[p] : q \in Below(Children[p][i])
  BY <1>1, ScannerAssumption DEF Tree
<1>3. Kind[p] = "dir"
  BY <1>2, ScannerAssumption DEF Tree
<1>4. Children[p][i] \in Members(Children[p])
  BY <1>2 DEF Members
<1> QED BY <1>1, <1>2, <1>3, <1>4

\* A child lies in its directory, with all that lies below the child, and no two
\* children have anything below them in common.
LEMMA ChildrenOf ==
    ASSUME NEW p \in Names, NEW c \in Members(Children[p])
    PROVE  /\ c \in Names /\ p \in Above[c] /\ \A q \in Below(c) : p \in Above[q]
           /\ \A e \in Members(Children[p]) : Below(c) \cap Below(e) # {} => c = e
<1>1. Children[p] \in Seq(Names)
  BY ScannerAssumption
<1>2. c \in Names
  BY <1>1, MembersType
<1>3. PICK i \in DOMAIN Children[p] : c = Children[p][i]
  BY DEF Members
<1>4. Above[c] = UNION {{d} \cup Above[d] : d \in {d \in Names :
                             \E j \in DOMAIN Children[d] : Children[d][j] = c}}
  BY <1>2, ScannerAssumption DEF Tree
<1>5. p \in Above[c]
  BY <1>3, <1>4
<1>6. ASSUME NEW q \in Below(c) PROVE p \in Above[q]
  <2>1. q \in Names /\ (q = c \/ c \in Above[q])
    BY <1>6 DEF Below
  <2>2. c \in Above[q] => Above[c] \subseteq Above[q]
    BY <2>1, ScannerAssumption DEF Tree
  <2> QED BY <2>1, <2>2, <1>5
<1>7. ASSUME NEW e \in Members(Children[p]), Below(c) \cap Below(e) # {} PROVE c = e
  <2>1. PICK j \in DOMAIN Children[p] : e = Children[p][j]
    BY <1>7 DEF Members
  <2> QED BY <1>3, <2>1, <1>7, ScannerAssumption DEF Tree
<1> QED BY <1>2, <1>5, <1>6, <1>7

\* A name that is not entered offers itself alone.
LEMMA OffersAlone ==
    ASSUME NEW p \in Names, Kind[p] # "dir" \/ SkippedDir(p) \/ p \in Locked
    PROVE  Offers(p) = {p}
<1>1. p \in Offers(p)
  BY OffersItself
<1>2. ASSUME NEW q \in Offers(p), q # p PROVE FALSE
  <2>1. q \in Below(p)
    BY <1>2, OffersItself
  <2>2. Kind[p] = "dir" /\ p \in Above[q]
    BY <2>1, <1>2, BelowChildren
  <2>3. p \in Above[q] \cap Below(p)
    BY <2>2 DEF Below
  <2>4. ~SkippedDir(p) /\ p \notin Locked
    BY <2>3, <1>2 DEF Offers
  <2> QED BY <2>2, <2>4
<1> QED BY <1>1, <1>2

\* A directory that is entered offers itself and what its children offer.
LEMMA OffersOfDir ==
    ASSUME NEW p \in Names, ~SkippedDir(p), p \notin Locked
    PROVE  Offers(p) = {p} \cup UNION {Offers(c) : c \in Members(Children[p])}
<1>1. ASSUME NEW q \in Offers(p), q # p
      PROVE  \E c \in Members(Children[p]) : q \in Offers(c)
  <2>1. q \in Below(p) /\ q \in Names
    BY <1>1, OffersItself DEF Below
  <2>2. PICK c \in Members(Children[p]) : q \in Below(c)
    BY <2>1, <1>1, BelowChildren
  <2>3. ASSUME NEW d \in Above[q] \cap Below(c) PROVE ~SkippedDir(d) /\ d \notin Locked
    <3>1. p \in Above[d] /\ d \in Names
      BY <2>3, ChildrenOf DEF Below
    <3>2. d \in Above[q] \cap Below(p)
      BY <3>1, <2>3 DEF Below
    <3> QED BY <3>2, <1>1 DEF Offers
  <2>4. q \in Offers(c)
    BY <2>2, <2>3 DEF Offers
  <2> QED BY <2>4
<1>2. ASSUME NEW c \in Members(Children[p]), NEW q \in Offers(c) PROVE q \in Offers(p)
  <2>1. q \in Below(c) /\ q \in Names /\ c \in Names
    BY <1>2, ChildrenOf DEF Offers, Below
  <2>2. p \in Above[q] /\ q \in Below(p)
    BY <2>1, ChildrenOf DEF Below
  <2>3. ASSUME NEW d \in Above[q] \cap Below(p), d # p PROVE d \in Below(c)
    <3>1. d \in Names /\ p \in Above[d]
      BY <2>3 DEF Below
    <3>2. PICK e \in Members(Children[p]) : d \in Below(e)
      BY <2>3, BelowChildren
    <3>3. e = d \/ e \in Above[d]
      BY <3>2 DEF Below
    <3>4. Above[d] \subseteq Above[q]
      BY <2>1, <2>3, ScannerAssumption DEF Tree
    <3>5. q \in Below(e)
      BY <3>3, <3>4, <2>1, <2>3 DEF Below
    <3>6. c = e
      BY <3>5, <2>1, ChildrenOf
    <3> QED BY <3>2, <3>6
  <2>4. ASSUME NEW d \in Above[q] \cap Below(p) PROVE ~SkippedDir(d) /\ d \notin Locked
    <3>1. CASE d = p
      BY <3>1
    <3>2. CASE d # p
      <4>1. d \in Above[q] \cap Below(c)
        BY <2>3, <2>4, <3>2
      <4> QED BY <4>1, <1>2 DEF Offers
    <3> QED BY <3>1, <3>2
  <2> QED BY <2>2, <2>4 DEF Offers
<1>3. p \in Offers(p)
  BY OffersItself
<1> QED BY <1>1, <1>2, <1>3

-----------------------------------------------------------------------------
\* The walk.

\* The filters do not change.
LEMMA FiltersStay ==
    ASSUME UNCHANGED <<opts, dirs>>
    PROVE  /\ \A p : SkippedDir(p)' = SkippedDir(p) /\ SkippedFile(p)' = SkippedFile(p)
           /\ \A p : Offers(p)' = Offers(p)
           /\ Accepted' = Accepted /\ Unreachable' = Unreachable
<1>1. \A p : SkippedDir(p)' = SkippedDir(p) /\ SkippedFile(p)' = SkippedFile(p)
  BY DEF SkippedDir, SkippedFile
<1>2. \A p : Offers(p)' = Offers(p)
  BY <1>1 DEF Offers
<1>3. Entered(dirs)' = Entered(dirs)
  BY DEF Entered
<1>4. Met' = Met
  BY <1>2, <1>3 DEF Met
<1> QED BY <1>1, <1>2, <1>4 DEF Accepted, AcceptedOf, Unreachable, UnreachableOf

\* A step that meets the names of U, and lists them as the options say.
LEMMA WalkMeets ==
    ASSUME WalkInv, UNCHANGED <<opts, dirs>>, NEW U,
           Still = U \cup Still',
           visited' = visited \cup AcceptedOf(U),
           errors' = errors \cup UnreachableOf(U),
           stage' # "walk" => agenda' = <<>> /\ roots' = <<>>
    PROVE  WalkInv'
<1>1. PICK X : X = Still'
  OBVIOUS
<1>2. AcceptedOf(Still)' = AcceptedOf(X) /\ UnreachableOf(Still)' = UnreachableOf(X)
  BY <1>1, FiltersStay DEF AcceptedOf, UnreachableOf
<1>3. /\ AcceptedOf(Still) = AcceptedOf(U) \cup AcceptedOf(X)
      /\ UnreachableOf(Still) = UnreachableOf(U) \cup UnreachableOf(X)
  BY <1>1 DEF AcceptedOf, UnreachableOf
<1>4. /\ Accepted' = visited' \cup AcceptedOf(X)
      /\ Unreachable' = errors' \cup UnreachableOf(X)
  BY <1>3, FiltersStay DEF WalkInv
<1> QED BY <1>2, <1>4 DEF WalkInv

\* A step that meets nothing.
LEMMA WalkStays ==
    ASSUME WalkInv, UNCHANGED <<opts, dirs, visited, errors>>, Still' = Still,
           stage' # "walk" => agenda' = <<>> /\ roots' = <<>>
    PROVE  WalkInv'
<1>1. AcceptedOf({}) = {} /\ UnreachableOf({}) = {}
  BY DEF AcceptedOf, UnreachableOf
<1>2. /\ Still = {} \cup Still' /\ visited' = visited \cup AcceptedOf({})
      /\ errors' = errors \cup UnreachableOf({})
  BY <1>1
<1> QED BY <1>2, WalkMeets

\* The steps that leave the walk where it is.
LEMMA WalkAlone ==
    ASSUME WalkInv, BucketInv, UNCHANGED <<input, walk>>,
           stage' # "walk" => agenda = <<>> /\ roots = <<>>
    PROVE  WalkInv' /\ BucketInv'
<1>1. UNCHANGED <<opts, dirs>> /\ UNCHANGED <<roots, agenda, visited, errors, buckets>>
  BY DEF input, walk
<1>2. Ahead' = Ahead
  BY <1>1 DEF Ahead, Entered
<1>3. Still' = Still
  BY <1>1, <1>2, FiltersStay DEF Still
<1>4. WalkInv'
  BY <1>1, <1>3, WalkStays
<1>5. BucketInv'
  BY <1>1 DEF BucketInv
<1> QED BY <1>4, <1>5

\* The name at the head of the agenda is met; it may have children to go to.
LEMMA HeadIsMet ==
    ASSUME PoolOK, NEW p, At(p), NEW C \in SUBSET Names,
           UNCHANGED <<opts, dirs, roots>>,
           Members(agenda)' = C \cup Members(Tail(agenda)),
           \A q : q \in Offers(p) <=> q = p \/ \E c \in C : q \in Offers(c)
    PROVE  Still = {p} \cup Still'
<1>1. Members(agenda) = {p} \cup Members(Tail(agenda))
  BY MembersOfTail, PoolParts DEF At
<1> DEFINE R == Members(Tail(agenda)) \cup Entered(roots)
<1>2. Ahead = {p} \cup R
  BY <1>1 DEF Ahead
<1>3. Ahead' = C \cup R
  <2>1. Entered(roots)' = Entered(roots)
    BY DEF Entered
  <2> QED BY <2>1 DEF Ahead
<1> HIDE DEF R
<1>4. Still' = UNION {Offers(c) : c \in C \cup R}
  BY <1>3, FiltersStay DEF Still
<1>5. Still = UNION {Offers(c) : c \in {p} \cup R}
  BY <1>2 DEF Still
<1> QED BY <1>4, <1>5

\* The start: all is to come.
LEMMA WalkInit == Init => WalkInv /\ BucketInv
<1> SUFFICES ASSUME Init PROVE WalkInv /\ BucketInv
  OBVIOUS
<1>1. agenda = <<>> /\ roots = dirs /\ visited = {} /\ errors = {} /\ stage = "walk"
  BY DEF Init
<1>2. Members(agenda) = {} /\ Members(<<>>) = {}
  BY <1>1, EmptySeq, MembersType
<1>3. Still = Met
  BY <1>1, <1>2 DEF Still, Ahead, Met
<1>4. WalkInv
  BY <1>1, <1>3 DEF WalkInv, Accepted, Unreachable
<1>5. BucketInv
  <2>1. \A s \in Sizes : buckets[s] = <<>>
    BY DEF Init
  <2>2. DOMAIN <<>> = {}
    OBVIOUS
  <2> QED BY <1>1, <1>2, <2>1, <2>2 DEF BucketInv, Distinct
<1> QED BY <1>4, <1>5

\* The next root is taken off the list, or left out.
LEMMA WalkNextRoot == PoolOK /\ WalkInv /\ NextRoot => WalkInv'
<1> SUFFICES ASSUME PoolOK, WalkInv, NextRoot PROVE WalkInv'
  OBVIOUS
<1>1. /\ agenda = <<>> /\ roots # <<>> /\ roots' = Tail(roots)
      /\ agenda' = IF opts.skipSystemDirs /\ Head(roots) \in SystemDir THEN <<>>
                   ELSE <<Head(roots)>>
      /\ UNCHANGED <<opts, dirs, visited, errors>> /\ stage' = "walk"
  BY DEF NextRoot, input
<1> DEFINE r == Head(roots)
<1>2. /\ r \in Names /\ Tail(roots) \in Seq(Names)
      /\ Members(roots) = {r} \cup Members(Tail(roots))
  BY <1>1, MembersOfTail, PoolParts
<1>3. Members(agenda) = {} /\ Members(<<>>) = {} /\ Members(<<r>>) = {r}
  BY <1>1 DEF Members
<1>4. Members(agenda)' = IF opts.skipSystemDirs /\ r \in SystemDir THEN {} ELSE {r}
  BY <1>1, <1>3
<1>5. Entered(roots)' = {p \in Members(Tail(roots)) : ~(opts.skipSystemDirs /\ p \in SystemDir)}
  BY <1>1 DEF Entered
<1> HIDE DEF r
<1>6. Ahead' = Ahead
  BY <1>2, <1>3, <1>4, <1>5 DEF Ahead, Entered
<1>7. Still' = Still
  BY <1>1, <1>6, FiltersStay DEF Still
<1> QED BY <1>1, <1>7, WalkStays

\* A directory, or a root that is missing.
LEMMA WalkEnter == ASSUME NEW p \in Names PROVE PoolOK /\ WalkInv /\ Enter(p) => WalkInv'
<1> SUFFICES ASSUME PoolOK, WalkInv, Enter(p) PROVE WalkInv'
  OBVIOUS
<1> DEFINE skipped == Kind[p] = "dir" /\ SkippedDir(p)
           failed  == Kind[p] = "missing" \/ p \in Locked
<1>1. /\ At(p) /\ Kind[p] \in {"dir", "missing"} /\ agenda # <<>> /\ p = Head(agenda)
      /\ agenda' = IF skipped \/ failed THEN Tail(agenda) ELSE Children[p] \o Tail(agenda)
      /\ errors' = IF failed /\ ~skipped THEN errors \cup {p} ELSE errors
      /\ UNCHANGED <<opts, dirs, roots>> /\ visited' = visited /\ stage' = "walk"
  BY DEF Enter, At, input
<1>2. AcceptedOf({p}) = {}
  BY <1>1 DEF AcceptedOf
<1>3. UnreachableOf({p}) = IF failed /\ ~skipped THEN {p} ELSE {}
  BY <1>1 DEF UnreachableOf
<1>4. Tail(agenda) \in Seq(Names)
  BY <1>1, MembersOfTail, PoolParts
<1>5. CASE skipped \/ failed
  <2>1. Offers(p) = {p}
    BY <1>1, <1>5, OffersAlone
  <2>2. Members(agenda)' = {} \cup Members(Tail(agenda))
    BY <1>1, <1>5 DEF Members
  <2>3. \A q : q \in Offers(p) <=> q = p \/ \E c \in {} : q \in Offers(c)
    BY <2>1
  <2>4. Still = {p} \cup Still'
    <3>1. {} \in SUBSET Names
      OBVIOUS
    <3> QED BY <1>1, <2>2, <2>3, <3>1, HeadIsMet
  <2>5. errors' = errors \cup UnreachableOf({p})
    BY <1>1, <1>3
  <2> QED BY <1>1, <1>2, <2>4, <2>5, WalkMeets
<1>6. CASE ~(skipped \/ failed)
  <2>1. ~SkippedDir(p) /\ p \notin Locked
    BY <1>1, <1>6
  <2>2. Children[p] \in Seq(Names) /\ Members(Children[p]) \subseteq Names
    BY ScannerAssumption, MembersType
  <2>3. Members(agenda)' = Members(Children[p]) \cup Members(Tail(agenda))
    <3>1. PICK l : l = Children[p] \o Tail(agenda)
      OBVIOUS
    <3>2. agenda' = l
      BY <1>1, <1>6, <3>1
    <3>3. Members(agenda)' = Members(l)
      BY <3>2 DEF Members
    <3>4. Members(l) = Members(Children[p]) \cup Members(Tail(agenda))
      BY <3>1, <2>2, <1>4, MembersOfConcat
    <3> QED BY <3>3, <3>4
  <2>4. \A q : q \in Offers(p) <=>
                 q = p \/ \E c \in Members(Children[p]) : q \in Offers(c)
    BY <2>1, OffersOfDir
  <2>5. Still = {p} \cup Still'
    BY <1>1, <2>2, <2>3, <2>4, HeadIsMet
  <2>6. errors' = errors \cup UnreachableOf({p})
    BY <1>1, <1>3, <1>6
  <2> QED BY <1>1, <1>2, <2>5, <2>6, WalkMeets
<1> QED BY <1>5, <1>6

\* What the walk meets in a file that is dropped or taken.
LEMMA FileIsMet ==
    ASSUME PoolOK, NEW p \in Names, At(p), Kind[p] \in {"file", "link"},
           UNCHANGED <<opts, dirs, roots>>, agenda' = Tail(agenda)
    PROVE  /\ Still = {p} \cup Still' /\ UnreachableOf({p}) = {}
           /\ AcceptedOf({p}) = IF SkippedFile(p) THEN {} ELSE {p}
<1>1. \A q : q \in Offers(p) <=> q = p \/ \E c \in {} : q \in Offers(c)
  BY OffersAlone
<1>2. Members(agenda)' = {} \cup Members(Tail(agenda))
  BY DEF Members
<1>3. {} \in SUBSET Names
  OBVIOUS
<1>4. Still = {p} \cup Still'
  BY <1>1, <1>2, <1>3, HeadIsMet
<1> QED BY <1>4 DEF AcceptedOf, UnreachableOf

\* A file that is skipped, or was met before.
LEMMA WalkDrop == ASSUME NEW p \in Names PROVE PoolOK /\ WalkInv /\ Drop(p) => WalkInv'
<1> SUFFICES ASSUME PoolOK, WalkInv, Drop(p) PROVE WalkInv'
  OBVIOUS
<1>1. /\ At(p) /\ Kind[p] \in {"file", "link"} /\ (SkippedFile(p) \/ p \in visited)
      /\ agenda' = Tail(agenda) /\ UNCHANGED <<opts, dirs, roots>>
      /\ visited' = visited /\ errors' = errors /\ stage' = "walk"
  BY DEF Drop, At, Skip, Seen, input
<1>2. /\ Still = {p} \cup Still' /\ UnreachableOf({p}) = {}
      /\ AcceptedOf({p}) = IF SkippedFile(p) THEN {} ELSE {p}
  BY <1>1, FileIsMet
<1>3. visited' = visited \cup AcceptedOf({p}) /\ errors' = errors \cup UnreachableOf({p})
  BY <1>1, <1>2
<1> QED BY <1>1, <1>2, <1>3, WalkMeets

\* A file that is taken.
LEMMA WalkTake == ASSUME NEW p \in Names PROVE PoolOK /\ WalkInv /\ Take(p) => WalkInv'
<1> SUFFICES ASSUME PoolOK, WalkInv, Take(p) PROVE WalkInv'
  OBVIOUS
<1>1. /\ At(p) /\ Kind[p] \in {"file", "link"} /\ ~SkippedFile(p)
      /\ agenda' = Tail(agenda) /\ UNCHANGED <<opts, dirs, roots>>
      /\ visited' = visited \cup {p} /\ errors' = errors /\ stage' = "walk"
  BY DEF Take, At, input
<1>2. /\ Still = {p} \cup Still' /\ UnreachableOf({p}) = {} /\ AcceptedOf({p}) = {p}
  BY <1>1, FileIsMet
<1>3. visited' = visited \cup AcceptedOf({p}) /\ errors' = errors \cup UnreachableOf({p})
  BY <1>1, <1>2
<1> QED BY <1>1, <1>2, <1>3, WalkMeets

\* A file that is taken is in the bucket of its length, once.
LEMMA BucketTake == ASSUME NEW p \in Names PROVE PoolOK /\ BucketInv /\ Take(p) => BucketInv'
<1> SUFFICES ASSUME PoolOK, BucketInv, Take(p), NEW s \in Sizes
             PROVE  /\ Members(buckets[s])' = {q \in visited' : Length[q] = s}
                    /\ Distinct(buckets[s])'
  BY DEF BucketInv
<1>1. p \notin visited /\ visited' = visited \cup {p}
  BY DEF Take, Seen
<1>2. /\ Members(buckets[s]) = {q \in visited : Length[q] = s} /\ Distinct(buckets[s])
      /\ buckets[s] \in Seq(Names)
  BY PoolParts DEF BucketInv
<1>3. buckets'[s] = IF s = Length[p] THEN Append(buckets[s], p) ELSE buckets[s]
  BY TakenBuckets
<1>4. CASE s = Length[p]
  <2>1. /\ Members(Append(buckets[s], p)) = Members(buckets[s]) \cup {p}
        /\ Distinct(Append(buckets[s], p))
    BY <1>1, <1>2, MembersOfAppend
  <2>2. Members(buckets'[s]) = {q \in visited' : Length[q] = s} /\ Distinct(buckets'[s])
    BY <1>1, <1>2, <1>3, <1>4, <2>1
  <2> QED BY <2>2
<1>5. CASE s # Length[p]
  <2>1. Members(buckets'[s]) = {q \in visited' : Length[q] = s} /\ Distinct(buckets'[s])
    BY <1>1, <1>2, <1>3, <1>5
  <2> QED BY <2>1
<1> QED BY <1>4, <1>5

\* Every step keeps what is said of the walk and of the buckets.
LEMMA WalkNext == PoolOK /\ WalkInv /\ BucketInv /\ [Next]_vars => WalkInv' /\ BucketInv'
<1> SUFFICES ASSUME PoolOK, WalkInv, BucketInv, [Next]_vars PROVE WalkInv' /\ BucketInv'
  OBVIOUS
<1>1. CASE NextRoot
  <2>1. UNCHANGED <<visited, buckets>>
    BY <1>1 DEF NextRoot
  <2>2. BucketInv'
    BY <2>1 DEF BucketInv
  <2> QED BY <1>1, <2>2, WalkNextRoot
<1>2. CASE \E p \in Names : Enter(p) \/ Drop(p)
  <2>1. UNCHANGED <<visited, buckets>>
    BY <1>2 DEF Enter, Drop
  <2>2. BucketInv'
    BY <2>1 DEF BucketInv
  <2> QED BY <1>2, <2>2, WalkEnter, WalkDrop
<1>3. CASE \E p \in Names : Take(p)
  BY <1>3, WalkTake, BucketTake
<1>4. CASE EndWalk
  BY <1>4, WalkAlone DEF EndWalk
<1>5. ASSUME UNCHANGED <<input, walk>>, stage' = stage \/ stage # "walk"
      PROVE  WalkInv' /\ BucketInv'
  BY <1>5, WalkAlone DEF WalkInv
<1>6. CASE UNCHANGED vars
  BY <1>5, <1>6 DEF vars
<1>7. CASE (\E s \in Sizes : Spawn(s)) \/ AllSpawned \/ Return
  BY <1>5, <1>7 DEF Spawn, AllSpawned, Return
<1>8. CASE \E s \in Sizes : Worker(s)
  BY <1>5, <1>8 DEF Worker, NextFile, Get, Hash, Put, AppendFile, Done, Release, Goto
<1> QED BY <1>1, <1>2, <1>3, <1>4, <1>6, <1>7, <1>8 DEF Next, Main, WalkStep

\* The walk's invariant and that of the buckets hold throughout.
THEOREM WalkInvariant == Spec => [](WalkInv /\ BucketInv)
<1>1. Init => WalkInv /\ BucketInv
  BY WalkInit
<1>2. PoolOK /\ WalkInv /\ BucketInv /\ [Next]_vars => WalkInv' /\ BucketInv'
  BY WalkNext
<1> QED BY <1>1, <1>2, PoolInvariant, PTL DEF Spec

\* On any tree, from any list of roots and with any options, each file that no option
\* excludes is bucketed once, nothing else is, and what cannot be read is listed.
THEOREM WalkCompleteHolds == Spec => []WalkComplete
<1>1. ASSUME PoolOK, WalkInv, BucketInv PROVE WalkComplete
  <2> SUFFICES ASSUME stage # "walk"
               PROVE  /\ visited = Accepted /\ errors = Unreachable
                      /\ \A s \in Sizes :
                            /\ Members(buckets[s]) = {p \in Accepted : Length[p] = s}
                            /\ NoRepetition(buckets[s])
    BY DEF WalkComplete
  <2>1. agenda = <<>> /\ roots = <<>>
    BY <1>1 DEF WalkInv
  <2>2. Ahead = {}
    BY <2>1 DEF Ahead, Entered, Members
  <2>3. Still = {}
    BY <2>2 DEF Still
  <2>4. AcceptedOf(Still) = {} /\ UnreachableOf(Still) = {}
    BY <2>3 DEF AcceptedOf, UnreachableOf
  <2>5. visited = Accepted /\ errors = Unreachable
    BY <1>1, <2>4 DEF WalkInv
  <2>6. ASSUME NEW s \in Sizes
        PROVE  /\ Members(buckets[s]) = {p \in Accepted : Length[p] = s}
               /\ NoRepetition(buckets[s])
    <3>1. Distinct(buckets[s]) /\ buckets[s] \in Seq(Names)
      BY <1>1, PoolParts DEF BucketInv
    <3>2. NoRepetition(buckets[s])
      BY <3>1, DistinctCounts
    <3> QED BY <1>1, <2>5, <3>2 DEF BucketInv
  <2> QED BY <2>5, <2>6
<1> QED BY <1>1, PoolInvariant, WalkInvariant, PTL

-----------------------------------------------------------------------------
\* The groups.

\* What the second part of the invariant says.
Grouped ==
    /\ pending \subseteq Big
    /\ \A s \in Sizes : /\ Members(w[s].todo) \subseteq Members(buckets[s])
                        /\ Distinct(w[s].todo)
                        /\ s \notin Big => w[s].todo = <<>>
    /\ \A x \in Hashes \cup {NoHash} :
          /\ Distinct(hashGroups[x])
          /\ Members(hashGroups[x]) = {p \in Hashed : HashOf(p) = x}

\* The invariant in two parts, before a step and after it.
LEMMA GroupParts ==
    ASSUME PoolOK
    PROVE  /\ GroupInv <=>
                /\ stage = "walk" => \A x \in Hashes \cup {NoHash} : hashGroups[x] = <<>>
                /\ stage # "walk" => Grouped
           /\ PoolOK' =>
                (GroupInv' <=>
                    /\ stage' = "walk" => \A x \in Hashes \cup {NoHash} : hashGroups'[x] = <<>>
                    /\ stage' # "walk" => Grouped')
<1>1. DOMAIN hashGroups = Hashes \cup {NoHash}
  BY PoolParts
<1>2. PoolOK' => DOMAIN hashGroups' = Hashes \cup {NoHash}
  BY PoolParts
<1> QED BY <1>1, <1>2 DEF GroupInv, Grouped

\* A list without members is distinct.
LEMMA EmptyList == Distinct(<<>>) /\ Members(<<>>) = {}
<1>1. DOMAIN <<>> = {}
  OBVIOUS
<1> QED BY <1>1 DEF Distinct, Members

\* As long as no bucket loses a file that is left, the same files are hashed.
LEMMA HashedStays ==
    ASSUME UNCHANGED <<digest, buckets>>, \A s \in Sizes : Left(s)' = Left(s)
    PROVE  Big' = Big /\ Hashed' = Hashed /\ \A p : HashOf(p)' = HashOf(p)
<1>1. Big' = Big /\ \A p : HashOf(p)' = HashOf(p)
  BY DEF Big, HashOf
<1>2. \A s \in Big : s \in Sizes
  BY DEF Big
<1> QED BY <1>1, <1>2 DEF Hashed

\* The steps that hash nothing and give no goroutine anything to do.
LEMMA GroupStays ==
    ASSUME PoolOK, PoolOK', Grouped, UNCHANGED <<digest, buckets, hashGroups, pending>>,
           \A t \in Sizes : w'[t].todo = w[t].todo
    PROVE  Grouped'
<1>1. \A t \in Sizes : Left(t)' = Left(t)
  BY DEF Left
<1>2. Big' = Big /\ Hashed' = Hashed /\ \A p : HashOf(p)' = HashOf(p)
  BY <1>1, HashedStays
<1>3. pending' \subseteq Big'
  BY <1>2 DEF Grouped
<1>4. ASSUME NEW s \in Sizes
      PROVE  /\ Members(w'[s].todo) \subseteq Members(buckets'[s])
             /\ Distinct(w'[s].todo)
             /\ s \notin Big' => w'[s].todo = <<>>
  BY <1>2 DEF Grouped
<1>5. ASSUME NEW x \in Hashes \cup {NoHash}
      PROVE  /\ Distinct(hashGroups'[x])
             /\ Members(hashGroups'[x]) = {p \in Hashed' : HashOf(p)' = x}
  BY <1>2 DEF Grouped
<1> QED BY <1>3, <1>4, <1>5 DEF Grouped

\* When the walk ends nothing is hashed.
LEMMA GroupEndWalk ==
    PoolOK /\ PoolOK' /\ BucketInv /\ GroupInv /\ EndWalk => GroupInv'
<1> SUFFICES ASSUME PoolOK, PoolOK', BucketInv, GroupInv, EndWalk PROVE GroupInv'
  OBVIOUS
<1>1. /\ stage = "walk" /\ stage' = "spawn"
      /\ pending' = {s \in Sizes : Len(buckets[s]) >= 2}
      /\ buckets' = buckets /\ w' = w /\ hashGroups' = hashGroups
  BY DEF EndWalk, walk
<1>2. Big' = pending' /\ Big' \subseteq Sizes
  BY <1>1 DEF Big
<1>3. \A s \in Sizes : w'[s].todo = <<>>
  BY <1>1, PoolParts DEF PoolInv, NoWorker
<1>4. \A s \in Big' : Left(s)' = Members(buckets'[s])
  BY <1>2 DEF Left
<1>5. Hashed' = {}
  BY <1>4 DEF Hashed
<1>6. \A x \in Hashes \cup {NoHash} : hashGroups'[x] = <<>>
  BY <1>1, GroupParts
<1>7. ASSUME NEW x \in Hashes \cup {NoHash}
      PROVE  /\ Distinct(hashGroups'[x])
             /\ Members(hashGroups'[x]) = {p \in Hashed' : HashOf(p)' = x}
  BY <1>5, <1>6, EmptyList
<1>8. ASSUME NEW s \in Sizes
      PROVE  /\ Members(w'[s].todo) \subseteq Members(buckets'[s])
             /\ Distinct(w'[s].todo)
             /\ s \notin Big' => w'[s].todo = <<>>
  BY <1>3, EmptyList
<1>9. Grouped'
  BY <1>2, <1>7, <1>8 DEF Grouped
<1> QED BY <1>1, <1>9, GroupParts

\* A goroutine gets the whole bucket.
LEMMA GroupSpawn ==
    ASSUME NEW s \in Sizes
    PROVE  PoolOK /\ PoolOK' /\ BucketInv /\ Grouped /\ Spawn(s) => Grouped'
<1> SUFFICES ASSUME PoolOK, PoolOK', BucketInv, Grouped, Spawn(s) PROVE Grouped'
  OBVIOUS
<1>1. /\ s \in pending /\ pending' = pending \ {s}
      /\ w' = [w EXCEPT ![s] = [pc |-> "next", todo |-> buckets[s]]]
      /\ UNCHANGED <<digest, buckets, hashGroups>>
  BY DEF Spawn, input, walk
<1>2. w \in [Sizes -> WorkerType]
  BY PoolParts
<1>3. w'[s].todo = buckets[s] /\ \A t \in Sizes \ {s} : w'[t] = w[t]
  BY <1>1, <1>2
<1>4. ASSUME NEW t \in Sizes PROVE Left(t)' = Left(t)
  <2>1. CASE t = s
    <3>1. s \notin pending' /\ Members(w'[s].todo) = Members(buckets[s])
      BY <1>1, <1>3
    <3> QED BY <2>1, <3>1, <1>1 DEF Left
  <2>2. CASE t # s
    <3>1. t \in pending' <=> t \in pending
      BY <1>1, <2>2
    <3> QED BY <2>2, <3>1, <1>1, <1>3 DEF Left
  <2> QED BY <2>1, <2>2
<1>5. Big' = Big /\ Hashed' = Hashed /\ \A p : HashOf(p)' = HashOf(p)
  BY <1>1, <1>4, HashedStays
<1>6. pending' \subseteq Big' /\ s \in Big
  BY <1>1, <1>5 DEF Grouped
<1>7. ASSUME NEW t \in Sizes
      PROVE  /\ Members(w'[t].todo) \subseteq Members(buckets'[t])
             /\ Distinct(w'[t].todo)
             /\ t \notin Big' => w'[t].todo = <<>>
  <2>1. CASE t = s
    BY <2>1, <1>1, <1>3, <1>5, <1>6 DEF BucketInv
  <2>2. CASE t # s
    BY <2>2, <1>1, <1>3, <1>5 DEF Grouped
  <2> QED BY <2>1, <2>2
<1>8. ASSUME NEW x \in Hashes \cup {NoHash}
      PROVE  /\ Distinct(hashGroups'[x])
             /\ Members(hashGroups'[x]) = {p \in Hashed' : HashOf(p)' = x}
  BY <1>1, <1>5 DEF Grouped
<1> QED BY <1>6, <1>7, <1>8 DEF Grouped

\* A file that is put into its group was not in one.
LEMMA GroupAppendFile ==
    ASSUME NEW s \in Sizes
    PROVE  PoolOK /\ PoolOK' /\ BucketInv /\ Grouped /\ AppendFile(s) => Grouped'
<1> SUFFICES ASSUME PoolOK, PoolOK', BucketInv, Grouped, AppendFile(s) PROVE Grouped'
  OBVIOUS
<1>1. PICK f : f = File(s)
  OBVIOUS
<1>2. PICK l : l = Tail(w[s].todo)
  OBVIOUS
<1>3. /\ w[s].pc = "group" /\ w[s].pc \in InFile
      /\ w' = [w EXCEPT ![s] = [pc |-> "next", todo |-> l]]
      /\ \A x \in Hashes \cup {NoHash} :
            hashGroups'[x] = IF x = HashOf(f) THEN Append(hashGroups[x], f) ELSE hashGroups[x]
  BY <1>1, <1>2, AppendedGroups
<1>4. UNCHANGED <<digest, buckets, pending>>
  BY DEF AppendFile, input, walk
<1>5. f \in Names /\ HashOf(f) \in Hashes \cup {NoHash}
  BY <1>1, <1>3, FileOf
<1>6. /\ w \in [Sizes -> WorkerType] /\ w[s].todo \in Seq(Names) /\ w[s].todo # <<>>
  BY <1>3, PoolParts DEF WorkerType
<1>7. /\ Members(w[s].todo) = {f} \cup Members(l) /\ Distinct(l) /\ f \notin Members(l)
  BY <1>1, <1>2, <1>6, MembersOfTail DEF File, Grouped
<1>8. w'[s].todo = l /\ \A t \in Sizes \ {s} : w'[t] = w[t]
  BY <1>3, <1>6
<1>9. s \notin pending /\ s \in Big
  BY <1>3, <1>6, Running DEF Grouped
<1>10. Left(s) = {f} \cup Members(l) /\ Left(s)' = Members(l)
  BY <1>4, <1>7, <1>8, <1>9 DEF Left
<1>11. \A t \in Sizes \ {s} : Left(t)' = Left(t)
  BY <1>4, <1>8 DEF Left
<1>12. Big' = Big /\ Big \subseteq Sizes /\ \A p : HashOf(p)' = HashOf(p)
  BY <1>4 DEF Big, HashOf
<1>13. f \in Members(buckets[s])
  BY <1>7 DEF Grouped
<1>14. f \notin Hashed
  <2> SUFFICES ASSUME NEW t \in Big, f \in Members(buckets[t]), f \notin Left(t) PROVE FALSE
    BY DEF Hashed
  <2>1. Length[f] = t /\ Length[f] = s
    BY <1>12, <1>13 DEF BucketInv
  <2> QED BY <2>1, <1>10
<1>15. Hashed' = Hashed \cup {f}
  <2>1. ASSUME NEW q, q \in Hashed' PROVE q \in Hashed \cup {f}
    <3>1. PICK t \in Big : q \in Members(buckets[t]) /\ q \notin Left(t)'
      BY <2>1, <1>4, <1>12 DEF Hashed
    <3>2. q \notin Left(t) \/ q = f
      BY <3>1, <1>10, <1>11, <1>12
    <3> QED BY <3>1, <3>2 DEF Hashed
  <2>2. ASSUME NEW q, q \in Hashed PROVE q \in Hashed'
    <3>1. PICK t \in Big : q \in Members(buckets[t]) /\ q \notin Left(t)
      BY <2>2 DEF Hashed
    <3>2. q \notin Left(t)'
      BY <3>1, <1>10, <1>11, <1>12
    <3> QED BY <3>1, <3>2, <1>4, <1>12 DEF Hashed
  <2>3. f \in Hashed'
    BY <1>4, <1>7, <1>9, <1>10, <1>12, <1>13 DEF Hashed
  <2> QED BY <2>1, <2>2, <2>3
<1>16. pending' \subseteq Big'
  BY <1>4, <1>12 DEF Grouped
<1>17. ASSUME NEW t \in Sizes
       PROVE  /\ Members(w'[t].todo) \subseteq Members(buckets'[t])
              /\ Distinct(w'[t].todo)
              /\ t \notin Big' => w'[t].todo = <<>>
  <2>1. CASE t = s
    BY <2>1, <1>4, <1>7, <1>8, <1>9, <1>12 DEF Grouped
  <2>2. CASE t # s
    BY <2>2, <1>4, <1>8, <1>12 DEF Grouped
  <2> QED BY <2>1, <2>2
<1>18. ASSUME NEW x \in Hashes \cup {NoHash}
       PROVE  /\ Distinct(hashGroups'[x])
              /\ Members(hashGroups'[x]) = {p \in Hashed' : HashOf(p)' = x}
  <2>1. /\ Distinct(hashGroups[x]) /\ hashGroups[x] \in Seq(Names)
        /\ Members(hashGroups[x]) = {p \in Hashed : HashOf(p) = x}
    BY PoolParts DEF Grouped
  <2>2. {p \in Hashed' : HashOf(p)' = x} = {p \in Hashed \cup {f} : HashOf(p) = x}
    BY <1>12, <1>15
  <2>3. CASE x = HashOf(f)
    <3>1. f \notin Members(hashGroups[x])
      BY <2>1, <1>14
    <3>2. /\ Members(Append(hashGroups[x], f)) = Members(hashGroups[x]) \cup {f}
          /\ Distinct(Append(hashGroups[x], f))
      BY <2>1, <3>1, <1>5, MembersOfAppend
    <3>3. hashGroups'[x] = Append(hashGroups[x], f)
      BY <2>3, <1>3
    <3>4. {p \in Hashed \cup {f} : HashOf(p) = x} = {p \in Hashed : HashOf(p) = x} \cup {f}
      BY <2>3
    <3>5. Members(hashGroups'[x]) = {p \in Hashed \cup {f} : HashOf(p) = x}
      BY <3>2, <3>3, <3>4, <2>1
    <3> QED BY <2>2, <3>2, <3>3, <3>5
  <2>4. CASE x # HashOf(f)
    <3>1. hashGroups'[x] = hashGroups[x]
      BY <2>4, <1>3
    <3>2. {p \in Hashed \cup {f} : HashOf(p) = x} = {p \in Hashed : HashOf(p) = x}
      BY <2>4
    <3> QED BY <2>1, <2>2, <3>1, <3>2
  <2> QED BY <2>3, <2>4
<1> QED BY <1>16, <1>17, <1>18 DEF Grouped

\* The other steps of a goroutine leave what it is to do.
LEMMA SameTodo ==
    ASSUME PoolOK, NEW s \in Sizes,
           NextFile(s) \/ Get(s) \/ Hash(s) \/ Put(s) \/ Done(s) \/ Release(s)
    PROVE  /\ UNCHANGED <<digest, buckets, hashGroups, pending, stage>> /\ w[s].pc # "none"
           /\ \A t \in Sizes : w'[t].todo = w[t].todo
<1>1. w \in [Sizes -> WorkerType] /\ w[s] \in WorkerType
  BY PoolParts
<1>2. CASE NextFile(s) \/ Get(s) \/ Hash(s) \/ Put(s)
  <2>1. PICK label : Goto(s, label)
    BY <1>2 DEF NextFile, Get, Hash, Put
  <2>2. w' = [w EXCEPT ![s].pc = label]
    BY <2>1 DEF Goto
  <2>3. \A t \in Sizes : w'[t].todo = w[t].todo
    BY <2>2, <1>1 DEF WorkerType
  <2>4. w[s].pc # "none"
    BY <1>2 DEF NextFile, Get, Hash, Put
  <2> QED BY <2>1, <2>3, <2>4 DEF Goto, input, walk
<1>3. CASE Done(s)
  <2>1. w' = [w EXCEPT ![s].pc = "release"] /\ w[s].pc # "none"
    BY <1>3 DEF Done
  <2>2. \A t \in Sizes : w'[t].todo = w[t].todo
    BY <2>1, <1>1 DEF WorkerType
  <2> QED BY <1>3, <2>1, <2>2 DEF Done, input, walk
<1>4. CASE Release(s)
  <2>1. w' = [w EXCEPT ![s] = NoWorker] /\ w[s].pc = "release"
    BY <1>4 DEF Release
  <2>2. w[s].todo = <<>> /\ NoWorker.todo = <<>>
    BY <2>1, PoolParts DEF PoolInv, NoWorker
  <2>3. \A t \in Sizes : w'[t].todo = w[t].todo
    BY <2>1, <2>2, <1>1
  <2> QED BY <1>4, <2>1, <2>3 DEF Release, input, walk
<1> QED BY <1>2, <1>3, <1>4

\* Every step keeps what is said of the groups.
LEMMA GroupNext ==
    PoolOK /\ PoolOK' /\ BucketInv /\ GroupInv /\ [Next]_vars => GroupInv'
<1> SUFFICES ASSUME PoolOK, PoolOK', BucketInv, GroupInv, [Next]_vars PROVE GroupInv'
  OBVIOUS
<1>1. CASE NextRoot \/ \E p \in Names : Enter(p) \/ Drop(p) \/ Take(p)
  <2>1. stage = "walk" /\ stage' = "walk" /\ hashGroups' = hashGroups
    BY <1>1 DEF NextRoot, Enter, Drop, Take, At
  <2> QED BY <2>1, GroupParts
<1>2. CASE EndWalk
  BY <1>2, GroupEndWalk
<1>3. ASSUME UNCHANGED <<digest, buckets, hashGroups, pending>>,
             \A t \in Sizes : w'[t].todo = w[t].todo,
             stage' = "walk" <=> stage = "walk"
      PROVE  GroupInv'
  <2>1. stage # "walk" => Grouped'
    BY <1>3, GroupStays, GroupParts
  <2> QED BY <2>1, <1>3, GroupParts
<1>4. CASE UNCHANGED vars
  BY <1>3, <1>4 DEF vars, input, walk, pool
<1>5. CASE AllSpawned \/ Return
  BY <1>3, <1>5 DEF AllSpawned, Return, input, walk, pool
<1>6. CASE \E s \in Sizes : Spawn(s)
  <2>1. PICK s \in Sizes : Spawn(s)
    BY <1>6
  <2>2. stage # "walk" /\ stage' # "walk"
    BY <2>1 DEF Spawn
  <2> QED BY <2>1, <2>2, GroupSpawn, GroupParts
<1>7. CASE \E s \in Sizes : Worker(s)
  <2>1. PICK s \in Sizes : Worker(s)
    BY <1>7
  <2>2. CASE AppendFile(s)
    <3>1. w[s].pc = "group" /\ stage' = stage
      BY <2>2 DEF AppendFile
    <3>2. stage # "walk" /\ stage' # "walk"
      BY <3>1, Running
    <3> QED BY <2>2, <3>2, GroupAppendFile, GroupParts
  <2>3. CASE ~AppendFile(s)
    BY <1>3, <2>1, <2>3, SameTodo DEF Worker
  <2> QED BY <2>2, <2>3
<1> QED BY <1>1, <1>2, <1>4, <1>5, <1>6, <1>7 DEF Next, Main, WalkStep

\* The groups' invariant holds throughout.
THEOREM GroupInvariant == Spec => []GroupInv
<1>1. Init => GroupInv
  <2> SUFFICES ASSUME Init PROVE GroupInv
    OBVIOUS
  <2>1. PoolOK /\ stage = "walk" /\ \A x \in Hashes \cup {NoHash} : hashGroups[x] = <<>>
    BY PoolInit DEF Init
  <2> QED BY <2>1, GroupParts
<1>2. PoolOK /\ PoolOK' /\ BucketInv /\ GroupInv /\ [Next]_vars => GroupInv'
  BY GroupNext
<1> QED BY <1>1, <1>2, PoolInvariant, WalkInvariant, PTL DEF Spec

\* When Scan returns, every candidate was hashed.
LEMMA AllHashed ==
    ASSUME PoolOK, GroupInv, stage = "done"
    PROVE  Hashed = Candidates
<1>1. pending = {} /\ wg = 0
  BY PoolParts DEF PoolInv
<1>2. Working = {}
  BY <1>1, CountsFinite, FS_EmptySet, PoolParts
<1>3. \A t \in Sizes : w[t].todo = <<>>
  BY <1>2, PoolParts DEF PoolInv, Working
<1>4. \A s \in Sizes : Left(s) = {}
  BY <1>1, <1>3, EmptyList DEF Left
<1> QED BY <1>4 DEF Hashed, Candidates, Big

\* In every interleaving of any number of goroutines the candidates of one digest end in
\* one group, each of them once and nothing else, which Scan returns if there are two.
THEOREM GroupsCompleteHolds == Spec => []GroupsComplete
<1>1. ASSUME PoolOK, BucketInv, GroupInv PROVE GroupsComplete
  <2> SUFFICES ASSUME stage = "done", NEW h \in Hashes
               PROVE  LET equal == {p \in Candidates : HashOf(p) = h} IN
                      /\ Members(hashGroups[h]) = equal /\ NoRepetition(hashGroups[h])
                      /\ h \in Returned <=> Cardinality(equal) >= 2
    BY DEF GroupsComplete
  <2> DEFINE equal == {p \in Candidates : HashOf(p) = h}
  <2>1. Hashed = Candidates /\ Grouped
    BY <1>1, AllHashed, GroupParts
  <2>2. h \in DOMAIN hashGroups /\ hashGroups[h] \in Seq(Names)
    BY <1>1, PoolParts
  <2>3. Members(hashGroups[h]) = equal /\ Distinct(hashGroups[h])
    BY <2>1, <2>2 DEF Grouped
  <2>4. NoRepetition(hashGroups[h])
    BY <2>2, <2>3, DistinctCounts
  <2>5. h \in Returned <=> Cardinality(equal) >= 2
    BY <2>2, <2>3, <2>4 DEF Returned, NoRepetition
  <2> QED BY <2>3, <2>4, <2>5
<1> QED BY <1>1, PoolInvariant, WalkInvariant, GroupInvariant, PTL
=============================================================================
