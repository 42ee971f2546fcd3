----------------------------- MODULE RulesProofs -----------------------------
(***************************************************************************)
(* Theorems about module Rules for any paths, names, rules and groups: one *)
(* file is kept, and it is kept again when the same rules are applied to   *)
(* what is left of the group.  Module Session assumes this of its Keep.    *)
(***************************************************************************)
EXTENDS Rules, FiniteSetTheorems, SequenceTheorems, WellFoundedInduction, TLAPS

-----------------------------------------------------------------------------
\* Least elements.

\* A finite set that is not empty has a member with nothing below it, when R is
\* transitive and nothing is below itself.
LEMMA LowestExists ==
  ASSUME NEW S, IsFiniteSet(S), S # {}, NEW R,
         \A x \in S : <<x, x>> \notin R,
         \A x, y, z \in S : <<x, y>> \in R /\ <<y, z>> \in R => <<x, z>> \in R
  PROVE  \E x \in S : \A y \in S : <<y, x>> \notin R
<1> DEFINE Down(x) == {y \in S : <<y, x>> \in R}
           T == {Down(x) : x \in S}
<1>1. FiniteSubsetsOf(S) = SUBSET S
  BY FS_FiniteSubsetsOfFinite
<1>2. IsWellFoundedOn(StrictSubsetOrdering(S), SUBSET S)
  BY <1>1, FS_StrictSubsetOrderingWellFounded
<1>3. T \subseteq SUBSET S /\ T # {}
  <2>1. SUFFICES ASSUME NEW D \in T
                 PROVE  D \subseteq S
    <3>1. PICK x \in S : TRUE
      OBVIOUS
    <3>2. Down(x) \in T
      BY <3>1
    <3> QED
      BY <3>2
  <2>2. PICK x \in S : D = Down(x)
    OBVIOUS
  <2> QED
    BY <2>2
<1>4. PICK D \in T : \A E \in T : <<E, D>> \notin StrictSubsetOrdering(S)
  BY <1>2, <1>3, WFMin
<1>5. PICK x \in S : D = Down(x)
  BY <1>4
<1>6. ASSUME NEW y \in S, <<y, x>> \in R
      PROVE  FALSE
  <2>1. Down(y) \subseteq Down(x)
    BY <1>5, <1>6
  <2>2. y \in Down(x) /\ y \notin Down(y)
    BY <1>6
  <2>3. <<Down(y), Down(x)>> \in StrictSubsetOrdering(S)
    BY <2>1, <2>2 DEF StrictSubsetOrdering
  <2> QED
    BY <1>4, <1>5, <2>3
<1> QED
  BY <1>5, <1>6

\* A finite set of natural numbers that is not empty has a least one.
LEMMA LeastNumber ==
  ASSUME NEW S \in SUBSET Nat, IsFiniteSet(S), S # {}
  PROVE  \E i \in S : \A j \in S : i <= j
<1> DEFINE R == {e \in S \X S : e[1] < e[2]}
<1>1. \A x, y \in S : <<x, y>> \in R <=> x < y
  OBVIOUS
<1> HIDE DEF R
<1>2. \A x, y, z \in S : ~(x < x) /\ (x < y /\ y < z => x < z)
  OBVIOUS
<1>3. \A x \in S : <<x, x>> \notin R
  BY <1>1, <1>2
<1>4. \A x, y, z \in S : <<x, y>> \in R /\ <<y, z>> \in R => <<x, z>> \in R
  BY <1>1, <1>2
<1>5. PICK x \in S : \A y \in S : <<y, x>> \notin R
  BY <1>3, <1>4, LowestExists
<1>6. \A y \in S : ~(y < x)
  BY <1>1, <1>5
<1> QED
  BY <1>6

LEMMA LeastIndex ==
  ASSUME NEW n \in Nat, NEW S \in SUBSET (0..n), S # {}
  PROVE  \E i \in S : \A j \in S : i <= j
<1>1. IsFiniteSet(S)
  <2>1. 0 \in Int /\ n \in Int
    OBVIOUS
  <2>2. IsFiniteSet(0..n)
    BY <2>1, FS_Interval
  <2> QED
    BY <2>2, FS_Subset
<1>2. S \subseteq Nat
  OBVIOUS
<1> QED
  BY <1>1, <1>2, LeastNumber

-----------------------------------------------------------------------------
\* Version scores are sequences of integers, and Higher orders them.

\* The numbers of a base name.
LEMMA NumbersType ==
  ASSUME NEW b \in Seq(Nat \cup {Dot, Text})
  PROVE  Numbers(b) \in Seq(Nat)
<1>0. DOMAIN b = 1..Len(b) /\ Len(b) \in Nat
  BY LenProperties
<1>1. ASSUME NEW j \in Nat \ {0}, IsNumber(b, j)
      PROVE  j \in 1..Len(b) /\ b[j] \in Nat
  <2>1. j \in 1..Len(b) /\ b[j] \notin {Dot, Text}
    BY <1>0, <1>1 DEF IsNumber
  <2>2. b[j] \in Nat \cup {Dot, Text}
    BY <2>1, ElementOfSeq
  <2> QED
    BY <2>1, <2>2
<1>2. CASE \A i \in DOMAIN b : ~IsNumber(b, i)
  BY <1>2 DEF Numbers
<1>3. CASE \E i \in DOMAIN b : IsNumber(b, i)
  <2> DEFINE S == {i \in DOMAIN b : IsNumber(b, i)}
             i == FirstNumber(b)
  <2>1. \E x \in S : \A y \in S : x <= y
    <3>1. S \in SUBSET (0..Len(b)) /\ S # {}
      BY <1>0, <1>3
    <3> HIDE DEF S
    <3> QED
      BY <1>0, <3>1, LeastIndex
  <2>2. \E x \in DOMAIN b : IsNumber(b, x) /\ \A y \in 1..x-1 : ~IsNumber(b, y)
    <3>1. PICK x \in S : \A y \in S : x <= y
      BY <2>1
    <3>2. ASSUME NEW y \in 1..x-1
          PROVE  ~IsNumber(b, y)
      BY <1>0, <3>1, <3>2
    <3> QED
      BY <3>1, <3>2
  <2>3. i \in DOMAIN b /\ IsNumber(b, i)
    BY <2>2 DEF FirstNumber
  <2> DEFINE Q == {n \in 0..Len(b) : ~Follows(b, i, n + 1)}
             n == CHOOSE n \in 0..Len(b) : Follows(b, i, n) /\ ~Follows(b, i, n + 1)
  <2> HIDE DEF i
  <2>4. Len(b) \in Q
    <3>1. ~IsNumber(b, i + 2 * (Len(b) + 1))
      BY <1>0, <2>3 DEF IsNumber
    <3>2. Len(b) + 1 \in 1..Len(b) + 1
      BY <1>0
    <3>3. ~Follows(b, i, Len(b) + 1)
      BY <3>1, <3>2 DEF Follows
    <3> QED
      BY <1>0, <3>3
  <2>5. PICK m \in Q : \A x \in Q : m <= x
    <3>1. Q \in SUBSET (0..Len(b)) /\ Q # {}
      BY <2>4
    <3> HIDE DEF Q
    <3> QED
      BY <1>0, <3>1, LeastIndex
  <2>6. Follows(b, i, m)
    <3>1. CASE m = 0
      BY <3>1 DEF Follows
    <3>2. CASE m # 0
      <4>0. m \in 0..Len(b)
        OBVIOUS
      <4>1. m - 1 \in 0..Len(b) /\ m - 1 \notin Q
        <5> HIDE DEF Q
        <5>1. ~(m <= m - 1)
          BY <1>0, <4>0
        <5> QED
          BY <1>0, <2>5, <3>2, <4>0, <5>1
      <4>2. (m - 1) + 1 = m
        BY <1>0
      <4> QED
        BY <4>1, <4>2
    <3> QED
      BY <3>1, <3>2
  <2>7. n \in 0..Len(b) /\ Follows(b, i, n)
    BY <2>5, <2>6
  <2> HIDE DEF n
  <2>8. ASSUME NEW k \in 1..n + 1
        PROVE  b[i + 2 * (k - 1)] \in Nat
    <3>1. i \in Nat \ {0} /\ i + 2 * (k - 1) \in Nat \ {0}
      BY <1>0, <2>3, <2>7
    <3>2. CASE k = 1
      <4>1. i + 2 * (k - 1) = i
        BY <3>1, <3>2
      <4> QED
        BY <1>1, <2>3, <3>1, <4>1
    <3>3. CASE k # 1
      <4>1. k - 1 \in 1..n
        BY <1>0, <2>7, <3>3
      <4>2. IsNumber(b, i + 2 * (k - 1))
        BY <2>7, <4>1 DEF Follows
      <4> QED
        BY <1>1, <3>1, <4>2
    <3> QED
      BY <3>2, <3>3
  <2>9. Numbers(b) = [k \in 1..n + 1 |-> b[i + 2 * (k - 1)]]
    BY <1>3 DEF Numbers, i, n
  <2> QED
    BY <1>0, <2>7, <2>8, <2>9
<1> QED
  BY <1>2, <1>3

LEMMA VersionType ==
  ASSUME NEW p \in Path
  PROVE  VersionScore(p) \in Seq(Int)
<1>1. Numbers(Base[p]) \in Seq(Nat)
  BY NumbersType, RulesAssumption
<1>2. \A n \in Nat : Wrapped(n) \in Int
  BY RulesAssumption DEF Wrapped
<1>3. /\ DOMAIN Numbers(Base[p]) = 1..Len(Numbers(Base[p])) /\ Len(Numbers(Base[p])) \in Nat
      /\ \A k \in DOMAIN Numbers(Base[p]) : Numbers(Base[p])[k] \in Nat
  BY <1>1, LenProperties, ElementOfSeq
<1> QED
  BY <1>2, <1>3 DEF VersionScore

\* Parts are integers, and a part that differs is a part of one of the two.
LEMMA PartType ==
  ASSUME NEW s \in Seq(Int), NEW t \in Seq(Int), NEW k \in Nat \ {0}
  PROVE  /\ Part(s, k) \in Int
         /\ Part(s, k) # Part(t, k) => k \in DOMAIN s \cup DOMAIN t
<1>1. DOMAIN s = 1..Len(s) /\ DOMAIN t = 1..Len(t) /\ Len(s) \in Nat /\ Len(t) \in Nat
  BY LenProperties
<1>2. k <= Len(s) => s[k] \in Int
  BY <1>1, ElementOfSeq
<1> QED
  BY <1>1, <1>2 DEF Part

\* Higher with the position of the difference.
HigherAt(s, t, k) == /\ k \in Nat \ {0} /\ Part(s, k) > Part(t, k)
                     /\ \A j \in 1..k-1 : Part(s, j) = Part(t, j)

LEMMA HigherHasPosition ==
  ASSUME NEW s \in Seq(Int), NEW t \in Seq(Int)
  PROVE  Higher(s, t) <=> \E k : HigherAt(s, t, k)
<1>1. DOMAIN s \cup DOMAIN t \subseteq Nat \ {0}
  BY LenProperties
<1>2. ASSUME NEW k, HigherAt(s, t, k)
      PROVE  k \in DOMAIN s \cup DOMAIN t
  <2>1. Part(s, k) \in Int /\ Part(t, k) \in Int
    BY <1>2, PartType DEF HigherAt
  <2> QED
    BY <1>2, <2>1, PartType DEF HigherAt
<1> QED
  BY <1>1, <1>2 DEF Higher, HigherAt

LEMMA HigherAsymmetric ==
  ASSUME NEW s \in Seq(Int), NEW t \in Seq(Int), Higher(s, t)
  PROVE  ~Higher(t, s)
<1> SUFFICES ASSUME Higher(t, s)
             PROVE  FALSE
  OBVIOUS
<1>1. PICK k : HigherAt(s, t, k)
  BY HigherHasPosition
<1>2. PICK n : HigherAt(t, s, n)
  BY HigherHasPosition
<1>3. \A j \in Nat \ {0} : Part(s, j) \in Int /\ Part(t, j) \in Int
  BY PartType
<1>4. CASE k < n
  BY <1>1, <1>2, <1>3, <1>4 DEF HigherAt
<1>5. CASE n < k
  BY <1>1, <1>2, <1>3, <1>5 DEF HigherAt
<1>6. CASE n = k
  BY <1>1, <1>2, <1>3, <1>6 DEF HigherAt
<1> QED
  BY <1>1, <1>2, <1>4, <1>5, <1>6 DEF HigherAt

\* A third version is below the higher or above the lower.
LEMMA HigherSplits ==
  ASSUME NEW s \in Seq(Int), NEW t \in Seq(Int), NEW u \in Seq(Int), Higher(s, t)
  PROVE  Higher(s, u) \/ Higher(u, t)
<1>1. PICK k : HigherAt(s, t, k)
  BY HigherHasPosition
<1>2. \A j \in Nat \ {0} : Part(s, j) \in Int /\ Part(t, j) \in Int /\ Part(u, j) \in Int
  BY PartType
<1>3. k \in Nat \ {0}
  BY <1>1 DEF HigherAt
<1>4. CASE \A j \in 1..k-1 : Part(u, j) = Part(s, j)
  <2>1. HigherAt(s, u, k) \/ HigherAt(u, t, k)
    BY <1>1, <1>2, <1>3, <1>4 DEF HigherAt
  <2> QED
    BY <2>1, HigherHasPosition
<1>5. CASE \E j \in 1..k-1 : Part(u, j) # Part(s, j)
  <2> DEFINE D == {j \in 1..k-1 : Part(u, j) # Part(s, j)}
  <2>1. PICK j \in D : \A x \in D : j <= x
    <3>1. D \in SUBSET (0..k) /\ D # {}
      BY <1>3, <1>5
    <3> HIDE DEF D
    <3> QED
      BY <1>3, <3>1, LeastIndex
  <2>2. \A x \in 1..j-1 : Part(u, x) = Part(s, x)
    BY <1>3, <2>1
  <2>3. \A x \in 1..j-1 : Part(s, x) = Part(t, x)
    BY <1>1, <1>3, <2>1 DEF HigherAt
  <2>4. Part(s, j) = Part(t, j) /\ j \in Nat \ {0}
    BY <1>1, <1>3, <2>1 DEF HigherAt
  <2>5. HigherAt(s, u, j) \/ HigherAt(u, t, j)
    BY <1>2, <2>1, <2>2, <2>3, <2>4 DEF HigherAt
  <2> QED
    BY <2>5, HigherHasPosition
<1> QED
  BY <1>4, <1>5

-----------------------------------------------------------------------------
\* Sets of files and slices of them in path order.

\* Finite, and told apart by the rank of the path.
Ranked(S) == /\ S \subseteq File /\ IsFiniteSet(S)
             /\ \A f, g \in S : Rank[f.path] = Rank[g.path] => f = g

\* A slice that is not empty, in path order.
Slice(files) ==
    /\ files \in Seq(File) /\ files # <<>>
    /\ \A i, j \in DOMAIN files : i < j => Rank[files[i].path] < Rank[files[j].path]

LEMMA FileRank ==
  ASSUME NEW f \in File
  PROVE  f.path \in Path /\ Rank[f.path] \in Nat /\ f.modTime \in Nat
BY RulesAssumption DEF File

LEMMA LeastPathExists ==
  ASSUME NEW S, Ranked(S), S # {}
  PROVE  /\ LeastPath(S) \in S
         /\ \A g \in S : Rank[LeastPath(S).path] <= Rank[g.path]
<1> DEFINE R == {e \in S \X S : Rank[e[1].path] < Rank[e[2].path]}
<1>1. \A f \in S : Rank[f.path] \in Nat
  BY FileRank DEF Ranked
<1>2. \A x, y \in S : <<x, y>> \in R <=> Rank[x.path] < Rank[y.path]
  OBVIOUS
<1> HIDE DEF R
<1>3. \A x \in S : <<x, x>> \notin R
  BY <1>1, <1>2
<1>4. \A x, y, z \in S : <<x, y>> \in R /\ <<y, z>> \in R => <<x, z>> \in R
  BY <1>1, <1>2
<1>5. PICK x \in S : \A y \in S : <<y, x>> \notin R
  BY <1>3, <1>4, LowestExists DEF Ranked
<1>6. \A y \in S : Rank[x.path] <= Rank[y.path]
  <2>1. \A y \in S : ~(Rank[y.path] < Rank[x.path])
    BY <1>2, <1>5
  <2> QED
    BY <1>1, <2>1
<1> QED
  BY <1>6 DEF LeastPath

LEMMA LeastPathUnique ==
  ASSUME NEW S, Ranked(S), NEW f \in S, \A g \in S : Rank[f.path] <= Rank[g.path]
  PROVE  LeastPath(S) = f
<1>1. /\ LeastPath(S) \in S
      /\ \A g \in S : Rank[LeastPath(S).path] <= Rank[g.path]
  BY LeastPathExists
<1>2. Rank[LeastPath(S).path] \in Nat /\ Rank[f.path] \in Nat
  BY <1>1, FileRank DEF Ranked
<1>3. Rank[LeastPath(S).path] = Rank[f.path]
  BY <1>1, <1>2
<1> QED
  BY <1>1, <1>3 DEF Ranked

LEMMA RankedSubset ==
  ASSUME NEW S, Ranked(S), NEW T \in SUBSET S
  PROVE  Ranked(T)
BY FS_Subset DEF Ranked

\* The files of a slice.
LEMMA SliceMembers ==
  ASSUME NEW files, Slice(files)
  PROVE  /\ DOMAIN files = 1..Len(files) /\ Len(files) \in Nat
         /\ Ranked(Members(files)) /\ Members(files) # {}
<1>1. DOMAIN files = 1..Len(files) /\ Len(files) \in Nat /\ Len(files) # 0
  BY LenProperties, EmptySeq DEF Slice
<1>2. \A i \in DOMAIN files : files[i] \in File
  BY <1>1, ElementOfSeq DEF Slice
<1>3. IsFiniteSet(Members(files))
  <2>1. IsFiniteSet(DOMAIN files)
    <3>1. 1 \in Int /\ Len(files) \in Int
      BY <1>1
    <3> QED
      BY <1>1, <3>1, FS_Interval
  <2>2. files \in [DOMAIN files -> Members(files)]
    BY <1>1, LenProperties DEF Slice, Members
  <2>3. files \in Surjection(DOMAIN files, Members(files))
    BY <2>2 DEF Surjection, Members
  <2> QED
    BY <2>1, <2>3, FS_Surjection
<1>4. ASSUME NEW i \in DOMAIN files, NEW j \in DOMAIN files,
             Rank[files[i].path] = Rank[files[j].path]
      PROVE  i = j
  <2>1. Rank[files[i].path] \in Nat
    BY <1>2, FileRank
  <2> QED
    BY <1>1, <1>4, <2>1 DEF Slice
<1>5. 1 \in DOMAIN files
  BY <1>1
<1> QED
  BY <1>1, <1>2, <1>3, <1>4, <1>5 DEF Members, Ranked

\* In a slice the first is the least.
LEMMA FirstIsLeast ==
  ASSUME NEW files, Slice(files), NEW best \in SUBSET DOMAIN files, best # {}
  PROVE  FirstBest(files, best) = LeastPath({files[i] : i \in best})
<1> DEFINE S == {files[i] : i \in best}
<1>1. DOMAIN files = 1..Len(files) /\ Len(files) \in Nat /\ Ranked(Members(files))
  BY SliceMembers
<1>2. best \in SUBSET (0..Len(files))
  BY <1>1
<1>3. PICK i \in best : \A j \in best : i <= j
  BY <1>1, <1>2, LeastIndex
<1>4. \A x \in best : (\A j \in best : x <= j) => x = i
  BY <1>2, <1>3
<1>5. FirstBest(files, best) = files[i]
  <2>1. (CHOOSE x \in best : \A j \in best : x <= j) = i
    BY <1>3, <1>4
  <2> QED
    BY <2>1 DEF FirstBest
<1>6. S \subseteq Members(files)
  BY DEF Members
<1>7. Ranked(S)
  BY <1>1, <1>6, RankedSubset
<1>8. ASSUME NEW g \in S
      PROVE  Rank[files[i].path] <= Rank[g.path]
  <2>1. PICK j \in best : g = files[j]
    BY <1>8
  <2>2. Rank[files[i].path] \in Nat /\ Rank[g.path] \in Nat
    BY <1>1, <1>6, <1>8, FileRank DEF Ranked, Members
  <2>3. i <= j /\ i \in DOMAIN files /\ j \in DOMAIN files
    BY <1>3, <2>1
  <2>4. i = j \/ i < j
    BY <1>1, <2>3
  <2> QED
    BY <2>1, <2>2, <2>3, <2>4 DEF Slice
<1>9. files[i] \in S
  OBVIOUS
<1> HIDE DEF S
<1>10. LeastPath(S) = files[i]
  BY <1>7, <1>8, <1>9, LeastPathUnique
<1> QED
  BY <1>5, <1>10 DEF S

\* A slice of one file, and the groups.
LEMMA SingleSlice ==
  ASSUME NEW f \in File
  PROVE  Slice(<<f>>) /\ Members(<<f>>) = {f}
BY DEF Slice, Members

LEMMA GroupSlice ==
  ASSUME NEW g \in Groups
  PROVE  Slice(g)
<1>1. PICK n \in 2..MaxFiles : g \in [1..n -> File]
  BY DEF Groups
<1>2. g \in Seq(File) /\ Len(g) = n
  BY <1>1, RulesAssumption
<1>3. g # <<>>
  BY <1>1, <1>2, EmptySeq
<1> QED
  BY <1>2, <1>3 DEF Slice, Groups

-----------------------------------------------------------------------------
\* What each rule prefers of a set of files, as the code computes it.

InKeepDirs(R, S) == {f \in S : \E d \in R.keepDirs : HasPrefix(f.path, d)}
Latest(S)   == {f \in S : \A g \in S : g.modTime <= f.modTime}
Earliest(S) == {f \in S : \A g \in S : g.modTime >= f.modTime}
Highest(S)  == {f \in S : \A g \in S : ~Higher(VersionScore(g.path), VersionScore(f.path))}

Preferred(R, key, S) ==
    IF key = "keepDirs" THEN InKeepDirs(R, S)
    ELSE IF key = "latest" /\ R.latest THEN Latest(S)
    ELSE IF key = "earliest" /\ R.earliest THEN Earliest(S)
    ELSE IF key = "version" /\ R.version THEN Highest(S)
    ELSE {}

LEMMA PreferredSubset ==
  ASSUME NEW R, NEW key, NEW S
  PROVE  Preferred(R, key, S) \subseteq S
BY DEF Preferred, InKeepDirs, Latest, Earliest, Highest

\* There are a latest, an earliest and a highest file.
LEMMA LatestExists ==
  ASSUME NEW S, Ranked(S), S # {}
  PROVE  Latest(S) # {}
<1> DEFINE R == {e \in S \X S : e[1].modTime > e[2].modTime}
<1>1. \A f \in S : f.modTime \in Nat
  BY FileRank DEF Ranked
<1>2. \A x, y \in S : <<x, y>> \in R <=> x.modTime > y.modTime
  OBVIOUS
<1> HIDE DEF R
<1>3. \A x \in S : <<x, x>> \notin R
  BY <1>1, <1>2
<1>4. \A x, y, z \in S : <<x, y>> \in R /\ <<y, z>> \in R => <<x, z>> \in R
  BY <1>1, <1>2
<1>5. PICK x \in S : \A y \in S : <<y, x>> \notin R
  BY <1>3, <1>4, LowestExists DEF Ranked
<1>6. \A y \in S : ~(y.modTime > x.modTime)
  BY <1>2, <1>5
<1>7. \A y \in S : y.modTime <= x.modTime
  BY <1>1, <1>6
<1> QED
  BY <1>7 DEF Latest

LEMMA EarliestExists ==
  ASSUME NEW S, Ranked(S), S # {}
  PROVE  Earliest(S) # {}
<1> DEFINE R == {e \in S \X S : e[1].modTime < e[2].modTime}
<1>1. \A f \in S : f.modTime \in Nat
  BY FileRank DEF Ranked
<1>2. \A x, y \in S : <<x, y>> \in R <=> x.modTime < y.modTime
  OBVIOUS
<1> HIDE DEF R
<1>3. \A x \in S : <<x, x>> \notin R
  BY <1>1, <1>2
<1>4. \A x, y, z \in S : <<x, y>> \in R /\ <<y, z>> \in R => <<x, z>> \in R
  BY <1>1, <1>2
<1>5. PICK x \in S : \A y \in S : <<y, x>> \notin R
  BY <1>3, <1>4, LowestExists DEF Ranked
<1>6. \A y \in S : ~(y.modTime < x.modTime)
  BY <1>2, <1>5
<1>7. \A y \in S : y.modTime >= x.modTime
  BY <1>1, <1>6
<1> QED
  BY <1>7 DEF Earliest

LEMMA ScoreType ==
  ASSUME NEW S, Ranked(S), NEW f \in S
  PROVE  VersionScore(f.path) \in Seq(Int)
BY FileRank, VersionType DEF Ranked

LEMMA HighestExists ==
  ASSUME NEW S, Ranked(S), S # {}
  PROVE  Highest(S) # {}
<1> DEFINE V(f) == VersionScore(f.path)
           R == {e \in S \X S : Higher(V(e[1]), V(e[2]))}
<1>1. \A f \in S : V(f) \in Seq(Int)
  BY ScoreType
<1>2. \A x, y \in S : <<x, y>> \in R <=> Higher(V(x), V(y))
  OBVIOUS
<1> HIDE DEF R, V
<1>3. \A x \in S : <<x, x>> \notin R
  BY <1>1, <1>2, HigherAsymmetric
<1>4. ASSUME NEW x \in S, NEW y \in S, NEW z \in S, <<x, y>> \in R, <<y, z>> \in R
      PROVE  <<x, z>> \in R
  <2>1. Higher(V(x), V(y)) /\ Higher(V(y), V(z))
    BY <1>2, <1>4
  <2>2. ~Higher(V(z), V(y))
    BY <1>1, <2>1, HigherAsymmetric
  <2>3. Higher(V(x), V(z))
    BY <1>1, <2>1, <2>2, HigherSplits
  <2> QED
    BY <1>2, <2>3
<1>5. PICK x \in S : \A y \in S : <<y, x>> \notin R
  BY <1>3, <1>4, LowestExists DEF Ranked
<1>6. \A y \in S : ~Higher(V(y), V(x))
  BY <1>2, <1>5
<1> QED
  BY <1>6 DEF Highest, V

\* The functions of the code keep the least of what they prefer.
LEMMA KeepLatestIs ==
  ASSUME NEW files, Slice(files)
  PROVE  KeepLatest(files) = LeastPath(Latest(Members(files)))
<1> DEFINE best == {i \in DOMAIN files : \A j \in DOMAIN files :
                       files[j].modTime <= files[i].modTime}
<1>1. {files[i] : i \in best} = Latest(Members(files))
  BY DEF Latest, Members
<1>2. best # {}
  <2>1. Latest(Members(files)) # {}
    BY SliceMembers, LatestExists
  <2> QED
    BY <1>1, <2>1
<1> QED
  BY <1>1, <1>2, FirstIsLeast DEF KeepLatest

LEMMA KeepEarliestIs ==
  ASSUME NEW files, Slice(files)
  PROVE  KeepEarliest(files) = LeastPath(Earliest(Members(files)))
<1> DEFINE best == {i \in DOMAIN files : \A j \in DOMAIN files :
                       files[j].modTime >= files[i].modTime}
<1>1. {files[i] : i \in best} = Earliest(Members(files))
  BY DEF Earliest, Members
<1>2. best # {}
  <2>1. Earliest(Members(files)) # {}
    BY SliceMembers, EarliestExists
  <2> QED
    BY <1>1, <2>1
<1> QED
  BY <1>1, <1>2, FirstIsLeast DEF KeepEarliest

LEMMA KeepByVersionIs ==
  ASSUME NEW files, Slice(files)
  PROVE  KeepByVersion(files) = LeastPath(Highest(Members(files)))
<1> DEFINE S == Members(files)  k == LeastPath(Highest(S))
           V(f) == VersionScore(f.path)
<1>1. Ranked(S) /\ S # {}
  BY SliceMembers
<1> HIDE DEF S
<1>2. Highest(S) # {} /\ Highest(S) \subseteq S
  BY <1>1, HighestExists DEF Highest
<1>3. k \in Highest(S) /\ k \in S /\ \A g \in Highest(S) : Rank[k.path] <= Rank[g.path]
  BY <1>1, <1>2, RankedSubset, LeastPathExists
<1>4. \A f \in S : V(f) \in Seq(Int) /\ Rank[f.path] \in Nat
  BY <1>1, ScoreType, FileRank DEF Ranked
<1> HIDE DEF k, V
<1>5. \A f \in S : ~Higher(V(f), V(k))
  BY <1>3 DEF Highest, V
<1>6. ASSUME NEW g \in S \ {k}
      PROVE  Before(k, g)
  <2>1. CASE g \in Highest(S)
    <3>1. Rank[k.path] # Rank[g.path]
      BY <1>1, <1>3, <1>6 DEF Ranked
    <3>2. Rank[k.path] < Rank[g.path]
      BY <1>3, <1>4, <1>6, <2>1, <3>1
    <3> QED
      BY <1>5, <1>6, <3>2 DEF Before, V
  <2>2. CASE g \notin Highest(S)
    <3>1. PICK h \in S : Higher(V(h), V(g))
      BY <1>6, <2>2 DEF Highest, V
    <3>2. Higher(V(k), V(g))
      BY <1>3, <1>4, <1>5, <1>6, <3>1, HigherSplits
    <3> QED
      BY <3>2 DEF Before, V
  <2> QED
    BY <2>1, <2>2
<1>7. ASSUME NEW f \in S, \A g \in S \ {f} : Before(f, g)
      PROVE  f = k
  <2>1. SUFFICES ASSUME f # k
                 PROVE  FALSE
    OBVIOUS
  <2>2. Before(f, k) /\ Before(k, f)
    BY <1>3, <1>6, <1>7, <2>1
  <2>3. ~Higher(V(f), V(k))
    BY <1>5
  <2>4. ~Higher(V(k), V(f)) /\ Rank[f.path] < Rank[k.path]
    BY <2>2, <2>3 DEF Before, V
  <2>5. Rank[k.path] < Rank[f.path]
    BY <2>2, <2>4 DEF Before, V
  <2> QED
    BY <1>3, <1>4, <2>4, <2>5
<1>8. KeepByVersion(files) = CHOOSE f \in S : \A g \in S \ {f} : Before(f, g)
  BY DEF KeepByVersion, S
<1> QED
  BY <1>3, <1>6, <1>7, <1>8 DEF k, S

-----------------------------------------------------------------------------
\* The file that is kept: the least of what the first rule prefers that prefers
\* any file, or the least of all.

Prefers(R, i, S) == Preferred(R, R.priority[i], S)

Decides(R, i, S, K) ==
    /\ i \in DOMAIN R.priority /\ Prefers(R, i, S) # {}
    /\ \A j \in 1..i-1 : Prefers(R, j, S) = {}
    /\ K = LeastPath(Prefers(R, i, S))

NoneDecides(R, S, K) == /\ \A i \in DOMAIN R.priority : Prefers(R, i, S) = {}
                        /\ K = LeastPath(S)

Stands(R, S, K) == (\E i : Decides(R, i, S, K)) \/ NoneDecides(R, S, K)

LEMMA PrioritySeq ==
  ASSUME NEW R \in RuleSet
  PROVE  DOMAIN R.priority = 1..Len(R.priority) /\ Len(R.priority) \in Nat
<1>1. R.priority \in Seq(STRING)
  BY RulesAssumption DEF RuleSet
<1> QED
  BY <1>1, LenProperties

LEMMA LeastOfPart ==
  ASSUME NEW S, Ranked(S), NEW T \in SUBSET S, T # {}
  PROVE  LeastPath(T) \in T /\ \A g \in T : Rank[LeastPath(T).path] <= Rank[g.path]
BY RankedSubset, LeastPathExists

\* It is one of the files.
LEMMA StandsIn ==
  ASSUME NEW R, NEW S, Ranked(S), S # {}, NEW K, Stands(R, S, K)
  PROVE  K \in S
<1>1. CASE NoneDecides(R, S, K)
  BY <1>1, LeastPathExists DEF NoneDecides
<1>2. ASSUME NEW i, Decides(R, i, S, K)
      PROVE  K \in S
  <2>1. Prefers(R, i, S) \subseteq S
    BY PreferredSubset DEF Prefers
  <2> QED
    BY <1>2, <2>1, LeastOfPart DEF Decides
<1> QED
  BY <1>1, <1>2 DEF Stands

\* The rules leave no choice.
LEMMA StandsUnique ==
  ASSUME NEW R \in RuleSet, NEW S, NEW K, NEW L, Stands(R, S, K), Stands(R, S, L)
  PROVE  K = L
<1>0. DOMAIN R.priority = 1..Len(R.priority) /\ Len(R.priority) \in Nat
  BY PrioritySeq
<1>1. CASE NoneDecides(R, S, K)
  BY <1>1 DEF Stands, NoneDecides, Decides
<1>2. CASE NoneDecides(R, S, L)
  BY <1>2 DEF Stands, NoneDecides, Decides
<1>3. ASSUME NEW i, NEW j, Decides(R, i, S, K), Decides(R, j, S, L)
      PROVE  K = L
  <2>1. i \in 1..Len(R.priority) /\ j \in 1..Len(R.priority)
    BY <1>0, <1>3 DEF Decides
  <2>2. ~(i < j) /\ ~(j < i)
    BY <1>0, <1>3, <2>1 DEF Decides
  <2>3. i = j
    BY <1>0, <2>1, <2>2
  <2> QED
    BY <1>3, <2>3 DEF Decides
<1> QED
  BY <1>1, <1>2, <1>3 DEF Stands

\* A rule that prefers no file of a set prefers none of a part of it.
LEMMA NothingInherits ==
  ASSUME NEW R, NEW key, NEW S, Ranked(S), NEW T \in SUBSET S, T # {},
         Preferred(R, key, S) = {}
  PROVE  Preferred(R, key, T) = {}
<1>1. Latest(S) # {} /\ Earliest(S) # {} /\ Highest(S) # {}
  BY LatestExists, EarliestExists, HighestExists
<1>2. InKeepDirs(R, T) \subseteq InKeepDirs(R, S)
  BY DEF InKeepDirs
<1> QED
  BY <1>1, <1>2 DEF Preferred

\* While one it prefers is left, a rule prefers those left of the ones before.
LEMMA PreferredInherits ==
  ASSUME NEW R, NEW key, NEW S, Ranked(S), NEW T \in SUBSET S,
         NEW k \in T, k \in Preferred(R, key, S)
  PROVE  Preferred(R, key, T) = Preferred(R, key, S) \cap T
<1>1. \A f \in S : f.modTime \in Nat
  BY FileRank DEF Ranked
<1>2. InKeepDirs(R, T) = InKeepDirs(R, S) \cap T
  BY DEF InKeepDirs
<1>3. ASSUME k \in Latest(S)
      PROVE  Latest(T) = Latest(S) \cap T
  <2>1. ASSUME NEW f \in Latest(T), NEW g \in S
        PROVE  g.modTime <= f.modTime
    <3>1. k.modTime <= f.modTime /\ g.modTime <= k.modTime
      BY <1>3, <2>1 DEF Latest
    <3>2. f \in S
      BY DEF Latest
    <3> QED
      BY <1>1, <3>1, <3>2
  <2> QED
    BY <2>1 DEF Latest
<1>4. ASSUME k \in Earliest(S)
      PROVE  Earliest(T) = Earliest(S) \cap T
  <2>1. ASSUME NEW f \in Earliest(T), NEW g \in S
        PROVE  g.modTime >= f.modTime
    <3>1. k.modTime >= f.modTime /\ g.modTime >= k.modTime
      BY <1>4, <2>1 DEF Earliest
    <3>2. f \in S
      BY DEF Earliest
    <3> QED
      BY <1>1, <3>1, <3>2
  <2> QED
    BY <2>1 DEF Earliest
<1>5. ASSUME k \in Highest(S)
      PROVE  Highest(T) = Highest(S) \cap T
  <2>1. ASSUME NEW f \in Highest(T), NEW g \in S,
               Higher(VersionScore(g.path), VersionScore(f.path))
        PROVE  FALSE
    <3>1. f \in T /\ f \in S /\ k \in S
      BY DEF Highest
    <3>2. /\ VersionScore(f.path) \in Seq(Int) /\ VersionScore(g.path) \in Seq(Int)
          /\ VersionScore(k.path) \in Seq(Int)
      BY <3>1, ScoreType
    <3>3. ~Higher(VersionScore(k.path), VersionScore(f.path))
      BY <2>1 DEF Highest
    <3>4. ~Higher(VersionScore(g.path), VersionScore(k.path))
      BY <1>5, <2>1 DEF Highest
    <3> QED
      BY <2>1, <3>2, <3>3, <3>4, HigherSplits
  <2>2. Highest(T) \subseteq Highest(S) \cap T
    BY <2>1 DEF Highest
  <2>3. Highest(S) \cap T \subseteq Highest(T)
    BY DEF Highest
  <2> QED
    BY <2>2, <2>3
<1> QED
  BY <1>2, <1>3, <1>4, <1>5 DEF Preferred

\* What module Session assumes of its Keep: the file kept of a group is kept of
\* every part of the group that has it.
LEMMA StandsInherits ==
  ASSUME NEW R \in RuleSet, NEW S, Ranked(S), NEW K, Stands(R, S, K),
         NEW T \in SUBSET S, K \in T
  PROVE  Stands(R, T, K)
<1>0. Ranked(T) /\ T # {} /\ S # {}
  BY RankedSubset
<1>1. CASE NoneDecides(R, S, K)
  <2>1. \A i \in DOMAIN R.priority : Prefers(R, i, T) = {}
    BY <1>0, <1>1, NothingInherits DEF NoneDecides, Prefers
  <2>2. \A g \in S : Rank[K.path] <= Rank[g.path]
    BY <1>0, <1>1, LeastPathExists DEF NoneDecides
  <2>3. LeastPath(T) = K
    BY <1>0, <2>2, LeastPathUnique
  <2> QED
    BY <2>1, <2>3 DEF Stands, NoneDecides
<1>2. ASSUME NEW i, Decides(R, i, S, K)
      PROVE  Stands(R, T, K)
  <2> DEFINE P == Prefers(R, i, S)
  <2>1. P \subseteq S /\ P # {} /\ K = LeastPath(P) /\ i \in DOMAIN R.priority
    BY <1>2, PreferredSubset DEF Decides, Prefers
  <2>2. K \in P /\ \A g \in P : Rank[K.path] <= Rank[g.path]
    BY <2>1, LeastOfPart
  <2>3. Prefers(R, i, T) = P \cap T
    BY <2>2, PreferredInherits DEF Prefers
  <2> HIDE DEF P
  <2>4. \A j \in 1..i-1 : Prefers(R, j, T) = {}
    BY <1>0, <1>2, NothingInherits DEF Decides, Prefers
  <2>5. LeastPath(P \cap T) = K
    <3>1. Ranked(P \cap T) /\ K \in P \cap T
      BY <2>1, <2>2, RankedSubset
    <3> QED
      BY <2>2, <3>1, LeastPathUnique
  <2>6. Decides(R, i, T, K)
    BY <2>1, <2>2, <2>3, <2>4, <2>5 DEF Decides
  <2> QED
    BY <2>6 DEF Stands
<1> QED
  BY <1>1, <1>2 DEF Stands

-----------------------------------------------------------------------------
\* The inductive invariant.  While no rule has preferred any file the
\* candidates are the whole group; then they are the one file that stands.

Undecided == candidates = group /\ \A j \in 1..rule-1 : Prefers(rs, j, Members(group)) = {}

Chosen == phase = "apply" =>
    \/ Undecided
    \/ \E K : Members(candidates) = {K} /\ Stands(rs, Members(group), K)

Remembered == kept # {} => \E K : kept = {K} /\ Stands(rs, Members(group), K)

Settled == phase = "done" =>
    \E K : /\ keep = {K} /\ kept = {K} /\ deletes = Members(group) \ {K}
           /\ Stands(rs, Members(group), K)

RulesInv == TypeOK /\ Slice(candidates) /\ Chosen /\ Remembered /\ Settled

LEMMA InitInv == Init => RulesInv
<1> SUFFICES ASSUME Init
             PROVE  RulesInv
  OBVIOUS
<1>1. /\ group \in Groups /\ rs \in RuleSet /\ rule = 1 /\ candidates = group
      /\ keep = {} /\ deletes = {} /\ phase = "apply" /\ kept = {}
  BY DEF Init
<1>2. Slice(candidates)
  BY <1>1, GroupSlice
<1>3. Len(rs.priority) \in Nat
  BY <1>1, PrioritySeq
<1>4. TypeOK
  BY <1>1, <1>2, <1>3 DEF TypeOK, Slice
<1>5. Chosen /\ Remembered /\ Settled
  BY <1>1 DEF Chosen, Undecided, Remembered, Settled
<1> QED
  BY <1>2, <1>4, <1>5 DEF RulesInv

\* The group as a set.
LEMMA GroupRanked ==
  ASSUME TypeOK
  PROVE  Ranked(Members(group)) /\ Members(group) # {}
BY GroupSlice, SliceMembers DEF TypeOK

\* What a rule prefers of the candidates, when Apply is at it.
LEMMA RuleDoes ==
  ASSUME TypeOK, Slice(candidates), Looping
  PROVE  LET P == Prefers(rs, rule, Members(candidates))
         IN /\ RuleKeepDirs \/ RuleLatest \/ RuleEarliest \/ RuleVersion =>
                   P # {} /\ Shrink(LeastPath(P))
            /\ RuleSkipped => P = {}
<1> DEFINE S == Members(candidates)  P == Prefers(rs, rule, S)
<1>1. Ranked(S) /\ S # {}
  BY SliceMembers
<1>2. Hits(candidates) = InKeepDirs(rs, S)
  BY DEF Hits, InKeepDirs
<1>3. P = Preferred(rs, rs.priority[rule], S)
  BY DEF Prefers
<1> HIDE DEF S, P
<1>4. ASSUME RuleKeepDirs
      PROVE  P # {} /\ Shrink(LeastPath(P))
  <2>1. P = Hits(candidates)
    BY <1>2, <1>3, <1>4 DEF RuleKeepDirs, At, Preferred
  <2> QED
    BY <1>4, <2>1 DEF RuleKeepDirs
<1>5. ASSUME RuleLatest
      PROVE  P # {} /\ Shrink(LeastPath(P))
  <2>1. P = Latest(S)
    BY <1>3, <1>5 DEF RuleLatest, At, Preferred
  <2>2. KeepLatest(candidates) = LeastPath(P)
    BY <2>1, KeepLatestIs DEF S
  <2> QED
    BY <1>1, <1>5, <2>1, <2>2, LatestExists DEF RuleLatest
<1>6. ASSUME RuleEarliest
      PROVE  P # {} /\ Shrink(LeastPath(P))
  <2>1. P = Earliest(S)
    BY <1>3, <1>6 DEF RuleEarliest, At, Preferred
  <2>2. KeepEarliest(candidates) = LeastPath(P)
    BY <2>1, KeepEarliestIs DEF S
  <2> QED
    BY <1>1, <1>6, <2>1, <2>2, EarliestExists DEF RuleEarliest
<1>7. ASSUME RuleVersion
      PROVE  P # {} /\ Shrink(LeastPath(P))
  <2>1. P = Highest(S)
    BY <1>3, <1>7 DEF RuleVersion, At, Preferred
  <2>2. KeepByVersion(candidates) = LeastPath(P)
    BY <2>1, KeepByVersionIs DEF S
  <2> QED
    BY <1>1, <1>7, <2>1, <2>2, HighestExists DEF RuleVersion
<1>8. ASSUME RuleSkipped
      PROVE  P = {}
  BY <1>2, <1>3, <1>8 DEF RuleSkipped, At, Preferred
<1> QED
  BY <1>4, <1>5, <1>6, <1>7, <1>8 DEF S, P

\* A rule that shrinks the candidates leaves the file that stands.
LEMMA ShrinkInv ==
  ASSUME RulesInv, Looping, NEW P, P = Prefers(rs, rule, Members(candidates)), P # {},
         Shrink(LeastPath(P))
  PROVE  RulesInv'
<1> DEFINE S == Members(candidates)  G == Members(group)  L == LeastPath(P)
<1>1. /\ TypeOK /\ Slice(candidates) /\ Chosen /\ Remembered
      /\ phase = "apply" /\ rule <= Len(rs.priority)
  BY DEF RulesInv, Looping
<1>2. /\ candidates' = <<L>> /\ rule' = rule + 1 /\ group' = group /\ rs' = rs
      /\ keep' = keep /\ deletes' = deletes /\ phase' = phase /\ kept' = kept
  BY DEF Shrink
<1>3. Ranked(S) /\ P \subseteq S
  BY <1>1, SliceMembers, PreferredSubset DEF Prefers
<1>4. L \in P /\ L \in S /\ L \in File
  BY <1>3, LeastOfPart DEF Ranked
<1>5. Stands(rs, G, L)
  <2>1. CASE Undecided
    <3>1. rule \in DOMAIN rs.priority
      BY <1>1, PrioritySeq DEF TypeOK
    <3>2. Decides(rs, rule, G, L)
      BY <2>1, <3>1 DEF Undecided, Decides
    <3> QED
      BY <3>2 DEF Stands
  <2>2. ASSUME NEW K, S = {K}, Stands(rs, G, K)
        PROVE  Stands(rs, G, L)
    BY <1>4, <2>2
  <2> HIDE DEF S, L
  <2> QED
    BY <1>1, <2>1, <2>2 DEF Chosen, S
<1> HIDE DEF L
<1>6. Slice(<<L>>) /\ Members(<<L>>) = {L}
  BY <1>4, SingleSlice
<1>7. Slice(candidates)' /\ Members(candidates)' = {L}
  BY <1>2, <1>6 DEF Slice, Members
<1>8. Members(group)' = G
  BY <1>2 DEF Members
<1>9. TypeOK'
  <2>1. Len(rs.priority) \in Nat
    BY <1>1, PrioritySeq DEF TypeOK
  <2>2. rule' \in 1..Len(rs.priority) + 1
    BY <1>1, <1>2, <2>1 DEF TypeOK
  <2> QED
    BY <1>1, <1>2, <1>7, <2>2 DEF TypeOK, Slice
<1>10. Stands(rs, G, L)'
  BY <1>2, <1>5, <1>8 DEF Stands
<1>11. Chosen' /\ Remembered' /\ Settled'
  BY <1>1, <1>2, <1>5, <1>7, <1>8 DEF Chosen, Remembered, Settled
<1> QED
  BY <1>7, <1>9, <1>11 DEF RulesInv

LEMMA SkipInv ==
  ASSUME RulesInv, RuleSkipped
  PROVE  RulesInv'
<1>1. /\ TypeOK /\ Slice(candidates) /\ Chosen /\ Remembered /\ Looping
      /\ phase = "apply" /\ rule <= Len(rs.priority)
  BY DEF RulesInv, RuleSkipped, Looping
<1>2. /\ rule' = rule + 1 /\ candidates' = candidates /\ group' = group /\ rs' = rs
      /\ keep' = keep /\ deletes' = deletes /\ phase' = phase /\ kept' = kept
  BY DEF RuleSkipped
<1>3. Prefers(rs, rule, Members(candidates)) = {}
  BY <1>1, RuleDoes
<1>4. Members(candidates)' = Members(candidates) /\ Members(group)' = Members(group)
  BY <1>2 DEF Members
<1>5. Len(rs.priority) \in Nat /\ rule \in 1..Len(rs.priority) + 1
  BY <1>1, PrioritySeq DEF TypeOK
<1>6. TypeOK'
  BY <1>1, <1>2, <1>5 DEF TypeOK
<1>7. Undecided => Undecided'
  <2> SUFFICES ASSUME Undecided
               PROVE  Undecided'
    OBVIOUS
  <2>1. \A j \in 1..rule : Prefers(rs, j, Members(group)) = {}
    <3>1. \A j \in 1..rule : j = rule \/ j \in 1..rule-1
      BY <1>5
    <3> QED
      BY <1>3, <3>1 DEF Undecided
  <2>2. rule' - 1 = rule
    BY <1>2, <1>5
  <2>3. \A j \in 1..rule'-1 : Prefers(rs', j, Members(group)') = {}
    BY <1>2, <1>4, <2>1, <2>2
  <2> QED
    BY <1>2, <2>3 DEF Undecided
<1>8. Chosen' /\ Remembered' /\ Settled'
  BY <1>1, <1>2, <1>4, <1>7 DEF Chosen, Remembered, Settled
<1>9. Slice(candidates)'
  BY <1>1, <1>2 DEF Slice
<1> QED
  BY <1>6, <1>8, <1>9 DEF RulesInv

LEMMA DecideInv ==
  ASSUME RulesInv, Decide
  PROVE  RulesInv'
<1> DEFINE S == Members(candidates)  G == Members(group)  L == LeastPath(S)
<1>1. /\ TypeOK /\ Slice(candidates) /\ Chosen /\ Remembered
      /\ phase = "apply" /\ rule > Len(rs.priority)
  BY DEF RulesInv, Decide
<1>2. /\ keep' = {L} /\ deletes' = Rest(L) /\ phase' = "done"
      /\ kept' = IF kept = {} THEN {L} ELSE kept
      /\ rule' = rule /\ candidates' = candidates /\ group' = group /\ rs' = rs
  BY DEF Decide
<1>3. Ranked(S) /\ S # {} /\ Ranked(G) /\ G # {}
  BY <1>1, SliceMembers, GroupRanked
<1>4. L \in S
  BY <1>3, LeastPathExists
<1> HIDE DEF L
<1>5. Stands(rs, G, L)
  <2>1. CASE Undecided
    <3>1. DOMAIN rs.priority \subseteq 1..rule-1
      BY <1>1, PrioritySeq DEF TypeOK
    <3>2. NoneDecides(rs, G, L)
      BY <2>1, <3>1 DEF Undecided, NoneDecides, L
    <3> QED
      BY <3>2 DEF Stands
  <2>2. ASSUME NEW K, S = {K}, Stands(rs, G, K)
        PROVE  Stands(rs, G, L)
    BY <1>4, <2>2
  <2> HIDE DEF S
  <2> QED
    BY <1>1, <2>1, <2>2 DEF Chosen, S
<1>6. L \in G /\ L \in File
  BY <1>3, <1>5, StandsIn DEF Ranked
<1>7. Rest(L) = G \ {L}
  <2>1. \A f \in G : f.path = L.path => f = L
    BY <1>3, <1>6 DEF Ranked
  <2> QED
    BY <2>1 DEF Rest
<1>8. kept' = {L}
  <2>1. CASE kept = {}
    BY <1>2, <2>1
  <2>2. ASSUME NEW K, kept = {K}, Stands(rs, G, K)
        PROVE  kept' = {L}
    <3>1. K = L
      BY <1>1, <1>5, <2>2, StandsUnique DEF TypeOK
    <3> QED
      BY <1>2, <2>2, <3>1
  <2> QED
    BY <1>1, <2>1, <2>2 DEF Remembered
<1>9. Members(group)' = G
  BY <1>2 DEF Members
<1>10. G \subseteq File
  BY <1>3 DEF Ranked
<1>11. TypeOK'
  BY <1>1, <1>2, <1>6, <1>7, <1>8, <1>10 DEF TypeOK
<1>12. Chosen' /\ Remembered' /\ Settled'
  BY <1>2, <1>5, <1>7, <1>8, <1>9 DEF Chosen, Remembered, Settled
<1>13. Slice(candidates)'
  BY <1>1, <1>2 DEF Slice
<1> QED
  BY <1>11, <1>12, <1>13 DEF RulesInv

LEMMA RescanInv ==
  ASSUME RulesInv, Rescan
  PROVE  RulesInv'
<1> DEFINE G == Members(group)  T == Members(group')
<1>1. TypeOK /\ Settled /\ phase = "done"
  BY DEF RulesInv, Rescan
<1>2. /\ group' \in Groups /\ T \subseteq G /\ keep \subseteq T
      /\ candidates' = group' /\ rule' = 1 /\ keep' = {} /\ deletes' = {}
      /\ phase' = "apply" /\ rs' = rs /\ kept' = kept
  BY DEF Rescan
<1>3. PICK K : keep = {K} /\ kept = {K} /\ Stands(rs, G, K)
  BY <1>1 DEF Settled
<1>4. Stands(rs, T, K)
  BY <1>1, <1>2, <1>3, GroupRanked, StandsInherits DEF TypeOK
<1>5. Members(group)' = T
  BY DEF Members
<1>6. Slice(group')
  BY <1>2, GroupSlice
<1>7. Slice(candidates)'
  BY <1>2, <1>6 DEF Slice
<1>8. Len(rs.priority) \in Nat
  BY <1>1, PrioritySeq DEF TypeOK
<1>9. TypeOK'
  BY <1>1, <1>2, <1>7, <1>8 DEF TypeOK, Slice
<1>10. Undecided'
  BY <1>2 DEF Undecided
<1>11. Chosen' /\ Settled'
  BY <1>2, <1>10 DEF Chosen, Settled
<1>12. Remembered'
  BY <1>2, <1>3, <1>4, <1>5 DEF Remembered
<1> QED
  BY <1>7, <1>9, <1>11, <1>12 DEF RulesInv

LEMMA NextInv == RulesInv /\ [Next]_vars => RulesInv'
<1> SUFFICES ASSUME RulesInv, [Next]_vars
             PROVE  RulesInv'
  OBVIOUS
<1>1. TypeOK /\ Slice(candidates)
  BY DEF RulesInv
<1>2. CASE RuleKeepDirs \/ RuleLatest \/ RuleEarliest \/ RuleVersion
  <2>1. Looping
    BY <1>2 DEF RuleKeepDirs, RuleLatest, RuleEarliest, RuleVersion, At
  <2> QED
    BY <1>1, <1>2, <2>1, RuleDoes, ShrinkInv
<1>3. CASE RuleSkipped
  BY <1>3, SkipInv
<1>4. CASE Decide
  BY <1>4, DecideInv
<1>5. CASE Rescan
  BY <1>5, RescanInv
<1>6. CASE UNCHANGED vars
  BY <1>6 DEF vars, RulesInv, TypeOK, Slice, Chosen, Undecided, Remembered, Settled, Members
<1> QED
  BY <1>2, <1>3, <1>4, <1>5, <1>6 DEF Next

LEMMA Invariance == Spec => []RulesInv
BY InitInv, NextInv, PTL DEF Spec

-----------------------------------------------------------------------------
\* Every variable keeps its type; the loop never leaves the list of rules.
THEOREM TypeCorrect == Spec => []TypeOK
<1>1. RulesInv => TypeOK
  BY DEF RulesInv
<1> QED
  BY <1>1, Invariance, PTL

\* Apply keeps one file of a group and deletes exactly the others.
THEOREM KeepsExactlyOneHolds == Spec => []KeepsExactlyOne
<1>1. RulesInv => KeepsExactlyOne
  <2> SUFFICES ASSUME RulesInv, phase = "done"
               PROVE  /\ Cardinality(keep) = 1 /\ keep \subseteq Members(group)
                      /\ deletes = Members(group) \ keep
    BY DEF KeepsExactlyOne
  <2>1. TypeOK /\ Settled
    BY DEF RulesInv
  <2>2. PICK K : /\ keep = {K} /\ deletes = Members(group) \ {K}
                 /\ Stands(rs, Members(group), K)
    BY <2>1 DEF Settled
  <2>3. K \in Members(group)
    BY <2>1, <2>2, GroupRanked, StandsIn
  <2>4. Cardinality({K}) = 1
    BY FS_Singleton
  <2> QED
    BY <2>2, <2>3, <2>4
<1> QED
  BY <1>1, Invariance, PTL

\* The file kept once is kept by every later round with the same rules over
\* what is left of the group.
THEOREM KeptForGoodHolds == Spec => []KeptForGood
<1>1. RulesInv => KeptForGood
  BY DEF RulesInv, Settled, KeptForGood
<1> QED
  BY <1>1, Invariance, PTL

-----------------------------------------------------------------------------
\* What module Session takes for Apply: a function of the rules and the group.

Choice(R, S) == CHOOSE K : Stands(R, S, K)

\* In every group one file stands.
LEMMA ChoiceStands ==
  ASSUME NEW R \in RuleSet, NEW S
  PROVE  Stands(R, S, Choice(R, S)) /\ \A K : Stands(R, S, K) => K = Choice(R, S)
<1> DEFINE I == {i \in DOMAIN R.priority : Prefers(R, i, S) # {}}
<1>1. DOMAIN R.priority = 1..Len(R.priority) /\ Len(R.priority) \in Nat
  BY PrioritySeq
<1>2. \E K : Stands(R, S, K)
  <2>1. CASE I = {}
    <3>1. NoneDecides(R, S, LeastPath(S))
      BY <2>1 DEF NoneDecides
    <3> QED
      BY <3>1 DEF Stands
  <2>2. CASE I # {}
    <3>1. I \in SUBSET (0..Len(R.priority))
      BY <1>1
    <3>2. PICK i \in I : \A j \in I : i <= j
      <4> HIDE DEF I
      <4> QED
        BY <1>1, <2>2, <3>1, LeastIndex
    <3>3. ASSUME NEW j \in 1..i-1
          PROVE  Prefers(R, j, S) = {}
      <4>1. j \in DOMAIN R.priority /\ ~(i <= j)
        BY <1>1, <3>2
      <4> QED
        BY <3>2, <4>1
    <3>4. Decides(R, i, S, LeastPath(Prefers(R, i, S)))
      BY <3>2, <3>3 DEF Decides
    <3> QED
      BY <3>4 DEF Stands
  <2> QED
    BY <2>1, <2>2
<1>3. Stands(R, S, Choice(R, S))
  BY <1>2 DEF Choice
<1> QED
  BY <1>3, StandsUnique

\* The loop over the rules, whatever path it takes, ends with that file.
THEOREM ApplyIsChoice ==
  Spec => [](phase = "done" => keep = {Choice(rs, Members(group))})
<1>1. RulesInv => (phase = "done" => keep = {Choice(rs, Members(group))})
  BY ChoiceStands DEF RulesInv, Settled, TypeOK
<1> QED
  BY <1>1, Invariance, PTL

\* What Session assumes of Keep is so of the files that Apply keeps of groups of
\* files Q with different paths: the file is one of the group, and of every part
\* of the group that has it.
THEOREM ChoiceIsAKeep ==
  ASSUME NEW Q, Ranked(Q)
  PROVE  LET Group == (SUBSET Q) \ {{}}
             Keep  == [R \in RuleSet |-> [S \in Group |-> Choice(R, S)]]
         IN  /\ Keep \in [RuleSet -> [Group -> Q]]
             /\ \A R \in RuleSet, S \in Group : Keep[R][S] \in S
             /\ \A R \in RuleSet, S, T \in Group :
                   T \subseteq S /\ Keep[R][S] \in T => Keep[R][T] = Keep[R][S]
<1> DEFINE Group == (SUBSET Q) \ {{}}
           Keep  == [R \in RuleSet |-> [S \in Group |-> Choice(R, S)]]
<1>1. \A S \in Group : Ranked(S) /\ S # {} /\ S \subseteq Q
  BY RankedSubset
<1>2. ASSUME NEW R \in RuleSet, NEW S \in Group
      PROVE  Choice(R, S) \in S
  BY <1>1, ChoiceStands, StandsIn
<1>3. ASSUME NEW R \in RuleSet, NEW S \in Group, NEW T \in Group,
             T \subseteq S, Choice(R, S) \in T
      PROVE  Choice(R, T) = Choice(R, S)
  <2>1. Stands(R, S, Choice(R, S))
    BY ChoiceStands
  <2>2. Stands(R, T, Choice(R, S))
    BY <1>1, <1>3, <2>1, StandsInherits
  <2> QED
    BY <2>2, ChoiceStands
<1>4. \A R \in RuleSet, S \in Group : Keep[R][S] = Choice(R, S)
  OBVIOUS
<1>5. \A R \in RuleSet, S \in Group : Choice(R, S) \in Q
  BY <1>1, <1>2
<1>6. Keep \in [RuleSet -> [Group -> Q]]
  BY <1>5
<1> HIDE DEF Group, Keep
<1>7. /\ \A R \in RuleSet, S \in Group : Keep[R][S] \in S
      /\ \A R \in RuleSet, S, T \in Group :
            T \subseteq S /\ Keep[R][S] \in T => Keep[R][T] = Keep[R][S]
  BY <1>2, <1>3, <1>4
<1> QED
  BY <1>6, <1>7 DEF Group, Keep

-----------------------------------------------------------------------------
\* The promise of README.md holds where numbers fit in an int and no directory
\* named is the beginning of the name of another.

NumbersFit == \A p \in Path : \A k \in DOMAIN Numbers(Base[p]) : Numbers(Base[p])[k] < Half
DirsEndNames == \A p \in Path, d \in Dirs : HasPrefix(p, d) => Below(p, d)

LEMMA WrappedFits ==
  ASSUME NEW n \in Nat, n < Half
  PROVE  Wrapped(n) = n
<1>1. n + Half \in 0..2 * Half - 1 /\ Half \in Nat \ {0}
  BY RulesAssumption
<1>2. (n + Half) % (2 * Half) = n + Half
  BY <1>1
<1> QED
  BY <1>1, <1>2 DEF Wrapped

LEMMA ScoreIsNumbers ==
  ASSUME NumbersFit, NEW p \in Path
  PROVE  VersionScore(p) = Numbers(Base[p])
<1> DEFINE s == Numbers(Base[p])
<1>1. s \in Seq(Nat)
  BY NumbersType, RulesAssumption
<1>2. s = [k \in DOMAIN s |-> s[k]]
  BY <1>1
<1>3. \A k \in DOMAIN s : s[k] \in Nat /\ s[k] < Half
  BY <1>1, LenProperties, ElementOfSeq DEF NumbersFit
<1> HIDE DEF s
<1>4. \A k \in DOMAIN s : Wrapped(s[k]) = s[k]
  BY <1>3, WrappedFits
<1>5. VersionScore(p) = [k \in DOMAIN s |-> Wrapped(s[k])]
  BY DEF VersionScore, s
<1>6. VersionScore(p) = s
  BY <1>2, <1>4, <1>5
<1> QED
  BY <1>6 DEF s

LEMMA PromisedIsPreferred ==
  ASSUME NumbersFit, DirsEndNames, TypeOK, NEW key
  PROVE  Promised(key) = Preferred(rs, key, Members(group))
<1> DEFINE S == Members(group)
<1>1. \A f \in S : f.path \in Path
  BY GroupRanked, FileRank DEF Ranked
<1>2. \A d \in rs.keepDirs : d \in Dirs
  BY DEF TypeOK, RuleSet
<1>3. InKeepDirs(rs, S) = {f \in S : \E d \in rs.keepDirs : Below(f.path, d)}
  BY <1>1, <1>2 DEF InKeepDirs, DirsEndNames, Below
<1>4. Highest(S) =
         {f \in S : \A g \in S : ~Higher(Numbers(Base[g.path]), Numbers(Base[f.path]))}
  BY <1>1, ScoreIsNumbers DEF Highest
<1> HIDE DEF S
<1>5. CASE key = "keepDirs"
  BY <1>3, <1>5 DEF Promised, Preferred, S
<1>6. CASE key = "latest"
  BY <1>6 DEF Promised, Preferred, Latest, S
<1>7. CASE key = "earliest"
  BY <1>7 DEF Promised, Preferred, Earliest, S
<1>8. CASE key = "version"
  BY <1>4, <1>8 DEF Promised, Preferred, S
<1>9. CASE key \notin {"keepDirs", "latest", "earliest", "version"}
  BY <1>9 DEF Promised, Preferred
<1> QED
  BY <1>5, <1>6, <1>7, <1>8, <1>9

\* The kept file is the first in path order of those that the first rule
\* preferring any file prefers, as README.md describes the rules.
THEOREM KeepsPreferredHolds ==
  ASSUME NumbersFit, DirsEndNames
  PROVE  Spec => []KeepsPreferred
<1>1. RulesInv => KeepsPreferred
  <2> SUFFICES ASSUME RulesInv, phase = "done"
               PROVE  keep = {LeastPath(IF Deciding = {} THEN Members(group)
                                ELSE UNION {Promised(rs.priority[i]) : i \in Deciding})}
    BY DEF KeepsPreferred
  <2> DEFINE G == Members(group)
  <2>1. TypeOK /\ Settled
    BY DEF RulesInv
  <2>2. PICK K : keep = {K} /\ Stands(rs, G, K)
    BY <2>1 DEF Settled
  <2>3. \A i : Promised(rs.priority[i]) = Prefers(rs, i, G)
    BY <2>1, PromisedIsPreferred DEF Prefers
  <2>4. CASE NoneDecides(rs, G, K)
    <3>1. Deciding = {}
      BY <2>3, <2>4 DEF Deciding, NoneDecides
    <3> QED
      BY <2>2, <2>4, <3>1 DEF NoneDecides
  <2>5. ASSUME NEW i, Decides(rs, i, G, K)
        PROVE  keep = {LeastPath(IF Deciding = {} THEN G
                         ELSE UNION {Promised(rs.priority[j]) : j \in Deciding})}
    <3>1. i \in Deciding
      BY <2>3, <2>5 DEF Deciding, Decides
    <3>2. ASSUME NEW j \in Deciding
          PROVE  j = i
      <4>1. DOMAIN rs.priority = 1..Len(rs.priority) /\ Len(rs.priority) \in Nat
        BY <2>1, PrioritySeq DEF TypeOK
      <4>2. i \in 1..Len(rs.priority) /\ j \in 1..Len(rs.priority)
        BY <3>1, <3>2, <4>1 DEF Deciding
      <4>3. /\ Promised(rs.priority[i]) # {} /\ Promised(rs.priority[j]) # {}
            /\ \A k \in 1..i-1 : Promised(rs.priority[k]) = {}
            /\ \A k \in 1..j-1 : Promised(rs.priority[k]) = {}
        BY <3>1, <3>2 DEF Deciding
      <4>4. (i < j => i \in 1..j-1) /\ (j < i => j \in 1..i-1)
        BY <4>1, <4>2
      <4>5. ~(i < j) /\ ~(j < i)
        BY <4>3, <4>4
      <4> QED
        BY <4>1, <4>2, <4>4, <4>5
    <3>3. Deciding = {i}
      BY <3>1, <3>2
    <3>4. UNION {Promised(rs.priority[j]) : j \in Deciding} = Prefers(rs, i, G)
      BY <2>3, <3>3
    <3> QED
      BY <2>2, <2>5, <3>3, <3>4 DEF Decides
  <2> QED
    BY <2>2, <2>4, <2>5 DEF Stands
<1> QED
  BY <1>1, Invariance, PTL
=============================================================================
