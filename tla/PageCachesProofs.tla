-------------------------- MODULE PageCachesProofs --------------------------
(***************************************************************************)
(* Theorems about PageCaches.                                              *)
(***************************************************************************)
EXTENDS PageCaches, LRUCacheOpsProofs, FiniteSetTheorems, SequenceTheorems,
        WellFoundedInduction, TLAPS

-----------------------------------------------------------------------------
(* The pages of a file in order.                                           *)

LEMMA LeastNat ==
  ASSUME NEW T \in SUBSET Nat, T # {}
  PROVE  \E x \in T : \A y \in T : x <= y
<1>1. IsWellFoundedOn(OpToRel(<, Nat), Nat)
  BY NatLessThanWellFounded
<1>2. PICK x \in T : \A y \in T : ~(<<y, x>> \in OpToRel(<, Nat))
  BY <1>1, WFMin
<1>3. ASSUME NEW y \in T, ~(x <= y) PROVE FALSE
  <2>1. <<y, x>> \in Nat \X Nat /\ y < x
    BY <1>3
  <2>2. <<y, x>> \in {ss \in Nat \X Nat : ss[1] < ss[2]}
    BY <2>1
  <2>3. <<y, x>> \in OpToRel(<, Nat)
    BY <2>2 DEF OpToRel
  <2> QED BY <1>2, <2>3
<1> QED BY <1>3

Key == [filename : Files, key : Nat]

\* Finitely many pages of one file.
OfFile(S) == S \in SUBSET Key /\ IsFiniteSet(S) /\ \E f \in Files : \A k \in S : k.filename = f

LEMMA KeysDiffer ==
  ASSUME NEW S, OfFile(S), NEW j \in S, NEW k \in S, j.key = k.key
  PROVE  j = k
BY DEF OfFile, Key

LEMMA FirstKey ==
  ASSUME NEW S, OfFile(S), S # {}
  PROVE  \E k \in S : \A j \in S \ {k} : k.key < j.key
<1> DEFINE pages == {k.key : k \in S}
<1>1. pages \in SUBSET Nat /\ pages # {}
  BY DEF OfFile, Key
<1>2. PICK p \in pages : \A q \in pages : p <= q
  BY <1>1, LeastNat
<1>3. PICK k \in S : k.key = p
  BY <1>2
<1>4. ASSUME NEW j \in S \ {k} PROVE k.key < j.key
  <2>1. p <= j.key /\ p \in Nat /\ j.key \in Nat
    BY <1>1, <1>2
  <2>2. j.key # k.key
    BY KeysDiffer
  <2> QED BY <1>3, <2>1, <2>2
<1> QED BY <1>4

\* s visits every key of S once, in order.
Visits(s, S) ==
  /\ s \in [1 .. Cardinality(S) -> S]
  /\ \A i, j \in DOMAIN s : i < j => s[i].key < s[j].key

LEMMA SomeOrder ==
  ASSUME NEW S, OfFile(S)
  PROVE  \E s : Visits(s, S) /\ \A k \in S : \E i \in DOMAIN s : s[i] = k
<1> DEFINE Ordered(s, T) == Visits(s, T) /\ \A k \in T : \E i \in DOMAIN s : s[i] = k
           Bad == {n \in Nat : \E T : /\ OfFile(T) /\ Cardinality(T) = n
                                                   /\ ~\E s : Ordered(s, T)}
<1>1. ASSUME NEW n \in Bad, \A m \in Bad : n <= m PROVE FALSE
  <2>1. PICK T : OfFile(T) /\ Cardinality(T) = n /\ ~\E s : Ordered(s, T)
    BY <1>1
  <2>2. T # {}
    <3>1. ASSUME T = {} PROVE FALSE
      <4>1. Cardinality(T) = 0
        BY <3>1, FS_EmptySet
      <4>2. Ordered(<<>>, T)
        BY <3>1, <4>1 DEF Visits
      <4> QED BY <2>1, <4>2
    <3> QED BY <3>1
  <2>3. PICK k \in T : \A j \in T \ {k} : k.key < j.key
    BY <2>1, <2>2, FirstKey
  <2> DEFINE U == T \ {k}
  <2>4. IsFiniteSet(U) /\ Cardinality(U) = n - 1 /\ n \in Nat /\ n # 0
    <3>1. IsFiniteSet(U) /\ Cardinality(U) = n - 1
      BY <2>1, <2>3, FS_RemoveElement DEF OfFile
    <3>2. Cardinality(T) # 0
      BY <2>1, <2>2, FS_EmptySet DEF OfFile
    <3> QED BY <2>1, <3>1, <3>2, FS_CardinalityType
  <2>5. PICK t : Ordered(t, U)
    <3>1. n - 1 \in Nat /\ ~(n <= n - 1)
      BY <2>4
    <3>2. n - 1 \notin Bad
      <4> HIDE DEF Bad
      <4> QED BY <1>1, <3>1
    <3>3. OfFile(U)
      BY <2>1, <2>4 DEF OfFile
    <3> HIDE DEF Ordered
    <3> QED BY <2>4, <3>1, <3>2, <3>3
  <2>6. /\ t \in [1 .. n - 1 -> U]
        /\ \A i, j \in 1 .. n - 1 : i < j => t[i].key < t[j].key
        /\ \A j \in U : \E i \in 1 .. n - 1 : t[i] = j
    BY <2>4, <2>5 DEF Visits
  <2> DEFINE s == [i \in 1 .. n |-> IF i = 1 THEN k ELSE t[i - 1]]
  <2>7. \A i \in 1 .. n : i # 1 => i - 1 \in 1 .. n - 1 /\ s[i] = t[i - 1]
    BY <2>4
  <2>8. s \in [1 .. n -> T] /\ s[1] = k
    BY <2>3, <2>4, <2>6, <2>7
  <2>9. \A i, j \in 1 .. n : i < j => s[i].key < s[j].key
    <3> SUFFICES ASSUME NEW i \in 1 .. n, NEW j \in 1 .. n, i < j PROVE s[i].key < s[j].key
      OBVIOUS
    <3>1. j # 1 /\ j - 1 \in 1 .. n - 1 /\ s[j] = t[j - 1]
      BY <2>7
    <3>2. CASE i = 1
      BY <2>3, <2>6, <2>8, <3>1, <3>2
    <3>3. CASE i # 1
      <4>1. i - 1 \in 1 .. n - 1 /\ s[i] = t[i - 1] /\ i - 1 < j - 1
        BY <2>7, <3>3
      <4> HIDE DEF s
      <4> QED BY <2>6, <3>1, <4>1
    <3> QED BY <3>2, <3>3
  <2>10. \A j \in T : \E i \in 1 .. n : s[i] = j
    <3> SUFFICES ASSUME NEW j \in T PROVE \E i \in 1 .. n : s[i] = j
      OBVIOUS
    <3>1. CASE j = k
      BY <2>4, <2>8, <3>1
    <3>2. CASE j # k
      <4>1. PICK i \in 1 .. n - 1 : t[i] = j
        BY <2>6, <3>2
      <4>2. i + 1 \in 1 .. n /\ i + 1 # 1 /\ i + 1 - 1 = i
        BY <2>4
      <4>3. s[i + 1] = j
        BY <2>7, <4>1, <4>2
      <4> QED BY <4>2, <4>3
    <3> QED BY <3>1, <3>2
  <2>11. Ordered(s, T)
    <3> HIDE DEF s
    <3> QED BY <2>1, <2>8, <2>9, <2>10 DEF Visits
  <2> QED
    <3> HIDE DEF s, Ordered
    <3> QED BY <2>1, <2>11
<1>2. Cardinality(S) \notin Bad
  <2>1. Bad \in SUBSET Nat
    OBVIOUS
  <2> HIDE DEF Bad
  <2> QED BY <1>1, <2>1, LeastNat
<1>3. Cardinality(S) \in Nat
  BY FS_CardinalityType DEF OfFile
<1> HIDE DEF Ordered
<1>4. \E s : Ordered(s, S)
  BY <1>2, <1>3
<1> QED BY <1>4 DEF Ordered

\* operator< is irreflexive, so that no key is visited twice.
LEMMA InOrderVisits ==
  ASSUME NEW S, OfFile(S)
  PROVE  /\ Cardinality(S) \in Nat /\ InOrder(S) \in [1 .. Cardinality(S) -> S]
         /\ \A i, j \in 1 .. Cardinality(S) : InOrder(S)[i] = InOrder(S)[j] => i = j
         /\ \A k \in S : \E i \in 1 .. Cardinality(S) : InOrder(S)[i] = k
<1> DEFINE n == Cardinality(S)
           s == InOrder(S)
<1>1. n \in Nat
  BY FS_CardinalityType DEF OfFile
<1>2. s \in [1 .. n -> S] /\ \A i, j \in 1 .. n : i < j => s[i].key < s[j].key
  <2>1. PICK t \in [1 .. n -> S] : \A i, j \in DOMAIN t : i < j => t[i].key < t[j].key
    BY SomeOrder DEF Visits
  <2>2. s \in [1 .. n -> S] /\ \A i, j \in DOMAIN s : i < j => s[i].key < s[j].key
    BY <2>1 DEF InOrder
  <2> HIDE DEF s, n
  <2> QED BY <2>2
<1> HIDE DEF n, s
<1>3. \A k \in Key : ~(k.key < k.key)
  BY DEF Key
<1>4. ASSUME NEW i \in 1 .. n, NEW j \in 1 .. n, s[i] = s[j] PROVE i = j
  <2>1. s[i] \in Key /\ s[j] \in Key
    BY <1>2 DEF OfFile
  <2>2. ~(i < j) /\ ~(j < i)
    BY <1>2, <1>3, <1>4, <2>1
  <2> QED BY <1>1, <2>2
<1>5. s \in Injection(1 .. n, S)
  BY <1>2, <1>4 DEF Injection, IsInjective
<1>6. IsFiniteSet(1 .. n) /\ Cardinality(1 .. n) = n
  BY <1>1, FS_Interval
<1>7. s \in Surjection(1 .. n, S)
  BY <1>5, <1>6, FS_Injection DEF n, OfFile
<1>8. \A k \in S : \E i \in 1 .. n : s[i] = k
  BY <1>7 DEF Surjection
<1> QED BY <1>1, <1>2, <1>4, <1>8 DEF n, s

-----------------------------------------------------------------------------
(* The loops over a set of keys.                                           *)

\* What holds at first and is kept by every turn of a loop holds at its end.
LEMMA EveryTurn ==
  ASSUME NEW n \in Nat, NEW T, 0 \in T, \A i \in 1 .. n : i - 1 \in T => i \in T
  PROVE  \A i \in 0 .. n : i \in T
<1> DEFINE Bad == {i \in 0 .. n : i \notin T}
<1>1. ASSUME NEW i \in Bad, \A j \in Bad : i <= j PROVE FALSE
  <2>1. i \in 1 .. n /\ i - 1 \in 0 .. n /\ ~(i <= i - 1)
    OBVIOUS
  <2>2. i - 1 \in T
    BY <1>1, <2>1
  <2> QED BY <2>1, <2>2
<1>2. Bad \in SUBSET Nat
  OBVIOUS
<1>3. Bad = {}
  <2> HIDE DEF Bad
  <2> QED BY <1>1, <1>2, LeastNat
<1> QED BY <1>3

LEMMA MaxIsLast ==
  ASSUME NEW k \in Nat, NEW s \in SUBSET (1 .. k), k \in s
  PROVE  Max(s) = k
<1>1. \A y \in s : k >= y
  OBVIOUS
<1>2. \A x \in s : (\A y \in s : x >= y) => x = k
  OBVIOUS
<1> QED BY <1>1, <1>2 DEF Max

\* One turn of each loop; a says which loop it is.
Read1(u, k, d) == Recalled(u, InsertFullPage(u.cache, pageCapacity, k, d))
Part1(u, k, access) ==
  IF ~u.ok \/ ~CanInsertPartial(u.cache, k) THEN [u EXCEPT !.ok = FALSE]
  ELSE Recalled(u, InsertPartialPage(u.cache, pageCapacity, k, access.part[k.key]))
Page1(u, k, regions, d) == UpdateStep(u, InsertPageAndRecall(u.cache, pageCapacity, k, regions, d))
Do(a, x, k) ==
  IF a.loop = "lookup" THEN LookupKey(x, k)
  ELSE IF a.loop = "insert" THEN Read1(x, k, a.isDirty)
  ELSE IF a.loop = "part" THEN Part1(x, k, a.access)
  ELSE IF a.loop = "flush" THEN RemoveKey(x, k)
  ELSE IF a.loop = "refresh" THEN LookupPage(x, k)
  ELSE IF a.loop = "reads" THEN Page1(x, k, Whole, FALSE)
  ELSE IF a.loop = "writes" THEN Page1(x, k, WrittenRegions(a.access, k), TRUE)
  ELSE IF a.loop = "drop" THEN RemovePage(x, k)
  ELSE IF a.loop = "count" THEN x + Cardinality(TwinOf(k))
  ELSE x (+) SetToBag({ToFs(a.cache, "partial", {k.key}, {g}, a.parent) : g \in TwinOf(k)})

\* The function FoldLeft is defined by, on sets of positions.
Folds(f, a, base, n, q) ==
  f = [s \in SUBSET (1 .. n) |->
         IF s = {} THEN base ELSE Do(a, f[s \ {Max(s)}], q[Max(s)])]

LEMMA LoopEnds ==
  ASSUME NEW a, NEW base, NEW n \in Nat, NEW q
  PROVE  \E f : Folds(f, a, base, n, q)
<1> DEFINE T == {k \in 0 .. n : \E f : Folds(f, a, base, k, q)}
<1>1. 0 \in T
  <2> DEFINE f == [s \in SUBSET (1 .. 0) |-> base]
  <2>1. \A s \in SUBSET (1 .. 0) : s = {}
    OBVIOUS
  <2>2. Folds(f, a, base, 0, q)
    <3>1. \A s \in SUBSET (1 .. 0) :
            f[s] = IF s = {} THEN base ELSE Do(a, f[s \ {Max(s)}], q[Max(s)])
      BY <2>1
    <3>2. f = [s \in SUBSET (1 .. 0) |-> f[s]]
      OBVIOUS
    <3> HIDE DEF f
    <3> QED BY ONLY <3>1, <3>2 DEF Folds
  <2>3. 0 \in 0 .. n
    OBVIOUS
  <2> HIDE DEF f
  <2> QED BY <2>2, <2>3
<1>2. ASSUME NEW k \in 1 .. n, k - 1 \in T PROVE k \in T
  <2>1. PICK f : Folds(f, a, base, k - 1, q)
    BY <1>2
  <2> DEFINE S == SUBSET (1 .. k - 1)
             g == [s \in SUBSET (1 .. k) |-> IF k \in s THEN Do(a, f[s \ {k}], q[k]) ELSE f[s]]
  <2>2. \A s \in S : f[s] = IF s = {} THEN base ELSE Do(a, f[s \ {Max(s)}], q[Max(s)])
    BY <2>1 DEF Folds
  <2>3. ASSUME NEW s \in SUBSET (1 .. k)
        PROVE g[s] = IF s = {} THEN base ELSE Do(a, g[s \ {Max(s)}], q[Max(s)])
    <3>1. CASE k \in s
      <4>1. Max(s) = k
        BY <3>1, MaxIsLast
      <4>2. s # {} /\ s \ {k} \in SUBSET (1 .. k) /\ k \notin s \ {k}
        BY <3>1
      <4>3. g[s] = Do(a, f[s \ {k}], q[k]) /\ g[s \ {k}] = f[s \ {k}]
        BY <3>1, <4>2
      <4> HIDE DEF g
      <4> QED BY <4>1, <4>2, <4>3
    <3>2. CASE k \notin s
      <4>1. s \in S /\ s \ {Max(s)} \in SUBSET (1 .. k) /\ k \notin s \ {Max(s)}
        <5>1. \A x \in 1 .. k : x # k => x \in 1 .. k - 1
          OBVIOUS
        <5> QED BY <3>2, <5>1
      <4>2. g[s] = f[s] /\ g[s \ {Max(s)}] = f[s \ {Max(s)}]
        BY <3>2, <4>1
      <4> HIDE DEF g, S
      <4> QED BY <2>2, <4>1, <4>2
    <3> QED BY <3>1, <3>2
  <2>4. Folds(g, a, base, k, q)
    <3>1. g = [s \in SUBSET (1 .. k) |-> g[s]]
      OBVIOUS
    <3> HIDE DEF g
    <3> QED BY ONLY <2>3, <3>1 DEF Folds
  <2>5. k \in 0 .. n
    OBVIOUS
  <2> HIDE DEF g
  <2> QED BY <2>4, <2>5
<1>3. n \in 0 .. n
  OBVIOUS
<1>4. n \in T
  <2> HIDE DEF T
  <2> QED BY <1>1, <1>2, <1>3, EveryTurn
<1> QED BY <1>4

\* The states a loop goes through.
Runs(g, a, base, n, q) == g[0] = base /\ \A i \in 1 .. n : g[i] = Do(a, g[i - 1], q[i])

LEMMA FoldRuns ==
  ASSUME NEW a, NEW base, NEW n \in Nat, NEW q, NEW f, Folds(f, a, base, n, q)
  PROVE  \E g : Runs(g, a, base, n, q) /\ g[n] = f[1 .. n]
<1> DEFINE g == [k \in 0 .. n |-> f[1 .. k]]
<1>1. \A s \in SUBSET (1 .. n) : f[s] = IF s = {} THEN base ELSE Do(a, f[s \ {Max(s)}], q[Max(s)])
  BY DEF Folds
<1>2. g[0] = base
  <2>1. 1 .. 0 = {} /\ 0 \in 0 .. n
    OBVIOUS
  <2>2. g[0] = f[{}]
    BY <2>1
  <2> QED BY <1>1, <2>2
<1>3. ASSUME NEW i \in 1 .. n PROVE g[i] = Do(a, g[i - 1], q[i])
  <2>1. 1 .. i \in SUBSET (1 .. n) /\ i \in 1 .. i /\ (1 .. i) \ {i} = 1 .. (i - 1) /\ i \in Nat
    OBVIOUS
  <2>2. Max(1 .. i) = i
    BY <2>1, MaxIsLast
  <2>3. f[1 .. i] = Do(a, f[1 .. (i - 1)], q[i])
    BY <1>1, <2>1, <2>2
  <2>4. i \in 0 .. n /\ i - 1 \in 0 .. n
    OBVIOUS
  <2>5. g[i] = f[1 .. i] /\ g[i - 1] = f[1 .. (i - 1)]
    BY <2>4
  <2> HIDE DEF g
  <2> QED BY <2>3, <2>5
<1>4. g[n] = f[1 .. n]
  OBVIOUS
<1> HIDE DEF g
<1> QED BY <1>2, <1>3, <1>4 DEF Runs

LookupLoop == [loop |-> "lookup"]
InsertLoop(d) == [loop |-> "insert", isDirty |-> d]
PartLoop(a) == [loop |-> "part", access |-> a]
FlushLoop == [loop |-> "flush"]
RefreshLoop == [loop |-> "refresh"]
ReadsLoop == [loop |-> "reads"]
WritesLoop(a) == [loop |-> "writes", access |-> a]
DropLoop == [loop |-> "drop"]
CountLoop == [loop |-> "count"]
BagLoop(c, r) == [loop |-> "bag", cache |-> c, parent |-> r]

LEMMA LookupRuns ==
  ASSUME NEW cache, NEW keys, OfFile(keys)
  PROVE  \E g : /\ Runs(g, LookupLoop, cache, Cardinality(keys), InOrder(keys))
                /\ LookupPages(cache, keys) = g[Cardinality(keys)]
<1> DEFINE q == InOrder(keys)
           n == Cardinality(keys)
           One(x, k) == LookupKey(x, k)
           Rec(f) == f = [s \in SUBSET (DOMAIN q) |->
                            IF s = {} THEN cache ELSE One(f[s \ {Max(s)}], q[Max(s)])]
           f == CHOOSE h : Rec(h)
<1>1. n \in Nat /\ DOMAIN q = 1 .. n
  BY InOrderVisits
<1>2. LookupPages(cache, keys) = f[DOMAIN q]
  BY DEF LookupPages, FoldLeft, MapThenFoldSet
<1>3. \A x, k : Do(LookupLoop, x, k) = One(x, k)
  BY DEF Do, LookupLoop, Read1, Part1, Page1
<1> HIDE DEF q, n, One
<1>4. \A h : Rec(h) <=> Folds(h, LookupLoop, cache, n, q)
  BY <1>1, <1>3 DEF Folds
<1> HIDE DEF Rec
<1>5. Folds(f, LookupLoop, cache, n, q)
  <2>1. \E h : Rec(h)
    BY <1>1, <1>4, LoopEnds
  <2> QED BY <1>4, <2>1
<1> HIDE DEF f
<1>6. PICK g : Runs(g, LookupLoop, cache, n, q) /\ g[n] = f[1 .. n]
  BY <1>1, <1>5, FoldRuns
<1> QED BY <1>1, <1>2, <1>6 DEF q, n

\* The pages of a read, or the full pages of a write.
FullInserted(update, keys, d) ==
  FoldLeft(LAMBDA u, k : Recalled(u, InsertFullPage(u.cache, pageCapacity, k, d)),
           update, InOrder(keys))

LEMMA InsertRuns ==
  ASSUME NEW update, NEW keys, OfFile(keys), NEW d
  PROVE  \E g : /\ Runs(g, InsertLoop(d), update, Cardinality(keys), InOrder(keys))
                /\ FullInserted(update, keys, d) = g[Cardinality(keys)]
<1> DEFINE q == InOrder(keys)
           n == Cardinality(keys)
           One(x, k) == Recalled(x, InsertFullPage(x.cache, pageCapacity, k, d))
           Rec(f) == f = [s \in SUBSET (DOMAIN q) |->
                            IF s = {} THEN update ELSE One(f[s \ {Max(s)}], q[Max(s)])]
           f == CHOOSE h : Rec(h)
<1>1. n \in Nat /\ DOMAIN q = 1 .. n
  BY InOrderVisits
<1>2. FullInserted(update, keys, d) = f[DOMAIN q]
  BY DEF FullInserted, FoldLeft, MapThenFoldSet
<1>3. \A x, k : Do(InsertLoop(d), x, k) = One(x, k)
  BY DEF Do, InsertLoop, Read1, Part1, Page1
<1> HIDE DEF q, n, One
<1>4. \A h : Rec(h) <=> Folds(h, InsertLoop(d), update, n, q)
  BY <1>1, <1>3 DEF Folds
<1> HIDE DEF Rec
<1>5. Folds(f, InsertLoop(d), update, n, q)
  <2>1. \E h : Rec(h)
    BY <1>1, <1>4, LoopEnds
  <2> QED BY <1>4, <2>1
<1> HIDE DEF f
<1>6. PICK g : Runs(g, InsertLoop(d), update, n, q) /\ g[n] = f[1 .. n]
  BY <1>1, <1>5, FoldRuns
<1> QED BY <1>1, <1>2, <1>6 DEF q, n

LEMMA PartRuns ==
  ASSUME NEW update, NEW a, NEW keys, OfFile(keys)
  PROVE  \E g : /\ Runs(g, PartLoop(a), update, Cardinality(keys), InOrder(keys))
                /\ UpdatePartial(update, a, keys) = g[Cardinality(keys)]
<1> DEFINE q == InOrder(keys)
           n == Cardinality(keys)
           One(x, k) == IF ~x.ok \/ ~CanInsertPartial(x.cache, k) THEN [x EXCEPT !.ok = FALSE]
                        ELSE Recalled(x, InsertPartialPage(x.cache, pageCapacity, k, a.part[k.key]))
           Rec(f) == f = [s \in SUBSET (DOMAIN q) |->
                            IF s = {} THEN update ELSE One(f[s \ {Max(s)}], q[Max(s)])]
           f == CHOOSE h : Rec(h)
<1>1. n \in Nat /\ DOMAIN q = 1 .. n
  BY InOrderVisits
<1>2. UpdatePartial(update, a, keys) = f[DOMAIN q]
  BY DEF UpdatePartial, FoldLeft, MapThenFoldSet
<1>3. \A x, k : Do(PartLoop(a), x, k) = One(x, k)
  BY DEF Do, PartLoop, Read1, Part1, Page1
<1> HIDE DEF q, n, One
<1>4. \A h : Rec(h) <=> Folds(h, PartLoop(a), update, n, q)
  BY <1>1, <1>3 DEF Folds
<1> HIDE DEF Rec
<1>5. Folds(f, PartLoop(a), update, n, q)
  <2>1. \E h : Rec(h)
    BY <1>1, <1>4, LoopEnds
  <2> QED BY <1>4, <2>1
<1> HIDE DEF f
<1>6. PICK g : Runs(g, PartLoop(a), update, n, q) /\ g[n] = f[1 .. n]
  BY <1>1, <1>5, FoldRuns
<1> QED BY <1>1, <1>2, <1>6 DEF q, n

LEMMA FlushRuns ==
  ASSUME NEW f0, NEW keys, OfFile(keys), keys = {k \in Cached(lruCache) : k.filename = f0}
  PROVE  \E g : /\ Runs(g, FlushLoop, lruCache, Cardinality(keys), InOrder(keys))
                /\ FlushCache(f0) = g[Cardinality(keys)]
<1> DEFINE q == InOrder(keys)
           n == Cardinality(keys)
           One(x, k) == RemoveKey(x, k)
           Rec(f) == f = [s \in SUBSET (DOMAIN q) |->
                            IF s = {} THEN lruCache ELSE One(f[s \ {Max(s)}], q[Max(s)])]
           f == CHOOSE h : Rec(h)
<1>1. n \in Nat /\ DOMAIN q = 1 .. n
  BY InOrderVisits
<1>2. FlushCache(f0) = f[DOMAIN q]
  BY DEF FlushCache, FoldLeft, MapThenFoldSet
<1>3. \A x, k : Do(FlushLoop, x, k) = One(x, k)
  BY DEF Do, FlushLoop, Read1, Part1, Page1
<1> HIDE DEF q, n, One
<1>4. \A h : Rec(h) <=> Folds(h, FlushLoop, lruCache, n, q)
  BY <1>1, <1>3 DEF Folds
<1> HIDE DEF Rec
<1>5. Folds(f, FlushLoop, lruCache, n, q)
  <2>1. \E h : Rec(h)
    BY <1>1, <1>4, LoopEnds
  <2> QED BY <1>4, <2>1
<1> HIDE DEF f
<1>6. PICK g : Runs(g, FlushLoop, lruCache, n, q) /\ g[n] = f[1 .. n]
  BY <1>1, <1>5, FoldRuns
<1> QED BY <1>1, <1>2, <1>6 DEF q, n

LEMMA RefreshRuns ==
  ASSUME NEW keys, OfFile(keys)
  PROVE  \E g : /\ Runs(g, RefreshLoop, lruCache, Cardinality(keys), InOrder(keys))
                /\ RefreshPages(keys) = g[Cardinality(keys)]
<1> DEFINE q == InOrder(keys)
           n == Cardinality(keys)
           One(x, k) == LookupPage(x, k)
           Rec(f) == f = [s \in SUBSET (DOMAIN q) |->
                            IF s = {} THEN lruCache ELSE One(f[s \ {Max(s)}], q[Max(s)])]
           f == CHOOSE h : Rec(h)
<1>1. n \in Nat /\ DOMAIN q = 1 .. n
  BY InOrderVisits
<1>2. RefreshPages(keys) = f[DOMAIN q]
  BY DEF RefreshPages, FoldLeft, MapThenFoldSet
<1>3. \A x, k : Do(RefreshLoop, x, k) = One(x, k)
  BY DEF Do, RefreshLoop, Read1, Part1, Page1
<1> HIDE DEF q, n, One
<1>4. \A h : Rec(h) <=> Folds(h, RefreshLoop, lruCache, n, q)
  BY <1>1, <1>3 DEF Folds
<1> HIDE DEF Rec
<1>5. Folds(f, RefreshLoop, lruCache, n, q)
  <2>1. \E h : Rec(h)
    BY <1>1, <1>4, LoopEnds
  <2> QED BY <1>4, <2>1
<1> HIDE DEF f
<1>6. PICK g : Runs(g, RefreshLoop, lruCache, n, q) /\ g[n] = f[1 .. n]
  BY <1>1, <1>5, FoldRuns
<1> QED BY <1>1, <1>2, <1>6 DEF q, n

NoUpdate == [cache |-> lruCache, out |-> << >>]

LEMMA ReadsRuns ==
  ASSUME NEW keys, OfFile(keys)
  PROVE  \E g : /\ Runs(g, ReadsLoop, NoUpdate, Cardinality(keys), InOrder(keys))
                /\ UpdateWithReads(keys) = g[Cardinality(keys)]
<1> DEFINE q == InOrder(keys)
           n == Cardinality(keys)
           One(x, k) == UpdateStep(x, InsertPageAndRecall(x.cache, pageCapacity, k, Whole, FALSE))
           Rec(f) == f = [s \in SUBSET (DOMAIN q) |->
                            IF s = {} THEN NoUpdate ELSE One(f[s \ {Max(s)}], q[Max(s)])]
           f == CHOOSE h : Rec(h)
<1>1. n \in Nat /\ DOMAIN q = 1 .. n
  BY InOrderVisits
<1>2. UpdateWithReads(keys) = f[DOMAIN q]
  BY DEF UpdateWithReads, NoUpdate, FoldLeft, MapThenFoldSet
<1>3. \A x, k : Do(ReadsLoop, x, k) = One(x, k)
  BY DEF Do, ReadsLoop, Read1, Part1, Page1
<1> HIDE DEF q, n, One
<1>4. \A h : Rec(h) <=> Folds(h, ReadsLoop, NoUpdate, n, q)
  BY <1>1, <1>3 DEF Folds
<1> HIDE DEF Rec
<1>5. Folds(f, ReadsLoop, NoUpdate, n, q)
  <2>1. \E h : Rec(h)
    BY <1>1, <1>4, LoopEnds
  <2> QED BY <1>4, <2>1
<1> HIDE DEF f
<1>6. PICK g : Runs(g, ReadsLoop, NoUpdate, n, q) /\ g[n] = f[1 .. n]
  BY <1>1, <1>5, FoldRuns
<1> QED BY <1>1, <1>2, <1>6 DEF q, n

LEMMA WritesRuns ==
  ASSUME NEW a, NEW keys, OfFile(keys), keys = AllKeys(a)
  PROVE  \E g : /\ Runs(g, WritesLoop(a), NoUpdate, Cardinality(keys), InOrder(keys))
                /\ UpdateWithWrites(a) = g[Cardinality(keys)]
<1> DEFINE q == InOrder(keys)
           n == Cardinality(keys)
           One(x, k) == UpdateStep(x, InsertPageAndRecall(x.cache, pageCapacity, k, WrittenRegions(a, k), TRUE))
           Rec(f) == f = [s \in SUBSET (DOMAIN q) |->
                            IF s = {} THEN NoUpdate ELSE One(f[s \ {Max(s)}], q[Max(s)])]
           f == CHOOSE h : Rec(h)
<1>1. n \in Nat /\ DOMAIN q = 1 .. n
  BY InOrderVisits
<1>2. UpdateWithWrites(a) = f[DOMAIN q]
  BY DEF UpdateWithWrites, NoUpdate, FoldLeft, MapThenFoldSet
<1>3. \A x, k : Do(WritesLoop(a), x, k) = One(x, k)
  BY DEF Do, WritesLoop, Read1, Part1, Page1
<1> HIDE DEF q, n, One
<1>4. \A h : Rec(h) <=> Folds(h, WritesLoop(a), NoUpdate, n, q)
  BY <1>1, <1>3 DEF Folds
<1> HIDE DEF Rec
<1>5. Folds(f, WritesLoop(a), NoUpdate, n, q)
  <2>1. \E h : Rec(h)
    BY <1>1, <1>4, LoopEnds
  <2> QED BY <1>4, <2>1
<1> HIDE DEF f
<1>6. PICK g : Runs(g, WritesLoop(a), NoUpdate, n, q) /\ g[n] = f[1 .. n]
  BY <1>1, <1>5, FoldRuns
<1> QED BY <1>1, <1>2, <1>6 DEF q, n

LEMMA DropRuns ==
  ASSUME NEW f0, NEW keys, OfFile(keys), keys = {k \in CachedPages(lruCache) : k.filename = f0}
  PROVE  \E g : /\ Runs(g, DropLoop, lruCache, Cardinality(keys), InOrder(keys))
                /\ FlushPages(f0) = g[Cardinality(keys)]
<1> DEFINE q == InOrder(keys)
           n == Cardinality(keys)
           One(x, k) == RemovePage(x, k)
           Rec(f) == f = [s \in SUBSET (DOMAIN q) |->
                            IF s = {} THEN lruCache ELSE One(f[s \ {Max(s)}], q[Max(s)])]
           f == CHOOSE h : Rec(h)
<1>1. n \in Nat /\ DOMAIN q = 1 .. n
  BY InOrderVisits
<1>2. FlushPages(f0) = f[DOMAIN q]
  BY DEF FlushPages, FoldLeft, MapThenFoldSet
<1>3. \A x, k : Do(DropLoop, x, k) = One(x, k)
  BY DEF Do, DropLoop, Read1, Part1, Page1
<1> HIDE DEF q, n, One
<1>4. \A h : Rec(h) <=> Folds(h, DropLoop, lruCache, n, q)
  BY <1>1, <1>3 DEF Folds
<1> HIDE DEF Rec
<1>5. Folds(f, DropLoop, lruCache, n, q)
  <2>1. \E h : Rec(h)
    BY <1>1, <1>4, LoopEnds
  <2> QED BY <1>4, <2>1
<1> HIDE DEF f
<1>6. PICK g : Runs(g, DropLoop, lruCache, n, q) /\ g[n] = f[1 .. n]
  BY <1>1, <1>5, FoldRuns
<1> QED BY <1>1, <1>2, <1>6 DEF q, n

\* The regions of the twins among the recalled entries, counted from n.
TwinsCounted(n0, out) == FoldLeft(LAMBDA n, e : n + Cardinality(TwinOf(e)), n0, out)

LEMMA CountRuns ==
  ASSUME NEW n0, NEW S, NEW out \in Seq(S)
  PROVE  \E g : /\ Runs(g, CountLoop, n0, Len(out), out)
                /\ TwinsCounted(n0, out) = g[Len(out)]
<1> DEFINE n == Len(out)
           One(x, k) == x + Cardinality(TwinOf(k))
           Rec(f) == f = [s \in SUBSET (DOMAIN out) |->
                            IF s = {} THEN n0 ELSE One(f[s \ {Max(s)}], out[Max(s)])]
           f == CHOOSE h : Rec(h)
<1>1. n \in Nat /\ DOMAIN out = 1 .. n
  OBVIOUS
<1>2. TwinsCounted(n0, out) = f[DOMAIN out]
  BY DEF TwinsCounted, FoldLeft, MapThenFoldSet
<1>3. \A x, k : Do(CountLoop, x, k) = One(x, k)
  BY DEF Do, CountLoop
<1> HIDE DEF n, One
<1>4. \A h : Rec(h) <=> Folds(h, CountLoop, n0, n, out)
  BY <1>1, <1>3 DEF Folds
<1> HIDE DEF Rec
<1>5. Folds(f, CountLoop, n0, n, out)
  <2>1. \E h : Rec(h)
    BY <1>1, <1>4, LoopEnds
  <2> QED BY <1>4, <2>1
<1> HIDE DEF f
<1>6. PICK g : Runs(g, CountLoop, n0, n, out) /\ g[n] = f[1 .. n]
  BY <1>1, <1>5, FoldRuns
<1> QED BY <1>1, <1>2, <1>6 DEF n

LEMMA BagRuns ==
  ASSUME NEW c, NEW r, NEW S, NEW out \in Seq(S)
  PROVE  \E g : /\ Runs(g, BagLoop(c, r), EmptyBag, Len(out), out)
                /\ PartialWritebacks(c, out, r) = g[Len(out)]
<1> DEFINE n == Len(out)
           One(x, k) == x (+) SetToBag({ToFs(c, "partial", {k.key}, {g}, r) : g \in TwinOf(k)})
           Rec(f) == f = [s \in SUBSET (DOMAIN out) |->
                            IF s = {} THEN EmptyBag ELSE One(f[s \ {Max(s)}], out[Max(s)])]
           f == CHOOSE h : Rec(h)
<1>1. n \in Nat /\ DOMAIN out = 1 .. n
  OBVIOUS
<1>2. PartialWritebacks(c, out, r) = f[DOMAIN out]
  BY DEF PartialWritebacks, FoldLeft, MapThenFoldSet
<1>3. \A x, k : Do(BagLoop(c, r), x, k) = One(x, k)
  BY DEF Do, BagLoop
<1> HIDE DEF n, One
<1>4. \A h : Rec(h) <=> Folds(h, BagLoop(c, r), EmptyBag, n, out)
  BY <1>1, <1>3 DEF Folds
<1> HIDE DEF Rec
<1>5. Folds(f, BagLoop(c, r), EmptyBag, n, out)
  <2>1. \E h : Rec(h)
    BY <1>1, <1>4, LoopEnds
  <2> QED BY <1>4, <2>1
<1> HIDE DEF f
<1>6. PICK g : Runs(g, BagLoop(c, r), EmptyBag, n, out) /\ g[n] = f[1 .. n]
  BY <1>1, <1>5, FoldRuns
<1> QED BY <1>1, <1>2, <1>6 DEF n
-----------------------------------------------------------------------------
(* The LRU list.                                                           *)

LEMMA DistinctCounts ==
  ASSUME NEW S, NEW list \in Seq(S), Distinct(list)
  PROVE  IsFiniteSet(ToSet(list)) /\ Cardinality(ToSet(list)) = Len(list)
<1>1. Len(list) \in Nat /\ DOMAIN list = 1 .. Len(list)
  OBVIOUS
<1>2. list \in Bijection(1 .. Len(list), ToSet(list))
  <2>1. list \in [1 .. Len(list) -> ToSet(list)]
    BY <1>1 DEF ToSet
  <2>2. \A t \in ToSet(list) : \E s \in 1 .. Len(list) : list[s] = t
    BY <1>1 DEF ToSet
  <2>3. IsInjective(list)
    BY <1>1 DEF Distinct, IsInjective
  <2> QED BY <2>1, <2>2, <2>3 DEF Bijection, Injection, Surjection
<1>3. ExistsBijection(1 .. Len(list), ToSet(list))
  BY <1>2 DEF ExistsBijection
<1>4. IsFiniteSet(1 .. Len(list)) /\ Cardinality(1 .. Len(list)) = Len(list)
  BY <1>1, FS_Interval
<1> QED BY <1>3, <1>4, FS_Bijection

\* A key is in a list of different keys once, so that its first place is the one.
LEMMA FirstIsErased ==
  ASSUME NEW S, NEW list \in Seq(S), Distinct(list), NEW k \in ToSet(list)
  PROVE  RemoveFirst(list, k) = EraseRef(list, k)
<1> DEFINE I == {i \in 1 .. Len(list) : list[i] = k}
<1>1. PICK i \in 1 .. Len(list) : list[i] = k
  BY DEF ToSet
<1>2. I = {i}
  BY <1>1 DEF Distinct
<1>3. Min(I) = i
  <2>1. i \in Nat
    BY <1>1
  <2> QED BY <1>2, <2>1 DEF Min
<1>4. RefOf(list, k) = i
  BY <1>1 DEF RefOf, Distinct
<1>5. RemoveFirst(list, k) = RemoveAt(list, SelectInSeq(list, LAMBDA v : v = k))
  BY <1>1 DEF RemoveFirst
<1>6. SelectInSeq(list, LAMBDA v : v = k) = i
  <2>1. I # {}
    BY <1>1
  <2> QED BY <1>3, <2>1 DEF SelectInSeq
<1> QED BY <1>4, <1>5, <1>6 DEF EraseRef

LEMMA ListRemoves ==
  ASSUME NEW S, NEW list \in Seq(S), Distinct(list), NEW k
  PROVE  /\ RemoveFirst(list, k) \in Seq(S) /\ Distinct(RemoveFirst(list, k))
         /\ ToSet(RemoveFirst(list, k)) = ToSet(list) \ {k}
<1>1. CASE k \in ToSet(list)
  BY <1>1, FirstIsErased, EraseRefShifts, EraseRefRemoves
<1>2. CASE k \notin ToSet(list)
  <2>1. RemoveFirst(list, k) = list
    BY <1>2 DEF RemoveFirst, ToSet
  <2> QED BY <1>2, <2>1
<1> QED BY <1>1, <1>2

LEMMA ListFronts ==
  ASSUME NEW S, NEW list \in Seq(S), Distinct(list), NEW k \in S
  PROVE  LET l == <<k>> \o RemoveFirst(list, k)
         IN  l \in Seq(S) /\ Distinct(l) /\ ToSet(l) = ToSet(list) \union {k}
<1> DEFINE e == RemoveFirst(list, k)
<1>1. e \in Seq(S) /\ Distinct(e) /\ ToSet(e) = ToSet(list) \ {k}
  BY ListRemoves
<1> HIDE DEF e
<1>2. /\ PushFront(e, k) \in Seq(S) /\ Distinct(PushFront(e, k))
      /\ ToSet(PushFront(e, k)) = ToSet(e) \union {k}
  BY <1>1, PushFrontAdds
<1> QED BY <1>1, <1>2 DEF PushFront, e

LEMMA LastIn ==
  ASSUME NEW S, NEW list \in Seq(S), ToSet(list) # {}
  PROVE  Last(list) \in ToSet(list)
<1>1. Len(list) \in 1 .. Len(list) /\ DOMAIN list = 1 .. Len(list)
  BY DEF ToSet
<1> QED BY <1>1 DEF Last, ToSet

\* What both kinds of page cache keep in step.
Listed(m) ==
  /\ m = [entries |-> m.entries, lruList |-> m.lruList]
  /\ DOMAIN m.entries \subseteq Key
  /\ m.lruList \in Seq(Key) /\ Distinct(m.lruList)
  /\ ToSet(m.lruList) = DOMAIN m.entries

LEMMA ListedCounts ==
  ASSUME NEW m, Listed(m)
  PROVE  /\ IsFiniteSet(DOMAIN m.entries) /\ Cardinality(DOMAIN m.entries) = Len(m.lruList)
         /\ Cardinality(DOMAIN m.entries) \in Nat
BY DistinctCounts, FS_CardinalityType DEF Listed

LEMMA LastListed ==
  ASSUME NEW m, Listed(m), DOMAIN m.entries # {}
  PROVE  Last(m.lruList) \in DOMAIN m.entries
BY LastIn DEF Listed

LEMMA Fronted ==
  ASSUME NEW m, Listed(m), NEW k \in Key, NEW E, DOMAIN E = DOMAIN m.entries \union {k}
  PROVE  Listed([entries |-> E, lruList |-> <<k>> \o RemoveFirst(m.lruList, k)])
<1>1. LET l == <<k>> \o RemoveFirst(m.lruList, k)
      IN  l \in Seq(Key) /\ Distinct(l) /\ ToSet(l) = ToSet(m.lruList) \union {k}
  BY ListFronts DEF Listed
<1> QED BY <1>1 DEF Listed

LEMMA Dropped ==
  ASSUME NEW m, Listed(m), NEW k
  PROVE  Listed([entries |-> [j \in DOMAIN m.entries \ {k} |-> m.entries[j]],
                 lruList |-> RemoveFirst(m.lruList, k)])
<1>1. /\ RemoveFirst(m.lruList, k) \in Seq(Key) /\ Distinct(RemoveFirst(m.lruList, k))
      /\ ToSet(RemoveFirst(m.lruList, k)) = ToSet(m.lruList) \ {k}
  BY ListRemoves DEF Listed
<1> QED BY <1>1 DEF Listed
-----------------------------------------------------------------------------
(* MultiCache: what each operation keeps, and what becomes of what the     *)
(* cache has to write.                                                     *)

Regions == UNION {UNION {a.part[p] : p \in DOMAIN a.part} : a \in Accesses}

Parts == {P \in SUBSET Regions : IsFiniteSet(P)}

MultiEntry == {e \in [isDirty : BOOLEAN, twin : Parts] : e.isDirty => e.twin = {}}

MultiShape(m) == Listed(m) /\ m.entries \in [DOMAIN m.entries -> MultiEntry]

MultiOK(m) == MultiShape(m) /\ Size(m) <= pageCapacity

Outs == [key : Key, isFull : BOOLEAN, regions : Parts]

\* The cache will write the region of the page; or it has handed it back.
Holds(m, k, g) == k \in DOMAIN m.entries /\ (m.entries[k].isDirty \/ g \in m.entries[k].twin)

Handed(out, k, g) ==
  \E i \in DOMAIN out : out[i].key = k /\ (out[i].isFull \/ g \in out[i].regions)

LEMMA NothingIsAPart == {} \in Parts
BY FS_EmptySet DEF Parts

LEMMA PartsJoin ==
  ASSUME NEW P \in Parts, NEW Q \in Parts
  PROVE  P \union Q \in Parts
BY FS_Union DEF Parts

LEMMA PartsOfAccess ==
  ASSUME NEW a \in Accesses, NEW p \in DOMAIN a.part
  PROVE  a.part[p] \in Parts
BY PageCacheAssumption DEF Parts, Regions

Twins(m) == {k \in Cached(m) : m.entries[k].twin # {}}

LEMMA SizeIs ==
  ASSUME NEW m, Listed(m)
  PROVE  /\ IsFiniteSet(Cached(m)) /\ Cardinality(Cached(m)) \in Nat
         /\ IsFiniteSet(Twins(m)) /\ Cardinality(Twins(m)) \in Nat
         /\ Size(m) = Cardinality(Cached(m)) + Cardinality(Twins(m)) /\ Size(m) \in Nat
<1>1. IsFiniteSet(Cached(m)) /\ Cardinality(Cached(m)) \in Nat
  BY ListedCounts DEF Cached
<1>2. Twins(m) \subseteq Cached(m)
  BY DEF Twins
<1>3. IsFiniteSet(Twins(m)) /\ Cardinality(Twins(m)) \in Nat
  BY <1>1, <1>2, FS_Subset, FS_CardinalityType
<1> QED BY <1>1, <1>3 DEF Size, Twins

LEMMA RemoveKeyKeeps ==
  ASSUME NEW m, MultiShape(m), NEW k
  PROVE  /\ MultiShape(RemoveKey(m, k))
         /\ DOMAIN RemoveKey(m, k).entries = DOMAIN m.entries \ {k}
         /\ \A j \in DOMAIN m.entries \ {k} : RemoveKey(m, k).entries[j] = m.entries[j]
         /\ Size(RemoveKey(m, k)) <= Size(m)
         /\ k \in DOMAIN m.entries => Size(RemoveKey(m, k)) + 1 <= Size(m)
<1> DEFINE n == RemoveKey(m, k)
<1>1. n = [entries |-> [j \in DOMAIN m.entries \ {k} |-> m.entries[j]],
           lruList |-> RemoveFirst(m.lruList, k)]
  BY DEF RemoveKey, Cached
<1>2. Listed(n)
  BY <1>1, Dropped DEF MultiShape
<1>3. /\ DOMAIN n.entries = DOMAIN m.entries \ {k}
      /\ \A j \in DOMAIN m.entries \ {k} : n.entries[j] = m.entries[j]
      /\ n.entries = [j \in DOMAIN m.entries \ {k} |-> m.entries[j]]
  BY <1>1
<1>4. MultiShape(n)
  BY <1>2, <1>3 DEF MultiShape
<1> HIDE DEF n
<1>5. Listed(m)
  BY DEF MultiShape
<1>6. Cached(n) = Cached(m) \ {k} /\ Twins(n) = Twins(m) \ {k}
  BY <1>3 DEF Cached, Twins
<1>7. Cardinality(Twins(n)) <= Cardinality(Twins(m))
  BY <1>5, <1>6, SizeIs, FS_Subset
<1>8. Cardinality(Cached(n)) <= Cardinality(Cached(m))
  BY <1>5, <1>6, SizeIs, FS_Subset
<1>9. k \in Cached(m) => Cardinality(Cached(n)) = Cardinality(Cached(m)) - 1
  BY <1>5, <1>6, SizeIs, FS_RemoveElement
<1>10. /\ Size(n) = Cardinality(Cached(n)) + Cardinality(Twins(n))
       /\ Size(m) = Cardinality(Cached(m)) + Cardinality(Twins(m))
       /\ Cardinality(Cached(n)) \in Nat /\ Cardinality(Twins(n)) \in Nat
       /\ Cardinality(Cached(m)) \in Nat /\ Cardinality(Twins(m)) \in Nat
  BY <1>2, <1>5, SizeIs
<1>11. Size(n) <= Size(m) /\ (k \in DOMAIN m.entries => Size(n) + 1 <= Size(m))
  BY <1>7, <1>8, <1>9, <1>10 DEF Cached
<1> QED BY <1>3, <1>4, <1>11 DEF n

LEMMA TouchKeeps ==
  ASSUME NEW m, MultiShape(m), NEW k \in DOMAIN m.entries
  PROVE  MultiShape(Touch(m, k)) /\ Touch(m, k).entries = m.entries /\ Size(Touch(m, k)) = Size(m)
<1> DEFINE n == Touch(m, k)
<1>1. n = [entries |-> m.entries, lruList |-> <<k>> \o RemoveFirst(m.lruList, k)]
  <2> DEFINE E == m.entries
             X == <<k>> \o RemoveFirst(m.lruList, k)
  <2>1. n = [m EXCEPT !.lruList = X]
    BY DEF Touch
  <2>2. m = [entries |-> E, lruList |-> m.lruList]
    BY DEF MultiShape, Listed
  <2> HIDE DEF n, E, X
  <2>3. n = [entries |-> E, lruList |-> X]
    BY <2>1, <2>2
  <2> QED BY <2>3 DEF E, X
<1>2. k \in Key /\ DOMAIN m.entries = DOMAIN m.entries \union {k}
  BY DEF MultiShape, Listed
<1>3. Listed(n)
  BY <1>1, <1>2, Fronted DEF MultiShape
<1>4. n.entries = m.entries
  BY <1>1
<1> HIDE DEF n
<1>5. Size(n) = Size(m)
  BY <1>4 DEF Size, Cached
<1> QED BY <1>3, <1>4, <1>5 DEF MultiShape, n

LEMMA PutKeeps ==
  ASSUME NEW m, MultiShape(m), NEW k \in Key, NEW e \in MultiEntry,
         k \in DOMAIN m.entries \/ e.twin = {}
  PROVE  /\ MultiShape(PutEntry(m, k, e))
         /\ DOMAIN PutEntry(m, k, e).entries = DOMAIN m.entries \union {k}
         /\ PutEntry(m, k, e).entries[k] = e
         /\ \A j \in DOMAIN m.entries \ {k} : PutEntry(m, k, e).entries[j] = m.entries[j]
         /\ Size(PutEntry(m, k, e)) <= Size(m) + 1
<1> DEFINE E == [j \in DOMAIN m.entries \union {k} |-> IF j = k THEN e ELSE m.entries[j]]
           n == PutEntry(m, k, e)
<1>1. DOMAIN E = DOMAIN m.entries \union {k} /\ E[k] = e
      /\ \A j \in DOMAIN m.entries \ {k} : E[j] = m.entries[j]
  OBVIOUS
<1>2. E \in [DOMAIN E -> MultiEntry]
  BY DEF MultiShape
<1>3. n = Touch([m EXCEPT !.entries = E], k)
  BY DEF PutEntry, Cached
<1> HIDE DEF E, n
<1>4. /\ n = [entries |-> E, lruList |-> <<k>> \o RemoveFirst(m.lruList, k)]
      /\ Listed(n)
  <2>1. m = [entries |-> m.entries, lruList |-> m.lruList] /\ Listed(m)
    BY DEF MultiShape, Listed
  <2>2. [m EXCEPT !.entries = E] = [entries |-> E, lruList |-> m.lruList]
    BY <2>1
  <2>3. n = [entries |-> E, lruList |-> <<k>> \o RemoveFirst(m.lruList, k)]
    BY <1>3, <2>2 DEF Touch
  <2> QED BY <1>1, <2>1, <2>3, Fronted
<1>5. n.entries = E
  BY <1>4
<1>6. MultiShape(n)
  BY <1>2, <1>4, <1>5 DEF MultiShape
<1>7. Listed(m)
  BY DEF MultiShape
<1>8. Cached(n) = Cached(m) \union {k}
  BY <1>1, <1>5 DEF Cached
<1>9. /\ Size(n) = Cardinality(Cached(n)) + Cardinality(Twins(n))
      /\ Size(m) = Cardinality(Cached(m)) + Cardinality(Twins(m))
      /\ Cardinality(Cached(n)) \in Nat /\ Cardinality(Twins(n)) \in Nat
      /\ Cardinality(Cached(m)) \in Nat /\ Cardinality(Twins(m)) \in Nat
      /\ IsFiniteSet(Cached(m)) /\ IsFiniteSet(Twins(m))
  BY <1>4, <1>7, SizeIs
<1>10. CASE k \in DOMAIN m.entries
  <2>1. Cached(n) = Cached(m)
    BY <1>8, <1>10 DEF Cached
  <2>2. Twins(n) \subseteq Twins(m) \union {k}
    BY <1>1, <1>5 DEF Twins, Cached
  <2>3. IsFiniteSet(Twins(m) \union {k}) /\ Cardinality(Twins(m) \union {k}) <= Cardinality(Twins(m)) + 1
    <3> DEFINE S == Twins(m)
    <3>1. IsFiniteSet(S) /\ Cardinality(S) \in Nat
      BY <1>9
    <3> HIDE DEF S
    <3>2. /\ IsFiniteSet(S \union {k})
          /\ Cardinality(S \union {k}) = Cardinality(S) \/ Cardinality(S \union {k}) = Cardinality(S) + 1
      BY <3>1, FS_AddElement
    <3>3. IsFiniteSet(S \union {k}) /\ Cardinality(S \union {k}) <= Cardinality(S) + 1
      BY <3>1, <3>2
    <3> QED BY <3>3 DEF S
  <2>4. Cardinality(Twins(n)) <= Cardinality(Twins(m) \union {k})
    BY <2>2, <2>3, FS_Subset
  <2>5. Cardinality(Twins(m) \union {k}) \in Nat
    BY <2>3, FS_CardinalityType
  <2>6. Size(n) <= Size(m) + 1
    BY <1>9, <2>1, <2>3, <2>4, <2>5
  <2> QED BY <1>1, <1>5, <1>6, <2>6 DEF n
<1>11. CASE k \notin DOMAIN m.entries
  <2>1. Twins(n) = Twins(m)
    BY <1>1, <1>5, <1>11 DEF Twins, Cached
  <2>2. Cardinality(Cached(n)) <= Cardinality(Cached(m)) + 1
    <3>1. k \notin Cached(m)
      BY <1>11 DEF Cached
    <3>2. Cardinality(Cached(m) \union {k}) = Cardinality(Cached(m)) + 1
      BY <1>9, <3>1, FS_AddElement
    <3> QED BY <1>8, <1>9, <3>2
  <2>3. Size(n) <= Size(m) + 1
    BY <1>9, <2>1, <2>2
  <2> QED BY <1>1, <1>5, <1>6, <2>3 DEF n
<1> QED BY <1>10, <1>11

\* A step hands back what it takes out.
StepOK(m, s) ==
  /\ s = [cache |-> s.cache, out |-> s.out]
  /\ MultiOK(s.cache) /\ s.out \in Seq(Outs)
  /\ \A k, g : Holds(m, k, g) => Holds(s.cache, k, g) \/ Handed(s.out, k, g)

LEMMA RecallKeeps ==
  ASSUME NEW m, MultiShape(m), Size(m) <= pageCapacity + 1
  PROVE  StepOK(m, Recall(m, pageCapacity))
<1>0. pageCapacity \in Nat /\ pageCapacity > 0 /\ Size(m) \in Nat /\ Listed(m)
  BY PageCacheAssumption, SizeIs DEF MultiShape
<1>1. CASE Size(m) <= pageCapacity
  <2>1. Recall(m, pageCapacity) = [cache |-> m, out |-> << >>]
    BY <1>0, <1>1 DEF Recall
  <2> QED BY <1>1, <2>1 DEF StepOK, MultiOK
<1>2. CASE Size(m) > pageCapacity
  <2> DEFINE k0 == Last(m.lruList)
             s == PerformEviction(m)
             e == m.entries[k0]
  <2>1. k0 \in DOMAIN m.entries
    <3>1. DOMAIN m.entries # {}
      <4>1. ASSUME DOMAIN m.entries = {} PROVE FALSE
        <5>1. Cached(m) = {} /\ Twins(m) = {}
          BY <4>1 DEF Cached, Twins
        <5>2. Size(m) = 0
          BY <1>0, <5>1, SizeIs, FS_EmptySet
        <5> QED BY <1>0, <1>2, <5>2
      <4> QED BY <4>1
    <3> QED BY <1>0, <3>1, LastListed
  <2>2. s = [cache |-> RemoveKey(m, k0), out |-> IF IsDirtyKey(m, k0) THEN <<Evicted(m, k0)>> ELSE << >>]
    BY DEF PerformEviction
  <2>3. /\ MultiShape(RemoveKey(m, k0)) /\ Size(RemoveKey(m, k0)) + 1 <= Size(m)
        /\ DOMAIN RemoveKey(m, k0).entries = DOMAIN m.entries \ {k0}
        /\ \A j \in DOMAIN m.entries \ {k0} : RemoveKey(m, k0).entries[j] = m.entries[j]
    BY <2>1, RemoveKeyKeeps
  <2>4. Size(RemoveKey(m, k0)) \in Nat
    BY <2>3, SizeIs DEF MultiShape
  <2>5. MultiOK(RemoveKey(m, k0))
    BY <1>0, <2>3, <2>4 DEF MultiOK
  <2>6. e \in MultiEntry /\ k0 \in Key
    BY <2>1 DEF MultiShape, Listed
  <2>7. Evicted(m, k0) = [key |-> k0, isFull |-> e.isDirty, regions |-> e.twin] /\ Evicted(m, k0) \in Outs
    BY <2>6 DEF Evicted, Outs, MultiEntry
  <2>8. s.out \in Seq(Outs)
    BY <2>2, <2>7
  <2>9. ASSUME NEW k, NEW g, Holds(m, k, g) PROVE Holds(s.cache, k, g) \/ Handed(s.out, k, g)
    <3>1. CASE k # k0
      BY <2>2, <2>3, <2>9, <3>1 DEF Holds
    <3>2. CASE k = k0
      <4>1. IsDirtyKey(m, k0) /\ (e.isDirty \/ g \in e.twin)
        BY <2>9, <3>2 DEF Holds, IsDirtyKey
      <4>2. s.out = <<Evicted(m, k0)>>
        BY <2>2, <4>1
      <4>3. DOMAIN s.out = {1} /\ s.out[1] = Evicted(m, k0)
        BY <4>2
      <4> QED BY <2>7, <3>2, <4>1, <4>3 DEF Handed
    <3> QED BY <3>1, <3>2
  <2>10. Recall(m, pageCapacity) = s
    BY <1>0, <1>2 DEF Recall
  <2> HIDE DEF s
  <2> QED BY <2>2, <2>5, <2>8, <2>9, <2>10 DEF StepOK
<1> QED BY <1>0, <1>1, <1>2

LEMMA InsertFullKeeps ==
  ASSUME NEW m, MultiOK(m), NEW k \in Key, NEW d \in BOOLEAN
  PROVE  StepOK(m, InsertFullPage(m, pageCapacity, k, d))
<1>0. pageCapacity \in Nat /\ Size(m) \in Nat /\ Size(m) <= pageCapacity /\ MultiShape(m) /\ Listed(m)
  BY PageCacheAssumption, SizeIs DEF MultiShape, MultiOK
<1> DEFINE base == IF d THEN RemoveKey(m, k) ELSE m
           n == IF k \in Cached(base) THEN Touch(base, k) ELSE PutEntry(base, k, Entry(d, {}))
<1>1. /\ MultiShape(base) /\ Size(base) <= Size(m)
      /\ \A j \in DOMAIN m.entries : j # k => j \in DOMAIN base.entries /\ base.entries[j] = m.entries[j]
      /\ d => k \notin DOMAIN base.entries
      /\ ~d => base = m
  BY <1>0, RemoveKeyKeeps
<1> HIDE DEF base
<1>2. Size(base) \in Nat
  BY <1>1, SizeIs DEF MultiShape
<1>3. Entry(d, {}) \in MultiEntry /\ Entry(d, {}).twin = {} /\ Entry(d, {}).isDirty = d
  BY NothingIsAPart DEF Entry, MultiEntry
<1>4. /\ MultiShape(n) /\ Size(n) <= pageCapacity + 1
      /\ \A j, g : Holds(m, j, g) => Holds(n, j, g)
  <2>1. CASE k \in DOMAIN base.entries
    <3>1. n = Touch(base, k)
      BY <2>1 DEF Cached
    <3>2. MultiShape(Touch(base, k)) /\ Touch(base, k).entries = base.entries /\ Size(Touch(base, k)) = Size(base)
      BY <1>1, <2>1, TouchKeeps
    <3> HIDE DEF n
    <3> QED BY <1>0, <1>1, <1>2, <2>1, <3>1, <3>2 DEF Holds
  <2>2. CASE k \notin DOMAIN base.entries
    <3>1. n = PutEntry(base, k, Entry(d, {}))
      BY <2>2 DEF Cached
    <3> DEFINE p == PutEntry(base, k, Entry(d, {}))
    <3>2. /\ MultiShape(p) /\ DOMAIN p.entries = DOMAIN base.entries \union {k}
          /\ p.entries[k] = Entry(d, {})
          /\ \A j \in DOMAIN base.entries \ {k} : p.entries[j] = base.entries[j]
          /\ Size(p) <= Size(base) + 1
      BY <1>1, <1>3, PutKeeps
    <3> HIDE DEF n, p
    <3>3. Size(p) \in Nat
      BY <3>2, SizeIs DEF MultiShape
    <3>4. Size(p) <= pageCapacity + 1
      BY <1>0, <1>1, <1>2, <3>2, <3>3
    <3>5. ASSUME NEW j, NEW g, Holds(m, j, g) PROVE Holds(p, j, g)
      <4>1. CASE j = k
        BY <1>1, <1>3, <2>2, <3>2, <3>5, <4>1 DEF Holds
      <4>2. CASE j # k
        BY <1>1, <3>2, <3>5, <4>2 DEF Holds
      <4> QED BY <4>1, <4>2
    <3> QED BY <3>1, <3>2, <3>4, <3>5 DEF p
  <2> QED BY <2>1, <2>2
<1>5. InsertFullPage(m, pageCapacity, k, d) = Recall(n, pageCapacity)
  BY DEF InsertFullPage, base
<1> HIDE DEF n
<1>6. StepOK(n, Recall(n, pageCapacity))
  BY <1>4, RecallKeeps
<1> QED BY <1>4, <1>5, <1>6 DEF StepOK

LEMMA InsertPartKeeps ==
  ASSUME NEW m, MultiOK(m), NEW k \in DOMAIN m.entries, NEW P \in Parts
  PROVE  StepOK(m, InsertPartialPage(m, pageCapacity, k, P))
<1>0. pageCapacity \in Nat /\ Size(m) \in Nat /\ Size(m) <= pageCapacity /\ MultiShape(m) /\ Listed(m)
  BY PageCacheAssumption, SizeIs DEF MultiShape, MultiOK
<1> DEFINE e == m.entries[k]
           e1 == Entry(FALSE, e.twin \union P)
           n == IF e.isDirty THEN Touch(m, k) ELSE PutEntry(m, k, e1)
<1>1. e \in MultiEntry /\ k \in Key
  BY <1>0 DEF MultiShape, Listed
<1>2. e1 \in MultiEntry /\ e1.twin = e.twin \union P /\ e1.isDirty = FALSE
  BY <1>1, PartsJoin DEF Entry, MultiEntry
<1>3. /\ MultiShape(n) /\ Size(n) <= pageCapacity + 1
      /\ \A j, g : Holds(m, j, g) => Holds(n, j, g)
  <2>1. CASE e.isDirty
    <3>1. MultiShape(Touch(m, k)) /\ Touch(m, k).entries = m.entries /\ Size(Touch(m, k)) = Size(m)
      BY <1>0, TouchKeeps
    <3>2. n = Touch(m, k)
      BY <2>1
    <3> HIDE DEF n
    <3> QED BY <1>0, <3>1, <3>2 DEF Holds
  <2>2. CASE ~e.isDirty
    <3> DEFINE p == PutEntry(m, k, e1)
    <3>1. n = p
      BY <2>2
    <3> HIDE DEF e1
    <3>2. /\ MultiShape(p) /\ DOMAIN p.entries = DOMAIN m.entries \union {k}
          /\ p.entries[k] = e1
          /\ \A j \in DOMAIN m.entries \ {k} : p.entries[j] = m.entries[j]
          /\ Size(p) <= Size(m) + 1
      BY <1>0, <1>1, <1>2, PutKeeps
    <3> HIDE DEF n, p
    <3>3. Size(p) \in Nat
      BY <3>2, SizeIs DEF MultiShape
    <3>4. Size(p) <= pageCapacity + 1
      BY <1>0, <3>2, <3>3
    <3>5. ASSUME NEW j, NEW g, Holds(m, j, g) PROVE Holds(p, j, g)
      <4>1. CASE j = k
        BY <1>2, <2>2, <3>2, <3>5, <4>1 DEF Holds
      <4>2. CASE j # k
        BY <3>2, <3>5, <4>2 DEF Holds
      <4> QED BY <4>1, <4>2
    <3> QED BY <3>1, <3>2, <3>4, <3>5
  <2> QED BY <2>1, <2>2
<1>4. InsertPartialPage(m, pageCapacity, k, P) = Recall(n, pageCapacity)
  BY DEF InsertPartialPage
<1> HIDE DEF n
<1>5. StepOK(n, Recall(n, pageCapacity))
  BY <1>3, RecallKeeps
<1> QED BY <1>3, <1>4, <1>5 DEF StepOK
-----------------------------------------------------------------------------
(* The updates of the cache with twins.                                    *)

UpdateOK(u) ==
  /\ u = [cache |-> u.cache, out |-> u.out, ok |-> u.ok]
  /\ MultiOK(u.cache) /\ u.out \in Seq(Outs)

\* What u has to write v has, or hands back.
Kept(u, v) ==
  \A k, g : Holds(u.cache, k, g) \/ Handed(u.out, k, g) => Holds(v.cache, k, g) \/ Handed(v.out, k, g)

LEMMA HandedJoined ==
  ASSUME NEW s \in Seq(Outs), NEW t \in Seq(Outs)
  PROVE  /\ s \o t \in Seq(Outs)
         /\ \A k, g : Handed(s \o t, k, g) <=> Handed(s, k, g) \/ Handed(t, k, g)
<1>1. /\ s \o t \in Seq(Outs) /\ Len(s \o t) = Len(s) + Len(t)
      /\ Len(s) \in Nat /\ Len(t) \in Nat
      /\ DOMAIN s = 1 .. Len(s) /\ DOMAIN t = 1 .. Len(t) /\ DOMAIN (s \o t) = 1 .. Len(s) + Len(t)
      /\ \A i \in 1 .. Len(s) : (s \o t)[i] = s[i]
      /\ \A i \in 1 .. Len(t) : (s \o t)[Len(s) + i] = t[i]
  OBVIOUS
<1> DEFINE st == s \o t
<1> HIDE DEF st
<1>2. ASSUME NEW k, NEW g, Handed(s, k, g) PROVE Handed(st, k, g)
  <2>1. PICK i \in 1 .. Len(s) : s[i].key = k /\ (s[i].isFull \/ g \in s[i].regions)
    BY <1>1, <1>2 DEF Handed
  <2>2. i \in 1 .. Len(s) + Len(t) /\ st[i] = s[i]
    BY <1>1 DEF st
  <2> QED BY <1>1, <2>1, <2>2 DEF Handed, st
<1>3. ASSUME NEW k, NEW g, Handed(t, k, g) PROVE Handed(st, k, g)
  <2>1. PICK i \in 1 .. Len(t) : t[i].key = k /\ (t[i].isFull \/ g \in t[i].regions)
    BY <1>1, <1>3 DEF Handed
  <2>2. Len(s) + i \in 1 .. Len(s) + Len(t) /\ st[Len(s) + i] = t[i]
    BY <1>1 DEF st
  <2> QED BY <1>1, <2>1, <2>2 DEF Handed, st
<1>4. ASSUME NEW k, NEW g, Handed(st, k, g) PROVE Handed(s, k, g) \/ Handed(t, k, g)
  <2>1. PICK i \in 1 .. Len(s) + Len(t) : st[i].key = k /\ (st[i].isFull \/ g \in st[i].regions)
    BY <1>1, <1>4 DEF Handed, st
  <2>2. CASE i <= Len(s)
    <3>1. i \in 1 .. Len(s) /\ st[i] = s[i]
      BY <1>1, <2>2 DEF st
    <3> QED BY <1>1, <2>1, <3>1 DEF Handed
  <2>3. CASE ~(i <= Len(s))
    <3>1. i - Len(s) \in 1 .. Len(t) /\ st[i] = t[i - Len(s)]
      <4>1. i - Len(s) \in 1 .. Len(t) /\ Len(s) + (i - Len(s)) = i
        BY <1>1, <2>3
      <4> QED BY <1>1, <4>1 DEF st
    <3> QED BY <1>1, <2>1, <3>1 DEF Handed
  <2> QED BY <2>2, <2>3
<1> QED BY <1>1, <1>2, <1>3, <1>4 DEF st

LEMMA StepTaken ==
  ASSUME NEW u, UpdateOK(u), NEW s, StepOK(u.cache, s)
  PROVE  UpdateOK(Recalled(u, s)) /\ Kept(u, Recalled(u, s)) /\ Recalled(u, s).ok = u.ok
<1>1. Recalled(u, s) = [cache |-> s.cache, out |-> u.out \o s.out, ok |-> u.ok]
  <2> DEFINE c == u.cache
             o == u.out
             k == u.ok
  <2>1. u = [cache |-> c, out |-> o, ok |-> k]
    BY DEF UpdateOK
  <2> HIDE DEF c, o, k
  <2> DEFINE z == o \o s.out
             r == [cache |-> c, out |-> o, ok |-> k]
             t == [r EXCEPT !.cache = s.cache]
  <2>2. Recalled(r, s) = [r EXCEPT !.cache = s.cache, !.out = r.out \o s.out] /\ r.out = o
    BY DEF Recalled
  <2>3. t = [cache |-> s.cache, out |-> o, ok |-> k]
    OBVIOUS
  <2>4. Recalled(r, s) = [t EXCEPT !.out = z]
    <3> HIDE DEF r
    <3> QED BY <2>2
  <2> HIDE DEF z, t
  <2>5. Recalled(r, s) = [cache |-> s.cache, out |-> z, ok |-> k]
    BY <2>3, <2>4
  <2> QED BY <2>1, <2>5 DEF c, o, k, z
<1>2. u.out \in Seq(Outs) /\ s.out \in Seq(Outs)
  BY DEF UpdateOK, StepOK
<1>3. /\ u.out \o s.out \in Seq(Outs)
      /\ \A k, g : Handed(u.out \o s.out, k, g) <=> Handed(u.out, k, g) \/ Handed(s.out, k, g)
  BY <1>2, HandedJoined
<1> DEFINE v == Recalled(u, s)
<1>4. /\ v = [cache |-> v.cache, out |-> v.out, ok |-> v.ok]
      /\ v.cache = s.cache /\ v.out = u.out \o s.out /\ v.ok = u.ok
  <2> DEFINE o == u.out \o s.out
  <2> HIDE DEF o
  <2>1. v = [cache |-> s.cache, out |-> o, ok |-> u.ok]
    BY <1>1 DEF o
  <2> HIDE DEF v
  <2> QED BY <2>1 DEF o
<1> HIDE DEF v
<1>5. UpdateOK(v)
  BY <1>3, <1>4 DEF UpdateOK, StepOK
<1>6. Kept(u, v)
  BY <1>3, <1>4 DEF Kept, StepOK
<1> QED BY <1>4, <1>5, <1>6 DEF v

LEMMA KeptOn ==
  ASSUME NEW u, NEW v, NEW w, Kept(u, v), Kept(v, w)
  PROVE  Kept(u, w)
BY DEF Kept

LEMMA KeptSame ==
  ASSUME NEW u
  PROVE  Kept(u, u)
BY DEF Kept

LEMMA InsertLeaves ==
  ASSUME NEW u, UpdateOK(u), NEW keys, OfFile(keys), NEW d \in BOOLEAN
  PROVE  /\ UpdateOK(FullInserted(u, keys, d)) /\ Kept(u, FullInserted(u, keys, d))
         /\ FullInserted(u, keys, d).ok = u.ok
<1> DEFINE n == Cardinality(keys)
           q == InOrder(keys)
<1>1. n \in Nat /\ \A i \in 1 .. n : q[i] \in Key
  BY InOrderVisits DEF OfFile
<1>2. PICK g : Runs(g, InsertLoop(d), u, n, q) /\ FullInserted(u, keys, d) = g[n]
  BY InsertRuns
<1>3. g[0] = u /\ \A i \in 1 .. n : g[i] = Read1(g[i - 1], q[i], d)
  BY <1>2 DEF Runs, Do, InsertLoop
<1> HIDE DEF n, q
<1> DEFINE T == {i \in 0 .. n : UpdateOK(g[i]) /\ Kept(u, g[i]) /\ g[i].ok = u.ok}
<1>4. 0 \in T
  BY <1>1, <1>3, KeptSame
<1>5. ASSUME NEW i \in 1 .. n, i - 1 \in T PROVE i \in T
  <2>1. UpdateOK(g[i - 1]) /\ Kept(u, g[i - 1]) /\ g[i - 1].ok = u.ok
    BY <1>5
  <2>2. StepOK(g[i - 1].cache, InsertFullPage(g[i - 1].cache, pageCapacity, q[i], d))
    BY <1>1, <2>1, InsertFullKeeps DEF UpdateOK
  <2>3. UpdateOK(g[i]) /\ Kept(g[i - 1], g[i]) /\ g[i].ok = g[i - 1].ok
    BY <1>3, <2>1, <2>2, StepTaken DEF Read1
  <2> QED BY <1>1, <2>1, <2>3, KeptOn
<1>6. n \in 0 .. n
  BY <1>1
<1>7. n \in T
  <2> HIDE DEF T
  <2> QED BY <1>1, <1>4, <1>5, <1>6, EveryTurn
<1> QED BY <1>2, <1>7

LEMMA PartLeaves ==
  ASSUME NEW u, UpdateOK(u), NEW a \in Accesses, NEW keys, OfFile(keys), keys \subseteq PartialKeys(a)
  PROVE  UpdateOK(UpdatePartial(u, a, keys)) /\ Kept(u, UpdatePartial(u, a, keys))
<1> DEFINE n == Cardinality(keys)
           q == InOrder(keys)
<1>1. n \in Nat /\ \A i \in 1 .. n : q[i] \in keys
  BY InOrderVisits
<1>2. PICK g : Runs(g, PartLoop(a), u, n, q) /\ UpdatePartial(u, a, keys) = g[n]
  BY PartRuns
<1>3. g[0] = u /\ \A i \in 1 .. n : g[i] = Part1(g[i - 1], q[i], a)
  BY <1>2 DEF Runs, Do, PartLoop
<1>4. \A k \in keys : a.part[k.key] \in Parts
  BY PartsOfAccess DEF PartialKeys, KeysOf
<1> HIDE DEF n, q
<1> DEFINE T == {i \in 0 .. n : UpdateOK(g[i]) /\ Kept(u, g[i])}
<1>5. 0 \in T
  BY <1>1, <1>3, KeptSame
<1>6. ASSUME NEW i \in 1 .. n, i - 1 \in T PROVE i \in T
  <2> DEFINE v == g[i - 1]
  <2>1. UpdateOK(v) /\ Kept(u, v)
    BY <1>6
  <2>2. g[i] = Part1(v, q[i], a) /\ q[i] \in keys
    BY <1>1, <1>3
  <2> HIDE DEF v
  <2>3. UpdateOK(g[i]) /\ Kept(v, g[i])
    <3>1. CASE ~v.ok \/ ~CanInsertPartial(v.cache, q[i])
      <4>1. g[i] = [v EXCEPT !.ok = FALSE]
        BY <2>2, <3>1 DEF Part1
      <4>2. g[i] = [cache |-> v.cache, out |-> v.out, ok |-> FALSE]
        BY <2>1, <4>1 DEF UpdateOK
      <4> QED BY <2>1, <4>2 DEF UpdateOK, Kept
    <3>2. CASE ~(~v.ok \/ ~CanInsertPartial(v.cache, q[i]))
      <4>1. q[i] \in DOMAIN v.cache.entries
        BY <3>2 DEF CanInsertPartial, Cached
      <4>2. StepOK(v.cache, InsertPartialPage(v.cache, pageCapacity, q[i], a.part[q[i].key]))
        BY <1>4, <2>1, <2>2, <4>1, InsertPartKeeps DEF UpdateOK
      <4>3. g[i] = Recalled(v, InsertPartialPage(v.cache, pageCapacity, q[i], a.part[q[i].key]))
        BY <2>2, <3>2 DEF Part1
      <4> QED BY <2>1, <4>2, <4>3, StepTaken
    <3> QED BY <3>1, <3>2
  <2> QED BY <2>1, <2>3, KeptOn
<1>7. n \in 0 .. n
  BY <1>1
<1>8. n \in T
  <2> HIDE DEF T
  <2> QED BY <1>1, <1>5, <1>6, <1>7, EveryTurn
<1> QED BY <1>2, <1>8

\* A cache that has to write what another has.
Same(m, n) == MultiOK(n) /\ \A k, g : Holds(m, k, g) => Holds(n, k, g)

LEMMA LookupLeaves ==
  ASSUME NEW m, MultiOK(m), NEW keys, OfFile(keys)
  PROVE  Same(m, LookupPages(m, keys))
<1> DEFINE n == Cardinality(keys)
           q == InOrder(keys)
<1>1. n \in Nat
  BY InOrderVisits
<1>2. PICK g : Runs(g, LookupLoop, m, n, q) /\ LookupPages(m, keys) = g[n]
  BY LookupRuns
<1>3. g[0] = m /\ \A i \in 1 .. n : g[i] = LookupKey(g[i - 1], q[i])
  BY <1>2 DEF Runs, Do, LookupLoop
<1> HIDE DEF n, q
<1> DEFINE T == {i \in 0 .. n : Same(m, g[i])}
<1>4. 0 \in T
  BY <1>1, <1>3 DEF Same
<1>5. ASSUME NEW i \in 1 .. n, i - 1 \in T PROVE i \in T
  <2> DEFINE x == g[i - 1]
  <2>1. Same(m, x) /\ g[i] = LookupKey(x, q[i])
    BY <1>3, <1>5
  <2> HIDE DEF x
  <2>2. CASE q[i] \in DOMAIN x.entries
    <3>1. g[i] = Touch(x, q[i])
      BY <2>1, <2>2 DEF LookupKey, Cached
    <3>2. MultiShape(g[i]) /\ g[i].entries = x.entries /\ Size(g[i]) = Size(x)
      BY <2>1, <2>2, <3>1, TouchKeeps DEF Same, MultiOK
    <3> QED BY <2>1, <3>2 DEF Same, MultiOK, Holds
  <2>3. CASE q[i] \notin DOMAIN x.entries
    <3>1. g[i] = x
      BY <2>1, <2>3 DEF LookupKey, Cached
    <3> QED BY <2>1, <3>1
  <2> QED BY <2>2, <2>3
<1>6. n \in 0 .. n
  BY <1>1
<1>7. n \in T
  <2> HIDE DEF T
  <2> QED BY <1>1, <1>4, <1>5, <1>6, EveryTurn
<1> QED BY <1>2, <1>7

\* The flush of a file leaves the other files' pages.
LEMMA FlushLeaves ==
  ASSUME MultiOK(lruCache), NEW f \in Files
  PROVE  /\ MultiOK(FlushCache(f))
         /\ \A k, g : Holds(lruCache, k, g) => Holds(FlushCache(f), k, g) \/ k.filename = f
<1> DEFINE keys == {k \in Cached(lruCache) : k.filename = f}
           n == Cardinality(keys)
           q == InOrder(keys)
<1>1. OfFile(keys)
  <2>1. DOMAIN lruCache.entries \subseteq Key /\ IsFiniteSet(DOMAIN lruCache.entries)
    BY ListedCounts DEF MultiOK, MultiShape, Listed
  <2>2. keys \subseteq DOMAIN lruCache.entries /\ \A k \in keys : k.filename = f
    BY DEF Cached
  <2>3. IsFiniteSet(keys)
    BY <2>1, <2>2, FS_Subset
  <2> QED BY <2>1, <2>2, <2>3 DEF OfFile
<1>2. n \in Nat /\ \A i \in 1 .. n : q[i] \in keys
  BY <1>1, InOrderVisits
<1>3. PICK g : Runs(g, FlushLoop, lruCache, n, q) /\ FlushCache(f) = g[n]
  BY <1>1, FlushRuns
<1>4. g[0] = lruCache /\ \A i \in 1 .. n : g[i] = RemoveKey(g[i - 1], q[i])
  BY <1>3 DEF Runs, Do, FlushLoop
<1>5. \A k \in keys : k.filename = f
  OBVIOUS
<1> HIDE DEF n, q, keys
<1> DEFINE T == {i \in 0 .. n : /\ MultiOK(g[i])
                                /\ \A k, x : Holds(lruCache, k, x) => Holds(g[i], k, x) \/ k.filename = f}
<1>6. 0 \in T
  BY <1>2, <1>4
<1>7. ASSUME NEW i \in 1 .. n, i - 1 \in T PROVE i \in T
  <2> DEFINE m == g[i - 1]
  <2>1. /\ MultiOK(m) /\ \A k, x : Holds(lruCache, k, x) => Holds(m, k, x) \/ k.filename = f
        /\ g[i] = RemoveKey(m, q[i]) /\ q[i].filename = f
    BY <1>2, <1>4, <1>5, <1>7
  <2> HIDE DEF m
  <2>2. /\ MultiShape(g[i]) /\ Size(g[i]) <= Size(m)
        /\ DOMAIN g[i].entries = DOMAIN m.entries \ {q[i]}
        /\ \A j \in DOMAIN m.entries \ {q[i]} : g[i].entries[j] = m.entries[j]
    BY <2>1, RemoveKeyKeeps DEF MultiOK
  <2>3. MultiOK(g[i])
    <3>1. Size(g[i]) \in Nat /\ Size(m) \in Nat /\ pageCapacity \in Nat /\ Size(m) <= pageCapacity
      BY <2>1, <2>2, SizeIs, PageCacheAssumption DEF MultiOK, MultiShape
    <3> QED BY <2>2, <3>1 DEF MultiOK
  <2>4. ASSUME NEW k, NEW x, Holds(m, k, x), k # q[i] PROVE Holds(g[i], k, x)
    BY <2>2, <2>4 DEF Holds
  <2>5. \A k, x : Holds(lruCache, k, x) => Holds(g[i], k, x) \/ k.filename = f
    BY <2>1, <2>4
  <2> QED BY <2>3, <2>5
<1>8. n \in 0 .. n
  BY <1>2
<1>9. n \in T
  <2> HIDE DEF T
  <2> QED BY <1>2, <1>6, <1>7, <1>8, EveryTurn
<1> QED BY <1>3, <1>9

\* The dirty pages of a file are handed over.
LEMMA DirtyHanded ==
  ASSUME MultiOK(lruCache), NEW f \in Files
  PROVE  /\ DirtyPages(f) \in Seq(Outs)
         /\ \A k, g : Holds(lruCache, k, g) /\ k.filename = f => Handed(DirtyPages(f), k, g)
<1> DEFINE keys == {k \in DirtyKeys(lruCache) : k.filename = f}
           n == Cardinality(keys)
           q == InOrder(keys)
           out == DirtyPages(f)
<1>1. OfFile(keys)
  <2>1. DOMAIN lruCache.entries \subseteq Key /\ IsFiniteSet(DOMAIN lruCache.entries)
    BY ListedCounts DEF MultiOK, MultiShape, Listed
  <2>2. keys \subseteq DOMAIN lruCache.entries /\ \A k \in keys : k.filename = f
    BY DEF Cached, DirtyKeys
  <2>3. IsFiniteSet(keys)
    BY <2>1, <2>2, FS_Subset
  <2> QED BY <2>1, <2>2, <2>3 DEF OfFile
<1>2. /\ n \in Nat /\ q \in [1 .. n -> keys]
      /\ \A k \in keys : \E i \in 1 .. n : q[i] = k
  BY <1>1, InOrderVisits
<1>3. \A k \in keys : k \in DOMAIN lruCache.entries /\ k \in Key
  BY DEF DirtyKeys, Cached, MultiOK, MultiShape, Listed
<1>4. \A k \in DOMAIN lruCache.entries : k.filename = f /\ IsDirtyKey(lruCache, k) => k \in keys
  BY DEF DirtyKeys, Cached
<1>5. out = [i \in DOMAIN q |-> Evicted(lruCache, q[i])]
  BY DEF DirtyPages
<1> HIDE DEF n, q, keys
<1>6. DOMAIN out = 1 .. n /\ \A i \in 1 .. n : out[i] = Evicted(lruCache, q[i])
  BY <1>2, <1>5
<1>7. \A k \in DOMAIN lruCache.entries : lruCache.entries[k] \in MultiEntry
  BY DEF MultiOK, MultiShape
<1>8. \A k \in keys : /\ Evicted(lruCache, k) \in Outs /\ Evicted(lruCache, k).key = k
                      /\ Evicted(lruCache, k).isFull = lruCache.entries[k].isDirty
                      /\ Evicted(lruCache, k).regions = lruCache.entries[k].twin
  BY <1>3, <1>7 DEF Evicted, Outs, MultiEntry
<1>9. out \in Seq(Outs)
  <2>1. out \in [1 .. n -> Outs]
    BY <1>2, <1>5, <1>6, <1>8
  <2> QED BY <1>2, <2>1
<1>10. ASSUME NEW k, NEW g, Holds(lruCache, k, g), k.filename = f PROVE Handed(out, k, g)
  <2>1. k \in keys
    BY <1>4, <1>10 DEF Holds, IsDirtyKey
  <2>2. PICK i \in 1 .. n : q[i] = k
    BY <1>2, <2>1
  <2>3. out[i].key = k /\ (out[i].isFull \/ g \in out[i].regions)
    BY <1>6, <1>8, <1>10, <2>1, <2>2 DEF Holds
  <2> QED BY <1>6, <2>3 DEF Handed
<1> QED BY <1>9, <1>10
-----------------------------------------------------------------------------
(* ProgressivePageCache: the same of its pages.                            *)

Pieces == {Whole} \union UNION {{a.part[p] : p \in DOMAIN a.part} : a \in Accesses}

PageEntry == [regions : Pieces, isDirty : BOOLEAN]

PageOuts == [key : Key, regions : Pieces]

PagesShape(m) == Listed(m) /\ m.entries \in [DOMAIN m.entries -> PageEntry]

PagesOK(m) == PagesShape(m) /\ Cardinality(CachedPages(m)) <= pageCapacity

HoldsPage(m, k, g) == k \in DOMAIN m.entries /\ m.entries[k].isDirty /\ g \in m.entries[k].regions

HandedPage(out, k, g) == \E i \in DOMAIN out : out[i].key = k /\ g \in out[i].regions

PageStepOK(m, s) ==
  /\ s = [cache |-> s.cache, out |-> s.out]
  /\ PagesOK(s.cache) /\ s.out \in Seq(PageOuts)
  /\ \A k, g : HoldsPage(m, k, g) => HoldsPage(s.cache, k, g) \/ HandedPage(s.out, k, g)

LEMMA RemovePageKeeps ==
  ASSUME NEW m, PagesShape(m), NEW k
  PROVE  /\ PagesShape(RemovePage(m, k))
         /\ DOMAIN RemovePage(m, k).entries = DOMAIN m.entries \ {k}
         /\ \A j \in DOMAIN m.entries \ {k} : RemovePage(m, k).entries[j] = m.entries[j]
<1> DEFINE n == RemovePage(m, k)
<1>1. n = [entries |-> [j \in DOMAIN m.entries \ {k} |-> m.entries[j]],
           lruList |-> RemoveFirst(m.lruList, k)]
  BY DEF RemovePage, CachedPages
<1>2. Listed(n)
  BY <1>1, Dropped DEF PagesShape
<1>3. /\ DOMAIN n.entries = DOMAIN m.entries \ {k}
      /\ \A j \in DOMAIN m.entries \ {k} : n.entries[j] = m.entries[j]
      /\ n.entries = [j \in DOMAIN m.entries \ {k} |-> m.entries[j]]
  BY <1>1
<1> QED BY <1>2, <1>3 DEF PagesShape

\* The page at the front of the list, with an entry E gives it.
LEMMA PageFronted ==
  ASSUME NEW m, PagesShape(m), NEW k \in Key, NEW E, DOMAIN E = DOMAIN m.entries \union {k},
         E \in [DOMAIN E -> PageEntry]
  PROVE  PagesShape([entries |-> E, lruList |-> <<k>> \o RemoveFirst(m.lruList, k)])
<1> DEFINE n == [entries |-> E, lruList |-> <<k>> \o RemoveFirst(m.lruList, k)]
<1>1. Listed(n)
  BY Fronted DEF PagesShape
<1>2. n.entries = E
  OBVIOUS
<1> QED BY <1>1, <1>2 DEF PagesShape

LEMMA MergePageKeeps ==
  ASSUME NEW m, PagesShape(m), NEW k \in DOMAIN m.entries, NEW regions, NEW d \in BOOLEAN
  PROVE  LET n == MergePage(m, k, regions, d)
         IN  /\ PagesShape(n) /\ DOMAIN n.entries = DOMAIN m.entries
             /\ \A j, g : HoldsPage(m, j, g) => HoldsPage(n, j, g)
<1> DEFINE list == <<k>> \o RemoveFirst(m.lruList, k)
           f == MoveToFront(m, k)
           e == m.entries[k]
           e1 == [regions |-> e.regions, isDirty |-> e.isDirty \/ d]
           E == [m.entries EXCEPT ![k] = e1]
           n == MergePage(m, k, regions, d)
<1>1. /\ m = [entries |-> m.entries, lruList |-> m.lruList]
      /\ m.entries \in [DOMAIN m.entries -> PageEntry] /\ k \in Key
  BY DEF PagesShape, Listed
<1>2. e = [regions |-> e.regions, isDirty |-> e.isDirty] /\ e.isDirty \in BOOLEAN /\ e.regions \in Pieces
  BY <1>1 DEF PageEntry
<1> HIDE DEF list
<1>3. f = [entries |-> m.entries, lruList |-> list]
  <2>1. [m EXCEPT !.lruList = list] = [entries |-> m.entries, lruList |-> list]
    BY <1>1
  <2> QED BY <2>1 DEF MoveToFront, list
<1> HIDE DEF f
<1>4. n = [f EXCEPT !.entries[k].isDirty = @ \/ d]
  BY DEF MergePage, f
<1>5. n = [f EXCEPT !.entries = [f.entries EXCEPT ![k] = [f.entries[k] EXCEPT !.isDirty = f.entries[k].isDirty \/ d]]]
  BY <1>4
<1>6. [e EXCEPT !.isDirty = e.isDirty \/ d] = e1
  <2> DEFINE r == e.regions
             b == e.isDirty
             z == e.isDirty \/ d
  <2>1. e = [regions |-> r, isDirty |-> b]
    BY <1>2
  <2> HIDE DEF e, r, b, z
  <2>2. [e EXCEPT !.isDirty = z] = [regions |-> r, isDirty |-> z]
    BY <2>1
  <2> QED BY <2>2 DEF z, r
<1>7. f.entries = m.entries
  BY <1>3
<1> HIDE DEF e1, n
<1>8. n = [f EXCEPT !.entries = E]
  BY <1>5, <1>6, <1>7
<1>9. e1 \in PageEntry /\ e1.regions = e.regions /\ e1.isDirty = (e.isDirty \/ d)
  BY <1>2 DEF PageEntry, e1
<1> HIDE DEF e
<1>10. DOMAIN E = DOMAIN m.entries /\ E \in [DOMAIN E -> PageEntry] /\ E[k] = e1
       /\ \A j \in DOMAIN m.entries \ {k} : E[j] = m.entries[j]
  BY <1>1, <1>9
<1> HIDE DEF E
<1>11. n = [entries |-> E, lruList |-> list]
  BY <1>3, <1>8
<1>12. PagesShape(n)
  <2>1. DOMAIN E = DOMAIN m.entries \union {k}
    BY <1>10
  <2> QED BY <1>1, <1>10, <1>11, <2>1, PageFronted DEF list
<1>13. n.entries = E
  BY <1>11
<1>14. ASSUME NEW j, NEW g, HoldsPage(m, j, g) PROVE HoldsPage(n, j, g)
  <2>1. CASE j = k
    BY <1>9, <1>10, <1>13, <1>14, <2>1 DEF HoldsPage, e
  <2>2. CASE j # k
    BY <1>10, <1>13, <1>14, <2>2 DEF HoldsPage
  <2> QED BY <2>1, <2>2
<1> QED BY <1>10, <1>12, <1>13, <1>14 DEF n

LEMMA AddPageKeeps ==
  ASSUME NEW m, PagesShape(m), NEW k \in Key \ DOMAIN m.entries, NEW regions \in Pieces, NEW d \in BOOLEAN
  PROVE  LET n == AddPage(m, k, regions, d)
         IN  /\ PagesShape(n) /\ DOMAIN n.entries = DOMAIN m.entries \union {k}
             /\ \A j, g : HoldsPage(m, j, g) => HoldsPage(n, j, g)
<1> DEFINE E == [j \in DOMAIN m.entries \union {k} |->
                   IF j = k THEN [regions |-> regions, isDirty |-> d] ELSE m.entries[j]]
           n == AddPage(m, k, regions, d)
<1>1. m.entries \in [DOMAIN m.entries -> PageEntry] /\ ToSet(m.lruList) = DOMAIN m.entries
  BY DEF PagesShape, Listed
<1>2. RemoveFirst(m.lruList, k) = m.lruList
  BY <1>1 DEF RemoveFirst, ToSet
<1>3. n = [entries |-> E, lruList |-> <<k>> \o RemoveFirst(m.lruList, k)]
  BY <1>2 DEF AddPage, CachedPages
<1>4. /\ DOMAIN E = DOMAIN m.entries \union {k} /\ E \in [DOMAIN E -> PageEntry]
      /\ \A j \in DOMAIN m.entries : E[j] = m.entries[j]
  BY <1>1 DEF PageEntry
<1> HIDE DEF E, n
<1>5. PagesShape(n)
  BY <1>3, <1>4, PageFronted
<1>6. n.entries = E
  BY <1>3
<1>7. \A j, g : HoldsPage(m, j, g) => HoldsPage(n, j, g)
  BY <1>4, <1>6 DEF HoldsPage
<1> QED BY <1>4, <1>5, <1>6, <1>7 DEF n

LEMMA EvictPageKeeps ==
  ASSUME NEW m, PagesShape(m), Cardinality(DOMAIN m.entries) <= pageCapacity + 1, DOMAIN m.entries # {}
  PROVE  PageStepOK(m, EvictPage(m))
<1> DEFINE k0 == Last(m.lruList)
           s == EvictPage(m)
           e == m.entries[k0]
<1>0. Listed(m) /\ pageCapacity \in Nat
  BY PageCacheAssumption DEF PagesShape
<1>1. k0 \in DOMAIN m.entries
  BY <1>0, LastListed
<1>2. s = [cache |-> RemovePage(m, k0), out |-> IF e.isDirty THEN <<Recollected(m, k0)>> ELSE << >>]
  BY DEF EvictPage
<1>3. /\ PagesShape(RemovePage(m, k0))
      /\ DOMAIN RemovePage(m, k0).entries = DOMAIN m.entries \ {k0}
      /\ \A j \in DOMAIN m.entries \ {k0} : RemovePage(m, k0).entries[j] = m.entries[j]
  BY RemovePageKeeps
<1>4. PagesOK(RemovePage(m, k0))
  <2>1. IsFiniteSet(DOMAIN m.entries) /\ Cardinality(DOMAIN m.entries) \in Nat
    BY <1>0, ListedCounts
  <2>2. Cardinality(DOMAIN m.entries \ {k0}) = Cardinality(DOMAIN m.entries) - 1
    BY <1>1, <2>1, FS_RemoveElement
  <2> QED BY <1>0, <1>3, <2>1, <2>2 DEF PagesOK, CachedPages
<1>5. e \in PageEntry /\ k0 \in Key
  BY <1>1 DEF PagesShape, Listed
<1>6. Recollected(m, k0) = [key |-> k0, regions |-> e.regions] /\ Recollected(m, k0) \in PageOuts
  BY <1>5 DEF Recollected, PageOuts, PageEntry
<1>7. s.out \in Seq(PageOuts)
  BY <1>2, <1>6
<1>8. ASSUME NEW k, NEW g, HoldsPage(m, k, g) PROVE HoldsPage(s.cache, k, g) \/ HandedPage(s.out, k, g)
  <2>1. CASE k # k0
    BY <1>2, <1>3, <1>8, <2>1 DEF HoldsPage
  <2>2. CASE k = k0
    <3>1. e.isDirty /\ g \in e.regions
      BY <1>8, <2>2 DEF HoldsPage
    <3>2. s.out = <<Recollected(m, k0)>>
      BY <1>2, <3>1
    <3>3. DOMAIN s.out = {1} /\ s.out[1] = Recollected(m, k0)
      BY <3>2
    <3> QED BY <1>6, <2>2, <3>1, <3>3 DEF HandedPage
  <2> QED BY <2>1, <2>2
<1> HIDE DEF s
<1> QED BY <1>2, <1>4, <1>7, <1>8 DEF PageStepOK, s

LEMMA InsertPageKeeps ==
  ASSUME NEW m, PagesOK(m), NEW k \in Key, NEW regions \in Pieces, NEW d \in BOOLEAN
  PROVE  PageStepOK(m, InsertPageAndRecall(m, pageCapacity, k, regions, d))
<1> DEFINE n == IF k \in CachedPages(m) THEN MergePage(m, k, regions, d) ELSE AddPage(m, k, regions, d)
           s == InsertPageAndRecall(m, pageCapacity, k, regions, d)
<1>0. PagesShape(m) /\ Listed(m) /\ pageCapacity \in Nat /\ pageCapacity > 0
  BY PageCacheAssumption DEF PagesOK, PagesShape
<1>1. /\ IsFiniteSet(DOMAIN m.entries) /\ Cardinality(DOMAIN m.entries) \in Nat
      /\ Cardinality(DOMAIN m.entries) <= pageCapacity
  BY <1>0, ListedCounts DEF PagesOK, CachedPages
<1>2. /\ PagesShape(n) /\ Cardinality(DOMAIN n.entries) <= pageCapacity + 1
      /\ \A j, g : HoldsPage(m, j, g) => HoldsPage(n, j, g)
  <2>1. CASE k \in DOMAIN m.entries
    <3>1. n = MergePage(m, k, regions, d)
      BY <2>1 DEF CachedPages
    <3> HIDE DEF n
    <3> QED BY <1>0, <1>1, <2>1, <3>1, MergePageKeeps
  <2>2. CASE k \notin DOMAIN m.entries
    <3>1. n = AddPage(m, k, regions, d)
      BY <2>2 DEF CachedPages
    <3> HIDE DEF n
    <3>2. /\ PagesShape(n) /\ DOMAIN n.entries = DOMAIN m.entries \union {k}
          /\ \A j, g : HoldsPage(m, j, g) => HoldsPage(n, j, g)
      BY <1>0, <2>2, <3>1, AddPageKeeps
    <3>3. Cardinality(DOMAIN m.entries \union {k}) = Cardinality(DOMAIN m.entries) + 1
      BY <1>1, <2>2, FS_AddElement
    <3> QED BY <1>0, <1>1, <3>2, <3>3
  <2> QED BY <2>1, <2>2
<1>3. s = IF Cardinality(CachedPages(n)) > pageCapacity THEN EvictPage(n) ELSE [cache |-> n, out |-> << >>]
  BY DEF InsertPageAndRecall
<1> HIDE DEF n, s
<1>4. Cardinality(CachedPages(n)) \in Nat
  BY <1>2, ListedCounts DEF PagesShape, CachedPages
<1>5. CASE Cardinality(CachedPages(n)) > pageCapacity
  <2>1. DOMAIN n.entries # {}
    <3>1. ASSUME DOMAIN n.entries = {} PROVE FALSE
      <4>1. Cardinality(CachedPages(n)) = 0
        BY <3>1, FS_EmptySet DEF CachedPages
      <4> QED BY <1>0, <1>5, <4>1
    <3> QED BY <3>1
  <2>2. PageStepOK(n, s)
    BY <1>2, <1>3, <1>5, <2>1, EvictPageKeeps
  <2> QED BY <1>2, <2>2 DEF PageStepOK, s
<1>6. CASE ~(Cardinality(CachedPages(n)) > pageCapacity)
  <2>1. s = [cache |-> n, out |-> << >>] /\ PagesOK(n)
    BY <1>0, <1>2, <1>3, <1>4, <1>6 DEF PagesOK
  <2> QED BY <1>2, <2>1 DEF PageStepOK, s
<1> QED BY <1>5, <1>6
-----------------------------------------------------------------------------
(* The updates of the progressive cache.                                   *)

PageUpdateOK(u) ==
  u = [cache |-> u.cache, out |-> u.out] /\ PagesOK(u.cache) /\ u.out \in Seq(PageOuts)

PagesKept(m, u) ==
  \A k, g : HoldsPage(m, k, g) => HoldsPage(u.cache, k, g) \/ HandedPage(u.out, k, g)

LEMMA HandedPageJoined ==
  ASSUME NEW s \in Seq(PageOuts), NEW t \in Seq(PageOuts)
  PROVE  /\ s \o t \in Seq(PageOuts)
         /\ \A k, g : HandedPage(s, k, g) \/ HandedPage(t, k, g) => HandedPage(s \o t, k, g)
<1>1. /\ s \o t \in Seq(PageOuts) /\ Len(s \o t) = Len(s) + Len(t)
      /\ Len(s) \in Nat /\ Len(t) \in Nat
      /\ DOMAIN s = 1 .. Len(s) /\ DOMAIN t = 1 .. Len(t) /\ DOMAIN (s \o t) = 1 .. Len(s) + Len(t)
      /\ \A i \in 1 .. Len(s) : (s \o t)[i] = s[i]
      /\ \A i \in 1 .. Len(t) : (s \o t)[Len(s) + i] = t[i]
  OBVIOUS
<1> DEFINE st == s \o t
<1> HIDE DEF st
<1>2. ASSUME NEW k, NEW g, HandedPage(s, k, g) PROVE HandedPage(st, k, g)
  <2>1. PICK i \in 1 .. Len(s) : s[i].key = k /\ g \in s[i].regions
    BY <1>1, <1>2 DEF HandedPage
  <2>2. i \in 1 .. Len(s) + Len(t) /\ st[i] = s[i]
    BY <1>1 DEF st
  <2> QED BY <1>1, <2>1, <2>2 DEF HandedPage, st
<1>3. ASSUME NEW k, NEW g, HandedPage(t, k, g) PROVE HandedPage(st, k, g)
  <2>1. PICK i \in 1 .. Len(t) : t[i].key = k /\ g \in t[i].regions
    BY <1>1, <1>3 DEF HandedPage
  <2>2. Len(s) + i \in 1 .. Len(s) + Len(t) /\ st[Len(s) + i] = t[i]
    BY <1>1 DEF st
  <2> QED BY <1>1, <2>1, <2>2 DEF HandedPage, st
<1> QED BY <1>1, <1>2, <1>3 DEF st

\* One turn of an update.
LEMMA PageTurn ==
  ASSUME NEW m, NEW u, PageUpdateOK(u), PagesKept(m, u),
         NEW k \in Key, NEW regions \in Pieces, NEW d \in BOOLEAN
  PROVE  PageUpdateOK(Page1(u, k, regions, d)) /\ PagesKept(m, Page1(u, k, regions, d))
<1> DEFINE s == InsertPageAndRecall(u.cache, pageCapacity, k, regions, d)
           v == Page1(u, k, regions, d)
<1>1. PageStepOK(u.cache, s)
  BY InsertPageKeeps DEF PageUpdateOK
<1>2. v = [cache |-> s.cache, out |-> u.out \o s.out]
  BY DEF Page1, UpdateStep
<1> HIDE DEF s
<1>3. /\ u.out \o s.out \in Seq(PageOuts)
      /\ \A j, g : HandedPage(u.out, j, g) \/ HandedPage(s.out, j, g) => HandedPage(u.out \o s.out, j, g)
  BY <1>1, HandedPageJoined DEF PageUpdateOK, PageStepOK
<1> DEFINE o == u.out \o s.out
<1> HIDE DEF v, o
<1>4. v = [cache |-> v.cache, out |-> v.out] /\ v.cache = s.cache /\ v.out = o
  <2>1. v = [cache |-> s.cache, out |-> o]
    BY <1>2 DEF o
  <2> QED BY <2>1
<1>5. PageUpdateOK(v)
  BY <1>1, <1>3, <1>4 DEF PageUpdateOK, PageStepOK, o
<1>6. PagesKept(m, v)
  BY <1>1, <1>3, <1>4 DEF PagesKept, PageStepOK, o
<1> QED BY <1>5, <1>6 DEF v

LEMMA NoUpdateOK ==
  ASSUME PagesOK(lruCache)
  PROVE  PageUpdateOK(NoUpdate) /\ PagesKept(lruCache, NoUpdate)
<1>1. /\ NoUpdate = [cache |-> NoUpdate.cache, out |-> NoUpdate.out]
      /\ NoUpdate.cache = lruCache /\ NoUpdate.out = << >>
  BY DEF NoUpdate
<1>2. << >> \in Seq(PageOuts)
  OBVIOUS
<1> QED BY <1>1, <1>2 DEF PageUpdateOK, PagesKept

LEMMA ReadsLeave ==
  ASSUME PagesOK(lruCache), NEW keys, OfFile(keys)
  PROVE  PageUpdateOK(UpdateWithReads(keys)) /\ PagesKept(lruCache, UpdateWithReads(keys))
<1> DEFINE n == Cardinality(keys)
           q == InOrder(keys)
<1>1. n \in Nat /\ \A i \in 1 .. n : q[i] \in Key
  BY InOrderVisits DEF OfFile
<1>2. PICK g : Runs(g, ReadsLoop, NoUpdate, n, q) /\ UpdateWithReads(keys) = g[n]
  BY ReadsRuns
<1>3. g[0] = NoUpdate /\ \A i \in 1 .. n : g[i] = Page1(g[i - 1], q[i], Whole, FALSE)
  BY <1>2 DEF Runs, Do, ReadsLoop
<1> HIDE DEF n, q
<1> DEFINE T == {i \in 0 .. n : PageUpdateOK(g[i]) /\ PagesKept(lruCache, g[i])}
<1>4. 0 \in T
  BY <1>1, <1>3, NoUpdateOK
<1>5. Whole \in Pieces
  BY DEF Pieces
<1>6. ASSUME NEW i \in 1 .. n, i - 1 \in T PROVE i \in T
  <2>1. PageUpdateOK(g[i - 1]) /\ PagesKept(lruCache, g[i - 1]) /\ q[i] \in Key
    BY <1>1, <1>6
  <2>2. PageUpdateOK(Page1(g[i - 1], q[i], Whole, FALSE)) /\ PagesKept(lruCache, Page1(g[i - 1], q[i], Whole, FALSE))
    BY <1>5, <2>1, PageTurn
  <2>3. g[i] = Page1(g[i - 1], q[i], Whole, FALSE) /\ i \in 0 .. n
    <3>1. i \in 0 .. n
      BY <1>1
    <3> QED BY <1>3, <3>1, Zenon
  <2>4. PageUpdateOK(g[i]) /\ PagesKept(lruCache, g[i])
    BY <2>2, <2>3
  <2> QED BY <2>3, <2>4
<1>7. n \in 0 .. n
  BY <1>1
<1>8. n \in T
  <2> HIDE DEF T
  <2> QED BY <1>1, <1>4, <1>6, <1>7, EveryTurn
<1> QED BY <1>2, <1>8

LEMMA ImageFinite ==
  ASSUME NEW f, IsFiniteSet(DOMAIN f)
  PROVE  IsFiniteSet({f[x] : x \in DOMAIN f})
<1>1. [x \in DOMAIN f |-> f[x]] \in Surjection(DOMAIN f, {f[x] : x \in DOMAIN f})
  BY DEF Surjection
<1> QED BY <1>1, FS_Surjection

LEMMA AccessOfFile ==
  ASSUME NEW a \in Accesses
  PROVE  /\ OfFile(AllKeys(a)) /\ OfFile(FullKeys(a)) /\ OfFile(PartialKeys(a))
         /\ \A k \in AllKeys(a) : k.filename = a.file
<1>1. /\ a.file \in Files /\ a.full \subseteq Nat /\ IsFiniteSet(a.full)
      /\ DOMAIN a.part \subseteq Nat /\ IsFiniteSet(DOMAIN a.part)
  BY PageCacheAssumption
<1>2. ASSUME NEW P \in SUBSET Nat, IsFiniteSet(P)
      PROVE  IsFiniteSet(KeysOf(a.file, P)) /\ KeysOf(a.file, P) \in SUBSET Key
             /\ \A k \in KeysOf(a.file, P) : k.filename = a.file
  <2>1. IsFiniteSet({[filename |-> a.file, key |-> p] : p \in P})
    <3> DEFINE g == [p \in P |-> [filename |-> a.file, key |-> p]]
    <3>1. IsFiniteSet({g[p] : p \in DOMAIN g})
      BY <1>2, ImageFinite
    <3>2. {g[p] : p \in DOMAIN g} = {[filename |-> a.file, key |-> p] : p \in P}
      OBVIOUS
    <3> QED BY <3>1, <3>2
  <2> QED BY <1>1, <2>1 DEF KeysOf, Key
<1>3. /\ IsFiniteSet(FullKeys(a)) /\ FullKeys(a) \in SUBSET Key /\ \A k \in FullKeys(a) : k.filename = a.file
  BY <1>1, <1>2 DEF FullKeys
<1>4. /\ IsFiniteSet(PartialKeys(a)) /\ PartialKeys(a) \in SUBSET Key
      /\ \A k \in PartialKeys(a) : k.filename = a.file
  BY <1>1, <1>2 DEF PartialKeys
<1>5. IsFiniteSet(AllKeys(a))
  BY <1>3, <1>4, FS_Union DEF AllKeys
<1> QED BY <1>1, <1>3, <1>4, <1>5 DEF OfFile, AllKeys

LEMMA WritesLeave ==
  ASSUME PagesOK(lruCache), NEW a \in Accesses
  PROVE  PageUpdateOK(UpdateWithWrites(a)) /\ PagesKept(lruCache, UpdateWithWrites(a))
<1> DEFINE keys == AllKeys(a)
           n == Cardinality(keys)
           q == InOrder(keys)
<1>0. OfFile(keys)
  BY AccessOfFile
<1>1. n \in Nat /\ \A i \in 1 .. n : q[i] \in keys /\ q[i] \in Key
  BY <1>0, InOrderVisits DEF OfFile
<1>2. PICK g : Runs(g, WritesLoop(a), NoUpdate, n, q) /\ UpdateWithWrites(a) = g[n]
  BY <1>0, WritesRuns
<1>3. g[0] = NoUpdate /\ \A i \in 1 .. n : g[i] = Page1(g[i - 1], q[i], WrittenRegions(a, q[i]), TRUE)
  BY <1>2 DEF Runs, Do, WritesLoop
<1>4. \A k \in keys : WrittenRegions(a, k) \in Pieces
  <2> SUFFICES ASSUME NEW k \in keys PROVE WrittenRegions(a, k) \in Pieces
    OBVIOUS
  <2>1. k.key \in a.full \/ k.key \in DOMAIN a.part
    BY DEF AllKeys, FullKeys, PartialKeys, KeysOf
  <2> QED BY <2>1 DEF WrittenRegions, Pieces
<1> HIDE DEF n, q, keys
<1> DEFINE T == {i \in 0 .. n : PageUpdateOK(g[i]) /\ PagesKept(lruCache, g[i])}
<1>5. 0 \in T
  BY <1>1, <1>3, NoUpdateOK
<1>6. ASSUME NEW i \in 1 .. n, i - 1 \in T PROVE i \in T
  <2> DEFINE v == Page1(g[i - 1], q[i], WrittenRegions(a, q[i]), TRUE)
  <2>1. PageUpdateOK(g[i - 1]) /\ PagesKept(lruCache, g[i - 1]) /\ q[i] \in Key
    BY <1>1, <1>6
  <2>2. WrittenRegions(a, q[i]) \in Pieces
    BY <1>1, <1>4
  <2>3. PageUpdateOK(v) /\ PagesKept(lruCache, v)
    BY <2>1, <2>2, PageTurn
  <2>4. g[i] = v /\ i \in 0 .. n
    <3>1. i \in 0 .. n
      BY <1>1
    <3> QED BY <1>3, <3>1, Zenon
  <2>5. PageUpdateOK(g[i]) /\ PagesKept(lruCache, g[i])
    BY <2>3, <2>4
  <2> QED BY <2>4, <2>5
<1>7. n \in 0 .. n
  BY <1>1
<1>8. n \in T
  <2> HIDE DEF T
  <2> QED BY <1>1, <1>5, <1>6, <1>7, EveryTurn
<1> QED BY <1>2, <1>8

LEMMA RefreshLeaves ==
  ASSUME PagesOK(lruCache), NEW keys, OfFile(keys)
  PROVE  PagesOK(RefreshPages(keys)) /\ RefreshPages(keys).entries = lruCache.entries
<1> DEFINE n == Cardinality(keys)
           q == InOrder(keys)
<1>1. n \in Nat
  BY InOrderVisits
<1>2. PICK g : Runs(g, RefreshLoop, lruCache, n, q) /\ RefreshPages(keys) = g[n]
  BY RefreshRuns
<1>3. g[0] = lruCache /\ \A i \in 1 .. n : g[i] = LookupPage(g[i - 1], q[i])
  BY <1>2 DEF Runs, Do, RefreshLoop
<1> HIDE DEF n, q
<1> DEFINE T == {i \in 0 .. n : PagesOK(g[i]) /\ g[i].entries = lruCache.entries}
<1>4. 0 \in T
  BY <1>1, <1>3
<1>5. ASSUME NEW i \in 1 .. n, i - 1 \in T PROVE i \in T
  <2> DEFINE x == g[i - 1]
  <2>1. PagesOK(x) /\ x.entries = lruCache.entries /\ g[i] = LookupPage(x, q[i])
    BY <1>3, <1>5
  <2> HIDE DEF x
  <2>2. CASE q[i] \in DOMAIN x.entries
    <3>1. g[i] = MoveToFront(x, q[i])
      BY <2>1, <2>2 DEF LookupPage, CachedPages
    <3>2. /\ x = [entries |-> x.entries, lruList |-> x.lruList]
          /\ x.entries \in [DOMAIN x.entries -> PageEntry] /\ q[i] \in Key
          /\ DOMAIN x.entries = DOMAIN x.entries \union {q[i]}
      BY <2>1, <2>2 DEF PagesOK, PagesShape, Listed
    <3> DEFINE list == <<q[i]>> \o RemoveFirst(x.lruList, q[i])
    <3>3. [x EXCEPT !.lruList = list] = [entries |-> x.entries, lruList |-> list]
      <4> HIDE DEF list
      <4> QED BY <3>2
    <3>4. g[i] = [entries |-> x.entries, lruList |-> list]
      BY <3>1, <3>3 DEF MoveToFront
    <3>5. PagesShape(g[i])
      BY <2>1, <3>2, <3>4, PageFronted DEF PagesOK
    <3>6. g[i].entries = x.entries
      <4> HIDE DEF list
      <4> QED BY <3>4
    <3> QED BY <2>1, <3>5, <3>6 DEF PagesOK, CachedPages
  <2>3. CASE q[i] \notin DOMAIN x.entries
    <3>1. g[i] = x
      BY <2>1, <2>3 DEF LookupPage, CachedPages
    <3> QED BY <2>1, <3>1
  <2> QED BY <2>2, <2>3
<1>6. n \in 0 .. n
  BY <1>1
<1>7. n \in T
  <2> HIDE DEF T
  <2> QED BY <1>1, <1>4, <1>5, <1>6, EveryTurn
<1> QED BY <1>2, <1>7

LEMMA DropLeaves ==
  ASSUME PagesOK(lruCache), NEW f \in Files
  PROVE  /\ PagesOK(FlushPages(f))
         /\ \A k, g : HoldsPage(lruCache, k, g) => HoldsPage(FlushPages(f), k, g) \/ k.filename = f
<1> DEFINE keys == {k \in CachedPages(lruCache) : k.filename = f}
           n == Cardinality(keys)
           q == InOrder(keys)
<1>1. OfFile(keys)
  <2>1. DOMAIN lruCache.entries \subseteq Key /\ IsFiniteSet(DOMAIN lruCache.entries)
    BY ListedCounts DEF PagesOK, PagesShape, Listed
  <2>2. keys \subseteq DOMAIN lruCache.entries /\ \A k \in keys : k.filename = f
    BY DEF CachedPages
  <2>3. IsFiniteSet(keys)
    BY <2>1, <2>2, FS_Subset
  <2> QED BY <2>1, <2>2, <2>3 DEF OfFile
<1>2. n \in Nat /\ \A i \in 1 .. n : q[i] \in keys
  BY <1>1, InOrderVisits
<1>3. PICK g : Runs(g, DropLoop, lruCache, n, q) /\ FlushPages(f) = g[n]
  BY <1>1, DropRuns
<1>4. g[0] = lruCache /\ \A i \in 1 .. n : g[i] = RemovePage(g[i - 1], q[i])
  BY <1>3 DEF Runs, Do, DropLoop
<1>5. \A k \in keys : k.filename = f
  OBVIOUS
<1> HIDE DEF n, q, keys
<1> DEFINE T == {i \in 0 .. n : /\ PagesOK(g[i])
                                /\ \A k, x : HoldsPage(lruCache, k, x) => HoldsPage(g[i], k, x) \/ k.filename = f}
<1>6. 0 \in T
  BY <1>2, <1>4
<1>7. ASSUME NEW i \in 1 .. n, i - 1 \in T PROVE i \in T
  <2> DEFINE m == g[i - 1]
  <2>1. /\ PagesOK(m) /\ \A k, x : HoldsPage(lruCache, k, x) => HoldsPage(m, k, x) \/ k.filename = f
        /\ g[i] = RemovePage(m, q[i]) /\ q[i].filename = f
    BY <1>2, <1>4, <1>5, <1>7
  <2> HIDE DEF m
  <2>2. /\ PagesShape(g[i])
        /\ DOMAIN g[i].entries = DOMAIN m.entries \ {q[i]}
        /\ \A j \in DOMAIN m.entries \ {q[i]} : g[i].entries[j] = m.entries[j]
    BY <2>1, RemovePageKeeps DEF PagesOK
  <2>3. PagesOK(g[i])
    <3>1. /\ IsFiniteSet(DOMAIN m.entries) /\ Cardinality(DOMAIN m.entries) \in Nat
          /\ Cardinality(DOMAIN m.entries) <= pageCapacity /\ pageCapacity \in Nat
      BY <2>1, ListedCounts, PageCacheAssumption DEF PagesOK, PagesShape, CachedPages
    <3>2. Cardinality(DOMAIN g[i].entries) <= Cardinality(DOMAIN m.entries) /\ Cardinality(DOMAIN g[i].entries) \in Nat
      BY <2>2, <3>1, FS_Subset, FS_CardinalityType
    <3> QED BY <2>2, <3>1, <3>2 DEF PagesOK, CachedPages
  <2>4. ASSUME NEW k, NEW x, HoldsPage(m, k, x), k # q[i] PROVE HoldsPage(g[i], k, x)
    BY <2>2, <2>4 DEF HoldsPage
  <2>5. \A k, x : HoldsPage(lruCache, k, x) => HoldsPage(g[i], k, x) \/ k.filename = f
    BY <2>1, <2>4
  <2> QED BY <2>3, <2>5
<1>8. n \in 0 .. n
  BY <1>2
<1>9. n \in T
  <2> HIDE DEF T
  <2> QED BY <1>2, <1>6, <1>7, <1>8, EveryTurn
<1> QED BY <1>3, <1>9

LEMMA DirtyPagesHanded ==
  ASSUME PagesOK(lruCache), NEW f \in Files
  PROVE  /\ DirtyFileEntries(f) \in Seq(PageOuts)
         /\ \A k, g : HoldsPage(lruCache, k, g) /\ k.filename = f => HandedPage(DirtyFileEntries(f), k, g)
<1> DEFINE keys == DirtyFilePages(lruCache, f)
           n == Cardinality(keys)
           q == InOrder(keys)
           out == DirtyFileEntries(f)
<1>1. OfFile(keys)
  <2>1. DOMAIN lruCache.entries \subseteq Key /\ IsFiniteSet(DOMAIN lruCache.entries)
    BY ListedCounts DEF PagesOK, PagesShape, Listed
  <2>2. keys \subseteq DOMAIN lruCache.entries /\ \A k \in keys : k.filename = f
    BY DEF CachedPages, DirtyFilePages
  <2>3. IsFiniteSet(keys)
    BY <2>1, <2>2, FS_Subset
  <2> QED BY <2>1, <2>2, <2>3 DEF OfFile
<1>2. /\ n \in Nat /\ q \in [1 .. n -> keys]
      /\ \A k \in keys : \E i \in 1 .. n : q[i] = k
  BY <1>1, InOrderVisits
<1>3. \A k \in keys : k \in DOMAIN lruCache.entries /\ k \in Key
  BY DEF DirtyFilePages, CachedPages, PagesOK, PagesShape, Listed
<1>4. \A k \in DOMAIN lruCache.entries : k.filename = f /\ lruCache.entries[k].isDirty => k \in keys
  BY DEF DirtyFilePages, CachedPages
<1>5. out = [i \in DOMAIN q |-> Recollected(lruCache, q[i])]
  BY DEF DirtyFileEntries
<1> HIDE DEF n, q, keys
<1>6. DOMAIN out = 1 .. n /\ \A i \in 1 .. n : out[i] = Recollected(lruCache, q[i])
  BY <1>2, <1>5
<1>7. \A k \in DOMAIN lruCache.entries : lruCache.entries[k] \in PageEntry
  BY DEF PagesOK, PagesShape
<1>8. \A k \in keys : /\ Recollected(lruCache, k) \in PageOuts /\ Recollected(lruCache, k).key = k
                      /\ Recollected(lruCache, k).regions = lruCache.entries[k].regions
  BY <1>3, <1>7 DEF Recollected, PageOuts, PageEntry
<1>9. out \in Seq(PageOuts)
  <2>1. out \in [1 .. n -> PageOuts]
    BY <1>2, <1>5, <1>6, <1>8
  <2> QED BY <1>2, <2>1
<1>10. ASSUME NEW k, NEW g, HoldsPage(lruCache, k, g), k.filename = f PROVE HandedPage(out, k, g)
  <2>1. k \in keys
    BY <1>4, <1>10 DEF HoldsPage
  <2>2. PICK i \in 1 .. n : q[i] = k
    BY <1>2, <2>1
  <2>3. out[i].key = k /\ g \in out[i].regions
    BY <1>6, <1>8, <1>10, <2>1, <2>2 DEF HoldsPage
  <2> QED BY <1>6, <2>3 DEF HandedPage
<1> QED BY <1>9, <1>10
-----------------------------------------------------------------------------
(* Bags of messages.                                                       *)

Bag(q) == q \in [DOMAIN q -> Nat \ {0}]

LEMMA BagAdded ==
  ASSUME NEW q, Bag(q), NEW x
  PROVE  /\ Bag(BagAdd(q, x)) /\ DOMAIN BagAdd(q, x) = DOMAIN q \union {x}
         /\ \A m : CopiesOf(m, BagAdd(q, x)) = CopiesOf(m, q) + IF m = x THEN 1 ELSE 0
BY DEF Bag, BagAdd, CopiesOf, (+), SetToBag

LEMMA BagRemoved ==
  ASSUME NEW q, Bag(q), NEW x \in DOMAIN q
  PROVE  /\ Bag(BagRemove(q, x))
         /\ DOMAIN BagRemove(q, x) \subseteq DOMAIN q
         /\ DOMAIN q \ {x} \subseteq DOMAIN BagRemove(q, x)
         /\ \A m : CopiesOf(m, BagRemove(q, x)) = CopiesOf(m, q) - IF m = x THEN 1 ELSE 0
         /\ \A m : CopiesOf(m, BagRemove(q, x)) > 0 <=> m \in DOMAIN BagRemove(q, x)
BY DEF Bag, BagRemove, CopiesOf, (-), SetToBag

LEMMA BagJoined ==
  ASSUME NEW q, Bag(q), NEW b, Bag(b)
  PROVE  /\ Bag(q (+) b) /\ DOMAIN (q (+) b) = DOMAIN q \union DOMAIN b
         /\ \A m : CopiesOf(m, q (+) b) = CopiesOf(m, q) + CopiesOf(m, b)
BY DEF Bag, (+), CopiesOf

LEMMA BagOfSet ==
  ASSUME NEW S
  PROVE  Bag(SetToBag(S)) /\ DOMAIN SetToBag(S) = S
BY DEF Bag, SetToBag

LEMMA JoinNothing ==
  ASSUME NEW q, Bag(q)
  PROVE  q (+) EmptyBag = q
BY DEF Bag, (+), EmptyBag, SetToBag

LEMMA CopiesTypes ==
  ASSUME NEW q, Bag(q), NEW m
  PROVE  CopiesOf(m, q) \in Nat /\ (CopiesOf(m, q) > 0 <=> m \in DOMAIN q)
BY DEF Bag, CopiesOf
-----------------------------------------------------------------------------
(* What a progressive node knows of its pending requests p, when q is the  *)
(* bag of messages at the file system, D the live requests and n the last  *)
(* request's number.                                                       *)

PendingEntry(e) ==
  /\ e = [readPages |-> e.readPages, writeRequests |-> e.writeRequests]
  /\ Bag(e.writeRequests)

\* Forwarded requests are not pending; they are gone with their answer.
SentFor(p, q, n) ==
  \A m \in DOMAIN q :
    /\ m.parent \in 0..n
    /\ m.kind = "write" =>
         /\ m.parent \in DOMAIN p
         /\ CopiesOf(m, p[m.parent].writeRequests) = CopiesOf(m, q)
    /\ m.kind \in {"open", "close", "bypass"} => m.parent \notin DOMAIN p /\ m.parent # 0

ReadKeys(q) == UNION {m.keys : m \in {x \in DOMAIN q : x.kind = "read"}}

LEMMA ReadKeysAre ==
  ASSUME NEW q
  PROVE  \A k : k \in ReadKeys(q) <=> \E m \in DOMAIN q : m.kind = "read" /\ k \in m.keys
BY DEF ReadKeys

\* What an entry waits for is at the file system.
WaitsFor(p, q) ==
  \A r \in DOMAIN p :
    /\ PendingEntry(p[r])
    /\ p[r].readPages \subseteq ReadKeys(q)
    /\ \A m \in DOMAIN p[r].writeRequests : m \in DOMAIN q /\ m.kind = "write" /\ m.parent = r

Accounted(p, q, D, n) ==
  /\ n \in Nat /\ D \subseteq 1..n
  /\ Bag(q)
  /\ DOMAIN p \subseteq D \union {0}
  /\ WaitsFor(p, q)
  /\ SentFor(p, q, n)

ProgressiveInv ==
  /\ class # "progressive" => pendingRequests = << >>
  /\ class = "progressive" => Accounted(pendingRequests, fs, DOMAIN live, issued)

LEMMA SentIs ==
  ASSUME NEW c, NEW kind, NEW keys, NEW regions, NEW parent
  PROVE  LET m == ToFs(c, kind, keys, regions, parent)
         IN  m.kind = kind /\ m.keys = keys /\ m.regions = regions /\ m.parent = parent /\ m.cache = c
BY DEF ToFs

LEMMA LiveOrNone ==
  ASSUME NEW n \in Nat, NEW D, D \subseteq 1..n, NEW r \in D \union {0}
  PROVE  r \in 0..n
OBVIOUS

\* A forwarded request.
LEMMA ForwardSent ==
  ASSUME NEW p, NEW q, NEW D, NEW n, Accounted(p, q, D, n),
         NEW c, NEW keys, NEW kind \in {"open", "close", "bypass"}
  PROVE  Accounted(p, BagAdd(q, ToFs(c, kind, keys, {}, n + 1)), D \union {n + 1}, n + 1)
<1> DEFINE m == ToFs(c, kind, keys, {}, n + 1)
           q1 == BagAdd(q, m)
<1>0. n \in Nat /\ Bag(q)
  BY DEF Accounted
<1>1. m.kind = kind /\ m.parent = n + 1
  BY SentIs
<1> HIDE DEF m
<1>2. m \notin DOMAIN q
  BY <1>0, <1>1 DEF Accounted, SentFor
<1>3. Bag(q1) /\ DOMAIN q1 = DOMAIN q \union {m}
  BY BagAdded, <1>0
<1>4. \A x \in DOMAIN q : CopiesOf(x, q1) = CopiesOf(x, q)
  <2>1. \A x \in DOMAIN q : CopiesOf(x, q1) = CopiesOf(x, q) + 0 /\ CopiesOf(x, q) \in Nat
    BY <1>0, <1>2, BagAdded, CopiesTypes
  <2> QED BY <2>1
<1>5. n + 1 \notin DOMAIN p
  BY DEF Accounted
<1> HIDE DEF q1
<1>6. WaitsFor(p, q1)
  <2>1. ReadKeys(q1) = ReadKeys(q)
    BY <1>1, <1>3 DEF ReadKeys
  <2> QED BY <1>3, <2>1 DEF WaitsFor, Accounted
<1>7. SentFor(p, q1, n + 1)
  <2>1. ASSUME NEW x \in DOMAIN q
        PROVE  /\ x.parent \in 0..n + 1
               /\ x.kind = "write" =>
                    /\ x.parent \in DOMAIN p
                    /\ CopiesOf(x, p[x.parent].writeRequests) = CopiesOf(x, q1)
               /\ x.kind \in {"open", "close", "bypass"} => x.parent \notin DOMAIN p /\ x.parent # 0
    BY <1>0, <1>4 DEF SentFor, Accounted
  <2>2. m.parent \in 0..n + 1 /\ m.kind # "write" /\ m.parent \notin DOMAIN p /\ m.parent # 0
    BY <1>0, <1>1, <1>5
  <2> QED BY <1>3, <2>1, <2>2 DEF SentFor
<1>8. Accounted(p, q1, D \union {n + 1}, n + 1)
  BY <1>0, <1>3, <1>6, <1>7 DEF Accounted
<1> QED BY <1>8 DEF m, q1

LEMMA Numbered ==
  ASSUME NEW p, NEW q, NEW D, NEW n, Accounted(p, q, D, n)
  PROVE  Accounted(p, q, D \union {n + 1}, n + 1)
<1>1. SentFor(p, q, n + 1)
  BY DEF Accounted, SentFor
<1> QED BY <1>1 DEF Accounted

\* Writes that are sent for a request are registered for it.
LEMMA WritesRegistered ==
  ASSUME NEW p, NEW q, NEW D, NEW n, Accounted(p, q, D, n),
         NEW r \in D \union {0}, NEW W,
         \A m \in W : m.kind = "write" /\ m.parent = r,
         \A m \in DOMAIN q : m.parent = r => m.kind \notin {"open", "close", "bypass"}
  PROVE  Accounted(RegisterWriteRequests(p, r, SetToBag(W)), q (+) SetToBag(W), D, n)
<1> DEFINE w == SetToBag(W)
           q1 == q (+) w
           p1 == RegisterWriteRequests(p, r, w)
<1>0. n \in Nat /\ Bag(q) /\ r \in 0..n /\ D \subseteq 1..n
  <2>1. n \in Nat /\ Bag(q) /\ D \subseteq 1..n
    BY DEF Accounted
  <2> QED BY <2>1, LiveOrNone
<1>1. Bag(w) /\ DOMAIN w = W
  BY BagOfSet
<1>2. Bag(q1) /\ DOMAIN q1 = DOMAIN q \union W
      /\ \A m : CopiesOf(m, q1) = CopiesOf(m, q) + CopiesOf(m, w)
  BY <1>0, <1>1, BagJoined
<1> DEFINE e == PendingData(p, r)
           b == e.writeRequests (+) w
<1>3. /\ PendingEntry(e) /\ e.readPages \subseteq ReadKeys(q)
      /\ \A m \in DOMAIN e.writeRequests : m \in DOMAIN q /\ m.kind = "write" /\ m.parent = r
  <2>1. CASE r \in DOMAIN p
    BY <2>1 DEF Accounted, WaitsFor, PendingData
  <2>2. CASE r \notin DOMAIN p
    BY <2>2, BagOfSet DEF PendingData, PendingEntry, EmptyBag
  <2> QED BY <2>1, <2>2
<1>4. /\ Bag(b) /\ DOMAIN b = DOMAIN e.writeRequests \union W
      /\ \A m : CopiesOf(m, b) = CopiesOf(m, e.writeRequests) + CopiesOf(m, w)
  BY <1>1, <1>3, BagJoined DEF PendingEntry
<1> DEFINE e1 == [readPages |-> e.readPages, writeRequests |-> b]
<1>5. DOMAIN p1 = DOMAIN p \union {r} /\ p1[r] = e1 /\ \A x \in DOMAIN p \ {r} : p1[x] = p[x]
  <2>1. [e EXCEPT !.writeRequests = @ (+) w] = e1
    BY <1>3 DEF PendingEntry
  <2> HIDE DEF e, b, w, e1
  <2>2. p1 = With(p, r, e1)
    BY <2>1 DEF RegisterWriteRequests, e, w
  <2> QED BY <2>2 DEF With
<1>6. \A m : m \notin W => CopiesOf(m, w) = 0
  BY <1>1 DEF CopiesOf
<1>7. \A m \in W : CopiesOf(m, e.writeRequests) = CopiesOf(m, q)
  <2> SUFFICES ASSUME NEW m \in W PROVE CopiesOf(m, e.writeRequests) = CopiesOf(m, q)
    OBVIOUS
  <2>0. m.kind = "write" /\ m.parent = r
    OBVIOUS
  <2>1. CASE m \in DOMAIN q
    BY <2>0, <2>1 DEF Accounted, SentFor, PendingData
  <2>2. CASE m \notin DOMAIN q
    BY <2>2, <1>3 DEF CopiesOf
  <2> QED BY <2>1, <2>2
<1> HIDE DEF e, b, w, q1, p1
<1>8. WaitsFor(p1, q1)
  <2>1. ReadKeys(q1) = ReadKeys(q)
    BY <1>2 DEF ReadKeys
  <2>2. PendingEntry(e1) /\ e1.readPages \subseteq ReadKeys(q1)
        /\ \A m \in DOMAIN e1.writeRequests : m \in DOMAIN q1 /\ m.kind = "write" /\ m.parent = r
    BY <1>2, <1>3, <1>4, <2>1 DEF PendingEntry
  <2>3. ASSUME NEW x \in DOMAIN p \ {r}
        PROVE  PendingEntry(p[x]) /\ p[x].readPages \subseteq ReadKeys(q1)
               /\ \A m \in DOMAIN p[x].writeRequests : m \in DOMAIN q1 /\ m.kind = "write" /\ m.parent = x
    BY <1>2, <2>1 DEF Accounted, WaitsFor
  <2> HIDE DEF e1
  <2> QED BY <1>5, <2>2, <2>3 DEF WaitsFor
<1>9. SentFor(p1, q1, n)
  <2> SUFFICES ASSUME NEW m \in DOMAIN q1
               PROVE  /\ m.parent \in 0..n
                      /\ m.kind = "write" =>
                           /\ m.parent \in DOMAIN p1
                           /\ CopiesOf(m, p1[m.parent].writeRequests) = CopiesOf(m, q1)
                      /\ m.kind \in {"open", "close", "bypass"} =>
                           m.parent \notin DOMAIN p1 /\ m.parent # 0
    BY DEF SentFor
  <2>1. CASE m \in W
    <3>1. m.kind = "write" /\ m.parent = r
      BY <2>1
    <3>2. CopiesOf(m, b) = CopiesOf(m, q1)
      BY <1>2, <1>4, <1>7, <2>1
    <3> QED BY <1>0, <1>5, <3>1, <3>2
  <2>2. CASE m \in DOMAIN q /\ m \notin W
    <3>1. CopiesOf(m, q1) = CopiesOf(m, q)
      <4>1. CopiesOf(m, q1) = CopiesOf(m, q) + 0 /\ CopiesOf(m, q) \in Nat
        BY <1>0, <1>2, <1>6, <2>2, CopiesTypes
      <4> QED BY <4>1
    <3>2. m.parent = r => CopiesOf(m, b) = CopiesOf(m, e.writeRequests)
      <4>1. CopiesOf(m, b) = CopiesOf(m, e.writeRequests) + 0 /\ CopiesOf(m, e.writeRequests) \in Nat
        BY <1>3, <1>4, <1>6, <2>2, CopiesTypes DEF PendingEntry
      <4> QED BY <4>1
    <3>3. r \in DOMAIN p => e = p[r]
      BY DEF e, PendingData
    <3>4. /\ m.parent \in 0..n
          /\ m.kind = "write" =>
               m.parent \in DOMAIN p /\ CopiesOf(m, p[m.parent].writeRequests) = CopiesOf(m, q)
          /\ m.kind \in {"open", "close", "bypass"} => m.parent \notin DOMAIN p /\ m.parent # 0
      BY <2>2 DEF Accounted, SentFor
    <3>5. m.kind \in {"open", "close", "bypass"} => m.parent # r
      BY <2>2
    <3>6. CASE m.parent = r
      BY <1>5, <3>1, <3>2, <3>3, <3>4, <3>5, <3>6
    <3>7. CASE m.parent # r
      BY <1>5, <3>1, <3>4, <3>7
    <3> QED BY <3>6, <3>7
  <2> QED BY <1>2, <2>1, <2>2
<1>10. Accounted(p1, q1, D, n)
  BY <1>0, <1>2, <1>5, <1>8, <1>9 DEF Accounted
<1> QED BY <1>10 DEF p1, q1, w

LEMMA WriteRequestsAre ==
  ASSUME NEW c, NEW out, NEW parent
  PROVE  \E W : /\ WriteRequests(c, out, parent) = SetToBag(W)
                /\ \A m \in W : m.kind = "write" /\ m.parent = parent
                /\ out = << >> => W = {}
<1> DEFINE groups == {GroupPages(out, f, isFull) :
                        f \in {out[i].key.filename : i \in DOMAIN out}, isFull \in BOOLEAN} \ {{}}
           W == {ToFs(c, "write", {e.key : e \in pages}, RegionsWritten(pages), parent) : pages \in groups}
<1>1. WriteRequests(c, out, parent) = SetToBag(W)
  BY DEF WriteRequests
<1>2. \A m \in W : m.kind = "write" /\ m.parent = parent
  BY DEF ToFs
<1>3. out = << >> => W = {}
  <2> SUFFICES ASSUME out = << >> PROVE groups = {}
    OBVIOUS
  <2>1. DOMAIN out = {}
    OBVIOUS
  <2> QED BY <2>1
<1> HIDE DEF W
<1> QED BY <1>1, <1>2, <1>3

LEMMA WriteRequestsRegistered ==
  ASSUME NEW p, NEW q, NEW D, NEW n, Accounted(p, q, D, n),
         NEW r \in D \union {0}, NEW c, NEW out,
         \A m \in DOMAIN q : m.parent = r => m.kind \notin {"open", "close", "bypass"}
  PROVE  LET w == WriteRequests(c, out, r)
         IN  /\ Accounted(RegisterWriteRequests(p, r, w), q (+) w, D, n)
             /\ out = << >> => q (+) w = q
<1>1. PICK W : /\ WriteRequests(c, out, r) = SetToBag(W)
               /\ \A m \in W : m.kind = "write" /\ m.parent = r
               /\ out = << >> => W = {}
  BY WriteRequestsAre
<1>2. Accounted(RegisterWriteRequests(p, r, SetToBag(W)), q (+) SetToBag(W), D, n)
  BY <1>1, WritesRegistered
<1>3. out = << >> => q (+) SetToBag(W) = q
  BY <1>1, JoinNothing DEF EmptyBag, Accounted
<1> QED BY <1>1, <1>2, <1>3

\* An entry of a live request may wait for more pages that are asked for.
LEMMA ReadsRegistered ==
  ASSUME NEW p, NEW q, NEW D, NEW n, Accounted(p, q, D, n),
         NEW r \in D, NEW keys, keys \subseteq ReadKeys(q),
         \A m \in DOMAIN q : m.parent = r => m.kind \notin {"open", "close", "bypass"}
  PROVE  Accounted(RegisterReadPages(p, r, keys), q, D, n)
<1> DEFINE e == PendingData(p, r)
           e1 == [readPages |-> e.readPages \union keys, writeRequests |-> e.writeRequests]
           p1 == RegisterReadPages(p, r, keys)
<1>1. /\ PendingEntry(e) /\ e.readPages \subseteq ReadKeys(q)
      /\ \A m \in DOMAIN e.writeRequests : m \in DOMAIN q /\ m.kind = "write" /\ m.parent = r
  <2>1. CASE r \in DOMAIN p
    BY <2>1 DEF Accounted, WaitsFor, PendingData
  <2>2. CASE r \notin DOMAIN p
    BY <2>2, BagOfSet DEF PendingData, PendingEntry, EmptyBag
  <2> QED BY <2>1, <2>2
<1>2. DOMAIN p1 = DOMAIN p \union {r} /\ p1[r] = e1 /\ \A x \in DOMAIN p \ {r} : p1[x] = p[x]
  <2>1. [e EXCEPT !.readPages = @ \union keys] = e1
    BY <1>1 DEF PendingEntry
  <2> HIDE DEF e, e1
  <2>2. p1 = With(p, r, e1)
    BY <2>1 DEF RegisterReadPages, e
  <2> QED BY <2>2 DEF With
<1>3. r \in DOMAIN p => e = p[r]
  BY DEF PendingData
<1>4. PendingEntry(e1) /\ e1.readPages \subseteq ReadKeys(q) /\ e1.writeRequests = e.writeRequests
  BY <1>1 DEF PendingEntry
<1> HIDE DEF e, e1, p1
<1>5. WaitsFor(p1, q)
  BY <1>1, <1>2, <1>4 DEF WaitsFor, Accounted
<1>6. SentFor(p1, q, n)
  <2>1. ASSUME NEW m \in DOMAIN q
        PROVE  /\ m.parent \in 0..n
               /\ m.kind = "write" =>
                    /\ m.parent \in DOMAIN p1
                    /\ CopiesOf(m, p1[m.parent].writeRequests) = CopiesOf(m, q)
               /\ m.kind \in {"open", "close", "bypass"} => m.parent \notin DOMAIN p1 /\ m.parent # 0
    BY <1>2, <1>3, <1>4 DEF Accounted, SentFor
  <2> QED BY <2>1 DEF SentFor
<1>7. Accounted(p1, q, D, n)
  BY <1>2, <1>5, <1>6 DEF Accounted
<1> QED BY <1>7 DEF p1

\* Page reads are sent for a live request.
LEMMA ReadsSent ==
  ASSUME NEW p, NEW q, NEW D, NEW n, Accounted(p, q, D, n),
         NEW r \in D, NEW c, NEW keys
  PROVE  /\ Accounted(p, q (+) ReadRequests(c, keys, r), D, n)
         /\ ReadKeys(q (+) ReadRequests(c, keys, r)) = ReadKeys(q) \union keys
         /\ \A m \in DOMAIN (q (+) ReadRequests(c, keys, r)) : m \in DOMAIN q \/ m.kind = "read"
<1> DEFINE W == {ToFs(c, "read", pages, {}, r) : pages \in PagesByName(keys)}
           w == SetToBag(W)
           q1 == q (+) w
<1>0. n \in Nat /\ Bag(q) /\ D \subseteq 1..n
  BY DEF Accounted
<1>1. ReadRequests(c, keys, r) = w
  BY DEF ReadRequests, PFSReadRequests
<1>2. \A m \in W : m.kind = "read" /\ m.parent = r /\ m.keys \in PagesByName(keys)
  BY DEF ToFs
<1>3. \A pages \in PagesByName(keys) : \E m \in W : m.keys = pages
  <2>1. \A pages \in PagesByName(keys) :
          ToFs(c, "read", pages, {}, r) \in W /\ ToFs(c, "read", pages, {}, r).keys = pages
    BY DEF ToFs
  <2> QED BY <2>1
<1>4. UNION PagesByName(keys) = keys
  BY DEF PagesByName
<1> HIDE DEF W
<1>5. Bag(q1) /\ DOMAIN q1 = DOMAIN q \union W /\ \A m : CopiesOf(m, q1) = CopiesOf(m, q) + CopiesOf(m, w)
  BY <1>0, BagOfSet, BagJoined
<1>6. \A m : m.kind # "read" => CopiesOf(m, q1) = CopiesOf(m, q)
  <2>1. \A m : m.kind # "read" => CopiesOf(m, w) = 0
    BY <1>2, BagOfSet DEF CopiesOf
  <2>2. \A m : CopiesOf(m, q) \in Nat
    BY <1>0, CopiesTypes
  <2>3. \A m : m.kind # "read" => CopiesOf(m, q1) = CopiesOf(m, q) + 0
    BY <1>5, <2>1
  <2> QED BY <2>2, <2>3
<1> HIDE DEF w, q1
<1>7. ReadKeys(q1) = ReadKeys(q) \union keys
  <2>1. \A k : k \in keys <=> \E m \in W : k \in m.keys
    BY <1>2, <1>3, <1>4
  <2>2. \A k : (\E m \in DOMAIN q1 : m.kind = "read" /\ k \in m.keys)
                 <=> (\E m \in DOMAIN q : m.kind = "read" /\ k \in m.keys) \/ k \in keys
    BY <1>2, <1>5, <2>1
  <2> QED BY <2>2, ReadKeysAre
<1>8. WaitsFor(p, q1)
  BY <1>5, <1>7 DEF WaitsFor, Accounted
<1>9. SentFor(p, q1, n)
  <2>1. \A m \in W : m.parent \in 0..n /\ m.kind = "read"
    BY <1>0, <1>2, LiveOrNone
  <2>2. ASSUME NEW m \in DOMAIN q
        PROVE  /\ m.parent \in 0..n
               /\ m.kind = "write" =>
                    /\ m.parent \in DOMAIN p
                    /\ CopiesOf(m, p[m.parent].writeRequests) = CopiesOf(m, q1)
               /\ m.kind \in {"open", "close", "bypass"} => m.parent \notin DOMAIN p /\ m.parent # 0
    BY <1>6 DEF Accounted, SentFor
  <2> QED BY <1>5, <2>1, <2>2 DEF SentFor
<1>10. Accounted(p, q1, D, n)
  BY <1>0, <1>5, <1>8, <1>9 DEF Accounted
<1>11. \A m \in DOMAIN q1 : m \in DOMAIN q \/ m.kind = "read"
  BY <1>2, <1>5
<1> QED BY <1>1, <1>7, <1>10, <1>11 DEF q1

\* The pages of an answer are resolved for every request.
LEMMA PagesResolved ==
  ASSUME NEW p, NEW q, NEW D, NEW n, Accounted(p, q, D, n),
         NEW m \in DOMAIN q, m.kind = "read"
  PROVE  Accounted(ResolvePages(p, m.keys), BagRemove(q, m), D, n)
<1> DEFINE q1 == BagRemove(q, m)
           p1 == ResolvePages(p, m.keys)
<1>0. n \in Nat /\ Bag(q) /\ D \subseteq 1..n
  BY DEF Accounted
<1>1. Bag(q1) /\ DOMAIN q1 \subseteq DOMAIN q /\ DOMAIN q \ {m} \subseteq DOMAIN q1
  BY <1>0, BagRemoved
<1>2. \A x : x.kind # "read" => CopiesOf(x, q1) = CopiesOf(x, q)
  <2>1. \A x : x.kind # "read" => CopiesOf(x, q1) = CopiesOf(x, q) - 0 /\ CopiesOf(x, q) \in Nat
    BY <1>0, BagRemoved, CopiesTypes
  <2> QED BY <2>1
<1>3. DOMAIN p1 = DOMAIN p
      /\ \A r \in DOMAIN p : p1[r] = [readPages |-> p[r].readPages \ m.keys, writeRequests |-> p[r].writeRequests]
  <2>1. \A r \in DOMAIN p : PendingEntry(p[r])
    BY DEF Accounted, WaitsFor
  <2>2. \A r \in DOMAIN p : [p[r] EXCEPT !.readPages = @ \ m.keys]
                              = [readPages |-> p[r].readPages \ m.keys, writeRequests |-> p[r].writeRequests]
    BY <2>1 DEF PendingEntry
  <2> QED BY <2>2 DEF ResolvePages
<1> HIDE DEF p1, q1
<1>4. \A k : k \in ReadKeys(q) \ m.keys => k \in ReadKeys(q1)
  BY <1>1, ReadKeysAre
<1>5. WaitsFor(p1, q1)
  <2> SUFFICES ASSUME NEW r \in DOMAIN p
               PROVE  /\ PendingEntry(p1[r])
                      /\ p1[r].readPages \subseteq ReadKeys(q1)
                      /\ \A x \in DOMAIN p1[r].writeRequests : x \in DOMAIN q1 /\ x.kind = "write" /\ x.parent = r
    BY <1>3 DEF WaitsFor
  <2>1. /\ PendingEntry(p[r]) /\ p[r].readPages \subseteq ReadKeys(q)
        /\ \A x \in DOMAIN p[r].writeRequests : x \in DOMAIN q /\ x.kind = "write" /\ x.parent = r
    BY DEF Accounted, WaitsFor
  <2>2. \A x \in DOMAIN p[r].writeRequests : x \in DOMAIN q1
    BY <1>1, <2>1
  <2> QED BY <1>3, <1>4, <2>1, <2>2 DEF PendingEntry
<1>6. SentFor(p1, q1, n)
  <2>1. ASSUME NEW x \in DOMAIN q1
        PROVE  /\ x.parent \in 0..n
               /\ x.kind = "write" =>
                    /\ x.parent \in DOMAIN p1
                    /\ CopiesOf(x, p1[x.parent].writeRequests) = CopiesOf(x, q1)
               /\ x.kind \in {"open", "close", "bypass"} => x.parent \notin DOMAIN p1 /\ x.parent # 0
    BY <1>1, <1>2, <1>3 DEF Accounted, SentFor
  <2> QED BY <2>1 DEF SentFor
<1>7. Accounted(p1, q1, D, n)
  BY <1>0, <1>1, <1>3, <1>5, <1>6 DEF Accounted
<1> QED BY <1>7 DEF p1, q1

\* A write that was answered is taken from the entry it is registered in.
LEMMA WriteResolved ==
  ASSUME NEW p, NEW q, NEW D, NEW n, Accounted(p, q, D, n),
         NEW m \in DOMAIN q, m.kind = "write"
  PROVE  Accounted(ResolveRequest(p, m), BagRemove(q, m), D, n)
<1> DEFINE q1 == BagRemove(q, m)
           p1 == ResolveRequest(p, m)
           r == m.parent
           b == p[r].writeRequests
           b1 == BagRemove(b, m)
<1>0. n \in Nat /\ Bag(q) /\ D \subseteq 1..n
  BY DEF Accounted
<1>1. Bag(q1) /\ DOMAIN q1 \subseteq DOMAIN q /\ DOMAIN q \ {m} \subseteq DOMAIN q1
      /\ (\A x : CopiesOf(x, q1) = CopiesOf(x, q) - IF x = m THEN 1 ELSE 0)
      /\ \A x : CopiesOf(x, q1) > 0 <=> x \in DOMAIN q1
  BY <1>0, BagRemoved
<1>2. r \in DOMAIN p /\ Bag(b) /\ CopiesOf(m, b) = CopiesOf(m, q)
  BY DEF Accounted, SentFor, WaitsFor, PendingEntry
<1>3. m \in DOMAIN b
  BY <1>0, <1>2, CopiesTypes
<1>4. Bag(b1) /\ DOMAIN b1 \subseteq DOMAIN b
      /\ (\A x : CopiesOf(x, b1) = CopiesOf(x, b) - IF x = m THEN 1 ELSE 0)
      /\ \A x : CopiesOf(x, b1) > 0 <=> x \in DOMAIN b1
  BY <1>2, <1>3, BagRemoved
<1>5. DOMAIN p1 = DOMAIN p /\ p1[r] = [readPages |-> p[r].readPages, writeRequests |-> b1]
      /\ \A x \in DOMAIN p \ {r} : p1[x] = p[x]
  <2>1. PendingEntry(p[r])
    BY <1>2 DEF Accounted, WaitsFor
  <2>2. [p[r] EXCEPT !.writeRequests = BagRemove(@, m)] = [readPages |-> p[r].readPages, writeRequests |-> b1]
    BY <2>1 DEF PendingEntry
  <2> QED BY <1>2, <2>2 DEF ResolveRequest
<1> HIDE DEF p1, q1, b1
<1>6. ReadKeys(q1) = ReadKeys(q)
  <2>1. \A k : k \in ReadKeys(q1) <=> k \in ReadKeys(q)
    BY <1>1, ReadKeysAre
  <2> QED BY <2>1
<1>7. WaitsFor(p1, q1)
  <2> SUFFICES ASSUME NEW s \in DOMAIN p
               PROVE  /\ PendingEntry(p1[s])
                      /\ p1[s].readPages \subseteq ReadKeys(q1)
                      /\ \A x \in DOMAIN p1[s].writeRequests : x \in DOMAIN q1 /\ x.kind = "write" /\ x.parent = s
    BY <1>5 DEF WaitsFor
  <2>1. /\ PendingEntry(p[s]) /\ p[s].readPages \subseteq ReadKeys(q)
        /\ \A x \in DOMAIN p[s].writeRequests : x \in DOMAIN q /\ x.kind = "write" /\ x.parent = s
    BY DEF Accounted, WaitsFor
  <2>2. CASE s = r
    <3>1. \A x \in DOMAIN b1 : x \in DOMAIN q1 /\ x.kind = "write" /\ x.parent = r
      <4> SUFFICES ASSUME NEW x \in DOMAIN b1 PROVE x \in DOMAIN q1 /\ x.kind = "write" /\ x.parent = r
        OBVIOUS
      <4>1. x \in DOMAIN q /\ x.kind = "write" /\ x.parent = r
        BY <1>4, <2>1, <2>2
      <4>2. CASE x # m
        BY <1>1, <4>1, <4>2
      <4>3. CASE x = m
        BY <1>1, <1>2, <1>4, <4>1, <4>3
      <4> QED BY <4>2, <4>3
    <3> QED BY <1>4, <1>5, <1>6, <2>1, <2>2, <3>1 DEF PendingEntry
  <2>3. CASE s # r
    <3>1. \A x \in DOMAIN p[s].writeRequests : x \in DOMAIN q1
      BY <1>1, <2>1, <2>3
    <3> QED BY <1>5, <1>6, <2>1, <2>3, <3>1
  <2> QED BY <2>2, <2>3
<1>8. SentFor(p1, q1, n)
  <2> SUFFICES ASSUME NEW x \in DOMAIN q1
               PROVE  /\ x.parent \in 0..n
                      /\ x.kind = "write" =>
                           /\ x.parent \in DOMAIN p1
                           /\ CopiesOf(x, p1[x.parent].writeRequests) = CopiesOf(x, q1)
                      /\ x.kind \in {"open", "close", "bypass"} => x.parent \notin DOMAIN p1 /\ x.parent # 0
    BY DEF SentFor
  <2>1. /\ x.parent \in 0..n
        /\ x.kind = "write" =>
             x.parent \in DOMAIN p /\ CopiesOf(x, p[x.parent].writeRequests) = CopiesOf(x, q)
        /\ x.kind \in {"open", "close", "bypass"} => x.parent \notin DOMAIN p /\ x.parent # 0
    BY <1>1 DEF Accounted, SentFor
  <2>2. ASSUME x.kind = "write" PROVE CopiesOf(x, p1[x.parent].writeRequests) = CopiesOf(x, q1)
    <3>1. CASE x.parent = r
      BY <1>1, <1>4, <1>5, <2>1, <2>2, <3>1
    <3>2. CASE x.parent # r
      <4>1. CopiesOf(x, q1) = CopiesOf(x, q) - 0 /\ CopiesOf(x, q) \in Nat
        BY <1>0, <1>1, <3>2, CopiesTypes
      <4> QED BY <1>5, <2>1, <2>2, <3>2, <4>1
    <3> QED BY <3>1, <3>2
  <2> QED BY <1>5, <2>1, <2>2
<1>9. Accounted(p1, q1, D, n)
  BY <1>0, <1>1, <1>5, <1>7, <1>8 DEF Accounted
<1> QED BY <1>9 DEF p1, q1

\* The answer of a forwarded request.
LEMMA ForwardAnswered ==
  ASSUME NEW p, NEW q, NEW D, NEW n, Accounted(p, q, D, n),
         NEW m \in DOMAIN q, m.kind \in {"open", "close", "bypass"}
  PROVE  Accounted(p, BagRemove(q, m), D \ {m.parent}, n) /\ m.parent \notin DOMAIN p
<1> DEFINE q1 == BagRemove(q, m)
<1>0. n \in Nat /\ Bag(q) /\ D \subseteq 1..n
  BY DEF Accounted
<1>1. Bag(q1) /\ DOMAIN q1 \subseteq DOMAIN q /\ DOMAIN q \ {m} \subseteq DOMAIN q1
  BY <1>0, BagRemoved
<1>2. \A x : x.kind = "write" => CopiesOf(x, q1) = CopiesOf(x, q)
  <2>1. \A x : x.kind = "write" => CopiesOf(x, q1) = CopiesOf(x, q) - 0 /\ CopiesOf(x, q) \in Nat
    BY <1>0, BagRemoved, CopiesTypes
  <2> QED BY <2>1
<1> HIDE DEF q1
<1>3. m.parent \notin DOMAIN p
  BY DEF Accounted, SentFor
<1>4. ReadKeys(q1) = ReadKeys(q)
  <2>1. \A k : k \in ReadKeys(q1) <=> k \in ReadKeys(q)
    BY <1>1, ReadKeysAre
  <2> QED BY <2>1
<1>5. WaitsFor(p, q1)
  BY <1>1, <1>4 DEF Accounted, WaitsFor
<1>6. SentFor(p, q1, n)
  BY <1>1, <1>2 DEF Accounted, SentFor
<1>7. Accounted(p, q1, D \ {m.parent}, n)
  BY <1>0, <1>1, <1>3, <1>5, <1>6 DEF Accounted
<1> QED BY <1>3, <1>7 DEF q1

\* Requests that wait for nothing are answered; a close only when no write of
\* its file is at the file system.
LEMMA Completes ==
  ASSUME NEW p, NEW asks, Accounted(p, fs', DOMAIN asks, issued'), CompletePending(p, asks),
         class' = "progressive"
  PROVE  /\ ProgressiveInv'
         /\ \A r \in DOMAIN asks \ DOMAIN live' :
              asks[r].kind = "close" =>
                \A m \in AtFs("write")' : \A k \in m.keys : k.filename # asks[r].access.file
<1> DEFINE q == fs'
           done == CompletedRequests(p, asks)
           p1 == Without(p, done)
           D == DOMAIN asks \ done
<1>1. pendingRequests' = p1 /\ live' = Without(asks, done)
  BY DEF CompletePending
<1>2. /\ DOMAIN p1 = DOMAIN p \ done /\ \A r \in DOMAIN p1 : p1[r] = p[r]
      /\ DOMAIN live' = D
  BY <1>1 DEF Without
<1>3. \A r \in done : r \in DOMAIN p /\ p[r].writeRequests = EmptyBag
                      /\ (asks[r].kind = "close" => ~HasPendingData(p, asks[r].access.file))
  BY DEF CompletedRequests
<1> HIDE DEF done, p1
<1>4. Bag(q) /\ SentFor(p, q, issued') /\ WaitsFor(p, q) /\ issued' \in Nat
      /\ DOMAIN asks \subseteq 1..issued' /\ DOMAIN p \subseteq DOMAIN asks \union {0}
  BY DEF Accounted
<1> HIDE DEF q
<1>5. \A m \in DOMAIN q : m.kind = "write" => m.parent \notin done /\ m \in DOMAIN p[m.parent].writeRequests
  <2> SUFFICES ASSUME NEW m \in DOMAIN q, m.kind = "write"
               PROVE  m.parent \notin done /\ m \in DOMAIN p[m.parent].writeRequests
    OBVIOUS
  <2>1. m.parent \in DOMAIN p /\ CopiesOf(m, p[m.parent].writeRequests) = CopiesOf(m, q)
    BY <1>4 DEF SentFor
  <2>2. Bag(p[m.parent].writeRequests)
    BY <1>4, <2>1 DEF WaitsFor, PendingEntry
  <2>3. m \in DOMAIN p[m.parent].writeRequests
    BY <1>4, <2>1, <2>2, CopiesTypes
  <2> QED BY <1>3, <2>3 DEF EmptyBag, SetToBag
<1>6. WaitsFor(p1, q)
  BY <1>2, <1>4 DEF WaitsFor
<1>7. SentFor(p1, q, issued')
  <2>1. ASSUME NEW m \in DOMAIN q
        PROVE  /\ m.parent \in 0..issued'
               /\ m.kind = "write" =>
                    /\ m.parent \in DOMAIN p1
                    /\ CopiesOf(m, p1[m.parent].writeRequests) = CopiesOf(m, q)
               /\ m.kind \in {"open", "close", "bypass"} => m.parent \notin DOMAIN p1 /\ m.parent # 0
    BY <1>2, <1>4, <1>5 DEF SentFor
  <2> QED BY <2>1 DEF SentFor
<1>8. Accounted(p1, q, D, issued')
  <2>1. DOMAIN p1 \subseteq D \union {0} /\ D \subseteq 1..issued'
    BY <1>2, <1>4
  <2> QED BY <1>4, <1>6, <1>7, <2>1 DEF Accounted
<1>9. ProgressiveInv'
  BY <1>1, <1>2, <1>8 DEF ProgressiveInv, q
<1>10. ASSUME NEW r \in DOMAIN asks \ DOMAIN live', asks[r].kind = "close",
              NEW m \in AtFs("write")', NEW k \in m.keys
       PROVE  k.filename # asks[r].access.file
  <2>1. r \in done
    BY <1>2, <1>10
  <2>2. m \in DOMAIN q /\ m.kind = "write"
    BY <1>10 DEF AtFs, BagToSet, q
  <2>3. m.parent \in DOMAIN p /\ m \in DOMAIN p[m.parent].writeRequests
    BY <1>4, <1>5, <2>2 DEF SentFor
  <2>4. k \in UNION {x.keys : x \in BagToSet(p[m.parent].writeRequests)}
    BY <1>10, <2>3 DEF BagToSet
  <2>5. ~HasPendingData(p, asks[r].access.file)
    BY <1>3, <1>10, <2>1
  <2> QED BY <2>3, <2>4, <2>5 DEF HasPendingData
<1> QED BY <1>9, <1>10
-----------------------------------------------------------------------------
(* The steps of a progressive node.                                        *)

\* The requests that wait for the cache and end in this step: a close among
\* them leaves no write of its file at the file system.
ClosesEndWrites ==
  \A r \in DOMAIN pendingRequests \ DOMAIN live' :
    r # 0 /\ live[r].kind = "close" =>
      \A m \in AtFs("write")' : \A k \in m.keys : k.filename # live[r].access.file

LEMMA Handled ==
  ASSUME ProgressiveInv, class = "progressive", class' = class,
         NEW p, NEW asks, Accounted(p, fs', DOMAIN asks, issued'), CompletePending(p, asks),
         \A r \in DOMAIN live : r \in DOMAIN asks /\ asks[r] = live[r]
  PROVE  ProgressiveInv' /\ ClosesEndWrites
<1>1. ProgressiveInv' /\ \A r \in DOMAIN asks \ DOMAIN live' :
        asks[r].kind = "close" =>
          \A m \in AtFs("write")' : \A k \in m.keys : k.filename # asks[r].access.file
  BY Completes
<1>2. DOMAIN pendingRequests \subseteq DOMAIN live \union {0}
  BY DEF ProgressiveInv, Accounted
<1> QED BY <1>1, <1>2 DEF ClosesEndWrites

LEMMA NoneEnds ==
  ASSUME ProgressiveInv, class = "progressive", live' = live
  PROVE  ClosesEndWrites
BY DEF ProgressiveInv, Accounted, ClosesEndWrites

LEMMA AskedIs ==
  ASSUME ProgressiveInv, class = "progressive", NEW c, NEW kind, NEW a
  PROVE  /\ DOMAIN Asked(c, kind, a) = DOMAIN live \union {issued + 1}
         /\ \A r \in DOMAIN live : r \in DOMAIN Asked(c, kind, a) /\ Asked(c, kind, a)[r] = live[r]
<1>1. issued \in Nat /\ DOMAIN live \subseteq 1..issued
  BY DEF ProgressiveInv, Accounted
<1> QED BY <1>1 DEF Asked, With, Id

LEMMA AskedHandled ==
  ASSUME ProgressiveInv, class = "progressive", class' = class, NEW c, NEW kind, NEW a, NEW p,
         Accounted(p, fs', DOMAIN Asked(c, kind, a), issued'), CompletePending(p, Asked(c, kind, a))
  PROVE  ProgressiveInv' /\ ClosesEndWrites
<1>0. \A r \in DOMAIN live : r \in DOMAIN Asked(c, kind, a) /\ Asked(c, kind, a)[r] = live[r]
  BY AskedIs, Zenon
<1> DEFINE asks == Asked(c, kind, a)
<1>1. \A r \in DOMAIN live : r \in DOMAIN asks /\ asks[r] = live[r]
  BY <1>0
<1>2. Accounted(p, fs', DOMAIN asks, issued') /\ CompletePending(p, asks)
  OBVIOUS
<1> HIDE DEF asks
<1> QED BY <1>1, <1>2, Handled

LEMMA ForwardHandled ==
  ASSUME ProgressiveInv, class = "progressive", class' = class, issued' = Id,
         NEW c, NEW keys, NEW kind \in {"open", "close", "bypass"}, NEW asked, NEW a,
         fs' = BagAdd(fs, ToFs(c, kind, keys, {}, Id)),
         CompletePending(pendingRequests, Asked(c, asked, a))
  PROVE  ProgressiveInv' /\ ClosesEndWrites
<1>1. Accounted(pendingRequests, fs, DOMAIN live, issued)
  BY DEF ProgressiveInv
<1>2. Accounted(pendingRequests, fs', DOMAIN live \union {issued + 1}, issued')
  BY <1>1, ForwardSent DEF Id
<1>3. DOMAIN Asked(c, asked, a) = DOMAIN live \union {issued + 1}
  BY AskedIs
<1> QED BY <1>2, <1>3, AskedHandled

\* A new request may be registered, and writes for it and for no request.
LEMMA NewRequest ==
  ASSUME ProgressiveInv, class = "progressive", NEW c, NEW kind, NEW a
  PROVE  /\ Accounted(pendingRequests, fs, DOMAIN Asked(c, kind, a), issued + 1)
         /\ issued + 1 \in DOMAIN Asked(c, kind, a)
         /\ \A m \in DOMAIN fs : m.parent # issued + 1
         /\ \A m \in DOMAIN fs : m.parent = 0 => m.kind \notin {"open", "close", "bypass"}
<1>1. Accounted(pendingRequests, fs, DOMAIN live, issued)
  BY DEF ProgressiveInv
<1>2. \A m \in DOMAIN fs : m.parent \in 0..issued /\ issued \in Nat
  BY <1>1 DEF Accounted, SentFor
<1>3. \A m \in DOMAIN fs : m.parent # issued + 1
  BY <1>2
<1>4. \A m \in DOMAIN fs : m.parent = 0 => m.kind \notin {"open", "close", "bypass"}
  BY <1>1 DEF Accounted, SentFor
<1>5. DOMAIN Asked(c, kind, a) = DOMAIN live \union {issued + 1}
  BY AskedIs
<1>6. Accounted(pendingRequests, fs, DOMAIN live \union {issued + 1}, issued + 1)
  BY <1>1, Numbered
<1> QED BY <1>3, <1>4, <1>5, <1>6

LEMMA CloseHandled ==
  ASSUME ProgressiveInv, class = "progressive", NEW c \in Caches, NEW f \in Files, ProgressiveClose(c, f)
  PROVE  ProgressiveInv' /\ ClosesEndWrites
<1>1. class' = class /\ issued' = Id
  BY DEF ProgressiveClose, Issue
<1>2. CASE openFileCounts'[f] = 0
  <2> DEFINE w == WriteRequests(c, DirtyFileEntries(f), Id)
             asks == Asked(c, "close", OnFile(f))
             p == RegisterWriteRequests(pendingRequests, Id, w)
  <2>1. fs' = fs (+) w /\ CompletePending(p, asks)
    BY <1>2 DEF ProgressiveClose
  <2>2. /\ Accounted(pendingRequests, fs, DOMAIN asks, issued')
        /\ Id \in DOMAIN asks \union {0}
        /\ \A m \in DOMAIN fs : m.parent = Id => m.kind \notin {"open", "close", "bypass"}
    BY <1>1, NewRequest DEF Id
  <2>3. Accounted(p, fs', DOMAIN asks, issued')
    BY <2>1, <2>2, WriteRequestsRegistered
  <2> QED BY <1>1, <2>1, <2>3, AskedHandled
<1>3. CASE openFileCounts'[f] # 0
  <2>1. fs' = BagAdd(fs, ToFs(c, "close", {}, {}, Id))
        /\ CompletePending(pendingRequests, Asked(c, "close", OnFile(f)))
    BY <1>3 DEF ProgressiveClose
  <2> QED BY <1>1, <2>1, ForwardHandled
<1> QED BY <1>2, <1>3

LEMMA StopHandled ==
  ASSUME ProgressiveInv, class = "progressive", class' = class, issued' \in {issued, Id}, NEW why, ProgressiveFail(why)
  PROVE  ProgressiveInv' /\ ClosesEndWrites
<1>1. Accounted(pendingRequests, fs, DOMAIN live, issued)
  BY DEF ProgressiveInv
<1>2. pendingRequests' = pendingRequests /\ fs' = fs /\ live' = live
  BY DEF ProgressiveFail
<1>3. Accounted(pendingRequests, fs, DOMAIN live, issued')
  BY <1>1 DEF Accounted, SentFor, Id
<1> QED BY <1>2, <1>3, NoneEnds DEF ProgressiveInv

\* What a read waits for was asked for by it or by others.
LEMMA ReadHandled ==
  ASSUME ProgressiveInv, class = "progressive", NEW c \in Caches, NEW a \in Accesses, ProgressiveRead(c, a)
  PROVE  ProgressiveInv' /\ ClosesEndWrites
<1>1. class' = class /\ issued' = Id
  BY DEF ProgressiveRead, Issue
<1> DEFINE wanted == MissingPages(AllKeys(a))
           trimmed == TrimPendingReads(pendingRequests, wanted)
           asks == Asked(c, "read", a)
           p == RegisterReadPages(pendingRequests, Id, wanted)
<1>2. CASE trimmed = {}
  BY <1>1, <1>2, StopHandled DEF ProgressiveRead
<1>3. CASE trimmed # {}
  <2>1. fs' = fs (+) ReadRequests(c, trimmed, Id) /\ CompletePending(p, asks)
    BY <1>3 DEF ProgressiveRead
  <2>2. /\ Accounted(pendingRequests, fs, DOMAIN asks, issued') /\ Id \in DOMAIN asks
        /\ \A m \in DOMAIN fs : m.parent # Id
    BY <1>1, NewRequest DEF Id
  <2>3. /\ Accounted(pendingRequests, fs', DOMAIN asks, issued')
        /\ ReadKeys(fs') = ReadKeys(fs) \union trimmed
        /\ \A m \in DOMAIN fs' : m \in DOMAIN fs \/ m.kind = "read"
    BY <2>1, <2>2, ReadsSent
  <2>4. wanted \subseteq ReadKeys(fs')
    <3> SUFFICES ASSUME NEW k \in wanted PROVE k \in ReadKeys(fs) \/ k \in trimmed
      BY <2>3
    <3>1. CASE pendingRequests = << >>
      BY <3>1 DEF TrimPendingReads
    <3>2. CASE pendingRequests # << >> /\ k \notin trimmed
      <4>1. \A r \in DOMAIN pendingRequests : k \in pendingRequests[r].readPages
        BY <3>2 DEF TrimPendingReads
      <4>2. PICK r \in DOMAIN pendingRequests : TRUE
        BY <1>3, <3>2 DEF TrimPendingReads
      <4> QED BY <2>2, <4>1, <4>2 DEF Accounted, WaitsFor
    <3> QED BY <3>1, <3>2
  <2>5. Accounted(p, fs', DOMAIN asks, issued')
    BY <2>2, <2>3, <2>4, ReadsRegistered
  <2> QED BY <1>1, <2>1, <2>5, AskedHandled
<1> QED BY <1>2, <1>3

\* What an update pushes out is written for request 0.
LEMMA PushedOut ==
  ASSUME NEW p, NEW q, NEW D, NEW n, Accounted(p, q, D, n), NEW c, NEW out
  PROVE  Accounted(IF out = << >> THEN p ELSE RegisterWriteRequests(p, 0, WriteRequests(c, out, 0)),
                   q (+) WriteRequests(c, out, 0), D, n)
<1>1. \A m \in DOMAIN q : m.parent = 0 => m.kind \notin {"open", "close", "bypass"}
  BY DEF Accounted, SentFor
<1>2. 0 \in D \union {0}
  OBVIOUS
<1> DEFINE w == WriteRequests(c, out, 0)
<1>3. /\ Accounted(RegisterWriteRequests(p, 0, w), q (+) w, D, n)
      /\ out = << >> => q (+) w = q
  BY <1>1, <1>2, WriteRequestsRegistered
<1> QED BY <1>3

LEMMA WriteHandled ==
  ASSUME ProgressiveInv, class = "progressive", NEW c \in Caches, NEW a \in Accesses, ProgressiveWrite(c, a)
  PROVE  ProgressiveInv' /\ ClosesEndWrites
<1>1. class' = class /\ issued' = Id
  BY DEF ProgressiveWrite, Issue
<1> DEFINE asks == Asked(c, "write", a)
           p == RegisterReadPages(pendingRequests, Id, {})
<1>2. PICK u, writes :
        /\ writes = WriteRequests(c, u.out, 0)
        /\ fs' = fs (+) writes
        /\ CompletePending(IF u.out = << >> THEN p ELSE RegisterWriteRequests(p, 0, writes), asks)
  BY DEF ProgressiveWrite
<1>3. /\ Accounted(pendingRequests, fs, DOMAIN asks, issued') /\ Id \in DOMAIN asks
      /\ \A m \in DOMAIN fs : m.parent # Id
  BY <1>1, NewRequest DEF Id
<1>4. Accounted(p, fs, DOMAIN asks, issued')
  BY <1>3, ReadsRegistered
<1> HIDE DEF p
<1>5. Accounted(IF u.out = << >> THEN p ELSE RegisterWriteRequests(p, 0, writes), fs', DOMAIN asks, issued')
  BY <1>2, <1>4, PushedOut
<1> QED BY <1>1, <1>2, <1>5, AskedHandled

LEMMA ProgressiveRequestHandled ==
  ASSUME ProgressiveInv, class = "progressive", NEW c \in Caches, NEW f \in Files, ProgressiveRequest(c, f)
  PROVE  ProgressiveInv' /\ ClosesEndWrites
<1>1. CASE ProgressiveOpen(c, f)
  BY <1>1, ForwardHandled DEF ProgressiveOpen, Issue
<1>2. CASE ProgressiveFakeOpen(c, f)
  BY <1>2, NoneEnds DEF ProgressiveFakeOpen, ProgressiveInv
<1>3. CASE ProgressiveClose(c, f)
  BY <1>3, CloseHandled
<1>4. CASE \E a \in AccessesOf(f) : ProgressiveRead(c, a) \/ ProgressiveBypass(c, a) \/ ProgressiveWrite(c, a)
  <2>1. PICK a \in AccessesOf(f) : ProgressiveRead(c, a) \/ ProgressiveBypass(c, a) \/ ProgressiveWrite(c, a)
    BY <1>4
  <2>2. a \in Accesses
    BY DEF AccessesOf
  <2>3. CASE ProgressiveBypass(c, a)
    BY <2>3, ForwardHandled DEF ProgressiveBypass, Issue
  <2> QED BY <2>1, <2>2, <2>3, ReadHandled, WriteHandled
<1> QED BY <1>1, <1>2, <1>3, <1>4 DEF ProgressiveRequest

LEMMA ProgressiveAnswerHandled ==
  ASSUME ProgressiveInv, class = "progressive", NEW m \in DOMAIN fs, ProgressiveAnswer(m)
  PROVE  ProgressiveInv' /\ ClosesEndWrites
<1>1. Accounted(pendingRequests, fs, DOMAIN live, issued)
  BY DEF ProgressiveInv
<1>2. \A r \in DOMAIN live : r \in DOMAIN live /\ live[r] = live[r]
  OBVIOUS
<1>3. CASE ProgressiveForward(m)
  <2>1. /\ m.kind \in {"open", "close", "bypass"} /\ m.parent \in DOMAIN live
        /\ live' = Without(live, {m.parent}) /\ fs' = BagRemove(fs, m)
        /\ pendingRequests' = pendingRequests /\ issued' = issued /\ class' = class
    BY <1>3 DEF ProgressiveForward, PassedOn
  <2>2. DOMAIN live' = DOMAIN live \ {m.parent}
    BY <2>1 DEF Without
  <2>3. Accounted(pendingRequests, fs', DOMAIN live', issued) /\ m.parent \notin DOMAIN pendingRequests
    BY <1>1, <2>1, <2>2, ForwardAnswered
  <2>4. ClosesEndWrites
    BY <1>1, <2>2, <2>3 DEF ClosesEndWrites, Accounted
  <2> QED BY <2>1, <2>3, <2>4 DEF ProgressiveInv
<1>4. CASE ProgressiveReadDone(m)
  <2> DEFINE p == ResolvePages(pendingRequests, m.keys)
             q == BagRemove(fs, m)
  <2>1. PICK u, writes :
          /\ writes = WriteRequests(m.cache, u.out, 0)
          /\ fs' = q (+) writes
          /\ CompletePending(IF u.out = << >> THEN p ELSE RegisterWriteRequests(p, 0, writes), live)
    BY <1>4 DEF ProgressiveReadDone
  <2>2. m.kind = "read" /\ issued' = issued /\ class' = class
    BY <1>4 DEF ProgressiveReadDone, IsAnswerTo
  <2>3. Accounted(p, q, DOMAIN live, issued)
    BY <1>1, <2>2, PagesResolved
  <2> HIDE DEF p, q
  <2>4. Accounted(IF u.out = << >> THEN p ELSE RegisterWriteRequests(p, 0, writes), fs', DOMAIN live, issued')
    BY <2>1, <2>2, <2>3, PushedOut
  <2> QED BY <1>2, <2>1, <2>2, <2>4, Handled
<1>5. CASE ProgressiveWrittenBack(m)
  <2>1. /\ m.kind = "write" /\ fs' = BagRemove(fs, m) /\ issued' = issued /\ class' = class
        /\ CompletePending(ResolveRequest(pendingRequests, m), live)
    BY <1>5 DEF ProgressiveWrittenBack
  <2>2. Accounted(ResolveRequest(pendingRequests, m), fs', DOMAIN live, issued')
    BY <1>1, <2>1, WriteResolved
  <2> QED BY <1>2, <2>1, <2>2, Handled
<1>6. CASE ProgressiveDangling(m)
  BY <1>6, StopHandled DEF ProgressiveDangling
<1> QED BY <1>3, <1>4, <1>5, <1>6 DEF ProgressiveAnswer
-----------------------------------------------------------------------------
(* What a node with twins knows of its pending requests, when q is the bag *)
(* of messages at the file system, asks the requests that are not answered *)
(* and n the last request's number.                                        *)

Forwarded(m) == m.kind \in {"open", "close", "bypass"}

AsksOK(asks, n) ==
  /\ n \in Nat /\ DOMAIN asks \subseteq 1..n
  /\ \A r \in DOMAIN asks :
       asks[r].cache \in Caches /\ (asks[r].kind = "write" => asks[r].access \in Accesses)

\* The messages: a page read of a write asks for pages it covers in part.
MessagesOK(q, asks, n) ==
  /\ Bag(q) /\ IsFiniteSet(DOMAIN q)
  /\ \A m \in DOMAIN q :
       /\ m.parent \in 1..n
       /\ m.parent \in DOMAIN asks => asks[m.parent].cache = m.cache
       /\ m.kind = "read" =>
            /\ OfFile(m.keys)
            /\ m.parent \in DOMAIN asks /\ asks[m.parent].kind = "write" =>
                 m.keys \subseteq PartialKeys(asks[m.parent].access)

\* The messages of module c of a kind, and its region writes for request r.
SentBy(q, c, kind) == {m \in DOMAIN q : m.cache = c /\ m.kind = kind}

KeysSent(q, c, kind) == UNION {m.keys : m \in SentBy(q, c, kind)}

RegionWrites(q, c, r) == {m \in SentBy(q, c, "partial") : m.parent = r}

Total(q, c, r) == Cardinality(Copies(RegionWrites(q, c, r), q))

Counted(p, r) == IF r \in DOMAIN p.partial THEN p.partial[r] ELSE 0

PagesEntry(e) == e = [readPages |-> e.readPages, writePages |-> e.writePages]

\* The pending maps p of module c.
ModuleOK(c, p, q, asks) ==
  /\ p = [pages |-> p.pages, partial |-> p.partial]
  /\ DOMAIN p.partial \subseteq DOMAIN p.pages
  /\ \A r \in DOMAIN p.pages :
       /\ r \in DOMAIN asks /\ asks[r].cache = c
       /\ PagesEntry(p.pages[r])
       /\ p.pages[r].readPages \subseteq KeysSent(q, c, "read")
       /\ p.pages[r].writePages \subseteq KeysSent(q, c, "write")
  /\ \A r \in DOMAIN asks : asks[r].cache = c => Counted(p, r) = Total(q, c, r)
  /\ \A m \in DOMAIN q :
       m.cache = c /\ m.parent \in DOMAIN asks => (m.parent \in DOMAIN p.pages <=> ~Forwarded(m))

TwinInv ==
  /\ pendingPages = [c \in Caches |-> pendingPages[c]]
  /\ pendingPartialPages = [c \in Caches |-> pendingPartialPages[c]]
  /\ class \in TwinClasses =>
       /\ AsksOK(live, issued) /\ MessagesOK(fs, live, issued)
       /\ \A c \in Caches : ModuleOK(c, Pending(c), fs, live)
  /\ class \notin TwinClasses => \A c \in Caches : Pending(c) = [pages |-> << >>, partial |-> << >>]

LEMMA CopiesFinite ==
  ASSUME NEW q, Bag(q), NEW S, IsFiniteSet(S)
  PROVE  IsFiniteSet(Copies(S, q)) /\ Cardinality(Copies(S, q)) \in Nat
<1> DEFINE f == [m \in S |-> {m} \X (1..CopiesOf(m, q))]
<1>1. IsFiniteSet({f[m] : m \in DOMAIN f})
  BY ImageFinite
<1>2. ASSUME NEW m \in S PROVE IsFiniteSet({m} \X (1..CopiesOf(m, q)))
  <2>1. CopiesOf(m, q) \in Nat
    BY CopiesTypes
  <2>2. IsFiniteSet(1..CopiesOf(m, q)) /\ IsFiniteSet({m})
    <3>1. IsFiniteSet(1..CopiesOf(m, q))
      BY <2>1, FS_Interval
    <3> QED BY <3>1, FS_Singleton
  <2> QED BY <2>2, FS_Product
<1>3. \A T \in {f[m] : m \in DOMAIN f} : IsFiniteSet(T)
  BY <1>2
<1>4. IsFiniteSet(UNION {f[m] : m \in DOMAIN f})
  <2> HIDE DEF f
  <2> QED BY <1>1, <1>3, FS_UNION
<1>5. Copies(S, q) = UNION {f[m] : m \in DOMAIN f}
  BY DEF Copies
<1> QED BY <1>4, <1>5, FS_CardinalityType

LEMMA CopiesHas ==
  ASSUME NEW S, NEW q, NEW m, NEW i
  PROVE  <<m, i>> \in Copies(S, q) <=> m \in S /\ i \in 1..CopiesOf(m, q)
BY DEF Copies

LEMMA CopiesPairs ==
  ASSUME NEW S, NEW q, NEW x \in Copies(S, q)
  PROVE  \E m \in S : \E i \in 1..CopiesOf(m, q) : x = <<m, i>>
BY DEF Copies

\* The copies that count for request r of module c.
IsRegionWrite(m, c, r) == m.cache = c /\ m.kind = "partial" /\ m.parent = r

LEMMA RegionCopies ==
  ASSUME NEW q, Bag(q), NEW c, NEW r, NEW m, NEW i
  PROVE  <<m, i>> \in Copies(RegionWrites(q, c, r), q)
           <=> IsRegionWrite(m, c, r) /\ i \in 1..CopiesOf(m, q)
<1>1. CopiesOf(m, q) \in Nat /\ (CopiesOf(m, q) > 0 <=> m \in DOMAIN q)
  BY CopiesTypes
<1>2. i \in 1..CopiesOf(m, q) => m \in DOMAIN q
  BY <1>1
<1>3. m \in RegionWrites(q, c, r) <=> m \in DOMAIN q /\ IsRegionWrite(m, c, r)
  BY DEF RegionWrites, SentBy, IsRegionWrite
<1> QED BY <1>2, <1>3, CopiesHas

LEMMA TotalIs ==
  ASSUME NEW q, Bag(q), IsFiniteSet(DOMAIN q), NEW c, NEW r
  PROVE  Total(q, c, r) \in Nat /\ IsFiniteSet(Copies(RegionWrites(q, c, r), q))
<1>1. RegionWrites(q, c, r) \subseteq DOMAIN q
  BY DEF RegionWrites, SentBy
<1>2. IsFiniteSet(RegionWrites(q, c, r))
  BY <1>1, FS_Subset
<1> QED BY <1>2, CopiesFinite DEF Total

LEMMA TotalSame ==
  ASSUME NEW q, Bag(q), NEW q1, Bag(q1), NEW c, NEW r,
         \A m : IsRegionWrite(m, c, r) => CopiesOf(m, q1) = CopiesOf(m, q)
  PROVE  Total(q1, c, r) = Total(q, c, r)
<1> DEFINE A == Copies(RegionWrites(q, c, r), q)
           B == Copies(RegionWrites(q1, c, r), q1)
<1>1. ASSUME NEW x \in A PROVE x \in B
  <2>1. PICK m, i : x = <<m, i>>
    BY CopiesPairs
  <2> QED BY <2>1, RegionCopies
<1>2. ASSUME NEW x \in B PROVE x \in A
  <2>1. PICK m, i : x = <<m, i>>
    BY CopiesPairs
  <2> QED BY <2>1, RegionCopies
<1>3. A = B
  BY <1>1, <1>2
<1> QED BY <1>3 DEF Total

\* Region writes that are sent once each.
LEMMA TotalAdds ==
  ASSUME NEW q, Bag(q), IsFiniteSet(DOMAIN q), NEW c, NEW r, NEW X, IsFiniteSet(X),
         \A m \in X : IsRegionWrite(m, c, r)
  PROVE  Total(q (+) SetToBag(X), c, r) = Total(q, c, r) + Cardinality(X)
<1> DEFINE q1 == q (+) SetToBag(X)
           A == Copies(RegionWrites(q, c, r), q)
           B == Copies(RegionWrites(q1, c, r), q1)
           N == {<<m, CopiesOf(m, q) + 1>> : m \in X}
<1>1. /\ Bag(SetToBag(X)) /\ DOMAIN SetToBag(X) = X
      /\ \A m : CopiesOf(m, SetToBag(X)) = IF m \in X THEN 1 ELSE 0
  BY BagOfSet DEF CopiesOf, SetToBag
<1>2. Bag(q1) /\ \A m : CopiesOf(m, q1) = CopiesOf(m, q) + (IF m \in X THEN 1 ELSE 0)
  <2>1. Bag(q1) /\ \A m : CopiesOf(m, q1) = CopiesOf(m, q) + CopiesOf(m, SetToBag(X))
    BY <1>1, BagJoined
  <2> HIDE DEF q1
  <2> QED BY <1>1, <2>1
<1>3. \A m : CopiesOf(m, q) \in Nat
  BY CopiesTypes
<1> HIDE DEF q1
<1>4. B = A \union N
  <2>1. ASSUME NEW x \in B PROVE x \in A \union N
    <3>1. PICK m, i : x = <<m, i>>
      BY CopiesPairs
    <3>2. IsRegionWrite(m, c, r) /\ i \in 1..CopiesOf(m, q1)
      BY <1>2, <3>1, RegionCopies
    <3>3. CASE i \in 1..CopiesOf(m, q)
      BY <3>1, <3>2, <3>3, RegionCopies
    <3>4. CASE i \notin 1..CopiesOf(m, q)
      <4>1. m \in X /\ i = CopiesOf(m, q) + 1
        BY <1>2, <1>3, <3>2, <3>4
      <4> QED BY <3>1, <4>1
    <3> QED BY <3>3, <3>4
  <2>2. ASSUME NEW x \in A PROVE x \in B
    <3>1. PICK m, i : x = <<m, i>>
      BY CopiesPairs
    <3>2. IsRegionWrite(m, c, r) /\ i \in 1..CopiesOf(m, q)
      BY <3>1, RegionCopies
    <3>3. i \in 1..CopiesOf(m, q1)
      BY <1>2, <1>3, <3>2
    <3> QED BY <1>2, <3>1, <3>2, <3>3, RegionCopies
  <2>3. ASSUME NEW m \in X PROVE <<m, CopiesOf(m, q) + 1>> \in B
    <3>1. CopiesOf(m, q) + 1 \in 1..CopiesOf(m, q1)
      BY <1>2, <1>3
    <3> QED BY <1>2, <3>1, RegionCopies
  <2> HIDE DEF A, B
  <2> QED BY <2>1, <2>2, <2>3
<1>5. A \intersect N = {}
  <2>1. ASSUME NEW m \in X, <<m, CopiesOf(m, q) + 1>> \in A PROVE FALSE
    <3>1. CopiesOf(m, q) + 1 \in 1..CopiesOf(m, q)
      BY <2>1, RegionCopies
    <3> QED BY <1>3, <3>1
  <2> HIDE DEF A
  <2> QED BY <2>1
<1>6. IsFiniteSet(N) /\ Cardinality(N) = Cardinality(X)
  <2> DEFINE f == [m \in X |-> <<m, CopiesOf(m, q) + 1>>]
  <2>1. f \in Bijection(X, N)
    BY DEF Bijection, Injection, IsInjective, Surjection
  <2>2. ExistsBijection(X, N)
    BY <2>1 DEF ExistsBijection
  <2> HIDE DEF N
  <2> QED BY <2>2, FS_Bijection
<1>7. IsFiniteSet(A) /\ Cardinality(A) \in Nat
  BY TotalIs DEF Total
<1>8. Cardinality(X) \in Nat /\ Cardinality({}) = 0
  BY FS_CardinalityType, FS_EmptySet
<1> HIDE DEF A, B, N
<1>9. Cardinality(A \union N) = Cardinality(A) + Cardinality(N) - Cardinality(A \intersect N)
  BY <1>6, <1>7, FS_Union
<1>10. Cardinality(B) = Cardinality(A) + Cardinality(X)
  BY <1>4, <1>5, <1>6, <1>7, <1>8, <1>9
<1> QED BY <1>10 DEF Total, A, B, q1

LEMMA TotalDrops ==
  ASSUME NEW q, Bag(q), IsFiniteSet(DOMAIN q), NEW c, NEW r, NEW m \in DOMAIN q, IsRegionWrite(m, c, r)
  PROVE  Total(q, c, r) >= 1 /\ Total(BagRemove(q, m), c, r) = Total(q, c, r) - 1
<1> DEFINE q1 == BagRemove(q, m)
           A == Copies(RegionWrites(q, c, r), q)
           B == Copies(RegionWrites(q1, c, r), q1)
           z == <<m, CopiesOf(m, q)>>
<1>1. Bag(q1) /\ \A x : CopiesOf(x, q1) = CopiesOf(x, q) - (IF x = m THEN 1 ELSE 0)
  BY BagRemoved
<1>2. \A x : CopiesOf(x, q) \in Nat
  BY CopiesTypes
<1>3. CopiesOf(m, q) > 0
  BY CopiesTypes
<1> HIDE DEF q1
<1>4. z \in A
  <2>1. CopiesOf(m, q) \in 1..CopiesOf(m, q)
    BY <1>2, <1>3
  <2> QED BY <2>1, RegionCopies
<1>5. B = A \ {z}
  <2>1. ASSUME NEW x \in B PROVE x \in A /\ x # z
    <3>1. PICK y, i : x = <<y, i>>
      BY CopiesPairs
    <3>2. IsRegionWrite(y, c, r) /\ i \in 1..CopiesOf(y, q1)
      BY <1>1, <3>1, RegionCopies
    <3>3. i \in 1..CopiesOf(y, q) /\ (y = m => i # CopiesOf(m, q))
      BY <1>1, <1>2, <3>2
    <3> QED BY <3>1, <3>2, <3>3, RegionCopies
  <2>2. ASSUME NEW x \in A, x # z PROVE x \in B
    <3>1. PICK y, i : x = <<y, i>>
      BY CopiesPairs
    <3>2. IsRegionWrite(y, c, r) /\ i \in 1..CopiesOf(y, q)
      BY <3>1, RegionCopies
    <3>3. i \in 1..CopiesOf(y, q1)
      BY <1>1, <1>2, <2>2, <3>1, <3>2
    <3> QED BY <1>1, <3>1, <3>2, <3>3, RegionCopies
  <2> HIDE DEF A, B, z
  <2> QED BY <2>1, <2>2
<1>6. IsFiniteSet(A) /\ Cardinality(A) \in Nat
  BY TotalIs DEF Total
<1> HIDE DEF A, B, z
<1>7. Cardinality(B) = Cardinality(A) - 1
  BY <1>4, <1>5, <1>6, FS_RemoveElement
<1>8. Cardinality(B) \in Nat
  BY <1>5, <1>6, FS_RemoveElement, FS_CardinalityType
<1> QED BY <1>6, <1>7, <1>8 DEF Total, A, B, q1
-----------------------------------------------------------------------------
(* The messages that write what was recalled.                              *)

LEMMA TotalJoins ==
  ASSUME NEW q, Bag(q), IsFiniteSet(DOMAIN q), NEW b, Bag(b), IsFiniteSet(DOMAIN b), NEW c, NEW r
  PROVE  Total(q (+) b, c, r) = Total(q, c, r) + Total(b, c, r)
<1> DEFINE q1 == q (+) b
           A == Copies(RegionWrites(q, c, r), q)
           B == Copies(RegionWrites(b, c, r), b)
           J == Copies(RegionWrites(q1, c, r), q1)
           After(x) == <<x[1], CopiesOf(x[1], q) + x[2]>>
           N == {After(x) : x \in B}
<1>1. Bag(q1) /\ \A m : CopiesOf(m, q1) = CopiesOf(m, q) + CopiesOf(m, b)
  BY BagJoined
<1>2. \A m : CopiesOf(m, q) \in Nat /\ CopiesOf(m, b) \in Nat
  BY CopiesTypes
<1> HIDE DEF q1
<1>3. ASSUME NEW x \in B
      PROVE  /\ x = <<x[1], x[2]>> /\ IsRegionWrite(x[1], c, r) /\ x[2] \in 1..CopiesOf(x[1], b)
  <2>1. PICK m, i : x = <<m, i>>
    BY CopiesPairs
  <2> QED BY <2>1, RegionCopies
<1> HIDE DEF B
<1>4. J = A \union N
  <2>1. ASSUME NEW x \in J PROVE x \in A \union N
    <3>1. PICK m, i : x = <<m, i>>
      BY CopiesPairs
    <3>2. IsRegionWrite(m, c, r) /\ i \in 1..CopiesOf(m, q1)
      BY <1>1, <3>1, RegionCopies
    <3>3. CASE i \in 1..CopiesOf(m, q)
      BY <3>1, <3>2, <3>3, RegionCopies
    <3>4. CASE i \notin 1..CopiesOf(m, q)
      <4>1. i - CopiesOf(m, q) \in 1..CopiesOf(m, b) /\ CopiesOf(m, q) + (i - CopiesOf(m, q)) = i
        BY <1>1, <1>2, <3>2, <3>4
      <4>2. <<m, i - CopiesOf(m, q)>> \in B
        BY <3>2, <4>1, RegionCopies DEF B
      <4>3. After(<<m, i - CopiesOf(m, q)>>) = x
        BY <3>1, <4>1
      <4> QED BY <4>2, <4>3
    <3> QED BY <3>3, <3>4
  <2>2. ASSUME NEW x \in A PROVE x \in J
    <3>1. PICK m, i : x = <<m, i>>
      BY CopiesPairs
    <3>2. IsRegionWrite(m, c, r) /\ i \in 1..CopiesOf(m, q)
      BY <3>1, RegionCopies
    <3>3. i \in 1..CopiesOf(m, q1)
      BY <1>1, <1>2, <3>2
    <3> QED BY <1>1, <3>1, <3>2, <3>3, RegionCopies
  <2>3. ASSUME NEW x \in B PROVE After(x) \in J
    <3>1. IsRegionWrite(x[1], c, r) /\ x[2] \in 1..CopiesOf(x[1], b)
      BY <1>3
    <3>2. CopiesOf(x[1], q) + x[2] \in 1..CopiesOf(x[1], q1)
      BY <1>1, <1>2, <3>1
    <3> QED BY <1>1, <3>1, <3>2, RegionCopies
  <2> HIDE DEF A, J
  <2> QED BY <2>1, <2>2, <2>3
<1>5. A \intersect N = {}
  <2>1. ASSUME NEW x \in B, After(x) \in A PROVE FALSE
    <3>1. CopiesOf(x[1], q) + x[2] \in 1..CopiesOf(x[1], q)
      BY <2>1, RegionCopies
    <3> QED BY <1>2, <1>3, <3>1
  <2> HIDE DEF A
  <2> QED BY <2>1
<1>6. IsFiniteSet(B) /\ Cardinality(B) \in Nat /\ Cardinality(B) = Total(b, c, r)
  BY TotalIs DEF Total, B
<1>7. IsFiniteSet(N) /\ Cardinality(N) = Cardinality(B)
  <2> DEFINE f == [x \in B |-> After(x)]
  <2>1. f \in [B -> N] /\ \A y \in N : \E x \in B : f[x] = y
    OBVIOUS
  <2>2. ASSUME NEW x \in B, NEW y \in B, f[x] = f[y] PROVE x = y
    <3>1. x[1] = y[1] /\ CopiesOf(x[1], q) + x[2] = CopiesOf(x[1], q) + y[2]
      BY <2>2
    <3>2. x[2] = y[2]
      BY <1>2, <1>3, <3>1
    <3> QED BY <1>3, <3>1, <3>2
  <2> HIDE DEF f, N
  <2>3. f \in Bijection(B, N)
    BY <2>1, <2>2 DEF Bijection, Injection, IsInjective, Surjection
  <2>4. ExistsBijection(B, N)
    BY <2>3 DEF ExistsBijection
  <2> QED BY <1>6, <2>4, FS_Bijection
<1>8. IsFiniteSet(A) /\ Cardinality(A) \in Nat
  BY TotalIs DEF Total
<1> HIDE DEF A, J, N
<1>9. Cardinality(A \union N) = Cardinality(A) + Cardinality(N) - Cardinality(A \intersect N)
  BY <1>7, <1>8, FS_Union
<1>10. Cardinality({}) = 0
  BY FS_EmptySet
<1>11. Cardinality(J) = Cardinality(A) + Total(b, c, r)
  BY <1>4, <1>5, <1>6, <1>7, <1>8, <1>9, <1>10
<1> QED BY <1>11 DEF Total, A, J, q1

\* What is asked of the messages b that write the recalled entries out for
\* request r of module c.
RegionWriteOf(c, k, g, r) == ToFs(c, "partial", {k}, {g}, r)

PartsOut(b, c, r, out) ==
  /\ Bag(b) /\ IsFiniteSet(DOMAIN b)
  /\ \A m \in DOMAIN b : IsRegionWrite(m, c, r)
  /\ \A i \in DOMAIN out : \A g \in TwinOf(out[i]) : RegionWriteOf(c, out[i].key, g, r) \in DOMAIN b
  /\ \A n0 \in Nat : TwinsCounted(n0, out) = n0 + Total(b, c, r)

LEMMA NoTotal ==
  ASSUME NEW q, NEW c, NEW r, \A m \in DOMAIN q : ~IsRegionWrite(m, c, r)
  PROVE  Total(q, c, r) = 0
<1>1. RegionWrites(q, c, r) = {}
  BY DEF RegionWrites, SentBy, IsRegionWrite
<1>2. Copies({}, q) = {}
  BY DEF Copies
<1> QED BY <1>1, <1>2, FS_EmptySet DEF Total

\* The messages for the twin of one entry.
TwinWrites(c, e, r) == {RegionWriteOf(c, e.key, g, r) : g \in TwinOf(e)}

LEMMA TwinWritesAre ==
  ASSUME NEW c, NEW r, NEW e \in Outs
  PROVE  /\ IsFiniteSet(TwinWrites(c, e, r)) /\ Cardinality(TwinWrites(c, e, r)) = Cardinality(TwinOf(e))
         /\ Cardinality(TwinOf(e)) \in Nat
         /\ \A m \in TwinWrites(c, e, r) : IsRegionWrite(m, c, r)
<1> DEFINE T == TwinOf(e)
           W == TwinWrites(c, e, r)
           f == [g \in T |-> RegionWriteOf(c, e.key, g, r)]
<1>1. IsFiniteSet(T)
  BY FS_EmptySet DEF TwinOf, Outs, Parts
<1>2. \A g \in T : RegionWriteOf(c, e.key, g, r).regions = {g} /\ IsRegionWrite(RegionWriteOf(c, e.key, g, r), c, r)
  BY DEF RegionWriteOf, ToFs, IsRegionWrite
<1> HIDE DEF T
<1>3. f \in Bijection(T, W)
  <2>1. f \in [T -> W] /\ \A m \in W : \E g \in T : f[g] = m
    BY DEF TwinWrites, T
  <2>2. ASSUME NEW g \in T, NEW h \in T, f[g] = f[h] PROVE g = h
    <3>1. {g} = {h}
      BY <1>2, <2>2
    <3> QED BY <3>1
  <2> HIDE DEF f, W
  <2> QED BY <2>1, <2>2 DEF Bijection, Injection, IsInjective, Surjection
<1>4. ExistsBijection(T, W)
  BY <1>3 DEF ExistsBijection
<1>5. IsFiniteSet(W) /\ Cardinality(W) = Cardinality(T)
  <2> HIDE DEF W, f
  <2> QED BY <1>1, <1>4, FS_Bijection
<1>6. Cardinality(T) \in Nat
  BY <1>1, FS_CardinalityType
<1> QED BY <1>2, <1>5, <1>6 DEF TwinWrites, T

LEMMA PartialWritten ==
  ASSUME NEW c, NEW r, NEW out \in Seq(Outs)
  PROVE  PartsOut(PartialWritebacks(c, out, r), c, r, out)
<1> DEFINE n == Len(out)
<1>1. n \in Nat /\ DOMAIN out = 1 .. n /\ \A i \in 1 .. n : out[i] \in Outs
  OBVIOUS
<1>2. PICK b : Runs(b, BagLoop(c, r), EmptyBag, n, out) /\ PartialWritebacks(c, out, r) = b[n]
  BY BagRuns
<1> DEFINE One(x, k) == x (+) SetToBag(TwinWrites(c, k, r))
<1>3. b[0] = EmptyBag /\ \A i \in 1 .. n : b[i] = b[i - 1] (+) SetToBag(TwinWrites(c, out[i], r))
  <2>1. \A x, k : Do(BagLoop(c, r), x, k) = x (+) SetToBag(TwinWrites(c, k, r))
    BY DEF Do, BagLoop, TwinWrites, RegionWriteOf
  <2> QED BY <1>2, <2>1 DEF Runs
<1>4. ASSUME NEW n0 \in Nat
      PROVE  \E h : /\ h[0] = n0 /\ \A i \in 1 .. n : h[i] = h[i - 1] + Cardinality(TwinOf(out[i]))
                    /\ TwinsCounted(n0, out) = h[n]
  <2>1. PICK h : Runs(h, CountLoop, n0, n, out) /\ TwinsCounted(n0, out) = h[n]
    BY CountRuns
  <2>2. \A x, k : Do(CountLoop, x, k) = x + Cardinality(TwinOf(k))
    BY DEF Do, CountLoop
  <2> QED BY <2>1, <2>2 DEF Runs
<1> HIDE DEF n
<1> DEFINE Good(i) == /\ Bag(b[i]) /\ IsFiniteSet(DOMAIN b[i])
                      /\ \A m \in DOMAIN b[i] : IsRegionWrite(m, c, r)
                      /\ \A j \in 1 .. i : \A g \in TwinOf(out[j]) :
                           RegionWriteOf(c, out[j].key, g, r) \in DOMAIN b[i]
           T == {i \in 0 .. n : Good(i)}
<1>5. 0 \in T
  <2>1. Bag(EmptyBag) /\ DOMAIN EmptyBag = {}
    BY BagOfSet DEF EmptyBag
  <2>2. IsFiniteSet(DOMAIN EmptyBag) /\ 0 \in 0 .. n /\ 1 .. 0 = {}
    BY <1>1, <2>1, FS_EmptySet
  <2> QED BY <1>3, <2>1, <2>2
<1>6. ASSUME NEW i \in 1 .. n, i - 1 \in T
      PROVE  i \in T /\ Total(b[i], c, r) = Total(b[i - 1], c, r) + Cardinality(TwinOf(out[i]))
  <2> DEFINE x == b[i - 1]
             W == TwinWrites(c, out[i], r)
  <2>1. Good(i - 1) /\ b[i] = x (+) SetToBag(W)
    BY <1>3, <1>6
  <2>2. IsFiniteSet(W) /\ Cardinality(W) = Cardinality(TwinOf(out[i])) /\ \A m \in W : IsRegionWrite(m, c, r)
    BY <1>1, TwinWritesAre
  <2>3. \A g \in TwinOf(out[i]) : RegionWriteOf(c, out[i].key, g, r) \in W
    BY DEF TwinWrites
  <2> HIDE DEF W
  <2>0. Bag(x) /\ IsFiniteSet(DOMAIN x) /\ Bag(SetToBag(W)) /\ DOMAIN SetToBag(W) = W
    BY <2>1, BagOfSet
  <2>4. Bag(b[i]) /\ DOMAIN b[i] = DOMAIN x \union W
    <3> HIDE DEF x
    <3> QED BY <2>0, <2>1, BagJoined
  <2>5. IsFiniteSet(DOMAIN b[i])
    <3> HIDE DEF x
    <3> QED BY <2>0, <2>2, <2>4, FS_Union
  <2>6. ASSUME NEW j \in 1 .. i, NEW g \in TwinOf(out[j])
        PROVE  RegionWriteOf(c, out[j].key, g, r) \in DOMAIN b[i]
    <3>1. CASE j = i
      BY <2>3, <2>4, <3>1
    <3>2. CASE j # i
      <4>1. j \in 1 .. i - 1
        BY <3>2
      <4> QED BY <2>1, <2>4, <4>1
    <3> QED BY <3>1, <3>2
  <2>7. Total(b[i], c, r) = Total(x, c, r) + Cardinality(W)
    BY <2>1, <2>2, TotalAdds
  <2>8. i \in 0 .. n
    OBVIOUS
  <2> QED BY <2>1, <2>2, <2>4, <2>5, <2>6, <2>7, <2>8
<1>7. \A i \in 0 .. n : i \in T
  <2>1. \A i \in 1 .. n : i - 1 \in T => i \in T
    BY <1>6
  <2> HIDE DEF T
  <2> QED BY <1>1, <1>5, <2>1, EveryTurn
<1>8. n \in 0 .. n
  BY <1>1
<1>9. ASSUME NEW n0 \in Nat PROVE TwinsCounted(n0, out) = n0 + Total(b[n], c, r)
  <2>1. PICK h : /\ h[0] = n0 /\ \A i \in 1 .. n : h[i] = h[i - 1] + Cardinality(TwinOf(out[i]))
                 /\ TwinsCounted(n0, out) = h[n]
    BY <1>4
  <2> DEFINE S == {i \in 0 .. n : h[i] = n0 + Total(b[i], c, r)}
  <2>2. 0 \in S
    <3>1. Total(EmptyBag, c, r) = 0
      <4>1. DOMAIN EmptyBag = {}
        BY BagOfSet DEF EmptyBag
      <4> QED BY <4>1, NoTotal
    <3> QED BY <1>1, <1>3, <2>1, <3>1
  <2>3. ASSUME NEW i \in 1 .. n, i - 1 \in S PROVE i \in S
    <3>1. i - 1 \in T /\ i \in 0 .. n
      <4>1. i - 1 \in 0 .. n /\ i \in 0 .. n
        BY <1>1
      <4> HIDE DEF T
      <4> QED BY <1>7, <4>1
    <3>2. Total(b[i], c, r) = Total(b[i - 1], c, r) + Cardinality(TwinOf(out[i]))
      BY <1>6, <3>1
    <3>3. Total(b[i - 1], c, r) \in Nat
      BY <3>1, TotalIs
    <3>4. Cardinality(TwinOf(out[i])) \in Nat
      BY <1>1, TwinWritesAre
    <3>5. h[i - 1] = n0 + Total(b[i - 1], c, r) /\ h[i] = h[i - 1] + Cardinality(TwinOf(out[i]))
      BY <2>1, <2>3
    <3>6. h[i] = n0 + Total(b[i], c, r)
      BY <3>2, <3>3, <3>4, <3>5
    <3> QED BY <3>1, <3>6
  <2>4. n \in S
    <3> HIDE DEF S
    <3> QED BY <1>1, <1>8, <2>2, <2>3, EveryTurn
  <2> QED BY <2>1, <2>4
<1>10. Good(n)
  BY <1>7, <1>8
<1>11. \A i \in DOMAIN out : \A g \in TwinOf(out[i]) : RegionWriteOf(c, out[i].key, g, r) \in DOMAIN b[n]
  BY <1>1, <1>10
<1> QED BY <1>2, <1>9, <1>10, <1>11 DEF PartsOut, n
WritesOut(b, c, r, out) ==
  /\ Bag(b) /\ IsFiniteSet(DOMAIN b)
  /\ \A m \in DOMAIN b : m.cache = c /\ m.parent = r /\ m.kind \in {"partial", "write"}
  /\ FullOf(out) \subseteq KeysSent(b, c, "write")
  /\ \A i \in DOMAIN out : \A g \in TwinOf(out[i]) : RegionWriteOf(c, out[i].key, g, r) \in DOMAIN b
  /\ \A n0 \in Nat : TwinsCounted(n0, out) = n0 + Total(b, c, r)

LEMMA FullFinite ==
  ASSUME NEW out \in Seq(Outs)
  PROVE  IsFiniteSet(FullOf(out))
<1> DEFINE J == {j \in DOMAIN out : out[j].isFull}
           f == [i \in J |-> out[i].key]
<1>1. IsFiniteSet(J)
  <2>1. Len(out) \in Nat /\ DOMAIN out = 1 .. Len(out)
    OBVIOUS
  <2>2. IsFiniteSet(1 .. Len(out))
    BY <2>1, FS_Interval
  <2> QED BY <2>1, <2>2, FS_Subset
<1>2. IsFiniteSet({f[x] : x \in DOMAIN f})
  BY <1>1, ImageFinite
<1>3. {f[x] : x \in DOMAIN f} = FullOf(out)
  BY DEF FullOf
<1> QED BY <1>2, <1>3

LEMMA PagesWritten ==
  ASSUME NEW c, NEW r, NEW out \in Seq(Outs), NEW W, IsFiniteSet(W),
         \A m \in W : m.cache = c /\ m.parent = r /\ m.kind = "write",
         \A k \in FullOf(out) : \E m \in W : k \in m.keys
  PROVE  WritesOut(PartialWritebacks(c, out, r) (+) SetToBag(W), c, r, out)
<1> DEFINE a == PartialWritebacks(c, out, r)
           w == SetToBag(W)
           b == a (+) w
<1>1. PartsOut(a, c, r, out)
  BY PartialWritten
<1>2. Bag(w) /\ DOMAIN w = W
  BY BagOfSet
<1> HIDE DEF a, w
<1>3. Bag(a) /\ IsFiniteSet(DOMAIN a)
  BY <1>1 DEF PartsOut
<1>4. Bag(b) /\ DOMAIN b = DOMAIN a \union W
  BY <1>2, <1>3, BagJoined
<1>5. IsFiniteSet(DOMAIN b)
  BY <1>3, <1>4, FS_Union
<1>6. \A m \in DOMAIN b : m.cache = c /\ m.parent = r /\ m.kind \in {"partial", "write"}
  BY <1>1, <1>4 DEF PartsOut, IsRegionWrite
<1>7. Total(b, c, r) = Total(a, c, r)
  <2>1. Total(b, c, r) = Total(a, c, r) + Total(w, c, r)
    BY <1>2, <1>3, TotalJoins
  <2>2. Total(w, c, r) = 0
    BY <1>2, NoTotal DEF IsRegionWrite
  <2>3. Total(a, c, r) \in Nat
    BY <1>3, TotalIs
  <2> QED BY <2>1, <2>2, <2>3
<1> HIDE DEF b
<1>8. FullOf(out) \subseteq KeysSent(b, c, "write")
  BY <1>4 DEF KeysSent, SentBy
<1>9. \A i \in DOMAIN out : \A g \in TwinOf(out[i]) : RegionWriteOf(c, out[i].key, g, r) \in DOMAIN b
  BY <1>1, <1>4 DEF PartsOut
<1>10. \A n0 \in Nat : TwinsCounted(n0, out) = n0 + Total(b, c, r)
  BY <1>1, <1>7 DEF PartsOut
<1>11. WritesOut(b, c, r, out)
  BY <1>4, <1>5, <1>6, <1>8, <1>9, <1>10 DEF WritesOut
<1> QED BY <1>11 DEF b, a, w

LEMMA BlockIndexedWritten ==
  ASSUME NEW c, NEW r, NEW out \in Seq(Outs)
  PROVE  WritesOut(BlockIndexedWritebacks(c, out, r), c, r, out)
<1> DEFINE K == FullOf(out)
           Of(f) == {k \in K : k.filename = f}
           F == {k.filename : k \in K}
           W == {ToFs(c, "write", Of(f), {}, r) : f \in F}
<1>1. IsFiniteSet(K)
  BY FullFinite
<1>2. IsFiniteSet(F)
  <2> DEFINE name == [k \in K |-> k.filename]
  <2>1. IsFiniteSet({name[k] : k \in DOMAIN name})
    BY <1>1, ImageFinite
  <2>2. {name[k] : k \in DOMAIN name} = F
    OBVIOUS
  <2> QED BY <2>1, <2>2
<1>3. IsFiniteSet(W)
  <2> DEFINE msg == [f \in F |-> ToFs(c, "write", Of(f), {}, r)]
  <2> HIDE DEF F
  <2>1. IsFiniteSet({msg[k] : k \in DOMAIN msg})
    BY <1>2, ImageFinite
  <2>2. {msg[k] : k \in DOMAIN msg} = W
    OBVIOUS
  <2> QED BY <2>1, <2>2
<1>4. \A m \in W : m.cache = c /\ m.parent = r /\ m.kind = "write"
  BY DEF ToFs
<1>5. ASSUME NEW k \in K PROVE \E m \in W : k \in m.keys
  <2> DEFINE m == ToFs(c, "write", Of(k.filename), {}, r)
  <2>1. m \in W /\ k \in Of(k.filename)
    OBVIOUS
  <2>2. m.keys = Of(k.filename)
    <3> HIDE DEF Of
    <3> QED BY SentIs
  <2> QED BY <2>1, <2>2
<1>6. BlockIndexedWritebacks(c, out, r) = PartialWritebacks(c, out, r) (+) SetToBag(W)
  BY DEF BlockIndexedWritebacks
<1> HIDE DEF W
<1> QED BY <1>3, <1>4, <1>5, <1>6, PagesWritten

LEMMA SinglePagesWritten ==
  ASSUME NEW c, NEW r, NEW out \in Seq(Outs)
  PROVE  WritesOut(SinglePagesWritebacks(c, out, r), c, r, out)
<1> DEFINE K == FullOf(out)
           W == {ToFs(c, "write", {k}, {}, r) : k \in K}
<1>1. IsFiniteSet(K)
  BY FullFinite
<1>2. IsFiniteSet(W)
  <2> DEFINE msg == [k \in K |-> ToFs(c, "write", {k}, {}, r)]
  <2> HIDE DEF K
  <2>1. IsFiniteSet({msg[k] : k \in DOMAIN msg})
    BY <1>1, ImageFinite
  <2>2. {msg[k] : k \in DOMAIN msg} = W
    OBVIOUS
  <2> QED BY <2>1, <2>2
<1>3. \A m \in W : m.cache = c /\ m.parent = r /\ m.kind = "write"
  BY DEF ToFs
<1>4. \A k \in K : ToFs(c, "write", {k}, {}, r) \in W /\ k \in ToFs(c, "write", {k}, {}, r).keys
  BY DEF ToFs
<1>5. SinglePagesWritebacks(c, out, r) = PartialWritebacks(c, out, r) (+) SetToBag(W)
  BY DEF SinglePagesWritebacks
<1> HIDE DEF W
<1> QED BY <1>2, <1>3, <1>4, <1>5, PagesWritten

LEMMA WrittenOut ==
  ASSUME NEW c, NEW r, NEW out \in Seq(Outs)
  PROVE  WritesOut(Writebacks(c, out, r), c, r, out)
BY BlockIndexedWritten, SinglePagesWritten DEF Writebacks
-----------------------------------------------------------------------------
(* The pending maps p of module c while it handles a request or an answer: *)
(* q are the messages at the file system, asks the requests.               *)

Mine(c, p, q, asks, n) == AsksOK(asks, n) /\ MessagesOK(q, asks, n) /\ ModuleOK(c, p, q, asks)

\* The messages of the other modules stay as they are.
Apart(c, q, q1) == \A m : m.cache # c => CopiesOf(m, q1) = CopiesOf(m, q)

AskedBy(c, r, asks) == r \in DOMAIN asks /\ asks[r].cache = c

\* Request r was not passed on.
NotForwarded(q, r) == \A m \in DOMAIN q : m.parent = r => ~Forwarded(m)

LEMMA ApartOn ==
  ASSUME NEW c, NEW q, NEW q1, NEW q2, Apart(c, q, q1), Apart(c, q1, q2)
  PROVE  Apart(c, q, q2)
BY DEF Apart

LEMMA ApartSame ==
  ASSUME NEW c, NEW q
  PROVE  Apart(c, q, q)
BY DEF Apart

LEMMA ApartAdds ==
  ASSUME NEW c, NEW q, Bag(q), NEW b, Bag(b), \A m \in DOMAIN b : m.cache = c
  PROVE  Apart(c, q, q (+) b)
<1> SUFFICES ASSUME NEW m, m.cache # c PROVE CopiesOf(m, q (+) b) = CopiesOf(m, q)
  BY DEF Apart
<1>1. CopiesOf(m, q (+) b) = CopiesOf(m, q) + CopiesOf(m, b) /\ CopiesOf(m, q) \in Nat
  BY BagJoined, CopiesTypes
<1>2. CopiesOf(m, b) = 0
  BY DEF CopiesOf
<1> QED BY <1>1, <1>2

LEMMA ApartTakes ==
  ASSUME NEW q, Bag(q), NEW m \in DOMAIN q
  PROVE  Apart(m.cache, q, BagRemove(q, m))
<1> SUFFICES ASSUME NEW x, x.cache # m.cache PROVE CopiesOf(x, BagRemove(q, m)) = CopiesOf(x, q)
  BY DEF Apart
<1>1. CopiesOf(x, BagRemove(q, m)) = CopiesOf(x, q) - 0 /\ CopiesOf(x, q) \in Nat
  BY BagRemoved, CopiesTypes
<1> QED BY <1>1

LEMMA PendingNotForwarded ==
  ASSUME NEW c, NEW p, NEW q, NEW asks, NEW n, Mine(c, p, q, asks, n), NEW r \in DOMAIN p.pages
  PROVE  NotForwarded(q, r) /\ AskedBy(c, r, asks)
<1>1. AskedBy(c, r, asks)
  BY DEF Mine, ModuleOK, AskedBy
<1>2. ASSUME NEW m \in DOMAIN q, m.parent = r PROVE ~Forwarded(m)
  <2>1. m.cache = c
    BY <1>1, <1>2 DEF Mine, MessagesOK, AskedBy
  <2> QED BY <1>1, <1>2, <2>1 DEF Mine, ModuleOK, AskedBy
<1> QED BY <1>1, <1>2 DEF NotForwarded

\* A new request of module d, for any module c.
IsAsked(c, p, q, d, kind, a, asks) ==
  /\ Mine(c, p, q, asks, issued + 1)
  /\ AskedBy(d, issued + 1, asks)
  /\ asks[issued + 1] = [cache |-> d, kind |-> kind, access |-> a]
  /\ \A m \in DOMAIN q : m.parent # issued + 1
  /\ NotForwarded(q, issued + 1) /\ issued + 1 \notin DOMAIN p.pages
  /\ \A r \in DOMAIN live : r \in DOMAIN asks /\ asks[r] = live[r]
  /\ DOMAIN asks = DOMAIN live \union {issued + 1}

LEMMA TwinAsked ==
  ASSUME NEW c, NEW p, NEW q, Mine(c, p, q, live, issued),
         NEW d \in Caches, NEW kind, NEW a, kind = "write" => a \in Accesses
  PROVE  IsAsked(c, p, q, d, kind, a, Asked(d, kind, a))
<1> DEFINE n == issued
           e == [cache |-> d, kind |-> kind, access |-> a]
           asks == Asked(d, kind, a)
<1>1. n \in Nat /\ DOMAIN live \subseteq 1..n /\ n + 1 \notin DOMAIN live
  BY DEF Mine, AsksOK
<1>2. /\ DOMAIN asks = DOMAIN live \union {n + 1} /\ asks[n + 1] = e
      /\ \A r \in DOMAIN live : asks[r] = live[r]
  <2> HIDE DEF e
  <2>1. asks = With(live, n + 1, e)
    BY DEF Asked, Id, e
  <2> QED BY <1>1, <2>1 DEF With
<1>3. e.cache = d /\ e.kind = kind /\ e.access = a
  OBVIOUS
<1> HIDE DEF e, asks
<1>4. AsksOK(asks, n + 1)
  BY <1>1, <1>2, <1>3 DEF AsksOK, Mine
<1>5. \A m \in DOMAIN q : m.parent \in 1..n
  BY DEF Mine, MessagesOK
<1>6. \A m \in DOMAIN q : m.parent # n + 1 /\ m.parent \in 1..(n + 1)
  BY <1>1, <1>5
<1>7. MessagesOK(q, asks, n + 1)
  BY <1>2, <1>6 DEF MessagesOK, Mine
<1>8. n + 1 \notin DOMAIN p.pages /\ n + 1 \notin DOMAIN p.partial
  BY <1>1 DEF Mine, ModuleOK
<1>9. ModuleOK(c, p, q, asks)
  <2>1. Counted(p, n + 1) = Total(q, c, n + 1)
    <3>1. Total(q, c, n + 1) = 0
      BY <1>6, NoTotal DEF IsRegionWrite
    <3> QED BY <1>8, <3>1 DEF Counted
  <2>2. \A r \in DOMAIN asks : asks[r].cache = c => Counted(p, r) = Total(q, c, r)
    BY <1>2, <2>1 DEF Mine, ModuleOK
  <2>3. \A r \in DOMAIN p.pages :
          /\ r \in DOMAIN asks /\ asks[r].cache = c
          /\ PagesEntry(p.pages[r])
          /\ p.pages[r].readPages \subseteq KeysSent(q, c, "read")
          /\ p.pages[r].writePages \subseteq KeysSent(q, c, "write")
    BY <1>2 DEF Mine, ModuleOK
  <2>4. \A m \in DOMAIN q :
          m.cache = c /\ m.parent \in DOMAIN asks => (m.parent \in DOMAIN p.pages <=> ~Forwarded(m))
    BY <1>2, <1>6 DEF Mine, ModuleOK
  <2> QED BY <2>2, <2>3, <2>4 DEF Mine, ModuleOK
<1>10. AskedBy(d, n + 1, asks)
  BY <1>2, <1>3 DEF AskedBy
<1>11. NotForwarded(q, n + 1)
  BY <1>6 DEF NotForwarded
<1> QED BY <1>2, <1>4, <1>6, <1>7, <1>8, <1>9, <1>10, <1>11 DEF Mine, IsAsked, asks, e

\* A request is passed on.
LEMMA TwinForwardSent ==
  ASSUME NEW c, NEW p, NEW q, NEW asks, NEW n, Mine(c, p, q, asks, n),
         NEW r, AskedBy(c, r, asks), r \notin DOMAIN p.pages,
         NEW kind \in {"open", "close", "bypass"}, NEW keys
  PROVE  LET q1 == BagAdd(q, ToFs(c, kind, keys, {}, r)) IN Mine(c, p, q1, asks, n) /\ Apart(c, q, q1)
<1> DEFINE x == ToFs(c, kind, keys, {}, r)
           q1 == BagAdd(q, x)
<1>1. x.kind = kind /\ x.parent = r /\ x.cache = c
  BY SentIs
<1>2. Bag(q) /\ IsFiniteSet(DOMAIN q) /\ r \in 1..n
  BY DEF Mine, MessagesOK, AsksOK, AskedBy
<1> HIDE DEF x
<1>3. Bag(q1) /\ DOMAIN q1 = DOMAIN q \union {x}
      /\ \A m : CopiesOf(m, q1) = CopiesOf(m, q) + IF m = x THEN 1 ELSE 0
  BY <1>2, BagAdded
<1>4. \A m : m # x => CopiesOf(m, q1) = CopiesOf(m, q)
  <2>1. \A m : m # x => CopiesOf(m, q1) = CopiesOf(m, q) + 0
    BY <1>3
  <2> QED BY <1>2, <2>1, CopiesTypes
<1> HIDE DEF q1
<1>5. IsFiniteSet(DOMAIN q1)
  BY <1>2, <1>3, FS_AddElement
<1>6. MessagesOK(q1, asks, n)
  BY <1>1, <1>2, <1>3, <1>5 DEF MessagesOK, Mine, AskedBy
<1>7. KeysSent(q1, c, "read") = KeysSent(q, c, "read") /\ KeysSent(q1, c, "write") = KeysSent(q, c, "write")
  BY <1>1, <1>3 DEF KeysSent, SentBy
<1>8. \A s : Total(q1, c, s) = Total(q, c, s)
  <2> SUFFICES ASSUME NEW s PROVE Total(q1, c, s) = Total(q, c, s)
    OBVIOUS
  <2>1. \A m : IsRegionWrite(m, c, s) => CopiesOf(m, q1) = CopiesOf(m, q)
    BY <1>1, <1>4 DEF IsRegionWrite
  <2> QED BY <1>2, <1>3, <2>1, TotalSame
<1>9. ModuleOK(c, p, q1, asks)
  <2>1. \A m \in DOMAIN q1 :
          m.cache = c /\ m.parent \in DOMAIN asks => (m.parent \in DOMAIN p.pages <=> ~Forwarded(m))
    BY <1>1, <1>3 DEF Mine, ModuleOK, Forwarded
  <2> QED BY <1>7, <1>8, <2>1 DEF Mine, ModuleOK
<1>10. Apart(c, q, q1)
  BY <1>1, <1>4 DEF Apart
<1> QED BY <1>6, <1>9, <1>10 DEF Mine, q1, x

LEMMA RegisteredIs ==
  ASSUME NEW c, NEW p, NEW q, NEW asks, ModuleOK(c, p, q, asks), NEW r
  PROVE  LET e == Registered(p.pages, r)
         IN  /\ PagesEntry(e)
             /\ e.readPages \subseteq KeysSent(q, c, "read")
             /\ e.writePages \subseteq KeysSent(q, c, "write")
<1>1. CASE r \in DOMAIN p.pages
  BY <1>1 DEF Registered, ModuleOK
<1>2. CASE r \notin DOMAIN p.pages
  BY <1>2 DEF Registered, PagesEntry
<1> QED BY <1>1, <1>2

LEMMA EntryIs ==
  ASSUME NEW e, PagesEntry(e), NEW x
  PROVE  /\ [e EXCEPT !.readPages = x] = [readPages |-> x, writePages |-> e.writePages]
         /\ [e EXCEPT !.writePages = x] = [readPages |-> e.readPages, writePages |-> x]
<1> DEFINE a == e.readPages
           b == e.writePages
<1>1. e = [readPages |-> a, writePages |-> b]
  BY DEF PagesEntry
<1> HIDE DEF a, b
<1>2. /\ [[readPages |-> a, writePages |-> b] EXCEPT !.readPages = x] = [readPages |-> x, writePages |-> b]
      /\ [[readPages |-> a, writePages |-> b] EXCEPT !.writePages = x] = [readPages |-> a, writePages |-> x]
  OBVIOUS
<1> QED BY <1>1, <1>2 DEF a, b

LEMMA RegisterIs ==
  ASSUME NEW p, p = [pages |-> p.pages, partial |-> p.partial], NEW r, NEW keys
  PROVE  LET e == Registered(p.pages, r)
         IN  RegisterPendingPages(p, r, keys)
               = [pages |-> With(p.pages, r, [e EXCEPT !.readPages = e.readPages \union keys]),
                  partial |-> p.partial]
<1> DEFINE a == p.pages
           b == p.partial
           e == Registered(a, r)
           x == With(a, r, [e EXCEPT !.readPages = e.readPages \union keys])
<1>1. RegisterPendingPages(p, r, keys) = [p EXCEPT !.pages = x]
  BY DEF RegisterPendingPages
<1>2. p = [pages |-> a, partial |-> b]
  OBVIOUS
<1> HIDE DEF x, a, b
<1>3. [[pages |-> a, partial |-> b] EXCEPT !.pages = x] = [pages |-> x, partial |-> b]
  OBVIOUS
<1>4. RegisterPendingPages(p, r, keys) = [pages |-> x, partial |-> b]
  BY <1>1, <1>2, <1>3
<1> QED BY <1>4 DEF x, a, b

\* Page reads W are sent for request r, which waits for these keys.
LEMMA ReadsAsked ==
  ASSUME NEW c, NEW p, NEW q, NEW asks, NEW n, Mine(c, p, q, asks, n),
         NEW r, AskedBy(c, r, asks), NotForwarded(q, r), NEW W, IsFiniteSet(W),
         \A m \in W : /\ m.cache = c /\ m.parent = r /\ m.kind = "read" /\ OfFile(m.keys)
                      /\ asks[r].kind = "write" => m.keys \subseteq PartialKeys(asks[r].access),
         NEW keys, keys \subseteq KeysSent(q (+) SetToBag(W), c, "read")
  PROVE  LET q1 == q (+) SetToBag(W)
             p1 == RegisterPendingPages(p, r, keys)
         IN  Mine(c, p1, q1, asks, n) /\ Apart(c, q, q1) /\ r \in DOMAIN p1.pages
<1> DEFINE w == SetToBag(W)
           q1 == q (+) w
           p1 == RegisterPendingPages(p, r, keys)
           e == Registered(p.pages, r)
           e1 == [readPages |-> e.readPages \union keys, writePages |-> e.writePages]
           P == With(p.pages, r, e1)
<1>1. Bag(q) /\ IsFiniteSet(DOMAIN q) /\ Bag(w) /\ DOMAIN w = W /\ r \in 1..n
  BY BagOfSet DEF Mine, MessagesOK, AsksOK, AskedBy
<1>2. PagesEntry(e) /\ e.readPages \subseteq KeysSent(q, c, "read") /\ e.writePages \subseteq KeysSent(q, c, "write")
  BY RegisteredIs DEF Mine
<1>3. p1 = [pages |-> P, partial |-> p.partial]
  <2>1. [e EXCEPT !.readPages = e.readPages \union keys] = e1
    <3> HIDE DEF e
    <3> QED BY <1>2, EntryIs
  <2>2. p = [pages |-> p.pages, partial |-> p.partial]
    BY DEF Mine, ModuleOK
  <2> HIDE DEF e1
  <2>3. p1 = [pages |-> With(p.pages, r, [e EXCEPT !.readPages = e.readPages \union keys]), partial |-> p.partial]
    BY <2>2, RegisterIs
  <2> HIDE DEF p1, e
  <2> QED BY <2>1, <2>3
<1>4. DOMAIN P = DOMAIN p.pages \union {r} /\ P[r] = e1 /\ \A x \in DOMAIN p.pages \ {r} : P[x] = p.pages[x]
  <2> HIDE DEF e1
  <2> QED BY DEF With
<1>5. PagesEntry(e1) /\ e1.readPages = e.readPages \union keys /\ e1.writePages = e.writePages
  BY DEF PagesEntry
<1>6. p1.pages = P /\ p1.partial = p.partial /\ p1 = [pages |-> p1.pages, partial |-> p1.partial]
  <2> HIDE DEF P, p1
  <2> QED BY <1>3
<1> HIDE DEF w, e, e1, P, p1
<1>7. Bag(q1) /\ DOMAIN q1 = DOMAIN q \union W /\ \A m : CopiesOf(m, q1) = CopiesOf(m, q) + CopiesOf(m, w)
  BY <1>1, BagJoined
<1>8. \A m : m \notin W => CopiesOf(m, q1) = CopiesOf(m, q)
  <2>1. \A m : m \notin W => CopiesOf(m, w) = 0
    BY <1>1 DEF CopiesOf
  <2> QED BY <1>1, <1>7, <2>1, CopiesTypes
<1> HIDE DEF q1
<1>9. IsFiniteSet(DOMAIN q1)
  BY <1>1, <1>7, FS_Union
<1>10. MessagesOK(q1, asks, n)
  <2>1. ASSUME NEW m \in W
        PROVE  /\ m.parent \in 1..n
               /\ m.parent \in DOMAIN asks => asks[m.parent].cache = m.cache
               /\ OfFile(m.keys)
               /\ m.parent \in DOMAIN asks /\ asks[m.parent].kind = "write" =>
                    m.keys \subseteq PartialKeys(asks[m.parent].access)
    BY <1>1 DEF AskedBy
  <2> QED BY <1>7, <1>9, <2>1 DEF MessagesOK, Mine
<1>11. /\ KeysSent(q, c, "read") \subseteq KeysSent(q1, c, "read")
       /\ KeysSent(q, c, "write") \subseteq KeysSent(q1, c, "write")
       /\ keys \subseteq KeysSent(q1, c, "read")
  BY <1>7 DEF KeysSent, SentBy, q1, w
<1>12. \A s : Total(q1, c, s) = Total(q, c, s)
  <2> SUFFICES ASSUME NEW s PROVE Total(q1, c, s) = Total(q, c, s)
    OBVIOUS
  <2>1. \A m : IsRegionWrite(m, c, s) => CopiesOf(m, q1) = CopiesOf(m, q)
    BY <1>8 DEF IsRegionWrite
  <2> QED BY <1>1, <1>7, <2>1, TotalSame
<1>13. ModuleOK(c, p1, q1, asks)
  <2>1. DOMAIN p1.partial \subseteq DOMAIN p1.pages
    BY <1>4, <1>6 DEF Mine, ModuleOK
  <2>2. ASSUME NEW x \in DOMAIN p1.pages
        PROVE  /\ x \in DOMAIN asks /\ asks[x].cache = c
               /\ PagesEntry(p1.pages[x])
               /\ p1.pages[x].readPages \subseteq KeysSent(q1, c, "read")
               /\ p1.pages[x].writePages \subseteq KeysSent(q1, c, "write")
    <3>1. CASE x = r
      BY <1>2, <1>4, <1>5, <1>6, <1>11, <3>1 DEF AskedBy
    <3>2. CASE x # r
      BY <1>4, <1>6, <1>11, <2>2, <3>2 DEF Mine, ModuleOK
    <3> QED BY <3>1, <3>2
  <2>3. \A x \in DOMAIN asks : asks[x].cache = c => Counted(p1, x) = Total(q1, c, x)
    BY <1>6, <1>12 DEF Mine, ModuleOK, Counted
  <2>4. ASSUME NEW m \in DOMAIN q1, m.cache = c, m.parent \in DOMAIN asks
        PROVE  m.parent \in DOMAIN p1.pages <=> ~Forwarded(m)
    <3>1. CASE m \in W
      BY <1>4, <1>6, <3>1 DEF Forwarded
    <3>2. CASE m \notin W
      BY <1>4, <1>6, <1>7, <2>4, <3>2 DEF Mine, ModuleOK, NotForwarded
    <3> QED BY <3>1, <3>2
  <2> QED BY <1>6, <2>1, <2>2, <2>3, <2>4 DEF ModuleOK
<1>14. Apart(c, q, q1)
  BY <1>8 DEF Apart
<1> QED BY <1>4, <1>6, <1>10, <1>13, <1>14 DEF Mine, p1, q1, w
-----------------------------------------------------------------------------
(* What the answer to a message leaves.                                    *)

LEMMA MessageTaken ==
  ASSUME NEW q, NEW asks, NEW n, MessagesOK(q, asks, n), NEW m \in DOMAIN q
  PROVE  LET q1 == BagRemove(q, m)
         IN  /\ MessagesOK(q1, asks, n)
             /\ DOMAIN q1 \subseteq DOMAIN q /\ DOMAIN q \ {m} \subseteq DOMAIN q1
             /\ \A c, kind : KeysSent(q, c, kind) \ m.keys \subseteq KeysSent(q1, c, kind)
             /\ \A c, kind : kind # m.kind => KeysSent(q, c, kind) \subseteq KeysSent(q1, c, kind)
             /\ \A c, s : ~IsRegionWrite(m, c, s) => Total(q1, c, s) = Total(q, c, s)
             /\ Apart(m.cache, q, q1)
<1> DEFINE q1 == BagRemove(q, m)
<1>1. Bag(q) /\ IsFiniteSet(DOMAIN q)
  BY DEF MessagesOK
<1>2. /\ Bag(q1) /\ DOMAIN q1 \subseteq DOMAIN q /\ DOMAIN q \ {m} \subseteq DOMAIN q1
      /\ \A x : CopiesOf(x, q1) = CopiesOf(x, q) - IF x = m THEN 1 ELSE 0
  BY <1>1, BagRemoved
<1>3. Apart(m.cache, q, q1)
  BY <1>1, ApartTakes
<1> HIDE DEF q1
<1>4. \A x : x # m => CopiesOf(x, q1) = CopiesOf(x, q)
  <2>1. \A x : x # m => CopiesOf(x, q1) = CopiesOf(x, q) - 0
    BY <1>2
  <2> QED BY <1>1, <2>1, CopiesTypes
<1>5. IsFiniteSet(DOMAIN q1)
  BY <1>1, <1>2, FS_Subset
<1>6. MessagesOK(q1, asks, n)
  BY <1>2, <1>5 DEF MessagesOK
<1>7. \A c, kind : KeysSent(q, c, kind) \ m.keys \subseteq KeysSent(q1, c, kind)
  BY <1>2 DEF KeysSent, SentBy
<1>8. \A c, kind : kind # m.kind => KeysSent(q, c, kind) \subseteq KeysSent(q1, c, kind)
  BY <1>2 DEF KeysSent, SentBy
<1>9. ASSUME NEW c, NEW s, ~IsRegionWrite(m, c, s) PROVE Total(q1, c, s) = Total(q, c, s)
  <2>1. \A x : IsRegionWrite(x, c, s) => CopiesOf(x, q1) = CopiesOf(x, q)
    BY <1>4, <1>9
  <2> QED BY <1>1, <1>2, <2>1, TotalSame
<1> QED BY <1>2, <1>3, <1>6, <1>7, <1>8, <1>9 DEF q1

\* A map of pages with these entries, and the counts of p.
WithPages(p, P) == [pages |-> P, partial |-> p.partial]

LEMMA ReadsResolvedIs ==
  ASSUME NEW p, p = [pages |-> p.pages, partial |-> p.partial], NEW keys,
         \A r \in DOMAIN p.pages : PagesEntry(p.pages[r])
  PROVE  ResolveReads(p, keys) =
           WithPages(p, [r \in DOMAIN p.pages |-> [readPages |-> p.pages[r].readPages \ keys,
                                                    writePages |-> p.pages[r].writePages]])
<1> DEFINE a == p.pages
           b == p.partial
           e(r) == [readPages |-> a[r].readPages \ keys, writePages |-> a[r].writePages]
           x == [r \in DOMAIN a |-> e(r)]
<1>1. \A r \in DOMAIN a : [a[r] EXCEPT !.readPages = a[r].readPages \ keys] = e(r)
  BY EntryIs
<1> HIDE DEF e
<1>2. ResolveReads(p, keys) = [p EXCEPT !.pages = x]
  BY <1>1 DEF ResolveReads
<1>3. p = [pages |-> a, partial |-> b]
  OBVIOUS
<1> HIDE DEF x, a, b
<1>4. [[pages |-> a, partial |-> b] EXCEPT !.pages = x] = [pages |-> x, partial |-> b]
  OBVIOUS
<1>5. ResolveReads(p, keys) = [pages |-> x, partial |-> b]
  BY <1>2, <1>3, <1>4
<1> QED BY <1>5 DEF WithPages, x, e, a, b

LEMMA WritesResolvedIs ==
  ASSUME NEW p, p = [pages |-> p.pages, partial |-> p.partial], NEW keys,
         \A r \in DOMAIN p.pages : PagesEntry(p.pages[r])
  PROVE  ResolveWrites(p, keys) =
           WithPages(p, [r \in DOMAIN p.pages |-> [readPages |-> p.pages[r].readPages,
                                                    writePages |-> p.pages[r].writePages \ keys]])
<1> DEFINE a == p.pages
           b == p.partial
           e(r) == [readPages |-> a[r].readPages, writePages |-> a[r].writePages \ keys]
           x == [r \in DOMAIN a |-> e(r)]
<1>1. \A r \in DOMAIN a : [a[r] EXCEPT !.writePages = a[r].writePages \ keys] = e(r)
  BY EntryIs
<1> HIDE DEF e
<1>2. ResolveWrites(p, keys) = [p EXCEPT !.pages = x]
  BY <1>1 DEF ResolveWrites
<1>3. p = [pages |-> a, partial |-> b]
  OBVIOUS
<1> HIDE DEF x, a, b
<1>4. [[pages |-> a, partial |-> b] EXCEPT !.pages = x] = [pages |-> x, partial |-> b]
  OBVIOUS
<1>5. ResolveWrites(p, keys) = [pages |-> x, partial |-> b]
  BY <1>2, <1>3, <1>4
<1> QED BY <1>5 DEF WithPages, x, e, a, b

\* Fewer pages to wait for, with the same counts.
LEMMA FewerPages ==
  ASSUME NEW c, NEW p, NEW q, NEW asks, NEW n, Mine(c, p, q, asks, n), NEW q1, NEW P,
         MessagesOK(q1, asks, n), DOMAIN q1 \subseteq DOMAIN q,
         \A s : Total(q1, c, s) = Total(q, c, s),
         DOMAIN P = DOMAIN p.pages,
         \A r \in DOMAIN P : /\ PagesEntry(P[r])
                             /\ P[r].readPages \subseteq KeysSent(q1, c, "read")
                             /\ P[r].writePages \subseteq KeysSent(q1, c, "write")
  PROVE  LET p1 == WithPages(p, P)
         IN  Mine(c, p1, q1, asks, n) /\ DOMAIN p1.pages = DOMAIN p.pages
<1> DEFINE p1 == WithPages(p, P)
<1>1. p1.pages = P /\ p1.partial = p.partial /\ p1 = [pages |-> p1.pages, partial |-> p1.partial]
  BY DEF WithPages
<1> HIDE DEF p1
<1>2. ModuleOK(c, p1, q1, asks)
  <2>1. \A x \in DOMAIN asks : asks[x].cache = c => Counted(p1, x) = Total(q1, c, x)
    BY <1>1 DEF Mine, ModuleOK, Counted
  <2> QED BY <1>1, <2>1 DEF Mine, ModuleOK
<1> QED BY <1>1, <1>2 DEF Mine, p1

\* Pages that are resolved for the requests of a module, with the answer to a
\* read of some of them or without.
LEMMA ReadsTaken ==
  ASSUME NEW c, NEW p, NEW q, NEW asks, NEW n, Mine(c, p, q, asks, n), NEW keys, NEW q1,
         \/ q1 = q
         \/ \E m \in DOMAIN q : m.kind = "read" /\ m.cache = c /\ m.keys \subseteq keys /\ q1 = BagRemove(q, m)
  PROVE  LET p1 == ResolveReads(p, keys)
         IN  Mine(c, p1, q1, asks, n) /\ Apart(c, q, q1) /\ DOMAIN p1.pages = DOMAIN p.pages
<1>1. /\ MessagesOK(q1, asks, n) /\ DOMAIN q1 \subseteq DOMAIN q
      /\ KeysSent(q, c, "read") \ keys \subseteq KeysSent(q1, c, "read")
      /\ KeysSent(q, c, "write") \subseteq KeysSent(q1, c, "write")
      /\ \A s : Total(q1, c, s) = Total(q, c, s)
      /\ Apart(c, q, q1)
  <2>1. CASE q1 = q
    BY <2>1, ApartSame DEF Mine
  <2>2. CASE \E m \in DOMAIN q : m.kind = "read" /\ m.cache = c /\ m.keys \subseteq keys /\ q1 = BagRemove(q, m)
    <3>1. PICK m \in DOMAIN q : m.kind = "read" /\ m.cache = c /\ m.keys \subseteq keys /\ q1 = BagRemove(q, m)
      BY <2>2
    <3>2. \A s : ~IsRegionWrite(m, c, s)
      BY <3>1 DEF IsRegionWrite
    <3>3. MessagesOK(q, asks, n)
      BY DEF Mine
    <3>4. /\ MessagesOK(q1, asks, n) /\ DOMAIN q1 \subseteq DOMAIN q
          /\ KeysSent(q, c, "read") \ m.keys \subseteq KeysSent(q1, c, "read")
          /\ KeysSent(q, c, "write") \subseteq KeysSent(q1, c, "write")
          /\ \A s : Total(q1, c, s) = Total(q, c, s)
          /\ Apart(c, q, q1)
      BY <3>1, <3>2, <3>3, MessageTaken
    <3> QED BY <3>1, <3>4
  <2> QED BY <2>1, <2>2
<1> DEFINE P == [r \in DOMAIN p.pages |-> [readPages |-> p.pages[r].readPages \ keys,
                                            writePages |-> p.pages[r].writePages]]
<1>2. \A r \in DOMAIN p.pages :
        /\ PagesEntry(p.pages[r])
        /\ p.pages[r].readPages \subseteq KeysSent(q, c, "read")
        /\ p.pages[r].writePages \subseteq KeysSent(q, c, "write")
  BY DEF Mine, ModuleOK
<1>3. ResolveReads(p, keys) = WithPages(p, P)
  BY <1>2, ReadsResolvedIs DEF Mine, ModuleOK
<1>4. DOMAIN P = DOMAIN p.pages
      /\ \A r \in DOMAIN P : /\ PagesEntry(P[r])
                             /\ P[r].readPages \subseteq KeysSent(q1, c, "read")
                             /\ P[r].writePages \subseteq KeysSent(q1, c, "write")
  BY <1>1, <1>2 DEF PagesEntry
<1> HIDE DEF P
<1>5. LET p1 == WithPages(p, P)
      IN  Mine(c, p1, q1, asks, n) /\ DOMAIN p1.pages = DOMAIN p.pages
  BY <1>1, <1>4, FewerPages
<1> QED BY <1>1, <1>3, <1>5

LEMMA WritesTaken ==
  ASSUME NEW c, NEW p, NEW q, NEW asks, NEW n, Mine(c, p, q, asks, n),
         NEW m \in DOMAIN q, m.kind = "write", m.cache = c
  PROVE  Mine(c, ResolveWrites(p, m.keys), BagRemove(q, m), asks, n) /\ Apart(c, q, BagRemove(q, m))
<1> DEFINE q1 == BagRemove(q, m)
           P == [r \in DOMAIN p.pages |-> [readPages |-> p.pages[r].readPages,
                                            writePages |-> p.pages[r].writePages \ m.keys]]
<1>1. /\ MessagesOK(q1, asks, n) /\ DOMAIN q1 \subseteq DOMAIN q
      /\ KeysSent(q, c, "write") \ m.keys \subseteq KeysSent(q1, c, "write")
      /\ KeysSent(q, c, "read") \subseteq KeysSent(q1, c, "read")
      /\ \A s : Total(q1, c, s) = Total(q, c, s)
      /\ Apart(c, q, q1)
  <2>1. \A s : ~IsRegionWrite(m, c, s)
    BY DEF IsRegionWrite
  <2>2. MessagesOK(q, asks, n)
    BY DEF Mine
  <2> QED BY <2>1, <2>2, MessageTaken
<1> HIDE DEF q1
<1>2. \A r \in DOMAIN p.pages :
        /\ PagesEntry(p.pages[r])
        /\ p.pages[r].readPages \subseteq KeysSent(q, c, "read")
        /\ p.pages[r].writePages \subseteq KeysSent(q, c, "write")
  BY DEF Mine, ModuleOK
<1>3. ResolveWrites(p, m.keys) = WithPages(p, P)
  BY <1>2, WritesResolvedIs DEF Mine, ModuleOK
<1>4. DOMAIN P = DOMAIN p.pages
      /\ \A r \in DOMAIN P : /\ PagesEntry(P[r])
                             /\ P[r].readPages \subseteq KeysSent(q1, c, "read")
                             /\ P[r].writePages \subseteq KeysSent(q1, c, "write")
  BY <1>1, <1>2 DEF PagesEntry
<1> HIDE DEF P
<1>5. Mine(c, WithPages(p, P), q1, asks, n)
  BY <1>1, <1>4, FewerPages
<1> QED BY <1>1, <1>3, <1>5 DEF q1

\* The answer to a region write lowers the count of its request.
LEMMA PartTaken ==
  ASSUME NEW c, NEW p, NEW q, NEW asks, NEW n, Mine(c, p, q, asks, n),
         NEW m \in DOMAIN q, m.kind = "partial", m.cache = c, m.parent \in DOMAIN asks
  PROVE  Mine(c, ResolvePartialWrite(p, m.parent), BagRemove(q, m), asks, n) /\ Apart(c, q, BagRemove(q, m))
<1> DEFINE q1 == BagRemove(q, m)
           r == m.parent
           N == [p.partial EXCEPT ![r] = p.partial[r] - 1]
           p1 == ResolvePartialWrite(p, r)
<1>1. /\ MessagesOK(q1, asks, n) /\ DOMAIN q1 \subseteq DOMAIN q
      /\ KeysSent(q, c, "write") \subseteq KeysSent(q1, c, "write")
      /\ KeysSent(q, c, "read") \subseteq KeysSent(q1, c, "read")
      /\ \A s : s # r => Total(q1, c, s) = Total(q, c, s)
      /\ Apart(c, q, q1)
  <2>1. \A s : s # r => ~IsRegionWrite(m, c, s)
    BY DEF IsRegionWrite
  <2>2. MessagesOK(q, asks, n)
    BY DEF Mine
  <2> QED BY <2>1, <2>2, MessageTaken
<1>2. /\ Total(q, c, r) >= 1 /\ Total(q1, c, r) = Total(q, c, r) - 1
      /\ asks[r].cache = c
  <2>1. IsRegionWrite(m, c, r) /\ Bag(q) /\ IsFiniteSet(DOMAIN q)
    BY DEF IsRegionWrite, Mine, MessagesOK
  <2>2. asks[r].cache = c
    BY DEF Mine, MessagesOK
  <2> QED BY <2>1, <2>2, TotalDrops
<1> HIDE DEF q1
<1>3. r \in DOMAIN p.partial /\ p.partial[r] = Total(q, c, r)
  <2>1. Counted(p, r) = Total(q, c, r)
    BY <1>2 DEF Mine, ModuleOK
  <2> QED BY <1>2, <2>1 DEF Counted
<1>4. p1 = [pages |-> p.pages, partial |-> N]
  <2> DEFINE a == p.pages
             b == p.partial
             x == [b EXCEPT ![r] = b[r] - 1]
  <2>1. p = [pages |-> a, partial |-> b]
    BY DEF Mine, ModuleOK
  <2>2. p1 = [p EXCEPT !.partial = x]
    <3>1. [p EXCEPT !.partial[r] = p.partial[r] - 1] = [p EXCEPT !.partial = [p.partial EXCEPT ![r] = p.partial[r] - 1]]
      OBVIOUS
    <3> QED BY <3>1 DEF ResolvePartialWrite
  <2> HIDE DEF x, a, b, p1
  <2>3. [[pages |-> a, partial |-> b] EXCEPT !.partial = x] = [pages |-> a, partial |-> x]
    OBVIOUS
  <2>4. p1 = [pages |-> a, partial |-> x]
    BY <2>1, <2>2, <2>3
  <2> QED BY <2>4 DEF a, b, x
<1>5. p1.pages = p.pages /\ p1.partial = N /\ p1 = [pages |-> p1.pages, partial |-> p1.partial]
  <2> HIDE DEF p1, N
  <2> QED BY <1>4
<1>6. DOMAIN N = DOMAIN p.partial /\ N[r] = p.partial[r] - 1
      /\ \A s \in DOMAIN p.partial \ {r} : N[s] = p.partial[s]
  BY <1>3
<1> HIDE DEF p1, N
<1>7. ModuleOK(c, p1, q1, asks)
  <2>1. ASSUME NEW x \in DOMAIN asks, asks[x].cache = c PROVE Counted(p1, x) = Total(q1, c, x)
    <3>1. Counted(p, x) = Total(q, c, x)
      BY <2>1 DEF Mine, ModuleOK
    <3>2. CASE x = r
      BY <1>2, <1>3, <1>5, <1>6, <3>2 DEF Counted
    <3>3. CASE x # r
      BY <1>1, <1>5, <1>6, <3>1, <3>3 DEF Counted
    <3> QED BY <3>2, <3>3
  <2>2. DOMAIN p1.partial \subseteq DOMAIN p1.pages
    BY <1>5, <1>6 DEF Mine, ModuleOK
  <2>3. \A x \in DOMAIN p1.pages :
          /\ x \in DOMAIN asks /\ asks[x].cache = c
          /\ PagesEntry(p1.pages[x])
          /\ p1.pages[x].readPages \subseteq KeysSent(q1, c, "read")
          /\ p1.pages[x].writePages \subseteq KeysSent(q1, c, "write")
    BY <1>1, <1>5 DEF Mine, ModuleOK
  <2>4. \A x \in DOMAIN q1 :
          x.cache = c /\ x.parent \in DOMAIN asks => (x.parent \in DOMAIN p1.pages <=> ~Forwarded(x))
    BY <1>1, <1>5 DEF Mine, ModuleOK
  <2> QED BY <1>5, <2>1, <2>2, <2>3, <2>4 DEF ModuleOK
<1> QED BY <1>1, <1>7 DEF Mine, p1, q1
-----------------------------------------------------------------------------
\* What writes recalled entries out is registered for its request.
LEMMA RegisterWritesIs ==
  ASSUME NEW p, NEW r, NEW out
  PROVE  LET e == Registered(p.pages, r)
         IN  RegisterPendingWrites(p, r, out)
               = [pages |-> With(p.pages, r, [e EXCEPT !.writePages = e.writePages \union FullOf(out)]),
                  partial |-> With(p.partial, r, TwinsCounted(Counted(p, r), out))]
BY DEF RegisterPendingWrites, TwinsCounted, Counted

LEMMA OutRegistered ==
  ASSUME NEW c, NEW p, NEW q, NEW asks, NEW n, Mine(c, p, q, asks, n),
         NEW r, AskedBy(c, r, asks), NotForwarded(q, r),
         NEW out, NEW b, WritesOut(b, c, r, out)
  PROVE  LET q1 == q (+) b
             p1 == RegisterPendingWrites(p, r, out)
         IN  Mine(c, p1, q1, asks, n) /\ Apart(c, q, q1) /\ r \in DOMAIN p1.pages
<1> DEFINE q1 == q (+) b
           p1 == RegisterPendingWrites(p, r, out)
           e == Registered(p.pages, r)
           e1 == [readPages |-> e.readPages, writePages |-> e.writePages \union FullOf(out)]
           P == With(p.pages, r, e1)
           N == With(p.partial, r, TwinsCounted(Counted(p, r), out))
<1>1. /\ Bag(q) /\ IsFiniteSet(DOMAIN q) /\ Bag(b) /\ IsFiniteSet(DOMAIN b) /\ r \in 1..n
      /\ asks[r].cache = c /\ r \in DOMAIN asks
  BY DEF Mine, MessagesOK, AsksOK, AskedBy, WritesOut
<1>2. PagesEntry(e) /\ e.readPages \subseteq KeysSent(q, c, "read") /\ e.writePages \subseteq KeysSent(q, c, "write")
  BY RegisteredIs DEF Mine
<1>3. p1 = [pages |-> P, partial |-> N]
  <2> HIDE DEF e
  <2>1. [e EXCEPT !.writePages = e.writePages \union FullOf(out)] = e1
    BY <1>2, EntryIs
  <2>2. p1 = [pages |-> With(p.pages, r, [e EXCEPT !.writePages = e.writePages \union FullOf(out)]), partial |-> N]
    BY RegisterWritesIs DEF e
  <2> HIDE DEF p1, e1, N
  <2> QED BY <2>1, <2>2
<1>4. /\ DOMAIN P = DOMAIN p.pages \union {r} /\ P[r] = e1 /\ \A x \in DOMAIN p.pages \ {r} : P[x] = p.pages[x]
      /\ DOMAIN N = DOMAIN p.partial \union {r} /\ N[r] = TwinsCounted(Counted(p, r), out)
      /\ \A x \in DOMAIN p.partial \ {r} : N[x] = p.partial[x]
  <2> HIDE DEF e1
  <2> QED BY DEF With
<1>5. PagesEntry(e1) /\ e1.readPages = e.readPages /\ e1.writePages = e.writePages \union FullOf(out)
  BY DEF PagesEntry
<1>6. p1.pages = P /\ p1.partial = N /\ p1 = [pages |-> p1.pages, partial |-> p1.partial]
  <2> HIDE DEF P, N, p1
  <2> QED BY <1>3
<1> HIDE DEF e, e1, P, N, p1
<1>7. Bag(q1) /\ DOMAIN q1 = DOMAIN q \union DOMAIN b
  BY <1>1, BagJoined
<1>8. \A s : Total(q1, c, s) = Total(q, c, s) + Total(b, c, s)
  BY <1>1, TotalJoins
<1>9. Apart(c, q, q1)
  BY <1>1, ApartAdds DEF WritesOut
<1> HIDE DEF q1
<1>10. IsFiniteSet(DOMAIN q1)
  BY <1>1, <1>7, FS_Union
<1>11. MessagesOK(q1, asks, n)
  <2>1. ASSUME NEW m \in DOMAIN b
        PROVE  m.parent \in 1..n /\ asks[m.parent].cache = m.cache /\ m.kind # "read"
    BY <1>1 DEF WritesOut
  <2> QED BY <1>7, <1>10, <2>1 DEF MessagesOK, Mine
<1>12. /\ KeysSent(q, c, "read") \subseteq KeysSent(q1, c, "read")
       /\ KeysSent(q, c, "write") \subseteq KeysSent(q1, c, "write")
       /\ FullOf(out) \subseteq KeysSent(q1, c, "write")
  <2>1. FullOf(out) \subseteq KeysSent(b, c, "write")
    BY DEF WritesOut
  <2> QED BY <1>7, <2>1 DEF KeysSent, SentBy
<1>13. ASSUME NEW s, s # r PROVE Total(q1, c, s) = Total(q, c, s)
  <2>1. Total(b, c, s) = 0
    BY <1>13, NoTotal DEF WritesOut, IsRegionWrite
  <2> QED BY <1>1, <1>8, <2>1, TotalIs
<1>14. N[r] = Total(q1, c, r)
  <2>1. Counted(p, r) = Total(q, c, r)
    BY <1>1 DEF Mine, ModuleOK
  <2>2. Counted(p, r) \in Nat
    BY <1>1, <2>1, TotalIs
  <2>3. TwinsCounted(Counted(p, r), out) = Counted(p, r) + Total(b, c, r)
    BY <2>2 DEF WritesOut
  <2> QED BY <1>4, <1>8, <2>1, <2>3
<1>15. ModuleOK(c, p1, q1, asks)
  <2>1. DOMAIN p1.partial \subseteq DOMAIN p1.pages
    BY <1>4, <1>6 DEF Mine, ModuleOK
  <2>2. ASSUME NEW x \in DOMAIN p1.pages
        PROVE  /\ x \in DOMAIN asks /\ asks[x].cache = c
               /\ PagesEntry(p1.pages[x])
               /\ p1.pages[x].readPages \subseteq KeysSent(q1, c, "read")
               /\ p1.pages[x].writePages \subseteq KeysSent(q1, c, "write")
    <3>1. CASE x = r
      BY <1>1, <1>2, <1>4, <1>5, <1>6, <1>12, <3>1
    <3>2. CASE x # r
      BY <1>4, <1>6, <1>12, <2>2, <3>2 DEF Mine, ModuleOK
    <3> QED BY <3>1, <3>2
  <2>3. ASSUME NEW x \in DOMAIN asks, asks[x].cache = c PROVE Counted(p1, x) = Total(q1, c, x)
    <3>1. CASE x = r
      BY <1>4, <1>6, <1>14, <3>1 DEF Counted
    <3>2. CASE x # r
      <4>1. Counted(p1, x) = Counted(p, x)
        BY <1>4, <1>6, <3>2 DEF Counted
      <4> QED BY <1>13, <2>3, <3>2, <4>1 DEF Mine, ModuleOK
    <3> QED BY <3>1, <3>2
  <2>4. ASSUME NEW m \in DOMAIN q1, m.cache = c, m.parent \in DOMAIN asks
        PROVE  m.parent \in DOMAIN p1.pages <=> ~Forwarded(m)
    <3>1. CASE m \in DOMAIN b
      BY <1>4, <1>6, <3>1 DEF Forwarded, WritesOut
    <3>2. CASE m \notin DOMAIN b
      BY <1>4, <1>6, <1>7, <2>4, <3>2 DEF Mine, ModuleOK, NotForwarded
    <3> QED BY <3>1, <3>2
  <2> QED BY <1>6, <2>1, <2>2, <2>3, <2>4 DEF ModuleOK
<1> QED BY <1>4, <1>6, <1>9, <1>11, <1>15 DEF Mine, p1, q1
-----------------------------------------------------------------------------
\* Requests that are answered.
LEMMA Fewer ==
  ASSUME NEW c, NEW p, NEW q, NEW asks, NEW n, Mine(c, p, q, asks, n), NEW done
  PROVE  Mine(c, [pages |-> Without(p.pages, done), partial |-> Without(p.partial, done)], q, Without(asks, done), n)
<1> DEFINE p1 == [pages |-> Without(p.pages, done), partial |-> Without(p.partial, done)]
           asks1 == Without(asks, done)
<1>1. /\ DOMAIN p1.pages = DOMAIN p.pages \ done /\ \A r \in DOMAIN p1.pages : p1.pages[r] = p.pages[r]
      /\ DOMAIN p1.partial = DOMAIN p.partial \ done /\ \A r \in DOMAIN p1.partial : p1.partial[r] = p.partial[r]
      /\ DOMAIN asks1 = DOMAIN asks \ done /\ \A r \in DOMAIN asks1 : asks1[r] = asks[r]
      /\ p1 = [pages |-> p1.pages, partial |-> p1.partial]
  BY DEF Without
<1> HIDE DEF p1, asks1
<1>2. AsksOK(asks1, n) /\ MessagesOK(q, asks1, n)
  BY <1>1 DEF Mine, AsksOK, MessagesOK
<1>3. ModuleOK(c, p1, q, asks1)
  <2>1. DOMAIN p1.partial \subseteq DOMAIN p1.pages
    BY <1>1 DEF Mine, ModuleOK
  <2>2. \A r \in DOMAIN p1.pages :
          /\ r \in DOMAIN asks1 /\ asks1[r].cache = c
          /\ PagesEntry(p1.pages[r])
          /\ p1.pages[r].readPages \subseteq KeysSent(q, c, "read")
          /\ p1.pages[r].writePages \subseteq KeysSent(q, c, "write")
    BY <1>1 DEF Mine, ModuleOK
  <2>3. \A r \in DOMAIN asks1 : asks1[r].cache = c => Counted(p1, r) = Total(q, c, r)
    BY <1>1 DEF Mine, ModuleOK, Counted
  <2>4. \A m \in DOMAIN q :
          m.cache = c /\ m.parent \in DOMAIN asks1 => (m.parent \in DOMAIN p1.pages <=> ~Forwarded(m))
    BY <1>1 DEF Mine, ModuleOK
  <2> QED BY <1>1, <2>1, <2>2, <2>3, <2>4 DEF ModuleOK
<1> QED BY <1>2, <1>3 DEF Mine, p1, asks1

\* The step of a module does not touch the others.
LEMMA OthersStay ==
  ASSUME NEW c, NEW d, d # c, NEW p, NEW q, NEW asks, NEW n, Mine(d, p, q, asks, n),
         NEW q1, NEW asks1, NEW n1, AsksOK(asks1, n1), MessagesOK(q1, asks1, n1), Apart(c, q, q1),
         \A r : r \in DOMAIN asks /\ asks[r].cache = d <=> r \in DOMAIN asks1 /\ asks1[r].cache = d
  PROVE  Mine(d, p, q1, asks1, n1)
<1>1. Bag(q) /\ Bag(q1)
  BY DEF Mine, MessagesOK
<1>2. \A m : m.cache = d => CopiesOf(m, q1) = CopiesOf(m, q)
  BY DEF Apart
<1>3. \A m : m.cache = d => (m \in DOMAIN q1 <=> m \in DOMAIN q)
  BY <1>1, <1>2, CopiesTypes
<1>4. \A s : Total(q1, d, s) = Total(q, d, s)
  <2> SUFFICES ASSUME NEW s PROVE Total(q1, d, s) = Total(q, d, s)
    OBVIOUS
  <2>1. \A m : IsRegionWrite(m, d, s) => CopiesOf(m, q1) = CopiesOf(m, q)
    BY <1>2 DEF IsRegionWrite
  <2> QED BY <1>1, <2>1, TotalSame
<1>5. KeysSent(q1, d, "read") = KeysSent(q, d, "read") /\ KeysSent(q1, d, "write") = KeysSent(q, d, "write")
  BY <1>3 DEF KeysSent, SentBy
<1>6. ModuleOK(d, p, q1, asks1)
  <2>1. \A r \in DOMAIN p.pages :
          /\ r \in DOMAIN asks1 /\ asks1[r].cache = d
          /\ PagesEntry(p.pages[r])
          /\ p.pages[r].readPages \subseteq KeysSent(q1, d, "read")
          /\ p.pages[r].writePages \subseteq KeysSent(q1, d, "write")
    BY <1>5 DEF Mine, ModuleOK
  <2>2. \A r \in DOMAIN asks1 : asks1[r].cache = d => Counted(p, r) = Total(q1, d, r)
    BY <1>4 DEF Mine, ModuleOK
  <2>3. ASSUME NEW m \in DOMAIN q1, m.cache = d, m.parent \in DOMAIN asks1
        PROVE  m.parent \in DOMAIN p.pages <=> ~Forwarded(m)
    <3>1. asks1[m.parent].cache = d
      BY <2>3 DEF MessagesOK
    <3>2. m \in DOMAIN q /\ m.parent \in DOMAIN asks
      BY <1>3, <2>3, <3>1
    <3> QED BY <2>3, <3>2 DEF Mine, ModuleOK
  <2> QED BY <2>1, <2>2, <2>3 DEF Mine, ModuleOK
<1> QED BY <1>6 DEF Mine

\* A module's handling ends with its completed requests: the pending maps are
\* as they should be, for every module.
AsksStay(c, asks) ==
  /\ \A r \in DOMAIN live : r \in DOMAIN asks /\ asks[r] = live[r]
  /\ \A r \in DOMAIN asks \ DOMAIN live : asks[r].cache = c

NodeStep(c, asks) == Apart(c, fs, fs') /\ AsksStay(c, asks)

LEMMA TwinHandled ==
  ASSUME TwinInv, class \in TwinClasses, class' = class, NEW c \in Caches, NEW p, NEW asks,
         Mine(c, p, fs', asks, issued'), NodeStep(c, asks), CompleteRequests(c, p, asks)
  PROVE  TwinInv'
<1> DEFINE done == PopCompleted(p, asks)
           p1 == [pages |-> Without(p.pages, done), partial |-> Without(p.partial, done)]
<1>1. /\ pendingPages' = [pendingPages EXCEPT ![c] = Without(p.pages, done)]
      /\ pendingPartialPages' = [pendingPartialPages EXCEPT ![c] = Without(p.partial, done)]
      /\ live' = Without(asks, done)
  BY DEF CompleteRequests
<1>2. /\ pendingPages = [d \in Caches |-> pendingPages[d]]
      /\ pendingPartialPages = [d \in Caches |-> pendingPartialPages[d]]
      /\ AsksOK(live, issued) /\ MessagesOK(fs, live, issued)
      /\ \A d \in Caches : ModuleOK(d, Pending(d), fs, live)
  BY DEF TwinInv
<1>3. done \subseteq DOMAIN p.pages
  BY DEF PopCompleted
<1>4. \A r \in done : r \in DOMAIN asks /\ asks[r].cache = c
  BY <1>3 DEF Mine, ModuleOK
<1> HIDE DEF done
<1>5. /\ DOMAIN pendingPages = Caches /\ DOMAIN pendingPartialPages = Caches
  BY <1>2
<1>6. /\ pendingPages' = [d \in Caches |-> pendingPages'[d]]
      /\ pendingPartialPages' = [d \in Caches |-> pendingPartialPages'[d]]
      /\ Pending(c)' = p1
      /\ \A d \in Caches \ {c} : Pending(d)' = Pending(d)
  BY <1>1, <1>5 DEF Pending
<1>7. Mine(c, p1, fs', live', issued')
  BY <1>1, Fewer
<1>8. DOMAIN live' = DOMAIN asks \ done /\ \A r \in DOMAIN live' : live'[r] = asks[r]
  BY <1>1 DEF Without
<1>9. ASSUME NEW d \in Caches, d # c PROVE ModuleOK(d, Pending(d)', fs', live')
  <2>1. Mine(d, Pending(d), fs, live, issued)
    BY <1>2 DEF Mine
  <2>2. \A r : r \in DOMAIN live /\ live[r].cache = d <=> r \in DOMAIN live' /\ live'[r].cache = d
    BY <1>4, <1>8, <1>9 DEF NodeStep, AsksStay
  <2>3. Mine(d, Pending(d), fs', live', issued')
    <3>1. AsksOK(live', issued') /\ MessagesOK(fs', live', issued') /\ Apart(c, fs, fs')
      BY <1>7 DEF Mine, NodeStep
    <3> QED BY <1>9, <2>1, <2>2, <3>1, OthersStay
  <2>4. Pending(d)' = Pending(d)
    BY <1>6, <1>9
  <2> QED BY <2>3, <2>4 DEF Mine
<1>10. AsksOK(live', issued') /\ MessagesOK(fs', live', issued') /\ ModuleOK(c, Pending(c)', fs', live')
  BY <1>6, <1>7 DEF Mine
<1> HIDE DEF p1
<1> QED BY <1>6, <1>9, <1>10 DEF TwinInv
-----------------------------------------------------------------------------
(* What the caches have to write, and the messages that write it.          *)

IsWrite(m) == m.kind \in {"write", "partial"}

\* m writes region g of page k: a write message of a cache with twins writes
\* whole pages.  One of a progressive cache writes the pages that are full, and
\* of the partial ones it is only known to be for the page.
IsWriteOf(m, k, g) ==
  \/ /\ m.kind = "write" /\ k \in m.keys
     /\ class = "progressive" => (g \in Whole => <<k, g>> \in m.regions)
  \/ class # "progressive" /\ m.kind = "partial" /\ m.keys = {k} /\ m.regions = {g}

\* No write goes, and one of this region comes.
NoWriteGoes(q, q1) == \A m : IsWrite(m) => CopiesOf(m, q1) >= CopiesOf(m, q)

WriteComes(q, q1, k, g) == \E m : IsWriteOf(m, k, g) /\ CopiesOf(m, q1) > CopiesOf(m, q)

LEMMA NoWriteGoesOn ==
  ASSUME NEW q, Bag(q), NEW q1, Bag(q1), NEW q2, Bag(q2), NoWriteGoes(q, q1), NoWriteGoes(q1, q2)
  PROVE  /\ NoWriteGoes(q, q2)
         /\ \A k, g : WriteComes(q, q1, k, g) \/ WriteComes(q1, q2, k, g) => WriteComes(q, q2, k, g)
<1>1. \A m : CopiesOf(m, q) \in Nat /\ CopiesOf(m, q1) \in Nat /\ CopiesOf(m, q2) \in Nat
  BY CopiesTypes
<1>2. NoWriteGoes(q, q2)
  BY <1>1 DEF NoWriteGoes
<1>3. ASSUME NEW k, NEW g, WriteComes(q, q1, k, g) PROVE WriteComes(q, q2, k, g)
  <2>1. PICK m : IsWriteOf(m, k, g) /\ CopiesOf(m, q1) > CopiesOf(m, q)
    BY <1>3 DEF WriteComes
  <2>2. CopiesOf(m, q2) >= CopiesOf(m, q1)
    BY <2>1 DEF NoWriteGoes, IsWrite, IsWriteOf
  <2>3. CopiesOf(m, q2) > CopiesOf(m, q)
    BY <1>1, <2>1, <2>2
  <2> QED BY <2>1, <2>3 DEF WriteComes
<1>4. ASSUME NEW k, NEW g, WriteComes(q1, q2, k, g) PROVE WriteComes(q, q2, k, g)
  <2>1. PICK m : IsWriteOf(m, k, g) /\ CopiesOf(m, q2) > CopiesOf(m, q1)
    BY <1>4 DEF WriteComes
  <2>2. CopiesOf(m, q1) >= CopiesOf(m, q)
    BY <2>1 DEF NoWriteGoes, IsWrite, IsWriteOf
  <2>3. CopiesOf(m, q2) > CopiesOf(m, q)
    BY <1>1, <2>1, <2>2
  <2> QED BY <2>1, <2>3 DEF WriteComes
<1> QED BY <1>2, <1>3, <1>4

LEMMA NoWriteGoesSame ==
  ASSUME NEW q, Bag(q)
  PROVE  NoWriteGoes(q, q)
BY CopiesTypes DEF NoWriteGoes

LEMMA SentStays ==
  ASSUME NEW q, Bag(q), NEW b, Bag(b)
  PROVE  NoWriteGoes(q, q (+) b)
<1>1. \A m : CopiesOf(m, q (+) b) = CopiesOf(m, q) + CopiesOf(m, b) /\ CopiesOf(m, q) \in Nat /\ CopiesOf(m, b) \in Nat
  BY BagJoined, CopiesTypes
<1> QED BY <1>1 DEF NoWriteGoes

LEMMA SentComes ==
  ASSUME NEW q, Bag(q), NEW b, Bag(b), NEW m \in DOMAIN b, NEW k, NEW g, IsWriteOf(m, k, g)
  PROVE  WriteComes(q, q (+) b, k, g)
<1>1. CopiesOf(m, q (+) b) = CopiesOf(m, q) + CopiesOf(m, b) /\ CopiesOf(m, q) \in Nat
  BY BagJoined, CopiesTypes
<1>2. CopiesOf(m, b) \in Nat /\ CopiesOf(m, b) > 0
  BY CopiesTypes
<1>3. CopiesOf(m, q (+) b) > CopiesOf(m, q)
  BY <1>1, <1>2
<1> QED BY <1>3 DEF WriteComes

LEMMA AnswerStays ==
  ASSUME NEW q, Bag(q), NEW m \in DOMAIN q, ~IsWrite(m)
  PROVE  NoWriteGoes(q, BagRemove(q, m))
<1>1. \A x : CopiesOf(x, BagRemove(q, m)) = CopiesOf(x, q) - (IF x = m THEN 1 ELSE 0) /\ CopiesOf(x, q) \in Nat
  BY BagRemoved, CopiesTypes
<1> QED BY <1>1 DEF NoWriteGoes

\* The messages that write the recalled entries of a cache with twins.
LEMMA HandedIsSent ==
  ASSUME class \in TwinClasses, NEW q, Bag(q), NEW c, NEW r, NEW out, NEW b, WritesOut(b, c, r, out)
  PROVE  /\ NoWriteGoes(q, q (+) b)
         /\ \A k, g : Handed(out, k, g) => WriteComes(q, q (+) b, k, g)
<1>1. Bag(b)
  BY DEF WritesOut
<1>2. class # "progressive"
  BY DEF TwinClasses
<1>3. ASSUME NEW k, NEW g, Handed(out, k, g) PROVE \E m \in DOMAIN b : IsWriteOf(m, k, g)
  <2>1. PICK i \in DOMAIN out : out[i].key = k /\ (out[i].isFull \/ g \in out[i].regions)
    BY <1>3 DEF Handed
  <2>2. CASE out[i].isFull
    <3>1. k \in KeysSent(b, c, "write")
      BY <2>1, <2>2 DEF WritesOut, FullOf
    <3> QED BY <1>2, <3>1 DEF KeysSent, SentBy, IsWriteOf
  <2>3. CASE ~out[i].isFull
    <3>1. RegionWriteOf(c, k, g, r) \in DOMAIN b
      BY <2>1, <2>3 DEF WritesOut, TwinOf
    <3>2. IsWriteOf(RegionWriteOf(c, k, g, r), k, g)
      BY <1>2 DEF IsWriteOf, RegionWriteOf, ToFs
    <3> QED BY <3>1, <3>2
  <2> QED BY <2>2, <2>3
<1>4. ASSUME NEW k, NEW g, Handed(out, k, g) PROVE WriteComes(q, q (+) b, k, g)
  <2>1. PICK m \in DOMAIN b : IsWriteOf(m, k, g)
    BY <1>3, <1>4
  <2> QED BY <1>1, <2>1, SentComes
<1> QED BY <1>1, <1>4, SentStays

\* The copies of a set of messages grow when none goes and one comes.
LEMMA CopiesGrow ==
  ASSUME Bag(fs), IsFiniteSet(DOMAIN fs), Bag(fs'), IsFiniteSet(DOMAIN fs'),
         NEW S, S \subseteq DOMAIN fs, NEW T, T \subseteq DOMAIN fs', S \intersect DOMAIN fs' \subseteq T,
         \A m \in S : CopiesOf(m, fs') >= CopiesOf(m, fs),
         \E m \in T : CopiesOf(m, fs') > CopiesOf(m, fs)
  PROVE  Cardinality(Copies(T, fs')) > Cardinality(Copies(S, fs))
<1> DEFINE A == Copies(S, fs)
           B == Copies(T, fs')
<1>1. \A m : /\ CopiesOf(m, fs) \in Nat /\ CopiesOf(m, fs') \in Nat
             /\ (CopiesOf(m, fs) > 0 <=> m \in DOMAIN fs) /\ (CopiesOf(m, fs') > 0 <=> m \in DOMAIN fs')
  BY CopiesTypes
<1>2. ASSUME NEW x \in A PROVE x \in B
  <2>1. PICK m \in S : \E i \in 1..CopiesOf(m, fs) : x = <<m, i>>
    BY CopiesPairs
  <2>2. PICK i \in 1..CopiesOf(m, fs) : x = <<m, i>>
    BY <2>1
  <2>3. CopiesOf(m, fs') >= CopiesOf(m, fs)
    OBVIOUS
  <2>4. i \in 1..CopiesOf(m, fs') /\ CopiesOf(m, fs') > 0
    BY <1>1, <2>2, <2>3
  <2>5. m \in T
    BY <1>1, <2>4
  <2> QED BY <2>2, <2>4, <2>5, CopiesHas
<1>3. PICK m \in T : CopiesOf(m, fs') > CopiesOf(m, fs)
  OBVIOUS
<1> DEFINE z == <<m, CopiesOf(m, fs')>>
<1>4. z \in B
  <2>1. CopiesOf(m, fs') \in 1..CopiesOf(m, fs')
    BY <1>1, <1>3
  <2> QED BY <2>1, CopiesHas
<1>5. z \notin A
  <2>1. CopiesOf(m, fs') \notin 1..CopiesOf(m, fs)
    BY <1>1, <1>3
  <2> QED BY <2>1, CopiesHas
<1>6. IsFiniteSet(A) /\ IsFiniteSet(B) /\ Cardinality(A) \in Nat /\ Cardinality(B) \in Nat
  <2>1. IsFiniteSet(S) /\ IsFiniteSet(T)
    BY FS_Subset
  <2> QED BY <2>1, CopiesFinite
<1> HIDE DEF A, B, z
<1>7. A \subseteq B /\ A # B
  BY <1>2, <1>4, <1>5
<1>8. Cardinality(A) <= Cardinality(B) /\ (Cardinality(B) = Cardinality(A) => B = A)
  BY <1>6, <1>7, FS_Subset
<1>9. Cardinality(B) > Cardinality(A)
  BY <1>6, <1>7, <1>8
<1> QED BY <1>9 DEF A, B

\* Every write of the region that was at the file system is there as often, and
\* one more has come.
LEMMA WriteIsSent ==
  ASSUME Bag(fs), IsFiniteSet(DOMAIN fs), Bag(fs'), IsFiniteSet(DOMAIN fs'), class' = class,
         NoWriteGoes(fs, fs'), NEW k, NEW g, WriteComes(fs, fs', k, g)
  PROVE  WriteSent(k, g) \/ PartialPageSent(k, g)
<1>1. PICK m : IsWriteOf(m, k, g) /\ CopiesOf(m, fs') > CopiesOf(m, fs)
  BY DEF WriteComes
<1>2. m \in DOMAIN fs'
  <2>1. CopiesOf(m, fs') > 0
    BY <1>1, CopiesTypes
  <2> QED BY <2>1, CopiesTypes
<1>3. \A S : (\A x \in S : IsWrite(x)) => \A x \in S : CopiesOf(x, fs') >= CopiesOf(x, fs)
  BY DEF NoWriteGoes
<1>4. CASE class = "progressive" /\ g \notin Whole
  <2> DEFINE S == WritesFor(k)
             T == WritesFor(k)'
  <2>1. \A x : x \in S <=> x \in DOMAIN fs /\ x.kind = "write" /\ k \in x.keys
    BY DEF WritesFor, AtFs, BagToSet
  <2>2. \A x : x \in T <=> x \in DOMAIN fs' /\ x.kind = "write" /\ k \in x.keys
    BY DEF WritesFor, AtFs, BagToSet
  <2>3. m \in T
    BY <1>1, <1>2, <1>4, <2>2 DEF IsWriteOf
  <2>4. \A x \in S : IsWrite(x)
    BY <2>1 DEF IsWrite
  <2>5. CopiesFor(k) = Cardinality(Copies(S, fs)) /\ CopiesFor(k)' = Cardinality(Copies(T, fs'))
    BY DEF CopiesFor, Copies, CopiesOf
  <2> HIDE DEF S, T
  <2>6. Cardinality(Copies(T, fs')) > Cardinality(Copies(S, fs))
    BY <1>1, <1>3, <2>1, <2>2, <2>3, <2>4, CopiesGrow
  <2> QED BY <1>4, <2>5, <2>6 DEF PartialPageSent
<1>5. CASE ~(class = "progressive" /\ g \notin Whole)
  <2> DEFINE S == WritesOf(k, g)
             T == WritesOf(k, g)'
             W(x) == \/ x.kind = "write" /\ IF class = "progressive" THEN <<k, g>> \in x.regions ELSE k \in x.keys
                     \/ x.kind = "partial" /\ x.keys = {k} /\ x.regions = {g}
  <2>1. \A x : x \in S <=> x \in DOMAIN fs /\ W(x)
    BY DEF WritesOf, AtFs, BagToSet
  <2>2. \A x : x \in T <=> x \in DOMAIN fs' /\ W(x)
    BY DEF WritesOf, AtFs, BagToSet
  <2>3. W(m)
    BY <1>1, <1>5 DEF IsWriteOf
  <2>4. \A x \in S : IsWrite(x)
    BY <2>1 DEF IsWrite
  <2>5. CopiesOfWrites(k, g) = Cardinality(Copies(S, fs)) /\ CopiesOfWrites(k, g)' = Cardinality(Copies(T, fs'))
    BY DEF CopiesOfWrites, Copies, CopiesOf
  <2> HIDE DEF S, T, W
  <2>6. Cardinality(Copies(T, fs')) > Cardinality(Copies(S, fs))
    BY <1>1, <1>2, <1>3, <2>1, <2>2, <2>3, <2>4, CopiesGrow
  <2> QED BY <2>5, <2>6 DEF WriteSent
<1> QED BY <1>4, <1>5
-----------------------------------------------------------------------------
(* The steps of a node with twins.                                         *)

\* What the cache had to write it still has, or it has been sent.
TwinKeeps ==
  \A k, g : Holds(lruCache, k, g) =>
    Holds(lruCache', k, g) \/ (NoWriteGoes(fs, fs') /\ WriteComes(fs, fs', k, g))

TwinOK == TwinInv /\ class \in TwinClasses /\ MultiOK(lruCache)

TwinGoesOn == TwinInv' /\ MultiOK(lruCache') /\ TwinKeeps

\* In the middle of a step of module c: the pending maps, the messages and
\* the requests so far.
Working(c, p, q, asks) ==
  Mine(c, p, q, asks, issued') /\ Apart(c, fs, q) /\ NoWriteGoes(fs, q) /\ AsksStay(c, asks)

\* The update u of the cache, when these messages have been sent.
Carried(u, q) ==
  \A k, g : Holds(lruCache, k, g) =>
    Holds(u.cache, k, g) \/ Handed(u.out, k, g) \/ WriteComes(fs, q, k, g)

LEMMA FsIsBag ==
  ASSUME TwinOK
  PROVE  /\ Bag(fs) /\ IsFiniteSet(DOMAIN fs) /\ AsksOK(live, issued) /\ MessagesOK(fs, live, issued)
         /\ \A c \in Caches : Mine(c, Pending(c), fs, live, issued)
BY DEF TwinOK, TwinInv, MessagesOK, Mine

LEMMA WorkingBags ==
  ASSUME TwinOK, NEW c, NEW p, NEW q, NEW asks, Working(c, p, q, asks)
  PROVE  Bag(fs) /\ Bag(q) /\ IsFiniteSet(DOMAIN q)
BY FsIsBag DEF Working, Mine, MessagesOK

LEMMA CarriedOn ==
  ASSUME NEW u, NEW v, NEW q, Carried(u, q), Kept(u, v)
  PROVE  Carried(v, q)
BY DEF Carried, Kept

LEMMA UpdateBegins ==
  ASSUME NEW m, Same(lruCache, m), NEW q
  PROVE  UpdateOK(Update(m)) /\ Carried(Update(m), q) /\ Update(m).out = << >> /\ Update(m).ok = TRUE
                             /\ Update(m).cache = m
<1>1. Update(m).cache = m /\ Update(m).out = << >> /\ Update(m).ok = TRUE
  BY DEF Update
<1>2. UpdateOK(Update(m))
  BY <1>1 DEF UpdateOK, Same, Update
<1>3. Carried(Update(m), q)
  BY <1>1 DEF Carried, Same
<1> QED BY <1>1, <1>2, <1>3

LEMMA NothingChanges ==
  ASSUME TwinOK, class' = class, UNCHANGED <<lruCache, fs, live, pendingPages, pendingPartialPages>>,
         issued' \in {issued, Id}
  PROVE  TwinGoesOn
<1>1. issued \in Nat
  BY FsIsBag DEF AsksOK
<1>2. AsksOK(live', issued') /\ MessagesOK(fs', live', issued')
  BY <1>1, FsIsBag DEF AsksOK, MessagesOK, Id
<1>3. \A c \in Caches : Pending(c)' = Pending(c)
  BY DEF Pending
<1>4. TwinInv'
  BY <1>2, <1>3 DEF TwinOK, TwinInv
<1>5. TwinKeeps
  BY DEF TwinKeeps
<1> QED BY <1>4, <1>5 DEF TwinGoesOn, TwinOK

LEMMA FailHandled ==
  ASSUME TwinOK, class' = class, issued' \in {issued, Id}, NEW why, Fail(why)
  PROVE  TwinGoesOn
BY NothingChanges DEF Fail, pend

\* A module's step ends.
LEMMA StepEnds ==
  ASSUME TwinOK, class' = class, NEW c \in Caches, NEW p, NEW asks, Working(c, p, fs', asks),
         CompleteRequests(c, p, asks), NEW u, u.out = << >>, UpdateOK(u), Carried(u, fs'), lruCache' = u.cache
  PROVE  TwinGoesOn
<1>1. TwinInv'
  BY TwinHandled DEF Working, NodeStep, TwinOK
<1>2. \A k, g : ~Handed(u.out, k, g)
  BY DEF Handed
<1>3. TwinKeeps
  BY <1>2 DEF TwinKeeps, Carried, Working
<1>4. MultiOK(lruCache')
  BY DEF UpdateOK
<1> QED BY <1>1, <1>3, <1>4 DEF TwinGoesOn

\* A module's step ends with the writes of what the update of the cache has
\* recalled.
LEMMA StepWrites ==
  ASSUME TwinOK, class' = class, NEW c \in Caches, NEW p, NEW q, NEW asks, Working(c, p, q, asks),
         NEW r, AskedBy(c, r, asks), NotForwarded(q, r),
         NEW u, UpdateOK(u), Carried(u, q), lruCache' = u.cache,
         NEW b, WritesOut(b, c, r, u.out), fs' = q (+) b,
         CompleteRequests(c, RegisterPendingWrites(p, r, u.out), asks)
  PROVE  TwinGoesOn
<1> DEFINE p1 == RegisterPendingWrites(p, r, u.out)
<1>1. Mine(c, p, q, asks, issued') /\ Apart(c, fs, q) /\ NoWriteGoes(fs, q) /\ AsksStay(c, asks)
  BY DEF Working
<1>2. Mine(c, p1, fs', asks, issued') /\ Apart(c, q, fs')
  <2>1. LET q1 == q (+) b
            p2 == RegisterPendingWrites(p, r, u.out)
        IN  Mine(c, p2, q1, asks, issued') /\ Apart(c, q, q1) /\ r \in DOMAIN p2.pages
    BY <1>1, OutRegistered
  <2> QED BY <2>1
<1> HIDE DEF p1
<1>3. Bag(fs) /\ Bag(q) /\ Bag(fs')
  BY <1>2, WorkingBags DEF Mine, MessagesOK
<1>4. NoWriteGoes(q, fs') /\ \A k, g : Handed(u.out, k, g) => WriteComes(q, fs', k, g)
  BY <1>3, HandedIsSent DEF TwinOK
<1>5. NoWriteGoes(fs, fs') /\ \A k, g : WriteComes(fs, q, k, g) \/ WriteComes(q, fs', k, g) => WriteComes(fs, fs', k, g)
  BY <1>1, <1>3, <1>4, NoWriteGoesOn
<1>6. TwinInv'
  <2>1. Apart(c, fs, fs')
    BY <1>1, <1>2, ApartOn
  <2>2. CompleteRequests(c, p1, asks)
    BY DEF p1
  <2> QED BY <1>1, <1>2, <2>1, <2>2, TwinHandled DEF NodeStep, TwinOK
<1>7. TwinKeeps
  BY <1>4, <1>5 DEF TwinKeeps, Carried
<1>8. MultiOK(lruCache')
  BY DEF UpdateOK
<1> QED BY <1>6, <1>7, <1>8 DEF TwinGoesOn

LEMMA WriteStepHandled ==
  ASSUME TwinOK, class' = class, issued' \in {issued, Id}, NEW c \in Caches, NEW p, NEW q, NEW asks,
         Working(c, p, q, asks), NEW r, AskedBy(c, r, asks), NotForwarded(q, r),
         NEW u, UpdateOK(u), Carried(u, q), NEW todo, WriteStep(c, r, u, p, asks, todo, q)
  PROVE  TwinGoesOn
<1>1. CASE ~u.ok
  BY <1>1, FailHandled DEF WriteStep
<1>2. CASE u.ok
  <2>1. /\ lruCache' = u.cache /\ fs' = q (+) Writebacks(c, u.out, r)
        /\ CompleteRequests(c, RegisterPendingWrites(p, r, u.out), asks)
    BY <1>2 DEF WriteStep
  <2>2. WritesOut(Writebacks(c, u.out, r), c, r, u.out)
    BY WrittenOut DEF UpdateOK
  <2> QED BY <2>1, <2>2, StepWrites
<1> QED BY <1>1, <1>2

\* A new request of module c.
LEMMA NewWork ==
  ASSUME TwinOK, issued' = Id, NEW c \in Caches, NEW kind, NEW a, kind = "write" => a \in Accesses
  PROVE  LET asks == Asked(c, kind, a)
         IN  /\ Working(c, Pending(c), fs, asks)
             /\ AskedBy(c, Id, asks) /\ NotForwarded(fs, Id)
             /\ Id \notin DOMAIN Pending(c).pages
             /\ asks[Id] = [cache |-> c, kind |-> kind, access |-> a]
<1> DEFINE asks == Asked(c, kind, a)
<1>1. Mine(c, Pending(c), fs, live, issued)
  BY FsIsBag
<1>2. /\ IsAsked(c, Pending(c), fs, c, kind, a, asks)
      /\ Mine(c, Pending(c), fs, asks, issued + 1)
  <2>1. IsAsked(c, Pending(c), fs, c, kind, a, asks)
    BY <1>1, TwinAsked
  <2> HIDE DEF asks
  <2> QED BY <2>1 DEF IsAsked
<1> HIDE DEF asks
<1>3. AsksStay(c, asks) /\ AskedBy(c, Id, asks) /\ NotForwarded(fs, Id) /\ Id \notin DOMAIN Pending(c).pages
      /\ asks[Id] = [cache |-> c, kind |-> kind, access |-> a]
  BY <1>2 DEF AsksStay, AskedBy, IsAsked, Id
<1>4. Apart(c, fs, fs) /\ NoWriteGoes(fs, fs)
  BY FsIsBag, ApartSame, NoWriteGoesSame
<1>5. Working(c, Pending(c), fs, asks)
  BY <1>2, <1>3, <1>4 DEF Working, Id
<1> QED BY <1>3, <1>5 DEF asks

\* The same, by name.
Begun(c, kind, a, asks) ==
  /\ Working(c, Pending(c), fs, asks) /\ AskedBy(c, Id, asks) /\ NotForwarded(fs, Id)
  /\ asks[Id] = [cache |-> c, kind |-> kind, access |-> a]

LEMMA WorkBegins ==
  ASSUME TwinOK, issued' = Id, NEW c \in Caches, NEW kind, NEW a, kind = "write" => a \in Accesses
  PROVE  Begun(c, kind, a, Asked(c, kind, a))
BY NewWork DEF Begun

\* A request that is passed on.
LEMMA PassingOn ==
  ASSUME TwinOK, class' = class, issued' = Id, NEW c \in Caches,
         NEW kind \in {"open", "close", "bypass"}, NEW keys, NEW asked, NEW a, asked = "write" => a \in Accesses,
         fs' = BagAdd(fs, ToFs(c, kind, keys, {}, Id)),
         CompleteRequests(c, Pending(c), Asked(c, asked, a)), lruCache' = lruCache
  PROVE  TwinGoesOn
<1> DEFINE asks == Asked(c, asked, a)
           x == ToFs(c, kind, keys, {}, Id)
<1>1. /\ Working(c, Pending(c), fs, asks) /\ AskedBy(c, Id, asks) /\ Id \notin DOMAIN Pending(c).pages
  BY NewWork
<1> HIDE DEF asks
<1>2. Mine(c, Pending(c), fs', asks, issued') /\ Apart(c, fs, fs')
  <2>1. Mine(c, Pending(c), fs, asks, issued')
    BY <1>1 DEF Working
  <2>2. LET q1 == BagAdd(fs, x) IN Mine(c, Pending(c), q1, asks, issued') /\ Apart(c, fs, q1)
    BY <1>1, <2>1, TwinForwardSent
  <2> QED BY <2>2
<1>3. NoWriteGoes(fs, fs')
  BY FsIsBag, BagOfSet, SentStays DEF BagAdd
<1>4. Working(c, Pending(c), fs', asks)
  BY <1>1, <1>2, <1>3 DEF Working
<1>5. Same(lruCache, lruCache)
  BY DEF Same, TwinOK
<1>6. /\ UpdateOK(Update(lruCache)) /\ Carried(Update(lruCache), fs') /\ Update(lruCache).out = << >>
      /\ Update(lruCache).cache = lruCache
  BY <1>5, UpdateBegins
<1> QED BY <1>4, <1>6, StepEnds DEF asks
-----------------------------------------------------------------------------
\* The updates of the cache that requests and answers make.
LEMMA SomeOfFile ==
  ASSUME NEW S, OfFile(S), NEW T, T \subseteq S
  PROVE  OfFile(T)
BY FS_Subset DEF OfFile

LEMMA ReadPagesLeave ==
  ASSUME NEW u, UpdateOK(u), NEW keys, OfFile(keys)
  PROVE  UpdateOK(UpdateWithReadPages(u, keys)) /\ Kept(u, UpdateWithReadPages(u, keys))
<1>1. UpdateWithReadPages(u, keys) = FullInserted(u, keys, FALSE)
  BY DEF UpdateWithReadPages, FullInserted
<1>2. UpdateOK(FullInserted(u, keys, FALSE)) /\ Kept(u, FullInserted(u, keys, FALSE))
  <2>1. \A d \in BOOLEAN : UpdateOK(FullInserted(u, keys, d)) /\ Kept(u, FullInserted(u, keys, d))
    BY InsertLeaves
  <2> QED BY <2>1, Zenon
<1> QED BY <1>1, <1>2

LEMMA WritePagesLeave ==
  ASSUME NEW u, UpdateOK(u), NEW a \in Accesses, NEW partial, partial \subseteq PartialKeys(a)
  PROVE  UpdateOK(UpdateWithWritePages(u, a, partial)) /\ Kept(u, UpdateWithWritePages(u, a, partial))
<1> DEFINE v == FullInserted(u, FullKeys(a), TRUE)
           w == UpdatePartial(v, a, partial)
<1>1. OfFile(FullKeys(a)) /\ OfFile(partial)
  BY AccessOfFile, SomeOfFile
<1>2. UpdateWithWritePages(u, a, partial) = w
  BY DEF UpdateWithWritePages, FullInserted
<1>3. UpdateOK(v) /\ Kept(u, v)
  <2>1. \A d \in BOOLEAN : UpdateOK(FullInserted(u, FullKeys(a), d)) /\ Kept(u, FullInserted(u, FullKeys(a), d))
    BY <1>1, InsertLeaves
  <2> QED BY <2>1, Zenon
<1> HIDE DEF v
<1>4. UpdateOK(w) /\ Kept(v, w)
  BY <1>1, <1>3, PartLeaves
<1> HIDE DEF w
<1> QED BY <1>2, <1>3, <1>4, KeptOn
-----------------------------------------------------------------------------
(* The parts of a step of a node with twins.                               *)

LEMMA ReadsResolved ==
  ASSUME NEW c, NEW p, NEW q, NEW asks, Working(c, p, q, asks), NEW keys
  PROVE  Working(c, ResolveReads(p, keys), q, asks) /\ DOMAIN ResolveReads(p, keys).pages = DOMAIN p.pages
<1>1. Mine(c, p, q, asks, issued') /\ Apart(c, fs, q) /\ NoWriteGoes(fs, q) /\ AsksStay(c, asks)
  BY DEF Working
<1>2. LET p1 == ResolveReads(p, keys)
      IN  Mine(c, p1, q, asks, issued') /\ Apart(c, q, q) /\ DOMAIN p1.pages = DOMAIN p.pages
  BY <1>1, ReadsTaken
<1> QED BY <1>1, <1>2 DEF Working

\* The messages W that read these pages for request r.
ReadsOut(W, c, r, keys) ==
  /\ IsFiniteSet(W) /\ \A m \in W : m.cache = c /\ m.parent = r /\ m.kind = "read" /\ m.keys \subseteq keys
  /\ \A k \in keys : \E m \in W : k \in m.keys

LEMMA TwinReadsSent ==
  ASSUME TwinOK, NEW c, NEW p, NEW q, NEW asks, Working(c, p, q, asks),
         NEW r, AskedBy(c, r, asks), NotForwarded(q, r), NEW keys, OfFile(keys), NEW W, ReadsOut(W, c, r, keys),
         asks[r].kind = "write" => keys \subseteq PartialKeys(asks[r].access),
         NEW wanted, wanted \subseteq keys \union KeysSent(q, c, "read")
  PROVE  LET q1 == q (+) SetToBag(W)
             p1 == RegisterPendingPages(p, r, wanted)
         IN  Working(c, p1, q1, asks) /\ NotForwarded(q1, r)
<1> DEFINE q1 == q (+) SetToBag(W)
           p1 == RegisterPendingPages(p, r, wanted)
<1>1. Mine(c, p, q, asks, issued') /\ Apart(c, fs, q) /\ NoWriteGoes(fs, q) /\ AsksStay(c, asks)
  BY DEF Working
<1>2. Bag(fs) /\ Bag(q) /\ Bag(SetToBag(W)) /\ DOMAIN SetToBag(W) = W
  BY WorkingBags, BagOfSet
<1>3. Bag(q1) /\ DOMAIN q1 = DOMAIN q \union W
  BY <1>2, BagJoined
<1>4. NoWriteGoes(fs, q1)
  <2>1. NoWriteGoes(q, q1)
    BY <1>2, SentStays
  <2> HIDE DEF q1
  <2> QED BY <1>1, <1>2, <1>3, <2>1, NoWriteGoesOn
<1>5. wanted \subseteq KeysSent(q1, c, "read")
  <2> HIDE DEF q1
  <2> QED BY <1>3 DEF KeysSent, SentBy, ReadsOut
<1>6. \A m \in W : /\ m.cache = c /\ m.parent = r /\ m.kind = "read" /\ OfFile(m.keys)
                   /\ asks[r].kind = "write" => m.keys \subseteq PartialKeys(asks[r].access)
  BY SomeOfFile DEF ReadsOut
<1>7. IsFiniteSet(W)
  BY DEF ReadsOut
<1>8. Mine(c, p1, q1, asks, issued') /\ Apart(c, q, q1) /\ r \in DOMAIN p1.pages
  BY <1>1, <1>5, <1>6, <1>7, ReadsAsked
<1> HIDE DEF q1, p1
<1>9. Apart(c, fs, q1) /\ NotForwarded(q1, r)
  BY <1>1, <1>8, ApartOn, PendingNotForwarded
<1> QED BY <1>1, <1>4, <1>8, <1>9 DEF Working, q1, p1

\* What an update has recalled is written out.
LEMMA WritesSent ==
  ASSUME TwinOK, NEW c, NEW p, NEW q, NEW asks, Working(c, p, q, asks),
         NEW r, AskedBy(c, r, asks), NotForwarded(q, r),
         NEW u, UpdateOK(u), Carried(u, q), NEW b, WritesOut(b, c, r, u.out)
  PROVE  LET q1 == q (+) b
             p1 == RegisterPendingWrites(p, r, u.out)
             v  == [u EXCEPT !.out = << >>]
         IN  Working(c, p1, q1, asks) /\ NotForwarded(q1, r) /\ UpdateOK(v) /\ Carried(v, q1)
<1> DEFINE q1 == q (+) b
           p1 == RegisterPendingWrites(p, r, u.out)
           v  == [u EXCEPT !.out = << >>]
<1>1. Mine(c, p, q, asks, issued') /\ Apart(c, fs, q) /\ NoWriteGoes(fs, q) /\ AsksStay(c, asks)
  BY DEF Working
<1>2. Bag(fs) /\ Bag(q) /\ Bag(b)
  BY WorkingBags DEF WritesOut
<1>3. Bag(q1)
  BY <1>2, BagJoined
<1>4. NoWriteGoes(q, q1) /\ \A k, g : Handed(u.out, k, g) => WriteComes(q, q1, k, g)
  BY <1>2, HandedIsSent DEF TwinOK
<1>5. Mine(c, p1, q1, asks, issued') /\ Apart(c, q, q1) /\ r \in DOMAIN p1.pages
  BY <1>1, OutRegistered
<1> HIDE DEF q1, p1
<1>6. /\ NoWriteGoes(fs, q1)
      /\ \A k, g : WriteComes(fs, q, k, g) \/ WriteComes(q, q1, k, g) => WriteComes(fs, q1, k, g)
  BY <1>1, <1>2, <1>3, <1>4, NoWriteGoesOn
<1>7. Apart(c, fs, q1) /\ NotForwarded(q1, r)
  BY <1>1, <1>5, ApartOn, PendingNotForwarded
<1>8. v = [cache |-> u.cache, out |-> << >>, ok |-> u.ok]
  <2> DEFINE x == u.cache
             o == u.out
             k == u.ok
  <2>1. u = [cache |-> x, out |-> o, ok |-> k]
    BY DEF UpdateOK
  <2> HIDE DEF x, o, k
  <2>2. [[cache |-> x, out |-> o, ok |-> k] EXCEPT !.out = << >>] = [cache |-> x, out |-> << >>, ok |-> k]
    OBVIOUS
  <2> QED BY <2>1, <2>2 DEF x, k
<1>9. v.cache = u.cache /\ v.out = << >> /\ v = [cache |-> v.cache, out |-> v.out, ok |-> v.ok]
  BY <1>8
<1> HIDE DEF v
<1>10. UpdateOK(v)
  BY <1>9 DEF UpdateOK
<1>11. Carried(v, q1)
  BY <1>4, <1>6, <1>9 DEF Carried
<1>12. Working(c, p1, q1, asks)
  BY <1>1, <1>5, <1>6, <1>7 DEF Working
<1> QED BY <1>7, <1>10, <1>11, <1>12 DEF q1, p1, v

\* An answer to a read.
LEMMA AnswerTaken ==
  ASSUME TwinOK, NEW m \in DOMAIN fs, m.kind = "read", m.parent \in DOMAIN live, issued' = issued,
         NEW keys, m.keys \subseteq keys
  PROVE  LET q1 == BagRemove(fs, m)
             p1 == ResolveReads(Pending(m.cache), keys)
         IN  /\ Working(m.cache, p1, q1, live) /\ NotForwarded(q1, m.parent)
             /\ m.cache \in Caches /\ AskedBy(m.cache, m.parent, live) /\ OfFile(m.keys)
             /\ live[m.parent].kind = "write" =>
                  /\ live[m.parent].access \in Accesses
                  /\ m.keys \subseteq PartialKeys(live[m.parent].access)
<1> DEFINE c == m.cache
           q1 == BagRemove(fs, m)
           p1 == ResolveReads(Pending(c), keys)
<1>1. /\ AskedBy(c, m.parent, live) /\ OfFile(m.keys) /\ c \in Caches
      /\ live[m.parent].kind = "write" =>
           live[m.parent].access \in Accesses /\ m.keys \subseteq PartialKeys(live[m.parent].access)
  BY FsIsBag DEF AsksOK, MessagesOK, AskedBy
<1>2. Mine(c, Pending(c), fs, live, issued)
  BY <1>1, FsIsBag
<1>3. Mine(c, p1, q1, live, issued) /\ Apart(c, fs, q1) /\ DOMAIN p1.pages = DOMAIN Pending(c).pages
  BY <1>2, ReadsTaken
<1>4. m.parent \in DOMAIN Pending(c).pages
  BY <1>1, <1>2 DEF Mine, ModuleOK, AskedBy, Forwarded
<1>5. NoWriteGoes(fs, q1)
  BY FsIsBag, AnswerStays DEF IsWrite
<1>6. AsksStay(c, live)
  BY DEF AsksStay
<1> HIDE DEF p1, q1
<1>7. NotForwarded(q1, m.parent)
  BY <1>3, <1>4, PendingNotForwarded
<1>8. Working(c, p1, q1, live)
  BY <1>3, <1>5, <1>6 DEF Working
<1> QED BY <1>1, <1>7, <1>8 DEF c, p1, q1

LEMMA BlockReadsOut ==
  ASSUME NEW c, NEW r, NEW keys
  PROVE  \E W : ReadsOut(W, c, r, keys) /\ BlockIndexedReads(c, keys, r) = SetToBag(W)
<1> DEFINE x == ToFs(c, "read", keys, {}, r)
<1>1. x.cache = c /\ x.parent = r /\ x.kind = "read" /\ x.keys = keys
  BY DEF ToFs
<1>2. BlockIndexedReads(c, keys, r) = SetToBag({x})
  BY DEF BlockIndexedReads
<1> HIDE DEF x
<1>3. ReadsOut({x}, c, r, keys)
  BY <1>1, FS_Singleton DEF ReadsOut
<1> QED BY <1>2, <1>3

LEMMA SingleReadsOut ==
  ASSUME NEW c, NEW r, NEW keys, IsFiniteSet(keys)
  PROVE  \E W : ReadsOut(W, c, r, keys) /\ SinglePagesReads(c, keys, r) = SetToBag(W)
<1> DEFINE f == [k \in keys |-> ToFs(c, "read", {k}, {}, r)]
           W == {f[k] : k \in DOMAIN f}
<1>1. IsFiniteSet(W)
  BY ImageFinite
<1>2. SinglePagesReads(c, keys, r) = SetToBag(W)
  <2>1. W = {ToFs(c, "read", {k}, {}, r) : k \in keys}
    OBVIOUS
  <2> QED BY <2>1 DEF SinglePagesReads
<1>3. \A k \in keys : /\ f[k] \in W /\ f[k].cache = c /\ f[k].parent = r /\ f[k].kind = "read" /\ f[k].keys = {k}
  BY DEF ToFs
<1>4. \A m \in W : \E k \in keys : m = f[k]
  OBVIOUS
<1> HIDE DEF f, W
<1>5. ReadsOut(W, c, r, keys)
  BY <1>1, <1>3, <1>4 DEF ReadsOut
<1> QED BY <1>2, <1>5
-----------------------------------------------------------------------------
(* The requests to a module with twins.                                    *)

LEMMA TwinOpenHandled ==
  ASSUME TwinOK, NEW c \in Caches, NEW f, Open(c, f)
  PROVE  TwinGoesOn
<1>1. /\ class' = class /\ issued' = Id /\ lruCache' = lruCache
      /\ fs' = BagAdd(fs, ToFs(c, "open", {}, {}, Id))
      /\ CompleteRequests(c, Pending(c), Asked(c, "open", OnFile(f)))
  BY DEF Open, Issue
<1> QED BY <1>1, PassingOn

LEMMA TwinFakeOpenHandled ==
  ASSUME TwinOK, NEW c \in Caches, NEW f, FakeOpen(c, f)
  PROVE  TwinGoesOn
BY NothingChanges DEF FakeOpen, pend

LEMMA TwinBypassHandled ==
  ASSUME TwinOK, NEW c \in Caches, NEW a \in Accesses, WriteBypass(c, a)
  PROVE  TwinGoesOn
<1>1. /\ class' = class /\ issued' = Id /\ lruCache' = lruCache
      /\ fs' = BagAdd(fs, ToFs(c, "bypass", AllKeys(a), {}, Id))
      /\ CompleteRequests(c, Pending(c), Asked(c, "write", a))
  BY DEF WriteBypass, Issue
<1> QED BY <1>1, PassingOn

LEMMA TwinCloseForwarded ==
  ASSUME TwinOK, NEW c \in Caches, NEW f, class' = class, issued' = Id, lruCache' = lruCache,
         fs' = BagAdd(fs, ToFs(c, "close", {}, {}, Id)),
         CompleteRequests(c, Pending(c), Asked(c, "close", OnFile(f)))
  PROVE  TwinGoesOn
BY PassingOn

\* The last close of a file writes its dirty pages and empties the cache.
LEMMA TwinLastCloseHandled ==
  ASSUME TwinOK, NEW c \in Caches, NEW f \in Files, class' = class, issued' = Id, lruCache' = FlushCache(f),
         NEW b, WritesOut(b, c, Id, DirtyPages(f)), fs' = fs (+) b,
         CompleteRequests(c, RegisterPendingWrites(Pending(c), Id, DirtyPages(f)), Asked(c, "close", OnFile(f)))
  PROVE  TwinGoesOn
<1> DEFINE asks == Asked(c, "close", OnFile(f))
           u == [cache |-> FlushCache(f), out |-> DirtyPages(f), ok |-> TRUE]
<1>1. Working(c, Pending(c), fs, asks) /\ AskedBy(c, Id, asks) /\ NotForwarded(fs, Id)
  <2>1. Begun(c, "close", OnFile(f), asks)
    BY WorkBegins, Zenon
  <2> QED BY <2>1 DEF Begun
<1>2. u.cache = FlushCache(f) /\ u.out = DirtyPages(f) /\ u = [cache |-> u.cache, out |-> u.out, ok |-> u.ok]
  OBVIOUS
<1> HIDE DEF u
<1>3. UpdateOK(u) /\ Carried(u, fs)
  BY <1>2, FlushLeaves, DirtyHanded DEF UpdateOK, Carried, TwinOK
<1>4. CompleteRequests(c, RegisterPendingWrites(Pending(c), Id, u.out), asks)
  BY <1>2
<1>5. WritesOut(b, c, Id, u.out) /\ lruCache' = u.cache
  BY <1>2
<1> HIDE DEF asks
<1> QED BY <1>1, <1>3, <1>4, <1>5, StepWrites

LEMMA TwinCloseHandled ==
  ASSUME TwinOK, NEW c \in Caches, NEW f \in Files, Close(c, f) \/ SinglePagesClose(c, f)
  PROVE  TwinGoesOn
<1>0. DirtyPages(f) \in Seq(Outs)
  BY DirtyHanded DEF TwinOK
<1>1. CASE Close(c, f)
  <2>1. class' = class /\ issued' = Id
    BY <1>1 DEF Close, Issue
  <2>2. CASE openFileCounts'[f] = 0
    <3>1. /\ fs' = fs (+) BlockIndexedWritebacks(c, DirtyPages(f), Id) /\ lruCache' = FlushCache(f)
          /\ CompleteRequests(c, RegisterPendingWrites(Pending(c), Id, DirtyPages(f)), Asked(c, "close", OnFile(f)))
      BY <1>1, <2>2 DEF Close
    <3>2. WritesOut(BlockIndexedWritebacks(c, DirtyPages(f), Id), c, Id, DirtyPages(f))
      BY <1>0, BlockIndexedWritten
    <3> QED BY <2>1, <3>1, <3>2, TwinLastCloseHandled
  <2>3. CASE openFileCounts'[f] # 0
    <3>1. /\ fs' = BagAdd(fs, ToFs(c, "close", {}, {}, Id)) /\ lruCache' = lruCache
          /\ CompleteRequests(c, Pending(c), Asked(c, "close", OnFile(f)))
      BY <1>1, <2>3 DEF Close
    <3> QED BY <2>1, <3>1, TwinCloseForwarded
  <2> QED BY <2>2, <2>3
<1>2. CASE SinglePagesClose(c, f)
  <2>1. class' = class /\ issued' = Id
    BY <1>2 DEF SinglePagesClose, Issue
  <2> DEFINE last == openFileCounts'[f] = 0
             out == IF last THEN SinglePagesDirty(f) ELSE << >>
             p == IF last THEN SinglePagesRegisterWrites(Pending(c), Id, out) ELSE Pending(c)
  <2>2. /\ fs' = IF last THEN fs (+) SinglePagesWritebacks(c, out, Id)
                 ELSE BagAdd(fs, ToFs(c, "close", {}, {}, Id))
        /\ lruCache' = IF last THEN SinglePagesFlush(f) ELSE lruCache
        /\ SinglePagesComplete(c, p, Asked(c, "close", OnFile(f)))
    BY <1>2 DEF SinglePagesClose
  <2>3. CompleteRequests(c, p, Asked(c, "close", OnFile(f)))
    BY <2>2 DEF SinglePagesComplete, SinglePagesPopCompleted, SinglePagesHasPending, CompleteRequests, PopCompleted
  <2>4. CASE last
    <3>1. out = DirtyPages(f) /\ p = RegisterPendingWrites(Pending(c), Id, DirtyPages(f))
      BY <2>4 DEF SinglePagesDirty, SinglePagesRegisterWrites
    <3>2. fs' = fs (+) SinglePagesWritebacks(c, DirtyPages(f), Id) /\ lruCache' = FlushCache(f)
      BY <2>2, <2>4, <3>1 DEF SinglePagesFlush
    <3>3. WritesOut(SinglePagesWritebacks(c, DirtyPages(f), Id), c, Id, DirtyPages(f))
      BY <1>0, SinglePagesWritten
    <3> QED BY <2>1, <2>3, <3>1, <3>2, <3>3, TwinLastCloseHandled
  <2>5. CASE ~last
    <3>1. p = Pending(c) /\ lruCache' = lruCache /\ fs' = BagAdd(fs, ToFs(c, "close", {}, {}, Id))
      BY <2>2, <2>5
    <3> QED BY <2>1, <2>3, <3>1, TwinCloseForwarded
  <2> QED BY <2>4, <2>5
<1> QED BY <1>1, <1>2
-----------------------------------------------------------------------------
\* What trimPendingReadPages leaves out is being read.
LEMMA TrimmedAreSent ==
  ASSUME TwinOK, NEW c \in Caches, NEW wanted, TrimPending(pendingPages[c], wanted) # {}
  PROVE  /\ TrimPending(pendingPages[c], wanted) \subseteq wanted
         /\ wanted \subseteq TrimPending(pendingPages[c], wanted) \union KeysSent(fs, c, "read")
<1> DEFINE pages == pendingPages[c]
<1>1. \A r \in DOMAIN pages : pages[r].readPages \subseteq KeysSent(fs, c, "read")
  BY FsIsBag DEF Mine, ModuleOK, Pending
<1> HIDE DEF pages
<1>2. CASE pages = << >>
  BY <1>2 DEF TrimPending, pages
<1>3. CASE pages # << >>
  <2>1. TrimPending(pages, wanted) = UNION {wanted \ pages[r].readPages : r \in DOMAIN pages}
    BY <1>3 DEF TrimPending
  <2>2. PICK r \in DOMAIN pages : TRUE
    BY <2>1 DEF pages
  <2>3. \A k \in wanted : k \in TrimPending(pages, wanted) \/ k \in pages[r].readPages
    BY <2>1
  <2>4. TrimPending(pages, wanted) \subseteq wanted
    BY <2>1
  <2> QED BY <1>1, <2>2, <2>3, <2>4 DEF pages
<1> QED BY <1>2, <1>3

LEMMA TwinReadStarts ==
  ASSUME TwinOK, NEW c \in Caches, NEW a \in Accesses, class' = class, issued' = Id,
         NEW wanted, wanted = AllKeys(a) \ Cached(lruCache),
         NEW trimmed, trimmed = TrimPending(pendingPages[c], wanted), trimmed # {},
         NEW W, ReadsOut(W, c, Id, trimmed), fs' = fs (+) SetToBag(W),
         lruCache' = LookupPages(lruCache, AllKeys(a)),
         CompleteRequests(c, RegisterPendingPages(Pending(c), Id, wanted), Asked(c, "read", a))
  PROVE  TwinGoesOn
<1> DEFINE asks == Asked(c, "read", a)
           p1 == RegisterPendingPages(Pending(c), Id, wanted)
           u == Update(LookupPages(lruCache, AllKeys(a)))
<1>1. Begun(c, "read", a, asks)
  BY WorkBegins, Zenon
<1>2. trimmed \subseteq wanted /\ wanted \subseteq trimmed \union KeysSent(fs, c, "read")
  BY TrimmedAreSent
<1>3. OfFile(trimmed) /\ OfFile(AllKeys(a))
  BY <1>2, AccessOfFile, SomeOfFile
<1> HIDE DEF asks
<1>4. asks[Id].kind # "write"
  BY <1>1 DEF Begun
<1>5. Working(c, p1, fs', asks)
  BY <1>1, <1>2, <1>3, <1>4, TwinReadsSent DEF Begun
<1>6. Same(lruCache, LookupPages(lruCache, AllKeys(a)))
  BY <1>3, LookupLeaves DEF TwinOK
<1>7. UpdateOK(u) /\ Carried(u, fs') /\ u.out = << >> /\ u.cache = LookupPages(lruCache, AllKeys(a))
  BY <1>6, UpdateBegins
<1> HIDE DEF u, p1
<1>8. CompleteRequests(c, p1, asks) /\ lruCache' = u.cache
  BY <1>7 DEF asks, p1
<1> QED BY <1>5, <1>7, <1>8, StepEnds

LEMMA TwinReadHandled ==
  ASSUME TwinOK, NEW c \in Caches, NEW a \in Accesses, Read(c, a) \/ SinglePagesRead(c, a)
  PROVE  TwinGoesOn
<1> DEFINE wanted == AllKeys(a) \ Cached(lruCache)
           trimmed == TrimPending(pendingPages[c], wanted)
<1>1. class' = class /\ issued' = Id
  BY DEF Read, SinglePagesRead, Issue
<1>2. CASE trimmed = {}
  <2>1. Fail("beginRead")
    BY <1>2 DEF Read, SinglePagesRead, SinglePagesAllKeys, SinglePagesTrim
  <2> QED BY <1>1, <2>1, FailHandled
<1>3. CASE trimmed # {} /\ Read(c, a)
  <2>1. /\ lruCache' = LookupPages(lruCache, AllKeys(a)) /\ fs' = fs (+) BlockIndexedReads(c, trimmed, Id)
        /\ CompleteRequests(c, RegisterPendingPages(Pending(c), Id, wanted), Asked(c, "read", a))
    BY <1>3 DEF Read
  <2>2. PICK W : ReadsOut(W, c, Id, trimmed) /\ BlockIndexedReads(c, trimmed, Id) = SetToBag(W)
    BY BlockReadsOut
  <2> HIDE DEF trimmed, wanted
  <2> QED BY <1>1, <1>3, <2>1, <2>2, TwinReadStarts DEF trimmed, wanted
<1>4. CASE trimmed # {} /\ SinglePagesRead(c, a)
  <2>1. /\ lruCache' = LookupPages(lruCache, AllKeys(a)) /\ fs' = fs (+) SinglePagesReads(c, trimmed, Id)
        /\ SinglePagesComplete(c, RegisterPendingPages(Pending(c), Id, wanted), Asked(c, "read", a))
    BY <1>4 DEF SinglePagesRead, SinglePagesAllKeys, SinglePagesTrim, SinglePagesLookup, SinglePagesRegister
  <2>2. CompleteRequests(c, RegisterPendingPages(Pending(c), Id, wanted), Asked(c, "read", a))
    BY <2>1 DEF SinglePagesComplete, SinglePagesPopCompleted, SinglePagesHasPending, CompleteRequests, PopCompleted
  <2>3. IsFiniteSet(trimmed)
    <3>1. trimmed \subseteq AllKeys(a)
      BY <1>4, TrimmedAreSent
    <3> QED BY <3>1, AccessOfFile, SomeOfFile DEF OfFile
  <2>4. PICK W : ReadsOut(W, c, Id, trimmed) /\ SinglePagesReads(c, trimmed, Id) = SetToBag(W)
    BY <2>3, SingleReadsOut
  <2> HIDE DEF trimmed, wanted
  <2> QED BY <1>1, <1>4, <2>1, <2>2, <2>4, TwinReadStarts DEF trimmed, wanted
<1> QED BY <1>2, <1>3, <1>4

\* The end of a write: its pages are written to the cache.
LEMMA TwinUpdateWritten ==
  ASSUME TwinOK, class' = class, issued' \in {issued, Id}, NEW c \in Caches, NEW p, NEW q, NEW asks,
         Working(c, p, q, asks), NEW r, AskedBy(c, r, asks), NotForwarded(q, r),
         NEW u, UpdateOK(u), Carried(u, q), NEW a \in Accesses, NEW partial, partial \subseteq PartialKeys(a),
         NEW keys, NEW todo, WriteStep(c, r, UpdateWithWritePages(u, a, partial), ResolveReads(p, keys), asks, todo, q)
  PROVE  TwinGoesOn
<1> DEFINE v == UpdateWithWritePages(u, a, partial)
           p1 == ResolveReads(p, keys)
<1>1. UpdateOK(v) /\ Kept(u, v)
  BY WritePagesLeave
<1>2. Working(c, p1, q, asks)
  BY ReadsResolved
<1>3. WriteStep(c, r, v, p1, asks, todo, q)
  OBVIOUS
<1> HIDE DEF v, p1
<1>4. Carried(v, q)
  BY <1>1, CarriedOn
<1> QED BY <1>1, <1>2, <1>3, <1>4, WriteStepHandled

LEMMA BeginWritebackHandled ==
  ASSUME TwinOK, class' = class, issued' \in {issued, Id}, NEW c \in Caches, NEW p, NEW q, NEW asks,
         Working(c, p, q, asks), NEW r, AskedBy(c, r, asks), NotForwarded(q, r), asks[r].access \in Accesses,
         NEW u, UpdateOK(u), Carried(u, q), BeginWriteback(c, r, u, p, asks, q)
  PROVE  TwinGoesOn
<1> DEFINE a == asks[r].access
<1>1. WriteStep(c, r, UpdateWithWritePages(u, a, {}), ResolveReads(p, FullKeys(a)), asks, {}, q)
  BY DEF BeginWriteback, SinglePagesUpdateWrite, SinglePagesResolveReads, SinglePagesFullKeys
<1> HIDE DEF a
<1>2. a \in Accesses /\ {} \subseteq PartialKeys(a)
  BY DEF a
<1> QED BY <1>1, <1>2, TwinUpdateWritten

\* What a write does first: it updates the pages it finds.
FirstUpdate(a, found) == UpdatePartial(Update(LookupPages(lruCache, PartialKeys(a))), a, found)

LEMMA WriteUpdates ==
  ASSUME TwinOK, NEW a \in Accesses, NEW found, found \subseteq PartialKeys(a), NEW q
  PROVE  UpdateOK(FirstUpdate(a, found)) /\ Carried(FirstUpdate(a, found), q)
<1> DEFINE u == Update(LookupPages(lruCache, PartialKeys(a)))
           v == UpdatePartial(u, a, found)
<1>1. OfFile(PartialKeys(a)) /\ OfFile(found)
  BY AccessOfFile, SomeOfFile
<1>2. Same(lruCache, LookupPages(lruCache, PartialKeys(a)))
  BY <1>1, LookupLeaves DEF TwinOK
<1>3. UpdateOK(u) /\ Carried(u, q)
  BY <1>2, UpdateBegins
<1> HIDE DEF u
<1>4. UpdateOK(v) /\ Kept(u, v)
  BY <1>1, <1>3, PartLeaves
<1> HIDE DEF v
<1>5. Carried(v, q)
  BY <1>3, <1>4, CarriedOn
<1> QED BY <1>4, <1>5 DEF FirstUpdate, u, v

\* A write waits for the pages that its messages W read.
LEMMA WriteWaits ==
  ASSUME TwinOK, issued' = Id, NEW c \in Caches, NEW a \in Accesses,
         NEW missing, missing \subseteq PartialKeys(a), NEW W, ReadsOut(W, c, Id, missing)
  PROVE  /\ Working(c, WriteRegistered(c, missing), fs (+) SetToBag(W), Asked(c, "write", a))
         /\ NotForwarded(fs (+) SetToBag(W), Id) /\ AskedBy(c, Id, Asked(c, "write", a))
         /\ Asked(c, "write", a)[Id].access = a
<1> DEFINE asks == Asked(c, "write", a)
<1>1. Begun(c, "write", a, asks)
  BY WorkBegins, Zenon
<1>2. OfFile(missing)
  BY AccessOfFile, SomeOfFile
<1> HIDE DEF asks
<1>3. asks[Id].access = a
  BY <1>1 DEF Begun
<1>4. LET q1 == fs (+) SetToBag(W)
          p1 == RegisterPendingPages(Pending(c), Id, missing)
      IN  Working(c, p1, q1, asks) /\ NotForwarded(q1, Id)
  BY <1>1, <1>2, <1>3, TwinReadsSent DEF Begun
<1>5. AskedBy(c, Id, asks)
  BY <1>1 DEF Begun
<1> QED BY <1>3, <1>4, <1>5 DEF WriteRegistered, asks

LEMMA NothingRead ==
  ASSUME NEW c, NEW r, NEW q, Bag(q)
  PROVE  ReadsOut({}, c, r, {}) /\ q (+) SetToBag({}) = q
BY JoinNothing, FS_EmptySet DEF ReadsOut, EmptyBag

LEMMA BlockIndexedWriteHandled ==
  ASSUME TwinOK, NEW c \in Caches, NEW a \in Accesses, BlockIndexedWrite(c, a)
  PROVE  TwinGoesOn
<1> DEFINE found == PartialKeys(a) \intersect Cached(lruCache)
           missing == PartialKeys(a) \ found
           first == FirstUpdate(a, found)
           asks == Asked(c, "write", a)
<1>1. class' = class /\ issued' = Id /\ issued' \in {issued, Id}
  BY DEF BlockIndexedWrite, Issue
<1>2. /\ missing # {} => WriteStep(c, Id, first, WriteRegistered(c, missing), asks,
                                  AllKeys(a) \ found, fs (+) BlockIndexedReads(c, missing, Id))
      /\ missing = {} => WriteStep(c, Id, UpdateWithWritePages([first EXCEPT !.out = << >>], a, PartialKeys(a)),
                        ResolveReads(RegisterPendingWrites(WriteRegistered(c, {}), Id, first.out), FullKeys(a)),
                        asks, {}, fs (+) BlockIndexedWritebacks(c, first.out, Id))
  BY DEF BlockIndexedWrite, FirstUpdate
<1>3. found \subseteq PartialKeys(a) /\ missing \subseteq PartialKeys(a)
  OBVIOUS
<1>4. \A q : UpdateOK(first) /\ Carried(first, q)
  BY <1>3, WriteUpdates
<1> HIDE DEF found, missing, first
<1>5. CASE missing # {}
  <2>1. PICK W : ReadsOut(W, c, Id, missing) /\ BlockIndexedReads(c, missing, Id) = SetToBag(W)
    BY BlockReadsOut
  <2> DEFINE q1 == fs (+) SetToBag(W)
             p1 == WriteRegistered(c, missing)
             todo == AllKeys(a) \ found
  <2>2. Working(c, p1, q1, asks) /\ NotForwarded(q1, Id) /\ AskedBy(c, Id, asks)
    BY <1>1, <1>3, <2>1, WriteWaits
  <2>3. WriteStep(c, Id, first, p1, asks, todo, q1)
    BY <1>2, <1>5, <2>1
  <2> HIDE DEF q1, p1, asks, todo
  <2> QED BY <1>1, <1>4, <2>2, <2>3, WriteStepHandled
<1>6. CASE missing = {}
  <2> DEFINE p0 == WriteRegistered(c, {})
             b == BlockIndexedWritebacks(c, first.out, Id)
             q1 == fs (+) b
             p1 == RegisterPendingWrites(p0, Id, first.out)
             v == [first EXCEPT !.out = << >>]
  <2>1. Working(c, p0, fs, asks) /\ NotForwarded(fs, Id) /\ AskedBy(c, Id, asks)
    <3>1. ReadsOut({}, c, Id, {}) /\ fs (+) SetToBag({}) = fs
      BY FsIsBag, NothingRead
    <3>2. {} \subseteq PartialKeys(a)
      OBVIOUS
    <3> QED BY <1>1, <3>1, <3>2, WriteWaits
  <2>2. WritesOut(b, c, Id, first.out)
    BY <1>4, BlockIndexedWritten DEF UpdateOK
  <2>3. WriteStep(c, Id, UpdateWithWritePages(v, a, PartialKeys(a)), ResolveReads(p1, FullKeys(a)), asks, {}, q1)
    BY <1>2, <1>6
  <2> HIDE DEF p0, b, asks
  <2>4. Working(c, p1, q1, asks) /\ NotForwarded(q1, Id) /\ UpdateOK(v) /\ Carried(v, q1)
    BY <1>4, <2>1, <2>2, WritesSent
  <2> HIDE DEF p1, q1, v
  <2> QED BY <1>1, <2>1, <2>3, <2>4, TwinUpdateWritten
<1> QED BY <1>5, <1>6

LEMMA SinglePagesWriteHandled ==
  ASSUME TwinOK, NEW c \in Caches, NEW a \in Accesses, SinglePagesWrite(c, a)
  PROVE  TwinGoesOn
<1> DEFINE partial == SinglePagesPartialKeys(a)
           found == partial \intersect Cached(lruCache)
           missing == partial \ found
           first == FirstUpdate(a, found)
           asks == Asked(c, "write", a)
<1>1. class' = class /\ issued' = Id /\ issued' \in {issued, Id}
  BY DEF SinglePagesWrite, Issue
<1>2. first = SinglePagesUpdatePartial(Update(SinglePagesLookup(lruCache, partial)), a, found)
  BY DEF FirstUpdate, SinglePagesUpdatePartial, SinglePagesLookup, SinglePagesPartialKeys
<1>3. /\ ~first.ok => Fail("insertDirtyPartialPage")
      /\ first.ok /\ first.out # << >> => Fail("writebackPages")
      /\ first.ok /\ first.out = << >> /\ missing = {} =>
           BeginWriteback(c, Id, first, WriteRegistered(c, {}), asks, fs)
      /\ first.ok /\ first.out = << >> /\ missing # {} =>
           /\ lruCache' = first.cache /\ fs' = fs (+) SinglePagesReads(c, missing, Id)
           /\ SinglePagesComplete(c, WriteRegistered(c, missing), asks)
  <2> DEFINE u == SinglePagesUpdatePartial(Update(SinglePagesLookup(lruCache, partial)), a, found)
  <2>1. (CASE ~u.ok -> Fail("insertDirtyPartialPage")
          [] u.ok /\ u.out # << >> -> Fail("writebackPages")
          [] u.ok /\ u.out = << >> /\ missing = {} ->
               /\ BeginWriteback(c, Id, u, WriteRegistered(c, {}), asks, fs)
               /\ UNCHANGED pendingReadCount
          [] OTHER ->
               /\ lruCache' = u.cache
               /\ fs' = fs (+) SinglePagesReads(c, missing, Id)
               /\ pendingReadCount' = With(pendingReadCount, Id, [state |-> "BEGIN_PARTIAL_PAGE_READ",
                                                                reads |-> Cardinality(missing)])
               /\ SinglePagesComplete(c, WriteRegistered(c, missing), asks)
               /\ uncached' = With(uncached, Id, SinglePagesAllKeys(a) \ found)
               /\ UNCHANGED <<openFileCounts, isOpen, failed>>)
    BY Zenon DEF SinglePagesWrite
  <2> HIDE DEF u, missing, asks
  <2>2. u = first
    BY <1>2 DEF u
  <2> HIDE DEF first
  <2> QED BY <2>1, <2>2
<1>4. partial = PartialKeys(a) /\ found \subseteq PartialKeys(a) /\ missing \subseteq PartialKeys(a)
  BY DEF SinglePagesPartialKeys
<1>5. \A q : UpdateOK(first) /\ Carried(first, q)
  BY <1>4, WriteUpdates
<1> HIDE DEF partial, found, missing, first
<1>6. CASE ~first.ok \/ first.out # << >>
  <2>1. Fail("insertDirtyPartialPage") \/ Fail("writebackPages")
    BY <1>3, <1>6
  <2> QED BY <1>1, <2>1, FailHandled
<1>7. CASE first.ok /\ first.out = << >> /\ missing = {}
  <2> DEFINE p0 == WriteRegistered(c, {})
  <2>1. BeginWriteback(c, Id, first, p0, asks, fs)
    BY <1>3, <1>7
  <2>2. Working(c, p0, fs, asks) /\ NotForwarded(fs, Id) /\ AskedBy(c, Id, asks) /\ asks[Id].access = a
    <3>1. ReadsOut({}, c, Id, {}) /\ fs (+) SetToBag({}) = fs
      BY FsIsBag, NothingRead
    <3>2. {} \subseteq PartialKeys(a)
      OBVIOUS
    <3> QED BY <1>1, <3>1, <3>2, WriteWaits
  <2> HIDE DEF p0, asks
  <2> QED BY <1>1, <1>5, <2>1, <2>2, BeginWritebackHandled
<1>8. CASE first.ok /\ first.out = << >> /\ missing # {}
  <2>1. IsFiniteSet(missing)
    BY <1>4, AccessOfFile, SomeOfFile DEF OfFile
  <2>2. PICK W : ReadsOut(W, c, Id, missing) /\ SinglePagesReads(c, missing, Id) = SetToBag(W)
    BY <2>1, SingleReadsOut
  <2> DEFINE p1 == WriteRegistered(c, missing)
  <2>3. /\ lruCache' = first.cache /\ fs' = fs (+) SetToBag(W)
        /\ CompleteRequests(c, p1, asks)
    BY <1>3, <1>8, <2>2
       DEF SinglePagesComplete, SinglePagesPopCompleted, SinglePagesHasPending, CompleteRequests, PopCompleted
  <2>4. Working(c, p1, fs', asks)
    BY <1>1, <1>4, <2>2, <2>3, WriteWaits
  <2> HIDE DEF p1, asks
  <2> QED BY <1>1, <1>5, <1>8, <2>3, <2>4, StepEnds
<1> QED BY <1>6, <1>7, <1>8
-----------------------------------------------------------------------------
(* The answers to a module with twins.                                     *)

LEMMA TwinReadAnswered ==
  ASSUME TwinOK, NEW m \in DOMAIN fs, ReadDone(m) \/ SinglePagesReadRequestDone(m)
  PROVE  TwinGoesOn
<1> DEFINE c == m.cache
           r == m.parent
           q1 == BagRemove(fs, m)
           p1 == ResolveReads(Pending(c), m.keys)
           u == UpdateWithReadPages(Update(lruCache), m.keys)
<1>1. /\ class' = class /\ issued' = issued /\ m.kind = "read" /\ r \in DOMAIN live
  BY DEF ReadDone, SinglePagesReadRequestDone, IsAnswerTo
<1>2. /\ Working(c, p1, q1, live) /\ NotForwarded(q1, r) /\ c \in Caches /\ AskedBy(c, r, live)
      /\ OfFile(m.keys)
  BY <1>1, AnswerTaken
<1>3. UpdateOK(u) /\ Carried(u, q1)
  <2>1. Same(lruCache, lruCache)
    BY DEF Same, TwinOK
  <2>2. UpdateOK(Update(lruCache)) /\ Carried(Update(lruCache), q1)
    BY <2>1, UpdateBegins
  <2>3. UpdateOK(u) /\ Kept(Update(lruCache), u)
    BY <1>2, <2>2, ReadPagesLeave
  <2> HIDE DEF u, q1
  <2> QED BY <2>2, <2>3, CarriedOn
<1>4. \E b : /\ WritesOut(b, c, r, u.out) /\ fs' = q1 (+) b /\ lruCache' = u.cache
             /\ CompleteRequests(c, RegisterPendingWrites(p1, r, u.out), live)
  <2>1. CASE ReadDone(m)
    <3>1. /\ lruCache' = u.cache /\ fs' = q1 (+) BlockIndexedWritebacks(c, u.out, r)
          /\ CompleteRequests(c, RegisterPendingWrites(p1, r, u.out), live)
      BY <2>1, Zenon DEF ReadDone
    <3>2. WritesOut(BlockIndexedWritebacks(c, u.out, r), c, r, u.out)
      BY <1>3, BlockIndexedWritten DEF UpdateOK
    <3> HIDE DEF u, p1, q1
    <3> QED BY <3>1, <3>2
  <2>2. CASE SinglePagesReadRequestDone(m)
    <3>1. /\ lruCache' = u.cache /\ fs' = q1 (+) SinglePagesWritebacks(c, u.out, r)
          /\ SinglePagesComplete(c, RegisterPendingWrites(p1, r, u.out), live)
      BY <2>2, Zenon DEF SinglePagesReadRequestDone, SinglePagesUpdateRead, SinglePagesRegisterWrites,
                         SinglePagesResolveReads
    <3>2. WritesOut(SinglePagesWritebacks(c, u.out, r), c, r, u.out)
      BY <1>3, SinglePagesWritten DEF UpdateOK
    <3>3. CompleteRequests(c, RegisterPendingWrites(p1, r, u.out), live)
      BY <3>1 DEF SinglePagesComplete, SinglePagesPopCompleted, SinglePagesHasPending, CompleteRequests, PopCompleted
    <3> HIDE DEF u, p1, q1
    <3> QED BY <3>1, <3>2, <3>3
  <2> QED BY <2>1, <2>2
<1> HIDE DEF u, p1, q1, c, r
<1> QED BY <1>1, <1>2, <1>3, <1>4, StepWrites

\* The page that a write has read, with the write's regions of it.
LEMMA ReadForWrite ==
  ASSUME TwinOK, NEW a \in Accesses, NEW keys, OfFile(keys), keys \subseteq PartialKeys(a), NEW q
  PROVE  LET u == UpdatePartial(UpdateWithReadPages(Update(lruCache), keys), a, keys)
         IN  UpdateOK(u) /\ Carried(u, q)
<1> DEFINE u0 == Update(lruCache)
           u1 == UpdateWithReadPages(u0, keys)
           u2 == UpdatePartial(u1, a, keys)
<1>1. Same(lruCache, lruCache)
  BY DEF Same, TwinOK
<1>2. UpdateOK(u0) /\ Carried(u0, q)
  BY <1>1, UpdateBegins
<1> HIDE DEF u0
<1>3. UpdateOK(u1) /\ Kept(u0, u1)
  BY <1>2, ReadPagesLeave
<1> HIDE DEF u1
<1>4. UpdateOK(u2) /\ Kept(u1, u2)
  BY <1>3, PartLeaves
<1> HIDE DEF u2
<1>5. Carried(u2, q)
  BY <1>2, <1>3, <1>4, CarriedOn
<1> QED BY <1>4, <1>5 DEF u2, u1, u0

LEMMA BlockIndexedReadAnswered ==
  ASSUME TwinOK, NEW m \in DOMAIN fs, BlockIndexedReadDone(m)
  PROVE  TwinGoesOn
<1> DEFINE c == m.cache
           r == m.parent
           a == live[r].access
           keys == m.keys \union FullKeys(a)
           q1 == BagRemove(fs, m)
           p1 == ResolveReads(Pending(c), keys)
           u == UpdatePartial(UpdateWithReadPages(Update(lruCache), m.keys), a, m.keys)
           v == UpdateWithWritePages(u, a, {})
<1>1. m.kind = "read" /\ r \in DOMAIN live /\ live[r].kind = "write" /\ issued' = issued
  BY DEF BlockIndexedReadDone, IsAnswerTo
<1>2. WriteStep(c, r, v, p1, live, {}, q1)
  BY Zenon DEF BlockIndexedReadDone
<1>3. class' = class
  BY <1>2 DEF WriteStep
<1>4. /\ Working(c, p1, q1, live) /\ NotForwarded(q1, r) /\ c \in Caches /\ AskedBy(c, r, live)
      /\ OfFile(m.keys) /\ a \in Accesses /\ m.keys \subseteq PartialKeys(a)
  BY <1>1, AnswerTaken
<1> HIDE DEF a
<1>5. UpdateOK(u) /\ Carried(u, q1)
  BY <1>4, ReadForWrite
<1> HIDE DEF u, q1
<1>6. UpdateOK(v) /\ Kept(u, v)
  <2>1. {} \subseteq PartialKeys(a)
    OBVIOUS
  <2> QED BY <1>4, <1>5, <2>1, WritePagesLeave
<1> HIDE DEF v
<1>7. Carried(v, q1)
  BY <1>5, <1>6, CarriedOn
<1> HIDE DEF c, r, keys, p1
<1> QED BY <1>1, <1>2, <1>3, <1>4, <1>6, <1>7, WriteStepHandled

LEMMA SinglePagesReadAnswered ==
  ASSUME TwinOK, NEW m \in DOMAIN fs, SinglePagesReadDone(m)
  PROVE  TwinGoesOn
<1> DEFINE c == m.cache
           r == m.parent
           a == live[r].access
           q1 == BagRemove(fs, m)
           p1 == ResolveReads(Pending(c), m.keys)
           u == UpdatePartial(UpdateWithReadPages(Update(lruCache), m.keys), a, m.keys)
           todo == uncached[r] \ m.keys
<1>1. m.kind = "read" /\ r \in DOMAIN live /\ live[r].kind = "write" /\ issued' = issued
  BY DEF SinglePagesReadDone, IsAnswerTo
<1>2. \/ BeginWriteback(c, r, u, p1, live, q1)
      \/ Fail("insertDirtyPartialPage") /\ class' = class
      \/ WriteStep(c, r, u, p1, live, todo, q1)
  BY DEF SinglePagesReadDone, SinglePagesUpdatePartial, SinglePagesUpdateRead, SinglePagesResolveReads
<1>3. class' = class
  BY <1>2 DEF BeginWriteback, WriteStep
<1>4. /\ Working(c, p1, q1, live) /\ NotForwarded(q1, r) /\ c \in Caches /\ AskedBy(c, r, live)
      /\ OfFile(m.keys) /\ a \in Accesses /\ m.keys \subseteq PartialKeys(a)
  BY <1>1, AnswerTaken
<1>5. live[r].access \in Accesses
  BY <1>4
<1> HIDE DEF a
<1>6. UpdateOK(u) /\ Carried(u, q1)
  BY <1>4, ReadForWrite
<1> HIDE DEF u, q1, c, r, p1, todo
<1>7. CASE BeginWriteback(c, r, u, p1, live, q1)
  BY <1>1, <1>3, <1>4, <1>5, <1>6, <1>7, BeginWritebackHandled
<1>8. CASE Fail("insertDirtyPartialPage")
  BY <1>1, <1>3, <1>8, FailHandled
<1>9. CASE WriteStep(c, r, u, p1, live, todo, q1)
  BY <1>1, <1>3, <1>4, <1>6, <1>9, WriteStepHandled
<1> QED BY <1>2, <1>7, <1>8, <1>9

LEMMA TwinWriteAnswered ==
  ASSUME TwinOK, NEW m \in DOMAIN fs, WrittenBack(m) \/ SinglePagesWrittenBack(m)
  PROVE  TwinGoesOn
<1> DEFINE c == m.cache
           q1 == BagRemove(fs, m)
           p1 == IF m.kind = "partial" THEN ResolvePartialWrite(Pending(c), m.parent)
                 ELSE ResolveWrites(Pending(c), m.keys)
<1>1. /\ m.kind \in {"partial", "write"} /\ m.parent \in DOMAIN live /\ fs' = q1
      /\ class' = class /\ lruCache' = lruCache /\ issued' = issued
  BY DEF WrittenBack, SinglePagesWrittenBack
<1>2. CompleteRequests(c, p1, live)
  BY DEF WrittenBack, SinglePagesWrittenBack, SinglePagesComplete, SinglePagesPopCompleted, SinglePagesHasPending,
         CompleteRequests, PopCompleted, SinglePagesResolvePartial, SinglePagesResolveWrites
<1>3. c \in Caches
  BY <1>1, FsIsBag DEF AsksOK, MessagesOK
<1>4. Mine(c, Pending(c), fs, live, issued)
  BY <1>3, FsIsBag
<1>5. Mine(c, p1, q1, live, issued) /\ Apart(c, fs, q1)
  BY <1>1, <1>4, PartTaken, WritesTaken
<1> HIDE DEF p1, q1
<1>6. NodeStep(c, live)
  BY <1>1, <1>5 DEF NodeStep, AsksStay
<1>7. TwinInv'
  BY <1>1, <1>2, <1>3, <1>5, <1>6, TwinHandled DEF TwinOK
<1> QED BY <1>1, <1>7 DEF TwinGoesOn, TwinKeeps, TwinOK

\* The answer to what was passed on.
LEMMA TwinForwardAnswered ==
  ASSUME TwinOK, NEW m \in DOMAIN fs, Forward(m)
  PROVE  TwinGoesOn
<1> DEFINE q1 == BagRemove(fs, m)
           r == m.parent
<1>1. /\ m.kind \in {"open", "close", "bypass"} /\ r \in DOMAIN live /\ live' = Without(live, {r}) /\ fs' = q1
      /\ UNCHANGED <<class, lruCache, pendingPages, pendingPartialPages, issued>>
  BY DEF Forward, PassedOn, twinVars, pend
<1>2. Pending(m.cache) = Pending(m.cache)' /\ \A c \in Caches : Pending(c)' = Pending(c)
  BY <1>1 DEF Pending
<1>3. Forwarded(m) /\ live[r].cache = m.cache /\ m.cache \in Caches
  BY <1>1, FsIsBag DEF MessagesOK, Forwarded, AsksOK
<1>4. /\ MessagesOK(q1, live, issued) /\ DOMAIN q1 \subseteq DOMAIN fs
      /\ \A c : KeysSent(fs, c, "read") \subseteq KeysSent(q1, c, "read")
      /\ \A c : KeysSent(fs, c, "write") \subseteq KeysSent(q1, c, "write")
      /\ \A c, s : Total(q1, c, s) = Total(fs, c, s)
  BY <1>1, FsIsBag, MessageTaken DEF IsRegionWrite
<1> HIDE DEF q1
<1>5. DOMAIN live' = DOMAIN live \ {r} /\ \A s \in DOMAIN live' : live'[s] = live[s]
  BY <1>1 DEF Without
<1>6. AsksOK(live', issued') /\ MessagesOK(fs', live', issued')
  BY <1>1, <1>4, <1>5, FsIsBag DEF AsksOK, MessagesOK
<1>7. ASSUME NEW c \in Caches PROVE ModuleOK(c, Pending(c), fs', live')
  <2> DEFINE p == Pending(c)
  <2>1. Mine(c, p, fs, live, issued)
    BY FsIsBag
  <2>2. r \notin DOMAIN p.pages
    <3>1. CASE c = m.cache
      BY <1>1, <1>3, <2>1, <3>1 DEF Mine, ModuleOK
    <3>2. CASE c # m.cache
      BY <1>3, <2>1, <3>2 DEF Mine, ModuleOK
    <3> QED BY <3>1, <3>2
  <2> HIDE DEF p
  <2> QED BY <1>1, <1>4, <1>5, <2>1, <2>2 DEF Mine, ModuleOK, p
<1>8. TwinInv'
  BY <1>1, <1>2, <1>6, <1>7 DEF TwinOK, TwinInv
<1> QED BY <1>1, <1>8 DEF TwinGoesOn, TwinKeeps, TwinOK

LEMMA TwinSteps ==
  ASSUME TwinOK, Request \/ Answer
  PROVE  TwinGoesOn
<1>0. class # "progressive"
  BY DEF TwinOK, TwinClasses
<1>1. ASSUME NEW c \in Caches, NEW f \in Files, TwinRequest(c, f) PROVE TwinGoesOn
  <2>1. CASE \E a \in AccessesOf(f) : \/ Read(c, a) \/ SinglePagesRead(c, a) \/ WriteBypass(c, a)
                                      \/ BlockIndexedWrite(c, a) \/ SinglePagesWrite(c, a)
    <3>1. PICK a \in AccessesOf(f) : \/ Read(c, a) \/ SinglePagesRead(c, a) \/ WriteBypass(c, a)
                                     \/ BlockIndexedWrite(c, a) \/ SinglePagesWrite(c, a)
      BY <2>1
    <3>2. a \in Accesses
      BY DEF AccessesOf
    <3> QED BY <3>1, <3>2, TwinReadHandled, TwinBypassHandled, BlockIndexedWriteHandled, SinglePagesWriteHandled
  <2>2. CASE Open(c, f) \/ FakeOpen(c, f) \/ Close(c, f) \/ SinglePagesClose(c, f)
    BY <2>2, TwinOpenHandled, TwinFakeOpenHandled, TwinCloseHandled
  <2> QED BY <1>1, <2>1, <2>2
          DEF TwinRequest, BlockIndexed, SinglePages, SinglePagesOpen, SinglePagesFakeOpen, SinglePagesBypass
<1>2. ASSUME NEW m \in DOMAIN fs, TwinAnswer(m) PROVE TwinGoesOn
  <2>1. CASE DanglingContext(m)
    <3>1. class' = class /\ issued' \in {issued, Id} /\ Fail("deleted")
      BY <2>1 DEF DanglingContext
    <3> QED BY <3>1, FailHandled
  <2>2. CASE Forward(m)
    BY <2>2, TwinForwardAnswered
  <2>3. CASE ReadDone(m) \/ SinglePagesReadRequestDone(m)
    BY <2>3, TwinReadAnswered
  <2>4. CASE BlockIndexedReadDone(m)
    BY <2>4, BlockIndexedReadAnswered
  <2>5. CASE SinglePagesReadDone(m)
    BY <2>5, SinglePagesReadAnswered
  <2>6. CASE WrittenBack(m) \/ SinglePagesWrittenBack(m)
    BY <2>6, TwinWriteAnswered
  <2> QED BY <1>2, <2>1, <2>2, <2>3, <2>4, <2>5, <2>6
          DEF TwinAnswer, BlockIndexedAnswer, SinglePagesAnswer, SinglePagesForward
<1> QED BY <1>0, <1>1, <1>2 DEF Request, Answer, BagToSet
-----------------------------------------------------------------------------
(* What a step of a progressive node keeps of the cache: a dirty region    *)
(* stays there, or a write of it is sent.                                  *)
QueueOK(q) ==
  Bag(q) /\ IsFiniteSet(DOMAIN q) /\ \A m \in DOMAIN q : m.kind = "read" => OfFile(m.keys)

PagesKeep ==
  \A k, g : HoldsPage(lruCache, k, g) =>
    HoldsPage(lruCache', k, g) \/ (NoWriteGoes(fs, fs') /\ WriteComes(fs, fs', k, g))

ProgressiveOK == class = "progressive" /\ PagesOK(lruCache) /\ QueueOK(fs)

ProgressiveGoesOn == PagesOK(lruCache') /\ QueueOK(fs') /\ PagesKeep

LEMMA QueueJoined ==
  ASSUME NEW q, QueueOK(q), NEW b, Bag(b), IsFiniteSet(DOMAIN b),
         \A m \in DOMAIN b : m.kind = "read" => OfFile(m.keys)
  PROVE  QueueOK(q (+) b)
<1>1. Bag(q (+) b) /\ DOMAIN (q (+) b) = DOMAIN q \union DOMAIN b
  BY BagJoined DEF QueueOK
<1>2. IsFiniteSet(DOMAIN q \union DOMAIN b)
  BY FS_Union DEF QueueOK
<1> QED BY <1>1, <1>2 DEF QueueOK

LEMMA QueueForwards ==
  ASSUME NEW q, QueueOK(q), NEW c, NEW kind \in {"open", "close", "bypass"}, NEW keys, NEW r
  PROVE  QueueOK(BagAdd(q, ToFs(c, kind, keys, {}, r)))
<1> DEFINE x == ToFs(c, kind, keys, {}, r)
<1>1. Bag(BagAdd(q, x)) /\ DOMAIN BagAdd(q, x) = DOMAIN q \union {x}
  BY BagAdded DEF QueueOK
<1>2. x.kind # "read"
  BY SentIs
<1>3. IsFiniteSet(DOMAIN q \union {x})
  BY FS_AddElement DEF QueueOK
<1> QED BY <1>1, <1>2, <1>3 DEF QueueOK

LEMMA QueueAnswers ==
  ASSUME NEW q, QueueOK(q), NEW m \in DOMAIN q
  PROVE  QueueOK(BagRemove(q, m))
<1>1. Bag(BagRemove(q, m)) /\ DOMAIN BagRemove(q, m) \subseteq DOMAIN q
  BY BagRemoved DEF QueueOK
<1>2. IsFiniteSet(DOMAIN BagRemove(q, m))
  BY <1>1, FS_Subset DEF QueueOK
<1> QED BY <1>1, <1>2 DEF QueueOK

\* A message for the pages of each file: none is lost, and they are finitely
\* many.
LEMMA ImagesOfOut ==
  ASSUME NEW out \in Seq(PageOuts)
  PROVE  IsFiniteSet({out[i] : i \in DOMAIN out})
<1>1. IsFiniteSet(DOMAIN out)
  BY FS_Interval, LenProperties
<1> QED BY <1>1, ImageFinite

OutGroups(out) ==
  {GroupPages(out, f, isFull) : f \in {out[i].key.filename : i \in DOMAIN out}, isFull \in BOOLEAN} \ {{}}

GroupMessage(c, r, pages) == ToFs(c, "write", {e.key : e \in pages}, RegionsWritten(pages), r)

LEMMA WriteRequestsIs ==
  ASSUME NEW c, NEW out, NEW r
  PROVE  /\ Bag(WriteRequests(c, out, r))
         /\ DOMAIN WriteRequests(c, out, r) = {GroupMessage(c, r, pages) : pages \in OutGroups(out)}
<1> DEFINE M == {GroupMessage(c, r, pages) : pages \in OutGroups(out)}
<1>1. WriteRequests(c, out, r) = SetToBag(M)
  BY DEF WriteRequests, OutGroups, GroupMessage
<1> HIDE DEF M
<1>2. Bag(SetToBag(M)) /\ DOMAIN SetToBag(M) = M
  BY BagOfSet
<1> QED BY <1>1, <1>2 DEF M

LEMMA GroupsFinite ==
  ASSUME NEW out \in Seq(PageOuts)
  PROVE  IsFiniteSet(OutGroups(out))
<1> DEFINE I == {out[i] : i \in DOMAIN out}
<1>1. IsFiniteSet(SUBSET I)
  BY ImagesOfOut, FS_SUBSET
<1>2. OutGroups(out) \subseteq SUBSET I
  BY DEF OutGroups, GroupPages
<1> QED BY <1>1, <1>2, FS_Subset

LEMMA GroupOfPage ==
  ASSUME NEW out, NEW i \in DOMAIN out
  PROVE  \E pages \in OutGroups(out) : out[i] \in pages
<1> DEFINE full == (out[i].regions = Whole)
           pages == GroupPages(out, out[i].key.filename, full)
<1>1. full \in BOOLEAN
  OBVIOUS
<1>2. out[i] \in pages
  BY DEF GroupPages
<1>3. \E f \in {out[j].key.filename : j \in DOMAIN out} : \E isFull \in BOOLEAN : pages = GroupPages(out, f, isFull)
  BY <1>1
<1> HIDE DEF pages
<1>4. pages \in OutGroups(out)
  BY <1>2, <1>3 DEF OutGroups
<1> QED BY <1>2, <1>4

\* No access names a region as the whole page is named.
LEMMA PieceIsWhole ==
  ASSUME NEW regions \in Pieces, NEW g \in regions, g \in Whole
  PROVE  regions = Whole
BY PageCacheAssumption DEF Pieces, Whole

LEMMA GroupWrites ==
  ASSUME class = "progressive", NEW c, NEW r, NEW pages, NEW e \in pages, e.regions \in Pieces, NEW g \in e.regions
  PROVE  IsWriteOf(GroupMessage(c, r, pages), e.key, g)
<1> DEFINE m == GroupMessage(c, r, pages)
<1>1. m.kind = "write" /\ m.keys = {x.key : x \in pages} /\ m.regions = RegionsWritten(pages)
  BY SentIs DEF GroupMessage
<1>2. g \in Whole => <<e.key, g>> \in RegionsWritten(pages)
  BY PieceIsWhole DEF RegionsWritten
<1>3. e.key \in m.keys
  BY <1>1
<1> HIDE DEF m
<1> QED BY <1>1, <1>2, <1>3 DEF IsWriteOf, m

LEMMA PagesOut ==
  ASSUME class = "progressive", NEW out \in Seq(PageOuts), NEW c, NEW r
  PROVE  LET b == WriteRequests(c, out, r)
         IN  /\ Bag(b) /\ IsFiniteSet(DOMAIN b)
             /\ \A m \in DOMAIN b : m.kind = "write"
             /\ \A k, g : HandedPage(out, k, g) => \E m \in DOMAIN b : IsWriteOf(m, k, g)
<1> DEFINE b == WriteRequests(c, out, r)
           G == OutGroups(out)
           F == [pages \in G |-> GroupMessage(c, r, pages)]
<1>1. Bag(b) /\ DOMAIN b = {GroupMessage(c, r, pages) : pages \in G}
  BY WriteRequestsIs
<1>2. IsFiniteSet(G)
  BY GroupsFinite
<1>3. IsFiniteSet({F[x] : x \in DOMAIN F})
  BY <1>2, ImageFinite
<1>4. {F[x] : x \in DOMAIN F} = {GroupMessage(c, r, pages) : pages \in G}
  OBVIOUS
<1>5. \A m \in DOMAIN b : m.kind = "write"
  <2>1. \A pages : GroupMessage(c, r, pages).kind = "write"
    BY SentIs DEF GroupMessage
  <2> QED BY <1>1, <2>1, Zenon
<1>6. ASSUME NEW k, NEW g, HandedPage(out, k, g) PROVE \E m \in DOMAIN b : IsWriteOf(m, k, g)
  <2>1. PICK i \in DOMAIN out : out[i].key = k /\ g \in out[i].regions
    BY <1>6 DEF HandedPage
  <2>2. PICK pages \in G : out[i] \in pages
    BY GroupOfPage
  <2>3. IsWriteOf(GroupMessage(c, r, pages), out[i].key, g)
    <3>1. out[i] \in PageOuts
      BY ElementOfSeq
    <3>2. out[i].regions \in Pieces
      BY <3>1 DEF PageOuts
    <3> QED BY <2>1, <2>2, <3>2, GroupWrites
  <2>4. GroupMessage(c, r, pages) \in DOMAIN b
    BY <1>1, <2>2
  <2> QED BY <2>1, <2>3, <2>4
<1> QED BY <1>1, <1>3, <1>4, <1>5, <1>6

LEMMA ReadsOfFile ==
  ASSUME NEW c, NEW keys, OfFile(keys), NEW r
  PROVE  LET b == ReadRequests(c, keys, r)
         IN  Bag(b) /\ IsFiniteSet(DOMAIN b) /\ \A m \in DOMAIN b : m.kind = "read" /\ OfFile(m.keys)
<1> DEFINE G == PagesByName(keys)
           F == [pages \in G |-> ToFs(c, "read", pages, {}, r)]
           M == {ToFs(c, "read", pages, {}, r) : pages \in G}
           b == ReadRequests(c, keys, r)
<1>1. b = SetToBag(M)
  BY DEF ReadRequests, PFSReadRequests
<1>2. G \subseteq SUBSET keys
  BY DEF PagesByName
<1>3. IsFiniteSet(G)
  BY <1>2, FS_SUBSET, FS_Subset DEF OfFile
<1>4. IsFiniteSet({F[x] : x \in DOMAIN F}) /\ {F[x] : x \in DOMAIN F} = M
  BY <1>3, ImageFinite
<1>5. \A m \in M : m.kind = "read" /\ m.keys \subseteq keys
  BY <1>2, SentIs
<1>6. \A m \in M : OfFile(m.keys)
  BY <1>5, SomeOfFile
<1> HIDE DEF M, F, G, b
<1>7. Bag(SetToBag(M)) /\ DOMAIN SetToBag(M) = M
  BY BagOfSet
<1>8. Bag(b) /\ DOMAIN b = M /\ IsFiniteSet(M)
  BY <1>1, <1>4, <1>7
<1> QED BY <1>5, <1>6, <1>8 DEF b

LEMMA CacheStays ==
  ASSUME ProgressiveOK, lruCache' = lruCache, QueueOK(fs')
  PROVE  ProgressiveGoesOn
BY DEF ProgressiveOK, ProgressiveGoesOn, PagesKeep

LEMMA PagesMove ==
  ASSUME ProgressiveOK, NEW q, QueueOK(q), NoWriteGoes(fs, q),
         NEW cache, PagesOK(cache), NEW out \in Seq(PageOuts),
         \A k, g : HoldsPage(lruCache, k, g) => HoldsPage(cache, k, g) \/ HandedPage(out, k, g),
         NEW c, NEW r, lruCache' = cache, fs' = q (+) WriteRequests(c, out, r)
  PROVE  ProgressiveGoesOn
<1> DEFINE b == WriteRequests(c, out, r)
<1>1. /\ Bag(b) /\ IsFiniteSet(DOMAIN b) /\ \A m \in DOMAIN b : m.kind = "write"
      /\ \A k, g : HandedPage(out, k, g) => \E m \in DOMAIN b : IsWriteOf(m, k, g)
  BY PagesOut DEF ProgressiveOK
<1>2. fs' = q (+) b
  OBVIOUS
<1> HIDE DEF b
<1>3. QueueOK(fs')
  BY <1>1, <1>2, QueueJoined
<1>4. Bag(fs) /\ Bag(q) /\ Bag(fs')
  BY <1>3 DEF ProgressiveOK, QueueOK
<1>5. NoWriteGoes(q, fs')
  BY <1>1, <1>2, <1>4, SentStays
<1>6. NoWriteGoes(fs, fs')
  BY <1>4, <1>5, NoWriteGoesOn
<1>7. ASSUME NEW k, NEW g, HandedPage(out, k, g) PROVE WriteComes(fs, fs', k, g)
  <2>1. PICK m \in DOMAIN b : IsWriteOf(m, k, g)
    BY <1>1, <1>7
  <2>2. WriteComes(q, fs', k, g)
    BY <2>1, <1>1, <1>2, <1>4, SentComes
  <2> QED BY <2>2, <1>4, <1>5, NoWriteGoesOn
<1> QED BY <1>3, <1>6, <1>7 DEF ProgressiveGoesOn, PagesKeep

LEMMA PagesUpdated ==
  ASSUME ProgressiveOK, NEW q, QueueOK(q), NoWriteGoes(fs, q),
         NEW u, PageUpdateOK(u), PagesKept(lruCache, u),
         NEW c, NEW r, lruCache' = u.cache, fs' = q (+) WriteRequests(c, u.out, r)
  PROVE  ProgressiveGoesOn
<1>1. PagesOK(u.cache) /\ u.out \in Seq(PageOuts)
  BY DEF PageUpdateOK
<1>2. \A k, g : HoldsPage(lruCache, k, g) => HoldsPage(u.cache, k, g) \/ HandedPage(u.out, k, g)
  BY DEF PagesKept
<1> QED BY <1>1, <1>2, PagesMove

LEMMA ProgressiveForwards ==
  ASSUME ProgressiveOK, lruCache' = lruCache, NEW c, NEW kind \in {"open", "close", "bypass"}, NEW keys, NEW r,
         fs' = BagAdd(fs, ToFs(c, kind, keys, {}, r))
  PROVE  ProgressiveGoesOn
BY QueueForwards, CacheStays DEF ProgressiveOK

LEMMA FsStays ==
  ASSUME ProgressiveOK, lruCache' = lruCache, fs' = fs
  PROVE  ProgressiveGoesOn
BY CacheStays DEF ProgressiveOK

LEMMA ProgressiveCloseKeeps ==
  ASSUME ProgressiveOK, NEW c \in Caches, NEW f \in Files, ProgressiveClose(c, f)
  PROVE  ProgressiveGoesOn
<1>1. CASE openFileCounts'[f] = 0
  <2>1. fs' = fs (+) WriteRequests(c, DirtyFileEntries(f), Id) /\ lruCache' = FlushPages(f)
    BY <1>1, Zenon DEF ProgressiveClose
  <2>2. PagesOK(FlushPages(f)) /\ DirtyFileEntries(f) \in Seq(PageOuts)
    BY DropLeaves, DirtyPagesHanded DEF ProgressiveOK
  <2>3. \A k, g : HoldsPage(lruCache, k, g) =>
          HoldsPage(FlushPages(f), k, g) \/ HandedPage(DirtyFileEntries(f), k, g)
    BY DropLeaves, DirtyPagesHanded DEF ProgressiveOK
  <2>4. QueueOK(fs) /\ NoWriteGoes(fs, fs)
    BY NoWriteGoesSame DEF ProgressiveOK, QueueOK
  <2> QED BY <2>1, <2>2, <2>3, <2>4, PagesMove
<1>2. CASE openFileCounts'[f] # 0
  <2>1. fs' = BagAdd(fs, ToFs(c, "close", {}, {}, Id)) /\ lruCache' = lruCache
    BY <1>2 DEF ProgressiveClose
  <2> QED BY <2>1, ProgressiveForwards
<1> QED BY <1>1, <1>2

LEMMA ReadPagesWanted ==
  ASSUME NEW p, NEW keys
  PROVE  TrimPendingReads(p, keys) \subseteq keys
BY DEF TrimPendingReads

LEMMA ProgressiveReadKeeps ==
  ASSUME ProgressiveOK, NEW c \in Caches, NEW a \in Accesses, ProgressiveRead(c, a)
  PROVE  ProgressiveGoesOn
<1> DEFINE wanted == MissingPages(AllKeys(a))
           trimmed == TrimPendingReads(pendingRequests, wanted)
<1>1. CASE trimmed = {}
  BY <1>1, FsStays DEF ProgressiveRead, ProgressiveFail
<1>2. CASE trimmed # {}
  <2>1. lruCache' = RefreshPages(AllKeys(a)) /\ fs' = fs (+) ReadRequests(c, trimmed, Id)
    BY <1>2 DEF ProgressiveRead
  <2>2. OfFile(AllKeys(a))
    BY AccessOfFile
  <2>3. trimmed \subseteq AllKeys(a)
    BY ReadPagesWanted DEF MissingPages
  <2> HIDE DEF trimmed
  <2>4. OfFile(trimmed)
    BY <2>2, <2>3, SomeOfFile
  <2> DEFINE b == ReadRequests(c, trimmed, Id)
  <2>5. Bag(b) /\ IsFiniteSet(DOMAIN b) /\ \A m \in DOMAIN b : m.kind = "read" /\ OfFile(m.keys)
    BY <2>4, ReadsOfFile
  <2>6. fs' = fs (+) b
    BY <2>1
  <2> HIDE DEF b
  <2>7. QueueOK(fs')
    BY <2>5, <2>6, QueueJoined DEF ProgressiveOK
  <2>8. PagesOK(lruCache') /\ lruCache'.entries = lruCache.entries
    BY <2>1, <2>2, RefreshLeaves DEF ProgressiveOK
  <2>9. PagesKeep
    BY <2>8 DEF PagesKeep, HoldsPage
  <2> QED BY <2>7, <2>8, <2>9 DEF ProgressiveGoesOn
<1> QED BY <1>1, <1>2

LEMMA ProgressiveWriteKeeps ==
  ASSUME ProgressiveOK, NEW c \in Caches, NEW a \in Accesses, ProgressiveWrite(c, a)
  PROVE  ProgressiveGoesOn
<1>1. lruCache' = UpdateWithWrites(a).cache /\ fs' = fs (+) WriteRequests(c, UpdateWithWrites(a).out, 0)
  BY Zenon DEF ProgressiveWrite
<1>2. PageUpdateOK(UpdateWithWrites(a)) /\ PagesKept(lruCache, UpdateWithWrites(a))
  BY WritesLeave DEF ProgressiveOK
<1>3. QueueOK(fs) /\ NoWriteGoes(fs, fs)
  BY NoWriteGoesSame DEF ProgressiveOK, QueueOK
<1> QED BY <1>1, <1>2, <1>3, PagesUpdated

LEMMA ProgressiveReadDoneKeeps ==
  ASSUME ProgressiveOK, NEW m \in DOMAIN fs, ProgressiveReadDone(m)
  PROVE  ProgressiveGoesOn
<1> DEFINE u == UpdateWithReads(m.keys)
           q == BagRemove(fs, m)
<1>1. lruCache' = u.cache /\ fs' = q (+) WriteRequests(m.cache, u.out, 0) /\ m.kind = "read"
  BY Zenon DEF ProgressiveReadDone, IsAnswerTo
<1>2. OfFile(m.keys) /\ Bag(fs)
  BY <1>1 DEF ProgressiveOK, QueueOK
<1>3. PageUpdateOK(u) /\ PagesKept(lruCache, u)
  BY <1>2, ReadsLeave DEF ProgressiveOK
<1>4. QueueOK(q)
  BY QueueAnswers DEF ProgressiveOK
<1>5. NoWriteGoes(fs, q)
  BY <1>1, <1>2, AnswerStays DEF IsWrite
<1> HIDE DEF u, q
<1> QED BY <1>1, <1>3, <1>4, <1>5, PagesUpdated

LEMMA ProgressiveSteps ==
  ASSUME ProgressiveOK, Request \/ Answer
  PROVE  ProgressiveGoesOn
<1>1. ASSUME NEW c \in Caches, NEW f \in Files, ProgressiveRequest(c, f) PROVE ProgressiveGoesOn
  <2>1. CASE ProgressiveOpen(c, f)
    BY <2>1, ProgressiveForwards DEF ProgressiveOpen
  <2>2. CASE ProgressiveFakeOpen(c, f)
    BY <2>2, FsStays DEF ProgressiveFakeOpen
  <2>3. CASE ProgressiveClose(c, f)
    BY <2>3, ProgressiveCloseKeeps
  <2>4. ASSUME NEW a \in AccessesOf(f), ProgressiveRead(c, a) \/ ProgressiveBypass(c, a) \/ ProgressiveWrite(c, a)
        PROVE  ProgressiveGoesOn
    <3>1. a \in Accesses
      BY DEF AccessesOf
    <3>2. CASE ProgressiveRead(c, a)
      BY <3>1, <3>2, ProgressiveReadKeeps
    <3>3. CASE ProgressiveBypass(c, a)
      BY <3>3, ProgressiveForwards DEF ProgressiveBypass
    <3>4. CASE ProgressiveWrite(c, a)
      BY <3>1, <3>4, ProgressiveWriteKeeps
    <3> QED BY <2>4, <3>2, <3>3, <3>4
  <2> QED BY <1>1, <2>1, <2>2, <2>3, <2>4 DEF ProgressiveRequest
<1>2. ASSUME NEW m \in DOMAIN fs, ProgressiveAnswer(m) PROVE ProgressiveGoesOn
  <2>1. QueueOK(BagRemove(fs, m))
    BY QueueAnswers DEF ProgressiveOK
  <2>2. CASE ProgressiveForward(m)
    BY <2>1, <2>2, CacheStays DEF ProgressiveForward, PassedOn
  <2>3. CASE ProgressiveReadDone(m)
    BY <2>3, ProgressiveReadDoneKeeps
  <2>4. CASE ProgressiveWrittenBack(m)
    BY <2>1, <2>4, CacheStays DEF ProgressiveWrittenBack
  <2>5. CASE ProgressiveDangling(m)
    BY <2>5, FsStays DEF ProgressiveDangling, ProgressiveFail
  <2> QED BY <1>2, <2>2, <2>3, <2>4, <2>5 DEF ProgressiveAnswer
<1> QED BY <1>1, <1>2 DEF Request, Answer, ProgressiveOK, TwinClasses, BagToSet

-----------------------------------------------------------------------------
LEMMA ClassStays == Next => class' = class
<1>1. ASSUME NEW c \in Caches, NEW f \in Files, TwinRequest(c, f) PROVE class' = class
  <2>1. CASE class = "blockIndexed" /\ BlockIndexed(c, f)
    BY <2>1 DEF BlockIndexed, Open, FakeOpen, Close, Read, WriteBypass, BlockIndexedWrite, Issue
  <2>2. CASE class = "singlePages" /\ SinglePages(c, f)
    BY <2>2 DEF SinglePages, SinglePagesOpen, Open, SinglePagesFakeOpen, FakeOpen, SinglePagesClose,
                SinglePagesRead, SinglePagesBypass, WriteBypass, SinglePagesWrite, Issue
  <2> QED BY <1>1, <2>1, <2>2 DEF TwinRequest
<1>2. ASSUME NEW m, TwinAnswer(m) PROVE class' = class
  <2>1. CASE BlockIndexedAnswer(m)
    BY <2>1 DEF BlockIndexedAnswer, Forward, ReadDone, BlockIndexedReadDone, WriteStep, WrittenBack
  <2>2. CASE SinglePagesAnswer(m)
    BY <2>2 DEF SinglePagesAnswer, SinglePagesForward, Forward, SinglePagesReadRequestDone,
                SinglePagesReadDone, BeginWriteback, WriteStep, SinglePagesWrittenBack
  <2>3. CASE DanglingContext(m)
    BY <2>3 DEF DanglingContext
  <2> QED BY <1>2, <2>1, <2>2, <2>3 DEF TwinAnswer
<1>3. ASSUME NEW c \in Caches, NEW f \in Files, ProgressiveRequest(c, f) PROVE class' = class
  BY <1>3 DEF ProgressiveRequest, ProgressiveOpen, ProgressiveFakeOpen, ProgressiveClose,
              ProgressiveRead, ProgressiveBypass, ProgressiveWrite, Issue
<1>4. ASSUME NEW m, ProgressiveAnswer(m) PROVE class' = class
  BY <1>4 DEF ProgressiveAnswer, ProgressiveForward, ProgressiveReadDone, ProgressiveWrittenBack,
              ProgressiveDangling
<1>5. Ended => class' = class
  BY DEF Ended, vars, nodeVars
<1> QED BY <1>1, <1>2, <1>3, <1>4, <1>5 DEF Next, Request, Answer

LEMMA ProgressiveInvInit == Init => ProgressiveInv
<1> SUFFICES ASSUME Init PROVE ProgressiveInv
  OBVIOUS
<1>1. pendingRequests = << >> /\ live = << >> /\ issued = 0 /\ fs = EmptyBag
  BY DEF Init, NodeInit, ProgressiveInit
<1>2. Bag(fs) /\ DOMAIN fs = {}
  BY <1>1, BagOfSet DEF EmptyBag
<1>3. DOMAIN pendingRequests = {} /\ DOMAIN live = {}
  BY <1>1
<1>4. Accounted(pendingRequests, fs, DOMAIN live, issued)
  BY <1>1, <1>2, <1>3 DEF Accounted, WaitsFor, SentFor
<1> QED BY <1>1, <1>4 DEF ProgressiveInv

LEMMA ProgressiveInvNext == ProgressiveInv /\ [Next]_vars => ProgressiveInv' /\ ClosesEndWrites
<1> SUFFICES ASSUME ProgressiveInv, [Next]_vars PROVE ProgressiveInv' /\ ClosesEndWrites
  OBVIOUS
<1>1. CASE UNCHANGED vars
  <2>1. UNCHANGED <<class, pendingRequests, fs, live, issued>>
    BY <1>1 DEF vars, nodeVars
  <2>2. ProgressiveInv'
    BY <2>1 DEF ProgressiveInv
  <2>3. ClosesEndWrites
    BY <2>1, NoneEnds DEF ProgressiveInv, ClosesEndWrites
  <2> QED BY <2>2, <2>3
<1>2. CASE Next /\ class # "progressive"
  <2>1. pendingRequests = << >> /\ class' = class
    BY <1>2, ClassStays DEF ProgressiveInv
  <2>2. pendingRequests' = pendingRequests
    BY <1>2 DEF Next, Request, Answer, Ended, vars
  <2> QED BY <1>2, <2>1, <2>2 DEF ProgressiveInv, ClosesEndWrites
<1>3. CASE Request /\ class = "progressive"
  BY <1>3, ProgressiveRequestHandled DEF Request, TwinClasses
<1>4. CASE Answer /\ class = "progressive"
  BY <1>4, ProgressiveAnswerHandled DEF Answer, TwinClasses, BagToSet
<1>5. CASE Ended
  BY <1>1, <1>5 DEF Ended
<1> QED BY <1>1, <1>2, <1>3, <1>4, <1>5 DEF Next

-----------------------------------------------------------------------------
(* A node of any class: the inductive invariant.                           *)
Stops == {"no", "deleted", "beginRead", "insertDirtyPartialPage", "writebackPages"}

CacheInv ==
  /\ class \in TwinClasses \union {"progressive"}
  /\ TwinInv /\ ProgressiveInv
  /\ class \in TwinClasses => MultiOK(lruCache)
  /\ class = "progressive" => PagesOK(lruCache) /\ QueueOK(fs)
  /\ failed \in Stops

LEMMA EmptyIsListed ==
  ASSUME NEW m, m = [entries |-> << >>, lruList |-> << >>]
  PROVE  Listed(m) /\ DOMAIN m.entries = {} /\ Cardinality(DOMAIN m.entries) = 0
<1>1. m.entries = << >> /\ m.lruList = << >>
  OBVIOUS
<1>2. DOMAIN m.entries = {}
  BY <1>1
<1>3. m.lruList \in Seq(Key) /\ Distinct(m.lruList) /\ ToSet(m.lruList) = {}
  BY <1>1 DEF Distinct, ToSet
<1> QED BY <1>1, <1>2, <1>3, FS_EmptySet DEF Listed

LEMMA EmptyMultiOK == MultiOK(EmptyMulti)
<1> DEFINE m == EmptyMulti
<1>1. Listed(m) /\ DOMAIN m.entries = {} /\ Cardinality(DOMAIN m.entries) = 0
  BY EmptyIsListed DEF EmptyMulti
<1>2. m.entries \in [DOMAIN m.entries -> MultiEntry]
  BY <1>1 DEF EmptyMulti
<1>3. Cached(m) = {} /\ Twins(m) = {}
  BY <1>1 DEF Cached, Twins
<1>4. Size(m) = 0
  BY <1>1, <1>3, SizeIs, FS_EmptySet
<1> QED BY <1>1, <1>2, <1>4, PageCacheAssumption DEF MultiOK, MultiShape

LEMMA EmptyPagesOK == PagesOK(EmptyPages)
<1> DEFINE m == EmptyPages
<1>1. Listed(m) /\ DOMAIN m.entries = {} /\ Cardinality(DOMAIN m.entries) = 0
  BY EmptyIsListed DEF EmptyPages
<1>2. m.entries \in [DOMAIN m.entries -> PageEntry]
  BY <1>1 DEF EmptyPages
<1> QED BY <1>1, <1>2, PageCacheAssumption DEF PagesOK, PagesShape, CachedPages

LEMMA NothingSent ==
  /\ Bag(EmptyBag) /\ DOMAIN EmptyBag = {}
  /\ QueueOK(EmptyBag) /\ MessagesOK(EmptyBag, << >>, 0) /\ AsksOK(<< >>, 0)
<1>1. Bag(EmptyBag) /\ DOMAIN EmptyBag = {}
  BY BagOfSet DEF EmptyBag
<1>2. IsFiniteSet({})
  BY FS_EmptySet
<1> QED BY <1>1, <1>2 DEF QueueOK, MessagesOK, AsksOK

LEMMA NothingPending ==
  ASSUME NEW c
  PROVE  ModuleOK(c, [pages |-> << >>, partial |-> << >>], EmptyBag, << >>)
<1> DEFINE p == [pages |-> << >>, partial |-> << >>]
<1>1. DOMAIN p.pages = {} /\ DOMAIN p.partial = {}
  OBVIOUS
<1>2. DOMAIN << >> = {}
  OBVIOUS
<1>3. p = [pages |-> p.pages, partial |-> p.partial]
  OBVIOUS
<1> HIDE DEF p
<1> QED BY <1>1, <1>2, <1>3, NothingSent DEF ModuleOK, p

LEMMA TwinInvInit == Init => TwinInv
<1> SUFFICES ASSUME Init PROVE TwinInv
  OBVIOUS
<1>1. /\ pendingPages = [c \in Caches |-> << >>] /\ pendingPartialPages = [c \in Caches |-> << >>]
      /\ live = << >> /\ issued = 0 /\ fs = EmptyBag
  BY DEF Init, NodeInit, TwinInit
<1>2. \A c \in Caches : Pending(c) = [pages |-> << >>, partial |-> << >>]
  BY <1>1 DEF Pending
<1>3. pendingPages = [c \in Caches |-> pendingPages[c]] /\ pendingPartialPages = [c \in Caches |-> pendingPartialPages[c]]
  BY <1>1
<1> QED BY <1>1, <1>2, <1>3, NothingSent, NothingPending DEF TwinInv

LEMMA CacheInvInit == Init => CacheInv
<1> SUFFICES ASSUME Init PROVE CacheInv
  OBVIOUS
<1>1. class \in TwinClasses \union {"progressive"}
  BY PageCacheAssumption DEF Init, NodeInit, TwinClasses
<1>2. fs = EmptyBag /\ failed = "no"
  BY DEF Init, NodeInit
<1>3. ASSUME class \in TwinClasses PROVE MultiOK(lruCache)
  <2>1. lruCache = EmptyMulti
    BY <1>3 DEF Init, TwinClasses, SharedResources, SinglePagesShared
  <2> QED BY <2>1, EmptyMultiOK
<1>4. ASSUME class = "progressive" PROVE PagesOK(lruCache)
  <2>1. lruCache = EmptyPages
    BY <1>4 DEF Init, SharedResources
  <2> QED BY <2>1, EmptyPagesOK
<1> QED BY <1>1, <1>2, <1>3, <1>4, NothingSent, TwinInvInit, ProgressiveInvInit DEF CacheInv, Stops

LEMMA WriteStepStops ==
  ASSUME NEW c, NEW r, NEW u, NEW p, NEW asks, NEW todo, NEW rest, WriteStep(c, r, u, p, asks, todo, rest)
  PROVE  failed' \in {failed, "insertDirtyPartialPage"}
BY Zenon DEF WriteStep, Fail

LEMMA StopsAre ==
  ASSUME failed \in Stops, Request \/ Answer
  PROVE  failed' \in Stops
<1> DEFINE Done == failed' = failed \/ failed' \in Stops
<1>1. ASSUME NEW c \in Caches, NEW a, Read(c, a) \/ SinglePagesRead(c, a) \/ WriteBypass(c, a)
      PROVE  Done
  BY <1>1 DEF Read, SinglePagesRead, WriteBypass, Fail, Stops
<1>2. ASSUME NEW c \in Caches, NEW a, BlockIndexedWrite(c, a) PROVE Done
  BY <1>2, WriteStepStops DEF BlockIndexedWrite, Stops
<1>3. ASSUME NEW c \in Caches, NEW a, SinglePagesWrite(c, a) PROVE Done
  BY <1>3, WriteStepStops DEF SinglePagesWrite, BeginWriteback, Fail, Stops
<1>4. ASSUME NEW c \in Caches, NEW f \in Files, TwinRequest(c, f) PROVE Done
  <2>1. CASE Open(c, f) \/ FakeOpen(c, f) \/ Close(c, f) \/ SinglePagesClose(c, f)
    BY <2>1 DEF Open, FakeOpen, Close, SinglePagesClose
  <2> QED BY <1>1, <1>2, <1>3, <1>4, <2>1 DEF TwinRequest, BlockIndexed, SinglePages, SinglePagesOpen,
             SinglePagesFakeOpen, SinglePagesBypass
<1>5. ASSUME NEW m, TwinAnswer(m) PROVE Done
  <2>1. CASE BlockIndexedReadDone(m)
    BY <2>1, WriteStepStops DEF BlockIndexedReadDone, Stops
  <2>2. CASE SinglePagesReadDone(m)
    BY <2>2, WriteStepStops DEF SinglePagesReadDone, BeginWriteback, Fail, Stops
  <2>3. CASE Forward(m) \/ ReadDone(m) \/ WrittenBack(m) \/ SinglePagesReadRequestDone(m) \/ SinglePagesWrittenBack(m)
    BY <2>3 DEF Forward, ReadDone, WrittenBack, SinglePagesReadRequestDone, SinglePagesWrittenBack
  <2>4. CASE DanglingContext(m)
    BY <2>4 DEF DanglingContext, Fail, Stops
  <2> QED BY <1>5, <2>1, <2>2, <2>3, <2>4 DEF TwinAnswer, BlockIndexedAnswer, SinglePagesAnswer, SinglePagesForward
<1>6. ASSUME NEW c \in Caches, NEW f \in Files, ProgressiveRequest(c, f) PROVE Done
  BY <1>6 DEF ProgressiveRequest, ProgressiveOpen, ProgressiveFakeOpen, ProgressiveClose, ProgressiveRead,
              ProgressiveFail, ProgressiveBypass, ProgressiveWrite, Stops
<1>7. ASSUME NEW m, ProgressiveAnswer(m) PROVE Done
  BY <1>7 DEF ProgressiveAnswer, ProgressiveForward, ProgressiveReadDone, ProgressiveWrittenBack,
              ProgressiveDangling, ProgressiveFail, Stops
<1>8. Done
  BY <1>4, <1>5, <1>6, <1>7 DEF Request, Answer
<1> QED BY <1>8

RegionsStay == (class \in TwinClasses => TwinKeeps) /\ (class = "progressive" => PagesKeep)

LEMMA CacheInvStep ==
  ASSUME CacheInv, class' = class, Request \/ Answer, ProgressiveInv'
  PROVE  CacheInv' /\ RegionsStay
<1>1. failed' \in Stops
  BY StopsAre DEF CacheInv
<1>2. CASE class \in TwinClasses
  <2>1. TwinGoesOn
    BY <1>2, TwinSteps DEF CacheInv, TwinOK
  <2>2. class # "progressive"
    BY <1>2 DEF TwinClasses
  <2> QED BY <1>1, <1>2, <2>1, <2>2 DEF CacheInv, TwinGoesOn, RegionsStay
<1>3. CASE class = "progressive"
  <2>1. ProgressiveGoesOn
    BY <1>3, ProgressiveSteps DEF CacheInv, ProgressiveOK
  <2>2. class \notin TwinClasses
    BY <1>3 DEF TwinClasses
  <2>3. UNCHANGED <<pendingPages, pendingPartialPages>>
    BY <2>2 DEF Request, Answer, twinVars, pend
  <2>4. TwinInv'
    BY <2>2, <2>3 DEF CacheInv, TwinInv, Pending
  <2> QED BY <1>1, <1>3, <2>1, <2>2, <2>4 DEF CacheInv, ProgressiveGoesOn, RegionsStay
<1> QED BY <1>2, <1>3 DEF CacheInv

LEMMA CacheInvNext == CacheInv /\ [Next]_vars => CacheInv' /\ [RegionsStay]_vars
<1> SUFFICES ASSUME CacheInv, [Next]_vars PROVE CacheInv' /\ [RegionsStay]_vars
  OBVIOUS
<1>1. CASE UNCHANGED vars
  <2>1. /\ UNCHANGED <<class, lruCache, fs, live, issued, failed>>
        /\ UNCHANGED <<pendingRequests, pendingPages, pendingPartialPages>>
    BY <1>1 DEF vars, nodeVars, twinVars, pend
  <2>2. TwinInv' /\ ProgressiveInv'
    BY <2>1 DEF CacheInv, TwinInv, Pending, ProgressiveInv
  <2> QED BY <1>1, <2>1, <2>2 DEF CacheInv
<1>2. CASE Request \/ Answer
  <2>1. class' = class /\ ProgressiveInv'
    BY <1>2, ClassStays, ProgressiveInvNext DEF Next, CacheInv
  <2> QED BY <1>2, <2>1, CacheInvStep
<1>3. CASE Ended
  BY <1>1, <1>3 DEF Ended
<1> QED BY <1>1, <1>2, <1>3 DEF Next

LEMMA CacheTyped == CacheInv => TypeOK
<1> SUFFICES ASSUME CacheInv PROVE TypeOK
  OBVIOUS
<1>1. Listed(lruCache)
  BY DEF CacheInv, MultiOK, MultiShape, PagesOK, PagesShape
<1>2. ToSet(lruCache.lruList) = DOMAIN lruCache.entries /\ Len(lruCache.lruList) = Cardinality(DOMAIN lruCache.entries)
  BY <1>1, ListedCounts DEF Listed
<1>3. failed \in {"no", "deleted", "beginRead", "insertDirtyPartialPage", "writebackPages"}
  BY DEF CacheInv, Stops
<1>4. CASE class = "progressive"
  BY <1>2, <1>3, <1>4 DEF TypeOK, CacheInv, PagesOK, ProgressiveInv, Accounted
<1>5. CASE class \in TwinClasses
  <2>1. Size(lruCache) <= pageCapacity /\ lruCache.entries \in [DOMAIN lruCache.entries -> MultiEntry]
    BY <1>5 DEF CacheInv, MultiOK, MultiShape
  <2>2. \A k \in Cached(lruCache) : lruCache.entries[k].isDirty => lruCache.entries[k].twin = {}
    BY <2>1 DEF Cached, MultiEntry
  <2>3. ASSUME NEW c \in Caches
        PROVE  DOMAIN pendingPages[c] \subseteq DOMAIN live /\ DOMAIN pendingPartialPages[c] \subseteq DOMAIN pendingPages[c]
    <3>1. ModuleOK(c, Pending(c), fs, live)
      BY <1>5 DEF CacheInv, TwinInv
    <3>2. Pending(c).pages = pendingPages[c] /\ Pending(c).partial = pendingPartialPages[c]
      BY DEF Pending
    <3> QED BY <3>1, <3>2 DEF ModuleOK
  <2>4. class # "progressive"
    BY <1>5 DEF TwinClasses
  <2> QED BY <1>2, <1>3, <2>1, <2>2, <2>3, <2>4 DEF TypeOK
<1> QED BY <1>4, <1>5 DEF CacheInv

LEMMA TwinsWait == CacheInv => TwinIsAtFs
<1> SUFFICES ASSUME CacheInv, NEW c \in Caches, NEW r \in DOMAIN pendingPages[c]
             PROVE  LET Sent(kind) == {m \in AtFs(kind) : m.cache = c}
                        Own == {m \in Sent("partial") : m.parent = r}
                    IN  /\ pendingPages[c][r].readPages \subseteq UNION {m.keys : m \in Sent("read")}
                        /\ pendingPages[c][r].writePages \subseteq UNION {m.keys : m \in Sent("write")}
                        /\ Cardinality(Copies(Own, fs))
                             = IF r \in DOMAIN pendingPartialPages[c] THEN pendingPartialPages[c][r] ELSE 0
  BY DEF TwinIsAtFs
<1> DEFINE Sent(kind) == {m \in AtFs(kind) : m.cache = c}
<1>1. Pending(c).pages = pendingPages[c] /\ Pending(c).partial = pendingPartialPages[c]
  BY DEF Pending
<1>2. class \in TwinClasses
  <2> SUFFICES ASSUME class \notin TwinClasses PROVE FALSE
    OBVIOUS
  <2>1. Pending(c) = [pages |-> << >>, partial |-> << >>]
    BY DEF CacheInv, TwinInv
  <2>2. pendingPages[c] = << >>
    BY <1>1, <2>1
  <2> QED BY <2>2
<1>3. ModuleOK(c, Pending(c), fs, live)
  BY <1>2 DEF CacheInv, TwinInv
<1>4. \A kind : SentBy(fs, c, kind) = Sent(kind)
  BY DEF SentBy, AtFs, BagToSet
<1>5. KeysSent(fs, c, "read") = UNION {m.keys : m \in Sent("read")}
  BY <1>4 DEF KeysSent
<1>6. KeysSent(fs, c, "write") = UNION {m.keys : m \in Sent("write")}
  BY <1>4 DEF KeysSent
<1>7. RegionWrites(fs, c, r) = {m \in Sent("partial") : m.parent = r}
  BY <1>4 DEF RegionWrites
<1>8. Counted(Pending(c), r) = Total(fs, c, r)
  BY <1>1, <1>3 DEF ModuleOK
<1> HIDE DEF Sent
<1> QED BY <1>1, <1>3, <1>5, <1>6, <1>7, <1>8 DEF ModuleOK, Counted, Total, Sent

LEMMA DirtyIsHeld ==
  ASSUME CacheInv, NEW k \in DOMAIN lruCache.entries, NEW g \in DirtyRegions(k)
  PROVE  /\ class = "progressive" => HoldsPage(lruCache, k, g)
         /\ class # "progressive" => Holds(lruCache, k, g)
<1>1. class = "progressive" => HoldsPage(lruCache, k, g)
  BY DEF DirtyRegions, HoldsPage
<1>2. class # "progressive" => Holds(lruCache, k, g)
  BY DEF DirtyRegions, Holds
<1> QED BY <1>1, <1>2

LEMMA HeldIsDirty ==
  ASSUME NEW k, NEW g
  PROVE  /\ class' = "progressive" /\ HoldsPage(lruCache', k, g) => g \in DirtyRegions(k)'
         /\ class' # "progressive" /\ Holds(lruCache', k, g) => g \in DirtyRegions(k)' \/ DirtyRegions(k)' = Whole
<1>1. class' = "progressive" /\ HoldsPage(lruCache', k, g) => g \in DirtyRegions(k)'
  BY DEF DirtyRegions, HoldsPage
<1>2. class' # "progressive" /\ Holds(lruCache', k, g) => g \in DirtyRegions(k)' \/ DirtyRegions(k)' = Whole
  BY DEF DirtyRegions, Holds
<1> QED BY <1>1, <1>2

DirtyKept ==
  \A k \in DOMAIN lruCache.entries : \A g \in DirtyRegions(k) \ DirtyRegions(k)' :
    DirtyRegions(k)' = Whole \/ WriteSent(k, g) \/ PartialPageSent(k, g)

LEMMA DirtyStays ==
  ASSUME CacheInv, CacheInv', class' = class, RegionsStay
  PROVE  DirtyKept
<1> SUFFICES ASSUME NEW k \in DOMAIN lruCache.entries, NEW g \in DirtyRegions(k), g \notin DirtyRegions(k)',
                    DirtyRegions(k)' # Whole
             PROVE  WriteSent(k, g) \/ PartialPageSent(k, g)
  BY DEF DirtyKept
<1>1. Bag(fs) /\ IsFiniteSet(DOMAIN fs) /\ Bag(fs') /\ IsFiniteSet(DOMAIN fs')
  BY DEF CacheInv, QueueOK, TwinInv, MessagesOK
<1>2. CASE class = "progressive"
  <2>1. HoldsPage(lruCache, k, g) /\ ~HoldsPage(lruCache', k, g)
    BY <1>2, DirtyIsHeld, HeldIsDirty
  <2>2. NoWriteGoes(fs, fs') /\ WriteComes(fs, fs', k, g)
    BY <1>2, <2>1 DEF RegionsStay, PagesKeep
  <2> QED BY <1>1, <2>2, WriteIsSent
<1>3. CASE class # "progressive"
  <2>1. Holds(lruCache, k, g) /\ ~Holds(lruCache', k, g)
    BY <1>3, DirtyIsHeld, HeldIsDirty
  <2>2. class \in TwinClasses
    BY <1>3 DEF CacheInv
  <2>3. NoWriteGoes(fs, fs') /\ WriteComes(fs, fs', k, g)
    BY <2>1, <2>2 DEF RegionsStay, TwinKeeps
  <2> QED BY <1>1, <2>3, WriteIsSent
<1> QED BY <1>2, <1>3

-----------------------------------------------------------------------------
(* When calls block, a module has one request at a time.  A write that is  *)
(* not all in the cache then waits for reads of its own, which no other    *)
(* answer resolves.                                                        *)
ReadsOf(q, c, r) == {m \in SentBy(q, c, "read") : m.parent = r}

\* The page reads that a write of the single page class still waits for.
ToCome(e) == IF e.state = "BEGIN_PARTIAL_PAGE_READ" THEN e.reads ELSE e.reads - 1

Gathers(N, r, n) == r \in DOMAIN N /\ N[r].reads \in Nat /\ ToCome(N[r]) = n

AloneIn(asks) == \A r, s \in DOMAIN asks : asks[r].cache = asks[s].cache => r = s

Own(c, p, asks) ==
  /\ p = [pages |-> p.pages, partial |-> p.partial]
  /\ \A r \in DOMAIN p.pages : r \in DOMAIN asks /\ asks[r].cache = c /\ PagesEntry(p.pages[r])

\* No page is read twice, and each read is registered until it is answered.
Waiting(c, p, q) ==
  \A m \in SentBy(q, c, "read") :
    /\ CopiesOf(m, q) = 1
    /\ m.parent \in DOMAIN p.pages /\ m.keys # {} /\ m.keys \subseteq p.pages[m.parent].readPages
    /\ \A x \in SentBy(q, c, "read") \ {m} : class = "singlePages" /\ m.keys \intersect x.keys = {}

\* U are the writes that are not all in the cache, N the numbers of reads to
\* come.
Gathering(asks, q, U, N) ==
  /\ \A r \in DOMAIN U : r \in DOMAIN asks /\ asks[r].kind = "write" /\ ReadsOf(q, asks[r].cache, r) # {}
  /\ class = "singlePages" =>
       \A r \in DOMAIN asks :
         asks[r].kind = "write" /\ ReadsOf(q, asks[r].cache, r) # {} =>
           Gathers(N, r, Cardinality(ReadsOf(q, asks[r].cache, r)))

Waits(c, p, q, asks, U, N) ==
  AloneIn(asks) /\ Own(c, p, asks) /\ Waiting(c, p, q) /\ Gathering(asks, q, U, N)

BlockingInv ==
  /\ class \in TwinClasses =>
       /\ AloneIn(live)
       /\ \A c \in Caches : Waiting(c, Pending(c), fs)
       /\ Gathering(live, fs, uncached, pendingReadCount)
  /\ class \notin TwinClasses => uncached = << >>

\* What the steps rely on.
BlockingOK == TwinOK /\ BlockingInv /\ TwinInv' /\ class' = class

LEMMA BlockingBags ==
  ASSUME BlockingOK
  PROVE  /\ Bag(fs) /\ IsFiniteSet(DOMAIN fs) /\ Bag(fs') /\ class \in TwinClasses
         /\ AsksOK(live, issued) /\ MessagesOK(fs, live, issued)
         /\ \A c \in Caches : ModuleOK(c, Pending(c), fs, live) /\ Own(c, Pending(c), live)
BY DEF BlockingOK, TwinOK, TwinInv, MessagesOK, ModuleOK, Own

LEMMA NoneLost ==
  ASSUME BlockingOK, UNCHANGED <<fs, live, pendingPages, pendingPartialPages, uncached, pendingReadCount>>
  PROVE  BlockingInv'
<1>1. \A c \in Caches : Pending(c)' = Pending(c)
  BY DEF Pending
<1>2. class \in TwinClasses
  BY BlockingBags
<1>3. \A c \in Caches : Waiting(c, Pending(c), fs)' 
  BY <1>1, <1>2 DEF BlockingOK, BlockingInv, Waiting
<1>4. AloneIn(live)' /\ Gathering(live, fs, uncached, pendingReadCount)'
  BY <1>2 DEF BlockingOK, BlockingInv, AloneIn, Gathering
<1> QED BY <1>2, <1>3, <1>4 DEF BlockingInv, BlockingOK

\* The messages that are no reads come and go without a trace.
SameReads(q, q1) == \A m : m.kind = "read" => CopiesOf(m, q1) = CopiesOf(m, q)

LEMMA AddsNoReads ==
  ASSUME NEW q, Bag(q), NEW b, Bag(b), \A m \in DOMAIN b : m.kind # "read"
  PROVE  SameReads(q, q (+) b) /\ Bag(q (+) b)
<1> SUFFICES ASSUME NEW m, m.kind = "read" PROVE CopiesOf(m, q (+) b) = CopiesOf(m, q)
  BY BagJoined DEF SameReads
<1>1. CopiesOf(m, q (+) b) = CopiesOf(m, q) + CopiesOf(m, b) /\ CopiesOf(m, q) \in Nat
  BY BagJoined, CopiesTypes
<1>2. CopiesOf(m, b) = 0
  BY DEF CopiesOf
<1> QED BY <1>1, <1>2

LEMMA TakesNoRead ==
  ASSUME NEW q, Bag(q), NEW m \in DOMAIN q, m.kind # "read"
  PROVE  SameReads(q, BagRemove(q, m)) /\ Bag(BagRemove(q, m))
<1> SUFFICES ASSUME NEW x, x.kind = "read" PROVE CopiesOf(x, BagRemove(q, m)) = CopiesOf(x, q)
  BY BagRemoved DEF SameReads
<1>1. CopiesOf(x, BagRemove(q, m)) = CopiesOf(x, q) - 0 /\ CopiesOf(x, q) \in Nat
  BY BagRemoved, CopiesTypes
<1> QED BY <1>1

LEMMA SameSent ==
  ASSUME NEW q, Bag(q), NEW q1, Bag(q1), NEW c, \A m : m.kind = "read" /\ m.cache = c => CopiesOf(m, q1) = CopiesOf(m, q)
  PROVE  SentBy(q1, c, "read") = SentBy(q, c, "read") /\ \A r : ReadsOf(q1, c, r) = ReadsOf(q, c, r)
<1>1. \A m : m.kind = "read" /\ m.cache = c => (m \in DOMAIN q1 <=> m \in DOMAIN q)
  BY CopiesTypes
<1>2. SentBy(q1, c, "read") = SentBy(q, c, "read")
  BY <1>1 DEF SentBy
<1> QED BY <1>2 DEF ReadsOf

LEMMA WaitingSame ==
  ASSUME NEW q, Bag(q), NEW q1, Bag(q1), NEW c, NEW p, Waiting(c, p, q),
         \A m : m.kind = "read" /\ m.cache = c => CopiesOf(m, q1) = CopiesOf(m, q)
  PROVE  Waiting(c, p, q1)
<1>1. SentBy(q1, c, "read") = SentBy(q, c, "read")
  BY SameSent
<1>2. \A m \in SentBy(q, c, "read") : CopiesOf(m, q1) = CopiesOf(m, q)
  BY DEF SentBy
<1> QED BY <1>1, <1>2 DEF Waiting

LEMMA WaitsSame ==
  ASSUME NEW q, Bag(q), NEW q1, Bag(q1), SameReads(q, q1),
         NEW c, NEW p, NEW asks, NEW U, NEW N, Waits(c, p, q, asks, U, N)
  PROVE  Waits(c, p, q1, asks, U, N)
<1>1. \A d, r : ReadsOf(q1, d, r) = ReadsOf(q, d, r)
  BY SameSent DEF SameReads
<1>2. Waiting(c, p, q1)
  BY WaitingSame DEF SameReads, Waits
<1> QED BY <1>1, <1>2 DEF Waits, Gathering

\* Only request r of module c has changed: what is not all in the cache (U1),
\* and the number of its reads (N1).
LEMMA GatherOn ==
  ASSUME NEW q, Bag(q), NEW q1, Bag(q1), NEW c, Apart(c, q, q1),
         NEW asks, AloneIn(asks), NEW r, AskedBy(c, r, asks), NEW U, NEW N, Gathering(asks, q, U, N),
         NEW U1, DOMAIN U1 \subseteq DOMAIN U \union {r},
         r \in DOMAIN U1 => asks[r].kind = "write" /\ ReadsOf(q1, c, r) # {},
         NEW N1, \A s \in DOMAIN N \ {r} : s \in DOMAIN N1 /\ N1[s] = N[s],
         class = "singlePages" /\ asks[r].kind = "write" /\ ReadsOf(q1, c, r) # {} =>
           Gathers(N1, r, Cardinality(ReadsOf(q1, c, r)))
  PROVE  Gathering(asks, q1, U1, N1)
<1>1. ASSUME NEW s \in DOMAIN asks, s # r
      PROVE  ReadsOf(q1, asks[s].cache, s) = ReadsOf(q, asks[s].cache, s)
  <2>1. asks[s].cache # c
    BY <1>1 DEF AloneIn, AskedBy
  <2> QED BY <2>1, SameSent DEF Apart
<1>2. \A s \in DOMAIN U1 : s \in DOMAIN asks /\ asks[s].kind = "write" /\ ReadsOf(q1, asks[s].cache, s) # {}
  BY <1>1 DEF Gathering, AskedBy
<1>3. ASSUME class = "singlePages", NEW s \in DOMAIN asks, asks[s].kind = "write", ReadsOf(q1, asks[s].cache, s) # {}
      PROVE  Gathers(N1, s, Cardinality(ReadsOf(q1, asks[s].cache, s)))
  <2>1. CASE s = r
    BY <1>3, <2>1 DEF AskedBy
  <2>2. CASE s # r
    <3>1. Gathers(N, s, Cardinality(ReadsOf(q1, asks[s].cache, s)))
      BY <1>1, <1>3, <2>2 DEF Gathering
    <3> QED BY <2>2, <3>1 DEF Gathers
  <2> QED BY <2>1, <2>2
<1> QED BY <1>2, <1>3 DEF Gathering
-----------------------------------------------------------------------------
(* The parts of a step, again.                                             *)

LEMMA WritesDoNotWait ==
  ASSUME NEW c, NEW p, NEW q, NEW asks, Own(c, p, asks), Waiting(c, p, q), NEW r, AskedBy(c, r, asks), NEW out
  PROVE  LET p1 == RegisterPendingWrites(p, r, out) IN Own(c, p1, asks) /\ Waiting(c, p1, q)
<1> DEFINE e == Registered(p.pages, r)
           e1 == [readPages |-> e.readPages, writePages |-> e.writePages \union FullOf(out)]
           P == With(p.pages, r, e1)
           N == With(p.partial, r, TwinsCounted(Counted(p, r), out))
           p1 == RegisterPendingWrites(p, r, out)
<1>1. PagesEntry(e)
  BY DEF Registered, PagesEntry, Own
<1>2. p1 = [pages |-> P, partial |-> N]
  <2> HIDE DEF e
  <2>1. [e EXCEPT !.writePages = e.writePages \union FullOf(out)] = e1
    BY <1>1, EntryIs
  <2>2. p1 = [pages |-> With(p.pages, r, [e EXCEPT !.writePages = e.writePages \union FullOf(out)]), partial |-> N]
    BY RegisterWritesIs DEF e
  <2> HIDE DEF p1, e1, N
  <2> QED BY <2>1, <2>2
<1>3. DOMAIN P = DOMAIN p.pages \union {r} /\ P[r] = e1 /\ \A x \in DOMAIN p.pages \ {r} : P[x] = p.pages[x]
  <2> HIDE DEF e1
  <2> QED BY DEF With
<1>4. PagesEntry(e1) /\ e1.readPages = e.readPages
  BY DEF PagesEntry
<1>5. p1.pages = P /\ p1 = [pages |-> p1.pages, partial |-> p1.partial]
  <2> HIDE DEF P, N, p1
  <2> QED BY <1>2
<1>6. r \in DOMAIN p.pages => e = p.pages[r]
  BY DEF Registered
<1> HIDE DEF e, e1, P, N, p1
<1>7. Own(c, p1, asks)
  BY <1>3, <1>4, <1>5 DEF Own, AskedBy
<1>8. \A x \in DOMAIN p.pages : x \in DOMAIN p1.pages /\ p1.pages[x].readPages = p.pages[x].readPages
  BY <1>3, <1>4, <1>5, <1>6
<1>9. Waiting(c, p1, q)
  BY <1>8 DEF Waiting
<1> QED BY <1>7, <1>9 DEF p1

LEMMA WrittenDoesNotWait ==
  ASSUME NEW c, NEW p, NEW q, NEW asks, Own(c, p, asks), Waiting(c, p, q), NEW keys
  PROVE  LET p1 == ResolveWrites(p, keys) IN Own(c, p1, asks) /\ Waiting(c, p1, q)
<1> DEFINE P == [r \in DOMAIN p.pages |-> [readPages |-> p.pages[r].readPages,
                                            writePages |-> p.pages[r].writePages \ keys]]
           p1 == ResolveWrites(p, keys)
<1>1. p1 = WithPages(p, P)
  BY WritesResolvedIs DEF Own
<1>2. DOMAIN P = DOMAIN p.pages
      /\ \A r \in DOMAIN P : PagesEntry(P[r]) /\ P[r].readPages = p.pages[r].readPages
  BY DEF PagesEntry
<1> HIDE DEF P, p1
<1>3. p1.pages = P /\ p1 = [pages |-> p1.pages, partial |-> p1.partial]
  BY <1>1 DEF WithPages
<1> QED BY <1>2, <1>3 DEF Own, Waiting, p1

LEMMA PartDoesNotWait ==
  ASSUME NEW c, NEW p, NEW q, NEW asks, Own(c, p, asks), Waiting(c, p, q), NEW r
  PROVE  LET p1 == ResolvePartialWrite(p, r) IN Own(c, p1, asks) /\ Waiting(c, p1, q)
<1> DEFINE a == p.pages
           b == p.partial
           x == [b EXCEPT ![r] = b[r] - 1]
           p1 == ResolvePartialWrite(p, r)
<1>1. p = [pages |-> a, partial |-> b]
  BY DEF Own
<1>2. p1 = [p EXCEPT !.partial = x]
  <2>1. [p EXCEPT !.partial[r] = p.partial[r] - 1] = [p EXCEPT !.partial = [p.partial EXCEPT ![r] = p.partial[r] - 1]]
    OBVIOUS
  <2> QED BY <2>1 DEF ResolvePartialWrite
<1> HIDE DEF x, p1
<1>3. p1.pages = p.pages /\ p1 = [pages |-> p1.pages, partial |-> p1.partial]
  <2> HIDE DEF a, b
  <2>1. [[pages |-> a, partial |-> b] EXCEPT !.partial = x] = [pages |-> a, partial |-> x]
    OBVIOUS
  <2>2. p1 = [pages |-> a, partial |-> x]
    BY <1>1, <1>2, <2>1
  <2> QED BY <2>2 DEF a
<1> QED BY <1>3 DEF Own, Waiting, p1

\* Pages that are resolved: those of an answer, or any when there is no read.
LEMMA ResolvedReadsAre ==
  ASSUME NEW c, NEW p, NEW asks, Own(c, p, asks), NEW keys
  PROVE  LET p1 == ResolveReads(p, keys)
         IN  /\ Own(c, p1, asks) /\ DOMAIN p1.pages = DOMAIN p.pages
             /\ \A r \in DOMAIN p.pages : p1.pages[r].readPages = p.pages[r].readPages \ keys
<1> DEFINE P == [r \in DOMAIN p.pages |-> [readPages |-> p.pages[r].readPages \ keys,
                                            writePages |-> p.pages[r].writePages]]
           p1 == ResolveReads(p, keys)
<1>1. p1 = WithPages(p, P)
  BY ReadsResolvedIs DEF Own
<1>2. DOMAIN P = DOMAIN p.pages
      /\ \A r \in DOMAIN P : PagesEntry(P[r]) /\ P[r].readPages = p.pages[r].readPages \ keys
  BY DEF PagesEntry
<1> HIDE DEF P, p1
<1>3. p1.pages = P /\ p1 = [pages |-> p1.pages, partial |-> p1.partial]
  BY <1>1 DEF WithPages
<1> QED BY <1>2, <1>3 DEF Own, p1

LEMMA ReadTaken ==
  ASSUME NEW c, NEW p, NEW q, Bag(q), Waiting(c, p, q), NEW m \in SentBy(q, c, "read")
  PROVE  LET q1 == BagRemove(q, m)
         IN  /\ Bag(q1) /\ Apart(c, q, q1)
             /\ SentBy(q1, c, "read") = SentBy(q, c, "read") \ {m}
             /\ \A r : ReadsOf(q1, c, r) = ReadsOf(q, c, r) \ {m}
             /\ \A x \in SentBy(q1, c, "read") : CopiesOf(x, q1) = CopiesOf(x, q)
<1> DEFINE q1 == BagRemove(q, m)
<1>1. m \in DOMAIN q /\ m.cache = c /\ CopiesOf(m, q) = 1
  BY DEF SentBy, Waiting
<1>2. /\ Bag(q1) /\ Apart(c, q, q1) /\ DOMAIN q1 \subseteq DOMAIN q /\ DOMAIN q \ {m} \subseteq DOMAIN q1
      /\ \A x : CopiesOf(x, q1) = CopiesOf(x, q) - IF x = m THEN 1 ELSE 0
      /\ \A x : CopiesOf(x, q1) > 0 <=> x \in DOMAIN q1
  BY <1>1, BagRemoved, ApartTakes
<1> HIDE DEF q1
<1>3. m \notin DOMAIN q1
  <2>1. CopiesOf(m, q1) = 0
    BY <1>1, <1>2
  <2>2. ~(CopiesOf(m, q1) > 0)
    BY <2>1
  <2> QED BY <1>2, <2>2
<1>4. SentBy(q1, c, "read") = SentBy(q, c, "read") \ {m}
  BY <1>2, <1>3 DEF SentBy
<1>5. \A x : x # m => CopiesOf(x, q1) = CopiesOf(x, q)
  <2>1. \A x : x # m => CopiesOf(x, q1) = CopiesOf(x, q) - 0
    BY <1>2
  <2> QED BY <2>1, CopiesTypes
<1> QED BY <1>2, <1>4, <1>5 DEF ReadsOf, q1

LEMMA ReadAnswered ==
  ASSUME NEW c, NEW p, NEW q, Bag(q), NEW asks, Own(c, p, asks), Waiting(c, p, q), NEW m \in SentBy(q, c, "read")
  PROVE  LET p1 == ResolveReads(p, m.keys) IN Own(c, p1, asks) /\ Waiting(c, p1, BagRemove(q, m))
<1> DEFINE q1 == BagRemove(q, m)
           p1 == ResolveReads(p, m.keys)
<1>1. /\ SentBy(q1, c, "read") = SentBy(q, c, "read") \ {m}
      /\ \A x \in SentBy(q1, c, "read") : CopiesOf(x, q1) = CopiesOf(x, q)
  BY ReadTaken
<1>2. /\ Own(c, p1, asks) /\ DOMAIN p1.pages = DOMAIN p.pages
      /\ \A r \in DOMAIN p.pages : p1.pages[r].readPages = p.pages[r].readPages \ m.keys
  BY ResolvedReadsAre
<1> HIDE DEF p1, q1
<1>3. ASSUME NEW x \in SentBy(q1, c, "read")
      PROVE  x.keys # {} /\ x.parent \in DOMAIN p1.pages /\ x.keys \subseteq p1.pages[x.parent].readPages
  <2>1. x \in SentBy(q, c, "read") /\ x # m
    BY <1>1
  <2>2. x.keys \intersect m.keys = {} /\ x.parent \in DOMAIN p.pages /\ x.keys \subseteq p.pages[x.parent].readPages /\ x.keys # {}
    BY <2>1 DEF Waiting
  <2> QED BY <1>2, <2>2
<1>4. Waiting(c, p1, q1)
  BY <1>1, <1>3 DEF Waiting
<1> QED BY <1>2, <1>4 DEF p1, q1

LEMMA NothingToWaitFor ==
  ASSUME NEW c, NEW p, NEW q, SentBy(q, c, "read") = {}
  PROVE  Waiting(c, p, q) /\ \A r : ReadsOf(q, c, r) = {}
BY DEF Waiting, ReadsOf

\* The reads W of pages keys for request r of a module that reads nothing.
ReadsApart(W, c, r, keys) ==
  /\ ReadsOut(W, c, r, keys)
  /\ \A m \in W : m.keys # {} /\ \A x \in W \ {m} : class = "singlePages" /\ m.keys \intersect x.keys = {}

LEMMA ReadsBegin ==
  ASSUME NEW c, NEW p, NEW q, Bag(q), NEW asks, Own(c, p, asks), SentBy(q, c, "read") = {},
         NEW r, AskedBy(c, r, asks), NEW keys, NEW W, ReadsApart(W, c, r, keys)
  PROVE  LET q1 == q (+) SetToBag(W)
             p1 == RegisterPendingPages(p, r, keys)
         IN  /\ Bag(q1) /\ Apart(c, q, q1) /\ Own(c, p1, asks) /\ Waiting(c, p1, q1)
             /\ ReadsOf(q1, c, r) = W /\ SentBy(q1, c, "read") = W
<1> DEFINE b == SetToBag(W)
           q1 == q (+) b
           e == Registered(p.pages, r)
           e1 == [readPages |-> e.readPages \union keys, writePages |-> e.writePages]
           P == With(p.pages, r, e1)
           p1 == RegisterPendingPages(p, r, keys)
<1>1. Bag(b) /\ DOMAIN b = W /\ \A m \in W : CopiesOf(m, b) = 1
  BY BagOfSet DEF SetToBag, CopiesOf
<1> HIDE DEF b
<1>2. Bag(q1) /\ DOMAIN q1 = DOMAIN q \union W /\ \A m : CopiesOf(m, q1) = CopiesOf(m, q) + CopiesOf(m, b)
  BY <1>1, BagJoined
<1>3. \A m \in W : m.cache = c /\ m.parent = r /\ m.kind = "read" /\ m.keys \subseteq keys /\ m.keys # {}
  BY DEF ReadsApart, ReadsOut
<1>4. Apart(c, q, q1)
  BY <1>1, <1>3, ApartAdds
<1> HIDE DEF q1
<1>5. SentBy(q1, c, "read") = W
  BY <1>2, <1>3 DEF SentBy
<1>6. ReadsOf(q1, c, r) = W
  BY <1>3, <1>5 DEF ReadsOf
<1>7. \A m \in W : CopiesOf(m, q1) = 1
  <2> SUFFICES ASSUME NEW m \in W PROVE CopiesOf(m, q1) = 1
    OBVIOUS
  <2>1. m \notin DOMAIN q
    BY <1>3 DEF SentBy
  <2>2. CopiesOf(m, q) = 0
    BY <2>1 DEF CopiesOf
  <2> QED BY <1>1, <1>2, <2>2
<1>8. PagesEntry(e)
  BY DEF Registered, PagesEntry, Own
<1>9. p1 = [pages |-> P, partial |-> p.partial]
  <2> HIDE DEF e
  <2>1. [e EXCEPT !.readPages = e.readPages \union keys] = e1
    BY <1>8, EntryIs
  <2>2. p1 = [pages |-> With(p.pages, r, [e EXCEPT !.readPages = e.readPages \union keys]), partial |-> p.partial]
    BY RegisterIs DEF e, Own
  <2> HIDE DEF p1, e1
  <2> QED BY <2>1, <2>2
<1>10. DOMAIN P = DOMAIN p.pages \union {r} /\ P[r] = e1 /\ \A x \in DOMAIN p.pages \ {r} : P[x] = p.pages[x]
  <2> HIDE DEF e1
  <2> QED BY DEF With
<1>11. PagesEntry(e1) /\ keys \subseteq e1.readPages
  BY DEF PagesEntry
<1>12. p1.pages = P /\ p1 = [pages |-> p1.pages, partial |-> p1.partial]
  <2> HIDE DEF P, p1
  <2> QED BY <1>9
<1> HIDE DEF e, e1, P, p1
<1>13. Own(c, p1, asks)
  BY <1>10, <1>11, <1>12 DEF Own, AskedBy
<1>14. Waiting(c, p1, q1)
  BY <1>3, <1>5, <1>7, <1>10, <1>11, <1>12 DEF Waiting, ReadsApart
<1> QED BY <1>2, <1>4, <1>5, <1>6, <1>13, <1>14 DEF p1, q1, b

LEMMA BlockReadsApart ==
  ASSUME NEW c, NEW r, NEW keys, keys # {}
  PROVE  \E W : ReadsApart(W, c, r, keys) /\ BlockIndexedReads(c, keys, r) = SetToBag(W)
<1> DEFINE x == ToFs(c, "read", keys, {}, r)
<1>1. x.cache = c /\ x.parent = r /\ x.kind = "read" /\ x.keys = keys
  BY DEF ToFs
<1>2. BlockIndexedReads(c, keys, r) = SetToBag({x})
  BY DEF BlockIndexedReads
<1> HIDE DEF x
<1>3. ReadsApart({x}, c, r, keys)
  BY <1>1, FS_Singleton DEF ReadsApart, ReadsOut
<1> QED BY <1>2, <1>3

LEMMA SingleReadsApart ==
  ASSUME class = "singlePages", NEW c, NEW r, NEW keys, IsFiniteSet(keys)
  PROVE  \E W : /\ ReadsApart(W, c, r, keys) /\ SinglePagesReads(c, keys, r) = SetToBag(W)
                /\ Cardinality(W) = Cardinality(keys) /\ (keys # {} => W # {})
<1> DEFINE msg == [k \in keys |-> ToFs(c, "read", {k}, {}, r)]
           W == {ToFs(c, "read", {k}, {}, r) : k \in keys}
<1>1. \A k \in keys : /\ msg[k] \in W /\ msg[k].cache = c /\ msg[k].parent = r /\ msg[k].kind = "read"
                      /\ msg[k].keys = {k}
  BY DEF ToFs
<1>2. SinglePagesReads(c, keys, r) = SetToBag(W)
  BY DEF SinglePagesReads
<1>3. \A m \in W : \E k \in keys : m = msg[k]
  OBVIOUS
<1>4. DOMAIN msg = keys /\ msg \in [keys -> W]
  OBVIOUS
<1> HIDE DEF msg, W
<1>5. msg \in Bijection(keys, W)
  <2>1. \A j, k \in keys : msg[j] = msg[k] => j = k
    <3> SUFFICES ASSUME NEW j \in keys, NEW k \in keys, msg[j] = msg[k] PROVE j = k
      OBVIOUS
    <3>1. {j} = {k}
      BY <1>1
    <3> QED BY <3>1
  <2>2. \A m \in W : \E k \in keys : msg[k] = m
    BY <1>3
  <2> QED BY <1>4, <2>1, <2>2 DEF Bijection, Injection, Surjection, IsInjective
<1>6. IsFiniteSet(W) /\ Cardinality(W) = Cardinality(keys)
  BY <1>5, FS_Bijection DEF ExistsBijection
<1>7. ReadsOut(W, c, r, keys)
  BY <1>1, <1>3, <1>6 DEF ReadsOut
<1>8. ASSUME NEW m \in W, NEW x \in W \ {m} PROVE m.keys \intersect x.keys = {}
  <2>1. PICK j \in keys : m = msg[j]
    BY <1>3
  <2>2. PICK k \in keys : x = msg[k]
    BY <1>3
  <2>3. j # k
    BY <2>1, <2>2
  <2> QED BY <1>1, <2>1, <2>2, <2>3
<1>9. \A m \in W : m.keys # {}
  BY <1>1, <1>3
<1>10. ReadsApart(W, c, r, keys)
  BY <1>7, <1>8, <1>9 DEF ReadsApart
<1> QED BY <1>1, <1>2, <1>6, <1>10
-----------------------------------------------------------------------------
\* A step of module c ends: the requests it answers have no read to come.
LEMMA BlockingEnds ==
  ASSUME BlockingOK, NEW c \in Caches, NEW p, NEW asks, AsksStay(c, asks), Apart(c, fs, fs'),
         Waits(c, p, fs', asks, uncached', pendingReadCount'), CompleteRequests(c, p, asks)
  PROVE  BlockingInv'
<1> DEFINE done == PopCompleted(p, asks)
           p1 == [pages |-> Without(p.pages, done), partial |-> Without(p.partial, done)]
<1>1. /\ pendingPages' = [pendingPages EXCEPT ![c] = Without(p.pages, done)]
      /\ pendingPartialPages' = [pendingPartialPages EXCEPT ![c] = Without(p.partial, done)]
      /\ live' = Without(asks, done)
  BY DEF CompleteRequests
<1>2. /\ pendingPages = [d \in Caches |-> pendingPages[d]]
      /\ pendingPartialPages = [d \in Caches |-> pendingPartialPages[d]]
  BY DEF BlockingOK, TwinOK, TwinInv
<1>3. \A r \in done : r \in DOMAIN p.pages /\ p.pages[r].readPages = {}
  BY DEF PopCompleted
<1> HIDE DEF done
<1>4. /\ DOMAIN pendingPages = Caches /\ DOMAIN pendingPartialPages = Caches
  BY <1>2
<1>5. Pending(c)' = p1 /\ \A d \in Caches \ {c} : Pending(d)' = Pending(d)
  BY <1>1, <1>4 DEF Pending
<1>6. DOMAIN live' = DOMAIN asks \ done /\ \A r \in DOMAIN live' : live'[r] = asks[r]
  BY <1>1 DEF Without
<1>7. /\ p1.pages = Without(p.pages, done)
      /\ DOMAIN p1.pages = DOMAIN p.pages \ done /\ \A r \in DOMAIN p1.pages : p1.pages[r] = p.pages[r]
  BY DEF Without
<1> HIDE DEF p1
<1>8. /\ AloneIn(asks) /\ Own(c, p, asks) /\ Waiting(c, p, fs') /\ Gathering(asks, fs', uncached', pendingReadCount')
      /\ Bag(fs) /\ Bag(fs') /\ class \in TwinClasses /\ class' = class
  BY BlockingBags DEF Waits, BlockingOK
<1>9. \A m \in SentBy(fs', c, "read") : m.parent \notin done
  BY <1>3, <1>8 DEF Waiting
<1>10. Waiting(c, p1, fs')
  BY <1>7, <1>8, <1>9 DEF Waiting
<1>11. ASSUME NEW d \in Caches, d # c PROVE Waiting(d, Pending(d), fs')
  <2>1. Waiting(d, Pending(d), fs)
    BY <1>8 DEF BlockingOK, BlockingInv
  <2>2. \A m : m.kind = "read" /\ m.cache = d => CopiesOf(m, fs') = CopiesOf(m, fs)
    BY <1>11 DEF Apart
  <2> QED BY <1>8, <2>1, <2>2, WaitingSame
<1>12. \A d \in Caches : Waiting(d, Pending(d)', fs')
  <2> SUFFICES ASSUME NEW d \in Caches PROVE Waiting(d, Pending(d)', fs')
    OBVIOUS
  <2>1. CASE d = c
    BY <1>5, <1>10, <2>1
  <2>2. CASE d # c
    <3>1. Pending(d)' = Pending(d)
      BY <1>5, <2>2
    <3> QED BY <1>11, <2>2, <3>1
  <2> QED BY <2>1, <2>2
<1>13. AloneIn(live')
  BY <1>6, <1>8 DEF AloneIn
<1>14. ASSUME NEW r \in done PROVE r \in DOMAIN asks /\ ReadsOf(fs', asks[r].cache, r) = {}
  <2>1. r \in DOMAIN asks /\ asks[r].cache = c
    BY <1>3, <1>8 DEF Own
  <2> QED BY <1>9, <2>1 DEF ReadsOf
<1>15. Gathering(live', fs', uncached', pendingReadCount')
  <2>1. \A r \in DOMAIN uncached' : r \in DOMAIN asks /\ asks[r].kind = "write" /\ ReadsOf(fs', asks[r].cache, r) # {}
    BY <1>8 DEF Gathering
  <2>2. \A r \in DOMAIN uncached' : r \notin done
    BY <1>14, <2>1
  <2> QED BY <1>6, <1>8, <2>1, <2>2 DEF Gathering
<1>16. /\ AloneIn(live)' /\ (\A d \in Caches : Waiting(d, Pending(d), fs))'
       /\ Gathering(live, fs, uncached, pendingReadCount)'
  BY <1>8, <1>12, <1>13, <1>15 DEF AloneIn, Waiting, Gathering, SentBy, ReadsOf
<1> QED BY <1>8, <1>16 DEF BlockingInv

\* What a module of blocking calls finds when it begins a request.
Idle(c, kind, a, asks) ==
  /\ SentBy(fs, c, "read") = {} /\ DOMAIN pendingPages[c] = {} /\ Id \notin DOMAIN live
  /\ Waits(c, Pending(c), fs, asks, uncached, pendingReadCount)
  /\ AsksStay(c, asks) /\ AskedBy(c, Id, asks) /\ asks[Id] = [cache |-> c, kind |-> kind, access |-> a]

LEMMA BeginsIdle ==
  ASSUME BlockingOK, MaxOutstanding = 1, NEW c \in Caches, Issue(c), NEW kind, NEW a
  PROVE  Idle(c, kind, a, Asked(c, kind, a))
<1> DEFINE asks == Asked(c, kind, a)
           e == [cache |-> c, kind |-> kind, access |-> a]
<1>1. issued \in Nat /\ DOMAIN live \subseteq 1..issued
  BY BlockingBags DEF AsksOK
<1>2. Outstanding(c) = {}
  <2>1. Outstanding(c) \subseteq 1..issued
    BY <1>1 DEF Outstanding
  <2>2. IsFiniteSet(Outstanding(c))
    <3>1. IsFiniteSet(1..issued)
      BY <1>1, FS_Interval
    <3> QED BY <2>1, <3>1, FS_Subset
  <2>3. Cardinality(Outstanding(c)) \in Nat /\ Cardinality(Outstanding(c)) < 1
    BY <2>2, FS_CardinalityType DEF Issue
  <2> QED BY <2>2, <2>3, FS_EmptySet
<1>3. \A r \in DOMAIN live : live[r].cache # c
  BY <1>2 DEF Outstanding
<1>4. Own(c, Pending(c), live) /\ Pending(c).pages = pendingPages[c]
  BY BlockingBags DEF Pending
<1>5. DOMAIN pendingPages[c] = {}
  BY <1>3, <1>4 DEF Own
<1>6. SentBy(fs, c, "read") = {}
  BY <1>4, <1>5, BlockingBags DEF BlockingOK, BlockingInv, Waiting
<1>7. Id = issued + 1 /\ Id \notin DOMAIN live
  BY <1>1 DEF Id
<1>8. DOMAIN asks = DOMAIN live \union {Id} /\ asks[Id] = e /\ \A r \in DOMAIN live : asks[r] = live[r]
  <2> HIDE DEF e
  <2>1. asks = With(live, Id, e)
    BY DEF Asked, e
  <2> HIDE DEF asks
  <2> QED BY <1>7, <2>1 DEF With
<1> HIDE DEF asks
<1>9. e.cache = c /\ e.kind = kind
  OBVIOUS
<1> HIDE DEF e
<1>10. AsksStay(c, asks) /\ AskedBy(c, Id, asks)
  BY <1>8, <1>9 DEF AsksStay, AskedBy
<1>11. AloneIn(asks)
  BY <1>3, <1>8, <1>9, BlockingBags DEF AloneIn, BlockingOK, BlockingInv
<1>12. Own(c, Pending(c), asks)
  BY <1>4, <1>5 DEF Own
<1>13. Waiting(c, Pending(c), fs) /\ \A r : ReadsOf(fs, c, r) = {}
  BY <1>6, NothingToWaitFor
<1>14. Gathering(asks, fs, uncached, pendingReadCount)
  <2>1. Gathering(live, fs, uncached, pendingReadCount)
    BY BlockingBags DEF BlockingOK, BlockingInv
  <2>2. ReadsOf(fs, asks[Id].cache, Id) = {}
    BY <1>8, <1>9, <1>13
  <2> QED BY <1>8, <2>1, <2>2 DEF Gathering
<1> QED BY <1>5, <1>6, <1>7, <1>8, <1>10, <1>11, <1>12, <1>13, <1>14 DEF Idle, Waits, e, asks
-----------------------------------------------------------------------------
(* Requests of blocking calls.                                             *)

\* A step ends with the writes b of what it recalled.
LEMMA WritesEnd ==
  ASSUME BlockingOK, NEW c \in Caches, NEW p, NEW q, Bag(q), Apart(c, fs, q),
         NEW asks, AsksStay(c, asks), NEW r, AskedBy(c, r, asks),
         Waits(c, p, q, asks, uncached', pendingReadCount'),
         NEW out, NEW b, WritesOut(b, c, r, out), fs' = q (+) b,
         CompleteRequests(c, RegisterPendingWrites(p, r, out), asks)
  PROVE  BlockingInv'
<1> DEFINE p1 == RegisterPendingWrites(p, r, out)
<1>1. Bag(b) /\ (\A m \in DOMAIN b : m.kind # "read") /\ (\A m \in DOMAIN b : m.cache = c)
  BY DEF WritesOut
<1>2. SameReads(q, q (+) b) /\ Bag(q (+) b)
  BY <1>1, AddsNoReads
<1>3. Apart(c, q, q (+) b)
  BY <1>1, ApartAdds
<1>4. SameReads(q, fs') /\ Bag(fs') /\ Apart(c, q, fs')
  BY <1>2, <1>3
<1>5. Own(c, p1, asks) /\ Waiting(c, p1, q)
  BY WritesDoNotWait DEF Waits
<1> HIDE DEF p1
<1>6. Waits(c, p1, q, asks, uncached', pendingReadCount')
  BY <1>5 DEF Waits
<1>7. Waits(c, p1, fs', asks, uncached', pendingReadCount')
  BY <1>4, <1>6, WaitsSame
<1>8. Bag(fs) /\ Apart(c, fs, fs')
  BY <1>4, BlockingBags, ApartOn
<1> QED BY <1>7, <1>8, BlockingEnds DEF p1

\* The same for a state of processFileWrite.
LEMMA WriteStepEnds ==
  ASSUME BlockingOK, NEW c \in Caches, NEW p, NEW q, Bag(q), Apart(c, fs, q),
         NEW asks, AsksStay(c, asks), NEW r, AskedBy(c, r, asks),
         NEW u, u.out \in Seq(Outs), NEW todo, WriteStep(c, r, u, p, asks, todo, q),
         Waits(c, p, q, asks, IF todo = {} THEN Without(uncached, {r}) ELSE With(uncached, r, todo), pendingReadCount')
  PROVE  BlockingInv'
<1>1. CASE ~u.ok
  <2>1. UNCHANGED <<fs, live, pendingPages, pendingPartialPages, uncached, pendingReadCount>>
    BY <1>1 DEF WriteStep, Fail, pend
  <2> QED BY <2>1, NoneLost
<1>2. CASE u.ok
  <2>1. /\ fs' = q (+) Writebacks(c, u.out, r)
        /\ CompleteRequests(c, RegisterPendingWrites(p, r, u.out), asks)
        /\ uncached' = IF todo = {} THEN Without(uncached, {r}) ELSE With(uncached, r, todo)
    BY <1>2 DEF WriteStep
  <2>2. WritesOut(Writebacks(c, u.out, r), c, r, u.out)
    BY BlockingBags, WrittenOut
  <2>3. Waits(c, p, q, asks, uncached', pendingReadCount')
    BY <2>1
  <2> QED BY <2>1, <2>2, <2>3, WritesEnd
<1> QED BY <1>1, <1>2

LEMMA ForwardWaits ==
  ASSUME BlockingOK, MaxOutstanding = 1, NEW c \in Caches, Issue(c), NEW asked, NEW a,
         NEW kind \in {"open", "close", "bypass"}, NEW keys,
         fs' = BagAdd(fs, ToFs(c, kind, keys, {}, Id)), UNCHANGED <<uncached, pendingReadCount>>,
         CompleteRequests(c, Pending(c), Asked(c, asked, a))
  PROVE  BlockingInv'
<1> DEFINE asks == Asked(c, asked, a)
           x == ToFs(c, kind, keys, {}, Id)
           b == SetToBag({x})
<1>1. Idle(c, asked, a, asks)
  BY BeginsIdle
<1> HIDE DEF asks
<1>2. x.cache = c /\ x.kind = kind
  BY DEF ToFs
<1> HIDE DEF x
<1>3. Bag(b) /\ DOMAIN b = {x}
  BY BagOfSet
<1>4. fs' = fs (+) b /\ Bag(fs)
  BY BlockingBags DEF BagAdd, x
<1> HIDE DEF b
<1>5. SameReads(fs, fs (+) b) /\ Bag(fs (+) b) /\ Apart(c, fs, fs (+) b)
  BY <1>2, <1>3, <1>4, AddsNoReads, ApartAdds
<1>6. Waits(c, Pending(c), fs, asks, uncached', pendingReadCount')
  BY <1>1 DEF Idle
<1>7. Waits(c, Pending(c), fs', asks, uncached', pendingReadCount') /\ Apart(c, fs, fs')
  BY <1>4, <1>5, <1>6, WaitsSame
<1> QED BY <1>1, <1>7, BlockingEnds DEF Idle, asks

LEMMA LastCloseWaits ==
  ASSUME BlockingOK, MaxOutstanding = 1, NEW c \in Caches, NEW f \in Files, Issue(c),
         NEW b, WritesOut(b, c, Id, DirtyPages(f)), fs' = fs (+) b, UNCHANGED <<uncached, pendingReadCount>>,
         CompleteRequests(c, RegisterPendingWrites(Pending(c), Id, DirtyPages(f)), Asked(c, "close", OnFile(f)))
  PROVE  BlockingInv'
<1> DEFINE asks == Asked(c, "close", OnFile(f))
<1>1. Idle(c, "close", OnFile(f), asks)
  BY BeginsIdle, Zenon
<1> HIDE DEF asks
<1>2. Bag(fs) /\ Apart(c, fs, fs)
  BY BlockingBags, ApartSame
<1>3. Waits(c, Pending(c), fs, asks, uncached', pendingReadCount')
  BY <1>1 DEF Idle
<1>4. CompleteRequests(c, RegisterPendingWrites(Pending(c), Id, DirtyPages(f)), asks)
  BY DEF asks
<1> QED BY <1>1, <1>2, <1>3, <1>4, WritesEnd DEF Idle

LEMMA CloseWaits ==
  ASSUME BlockingOK, MaxOutstanding = 1, NEW c \in Caches, NEW f \in Files, Close(c, f) \/ SinglePagesClose(c, f)
  PROVE  BlockingInv'
<1>0. DirtyPages(f) \in Seq(Outs)
  BY DirtyHanded DEF BlockingOK, TwinOK
<1>1. CASE Close(c, f)
  <2>1. Issue(c) /\ UNCHANGED <<uncached, pendingReadCount>>
    BY <1>1 DEF Close
  <2>2. CASE openFileCounts'[f] = 0
    <3>1. /\ fs' = fs (+) BlockIndexedWritebacks(c, DirtyPages(f), Id)
          /\ CompleteRequests(c, RegisterPendingWrites(Pending(c), Id, DirtyPages(f)), Asked(c, "close", OnFile(f)))
      BY <1>1, <2>2 DEF Close
    <3>2. WritesOut(BlockIndexedWritebacks(c, DirtyPages(f), Id), c, Id, DirtyPages(f))
      BY <1>0, BlockIndexedWritten
    <3> QED BY <2>1, <3>1, <3>2, LastCloseWaits
  <2>3. CASE openFileCounts'[f] # 0
    <3>1. /\ fs' = BagAdd(fs, ToFs(c, "close", {}, {}, Id))
          /\ CompleteRequests(c, Pending(c), Asked(c, "close", OnFile(f)))
      BY <1>1, <2>3 DEF Close
    <3> QED BY <2>1, <3>1, ForwardWaits
  <2> QED BY <2>2, <2>3
<1>2. CASE SinglePagesClose(c, f)
  <2>1. Issue(c) /\ UNCHANGED <<uncached, pendingReadCount>>
    BY <1>2 DEF SinglePagesClose
  <2> DEFINE last == openFileCounts'[f] = 0
             out == IF last THEN SinglePagesDirty(f) ELSE << >>
             p == IF last THEN SinglePagesRegisterWrites(Pending(c), Id, out) ELSE Pending(c)
  <2>2. /\ fs' = IF last THEN fs (+) SinglePagesWritebacks(c, out, Id)
                 ELSE BagAdd(fs, ToFs(c, "close", {}, {}, Id))
        /\ SinglePagesComplete(c, p, Asked(c, "close", OnFile(f)))
    BY <1>2 DEF SinglePagesClose
  <2>3. CompleteRequests(c, p, Asked(c, "close", OnFile(f)))
    BY <2>2 DEF SinglePagesComplete, SinglePagesPopCompleted, SinglePagesHasPending, CompleteRequests, PopCompleted
  <2>4. CASE last
    <3>1. out = DirtyPages(f) /\ p = RegisterPendingWrites(Pending(c), Id, DirtyPages(f))
      BY <2>4 DEF SinglePagesDirty, SinglePagesRegisterWrites
    <3>2. fs' = fs (+) SinglePagesWritebacks(c, DirtyPages(f), Id)
      BY <2>2, <2>4, <3>1
    <3>3. WritesOut(SinglePagesWritebacks(c, DirtyPages(f), Id), c, Id, DirtyPages(f))
      BY <1>0, SinglePagesWritten
    <3> QED BY <2>1, <2>3, <3>1, <3>2, <3>3, LastCloseWaits
  <2>5. CASE ~last
    <3>1. p = Pending(c) /\ fs' = BagAdd(fs, ToFs(c, "close", {}, {}, Id))
      BY <2>2, <2>5
    <3> QED BY <2>1, <2>3, <3>1, ForwardWaits
  <2> QED BY <2>4, <2>5
<1> QED BY <1>1, <1>2
-----------------------------------------------------------------------------
\* A request of a module that reads nothing begins with the page reads W.
LEMMA ReadsStart ==
  ASSUME BlockingOK, NEW c \in Caches, NEW kind, NEW a, NEW asks, Idle(c, kind, a, asks),
         NEW keys, NEW W, W # {}, ReadsApart(W, c, Id, keys),
         NEW U1, DOMAIN U1 \subseteq DOMAIN uncached \union {Id}, kind = "write" \/ U1 = uncached,
         NEW N1, \A s \in DOMAIN pendingReadCount \ {Id} : s \in DOMAIN N1 /\ N1[s] = pendingReadCount[s],
         class = "singlePages" /\ kind = "write" => Gathers(N1, Id, Cardinality(W))
  PROVE  LET q1 == fs (+) SetToBag(W)
         IN  Bag(q1) /\ Apart(c, fs, q1) /\ Waits(c, RegisterPendingPages(Pending(c), Id, keys), q1, asks, U1, N1)
<1> DEFINE q1 == fs (+) SetToBag(W)
           p1 == RegisterPendingPages(Pending(c), Id, keys)
<1>1. /\ SentBy(fs, c, "read") = {} /\ AskedBy(c, Id, asks) /\ asks[Id].kind = kind /\ asks[Id].cache = c
      /\ AloneIn(asks) /\ Own(c, Pending(c), asks) /\ Gathering(asks, fs, uncached, pendingReadCount)
  BY DEF Idle, Waits, AskedBy
<1>2. Bag(fs)
  BY BlockingBags
<1>3. Bag(q1) /\ Apart(c, fs, q1) /\ Own(c, p1, asks) /\ Waiting(c, p1, q1) /\ ReadsOf(q1, c, Id) = W
  BY <1>1, <1>2, ReadsBegin
<1> HIDE DEF q1, p1
<1>4. ReadsOf(fs, c, Id) = {}
  BY <1>1 DEF ReadsOf
<1>5. Id \notin DOMAIN uncached
  BY <1>1, <1>4 DEF Gathering
<1>6. Id \in DOMAIN U1 => asks[Id].kind = "write" /\ ReadsOf(q1, c, Id) # {}
  BY <1>1, <1>3, <1>5
<1>7. class = "singlePages" /\ asks[Id].kind = "write" /\ ReadsOf(q1, c, Id) # {} =>
        Gathers(N1, Id, Cardinality(ReadsOf(q1, c, Id)))
  BY <1>1, <1>3
<1>8. Gathering(asks, q1, U1, N1)
  BY <1>1, <1>2, <1>3, <1>6, <1>7, GatherOn
<1> QED BY <1>1, <1>3, <1>8 DEF Waits, q1, p1

\* A module that has no read to come, and no page of request r to insert.
LEMMA NothingLeft ==
  ASSUME NEW c, NEW p, NEW q, Bag(q), NEW q1, Bag(q1), Apart(c, q, q1),
         NEW asks, AloneIn(asks), NEW r, AskedBy(c, r, asks), Own(c, p, asks), SentBy(q1, c, "read") = {},
         NEW U, NEW N, Gathering(asks, q, U, N),
         NEW N1, \A s \in DOMAIN N \ {r} : s \in DOMAIN N1 /\ N1[s] = N[s]
  PROVE  Waits(c, p, q1, asks, Without(U, {r}), N1)
<1>1. Waiting(c, p, q1) /\ ReadsOf(q1, c, r) = {}
  BY NothingToWaitFor
<1>2. DOMAIN Without(U, {r}) = DOMAIN U \ {r}
  BY DEF Without
<1>3. Gathering(asks, q1, Without(U, {r}), N1)
  <2> DEFINE U1 == Without(U, {r})
  <2>1. DOMAIN U1 \subseteq DOMAIN U \union {r} /\ r \notin DOMAIN U1
    BY <1>2
  <2> HIDE DEF U1
  <2>2. Gathering(asks, q1, U1, N1)
    BY <1>1, <2>1, GatherOn
  <2> QED BY <2>2 DEF U1
<1> QED BY <1>1, <1>3 DEF Waits

\* With no request of the module, no page is trimmed.
LEMMA NothingTrimmed ==
  ASSUME NEW c, DOMAIN pendingPages[c] = {}, NEW wanted, TrimPending(pendingPages[c], wanted) # {}
  PROVE  TrimPending(pendingPages[c], wanted) = wanted
BY DEF TrimPending

LEMMA ReadStartWaits ==
  ASSUME BlockingOK, MaxOutstanding = 1, NEW c \in Caches, NEW a, Issue(c), NEW keys, NEW W, W # {},
         ReadsApart(W, c, Id, keys), fs' = fs (+) SetToBag(W), UNCHANGED <<uncached, pendingReadCount>>,
         CompleteRequests(c, RegisterPendingPages(Pending(c), Id, keys), Asked(c, "read", a))
  PROVE  BlockingInv'
<1> DEFINE asks == Asked(c, "read", a)
           p1 == RegisterPendingPages(Pending(c), Id, keys)
<1>1. Idle(c, "read", a, asks)
  BY BeginsIdle, Zenon
<1> HIDE DEF asks
<1>2. Apart(c, fs, fs') /\ Waits(c, p1, fs', asks, uncached, pendingReadCount)
  <2>1. LET q1 == fs (+) SetToBag(W)
        IN  Bag(q1) /\ Apart(c, fs, q1) /\ Waits(c, p1, q1, asks, uncached, pendingReadCount)
    <3> DEFINE kind == "read"
    <3>1. Idle(c, kind, a, asks) /\ kind # "write"
      BY <1>1
    <3> HIDE DEF kind
    <3> QED BY <3>1, ReadsStart
  <2> QED BY <2>1
<1>3. CompleteRequests(c, p1, asks)
  BY DEF asks
<1> HIDE DEF p1
<1>4. Waits(c, p1, fs', asks, uncached', pendingReadCount')
  BY <1>2
<1> QED BY <1>1, <1>2, <1>3, <1>4, BlockingEnds DEF Idle

LEMMA ReadWaits ==
  ASSUME BlockingOK, MaxOutstanding = 1, NEW c \in Caches, NEW a \in Accesses,
         (class = "blockIndexed" /\ Read(c, a)) \/ (class = "singlePages" /\ SinglePagesRead(c, a))
  PROVE  BlockingInv'
<1> DEFINE wanted == AllKeys(a) \ Cached(lruCache)
           trimmed == TrimPending(pendingPages[c], wanted)
<1>1. Issue(c)
  BY DEF Read, SinglePagesRead
<1>2. DOMAIN pendingPages[c] = {}
  <2>1. Idle(c, "read", a, Asked(c, "read", a))
    BY <1>1, BeginsIdle, Zenon
  <2> QED BY <2>1 DEF Idle
<1>3. CASE trimmed = {}
  <2>1. Fail("beginRead")
    BY <1>3 DEF Read, SinglePagesRead, SinglePagesAllKeys, SinglePagesTrim
  <2>2. UNCHANGED <<fs, live, pendingPages, pendingPartialPages, uncached, pendingReadCount>>
    BY <2>1, Zenon DEF Fail, pend
  <2> QED BY <2>2, NoneLost
<1>4. trimmed # {} => trimmed = wanted
  <2> HIDE DEF wanted
  <2> QED BY <1>2, NothingTrimmed
<1>5. IsFiniteSet(wanted)
  BY AccessOfFile, FS_Subset DEF OfFile
<1>6. CASE trimmed # {} /\ class = "blockIndexed" /\ Read(c, a)
  <2>1. /\ fs' = fs (+) BlockIndexedReads(c, wanted, Id) /\ UNCHANGED <<uncached, pendingReadCount>>
        /\ CompleteRequests(c, RegisterPendingPages(Pending(c), Id, wanted), Asked(c, "read", a))
    BY <1>4, <1>6 DEF Read
  <2>2. wanted # {}
    BY <1>4, <1>6
  <2> HIDE DEF wanted, trimmed
  <2>3. PICK W : ReadsApart(W, c, Id, wanted) /\ BlockIndexedReads(c, wanted, Id) = SetToBag(W)
    BY <2>2, BlockReadsApart
  <2>4. W # {}
    BY <2>2, <2>3 DEF ReadsApart, ReadsOut
  <2> QED BY <1>1, <2>1, <2>3, <2>4, ReadStartWaits
<1>7. CASE trimmed # {} /\ class = "singlePages" /\ SinglePagesRead(c, a)
  <2>1. /\ fs' = fs (+) SinglePagesReads(c, wanted, Id) /\ UNCHANGED <<uncached, pendingReadCount>>
        /\ SinglePagesComplete(c, RegisterPendingPages(Pending(c), Id, wanted), Asked(c, "read", a))
    BY <1>4, <1>7 DEF SinglePagesRead, SinglePagesAllKeys, SinglePagesTrim, SinglePagesRegister
  <2>2. CompleteRequests(c, RegisterPendingPages(Pending(c), Id, wanted), Asked(c, "read", a))
    BY <2>1 DEF SinglePagesComplete, SinglePagesPopCompleted, SinglePagesHasPending, CompleteRequests, PopCompleted
  <2>3. wanted # {}
    BY <1>4, <1>7
  <2> HIDE DEF wanted, trimmed
  <2>4. PICK W : ReadsApart(W, c, Id, wanted) /\ SinglePagesReads(c, wanted, Id) = SetToBag(W) /\ W # {}
    BY <1>5, <1>7, <2>3, SingleReadsApart
  <2> QED BY <1>1, <2>1, <2>2, <2>4, ReadStartWaits
<1> QED BY <1>3, <1>6, <1>7
-----------------------------------------------------------------------------
\* A write of a module, all of whose pages are in the cache: p0 registers it,
\* and writes b go out before it ends with the full pages keys.
LEMMA CachedWriteWaits ==
  ASSUME BlockingOK, MaxOutstanding = 1, NEW c \in Caches, NEW a, Issue(c), UNCHANGED pendingReadCount,
         NEW b, Bag(b), \A m \in DOMAIN b : m.kind # "read" /\ m.cache = c, NEW keys, NEW out, NEW p,
         p = WriteRegistered(c, {}) \/ p = RegisterPendingWrites(WriteRegistered(c, {}), Id, out),
         NEW u, u.out \in Seq(Outs),
         WriteStep(c, Id, u, ResolveReads(p, keys), Asked(c, "write", a), {}, fs (+) b)
  PROVE  BlockingInv'
<1> DEFINE asks == Asked(c, "write", a)
           p0 == WriteRegistered(c, {})
           p1 == ResolveReads(p, keys)
           q1 == fs (+) b
<1>1. Idle(c, "write", a, asks)
  BY BeginsIdle, Zenon
<1>2. WriteStep(c, Id, u, p1, asks, {}, q1)
  OBVIOUS
<1> HIDE DEF asks
<1>3. /\ AskedBy(c, Id, asks) /\ AsksStay(c, asks) /\ SentBy(fs, c, "read") = {}
      /\ AloneIn(asks) /\ Own(c, Pending(c), asks) /\ Gathering(asks, fs, uncached, pendingReadCount)
  BY <1>1 DEF Idle, Waits
<1>4. Own(c, p0, asks)
  <2>1. ReadsApart({}, c, Id, {})
    BY FS_EmptySet DEF ReadsApart, ReadsOut
  <2>2. Own(c, RegisterPendingPages(Pending(c), Id, {}), asks)
    BY <1>3, <2>1, BlockingBags, ReadsBegin
  <2> QED BY <2>2 DEF WriteRegistered
<1>5. Own(c, p, asks)
  <2>1. CASE p = p0
    BY <1>4, <2>1
  <2>2. CASE p = RegisterPendingWrites(p0, Id, out)
    <3>1. Waiting(c, p0, fs)
      BY <1>3, NothingToWaitFor
    <3> HIDE DEF p0
    <3>2. Own(c, RegisterPendingWrites(p0, Id, out), asks)
      BY <1>3, <1>4, <3>1, WritesDoNotWait
    <3> QED BY <2>2, <3>2
  <2> QED BY <2>1, <2>2
<1>6. Own(c, p1, asks)
  BY <1>5, ResolvedReadsAre
<1>7. (\A m \in DOMAIN b : m.kind # "read") /\ (\A m \in DOMAIN b : m.cache = c)
  OBVIOUS
<1>8. Bag(fs) /\ SameReads(fs, q1) /\ Bag(q1) /\ Apart(c, fs, q1)
  BY <1>7, BlockingBags, AddsNoReads, ApartAdds
<1> HIDE DEF p1, q1
<1>9. SentBy(q1, c, "read") = {}
  BY <1>3, <1>8, SameSent DEF SameReads
<1>10. Waits(c, p1, q1, asks, Without(uncached, {Id}), pendingReadCount')
  <2>1. \A s \in DOMAIN pendingReadCount \ {Id} :
          s \in DOMAIN pendingReadCount' /\ pendingReadCount'[s] = pendingReadCount[s]
    OBVIOUS
  <2> QED BY <1>3, <1>6, <1>8, <1>9, <2>1, NothingLeft
<1> QED BY <1>2, <1>3, <1>8, <1>10, WriteStepEnds

LEMMA BlockIndexedWriteWaits ==
  ASSUME BlockingOK, MaxOutstanding = 1, NEW c \in Caches, NEW a \in Accesses, BlockIndexedWrite(c, a)
  PROVE  BlockingInv'
<1> DEFINE found == PartialKeys(a) \intersect Cached(lruCache)
           missing == PartialKeys(a) \ found
           first == FirstUpdate(a, found)
           asks == Asked(c, "write", a)
<1>1. Issue(c) /\ class = "blockIndexed" /\ UNCHANGED pendingReadCount
  BY DEF BlockIndexedWrite
<1>2. /\ missing # {} => WriteStep(c, Id, first, WriteRegistered(c, missing), asks,
                                  AllKeys(a) \ found, fs (+) BlockIndexedReads(c, missing, Id))
      /\ missing = {} => WriteStep(c, Id, UpdateWithWritePages([first EXCEPT !.out = << >>], a, PartialKeys(a)),
                        ResolveReads(RegisterPendingWrites(WriteRegistered(c, {}), Id, first.out), FullKeys(a)),
                        asks, {}, fs (+) BlockIndexedWritebacks(c, first.out, Id))
  BY DEF BlockIndexedWrite, FirstUpdate
<1>3. UpdateOK(first) /\ first.out \in Seq(Outs)
  <2>1. found \subseteq PartialKeys(a)
    OBVIOUS
  <2>2. TwinOK
    BY DEF BlockingOK
  <2> HIDE DEF found
  <2>3. UpdateOK(first)
    BY <2>1, <2>2, WriteUpdates
  <2> QED BY <2>3 DEF UpdateOK
<1> HIDE DEF found, missing, first
<1>4. CASE missing # {}
  <2>1. PICK W : ReadsApart(W, c, Id, missing) /\ BlockIndexedReads(c, missing, Id) = SetToBag(W)
    BY <1>4, BlockReadsApart
  <2>2. W # {}
    BY <1>4, <2>1 DEF ReadsApart, ReadsOut
  <2> DEFINE q1 == fs (+) SetToBag(W)
             p1 == RegisterPendingPages(Pending(c), Id, missing)
             todo == AllKeys(a) \ found
             U1 == IF todo = {} THEN Without(uncached, {Id}) ELSE With(uncached, Id, todo)
  <2>3. WriteStep(c, Id, first, p1, asks, todo, q1)
    BY <1>2, <1>4, <2>1 DEF WriteRegistered
  <2>4. DOMAIN U1 \subseteq DOMAIN uncached \union {Id}
    BY DEF With, Without
  <2>5. Idle(c, "write", a, asks)
    BY <1>1, BeginsIdle, Zenon
  <2> HIDE DEF asks, todo
  <2>6. Bag(q1) /\ Apart(c, fs, q1) /\ Waits(c, p1, q1, asks, U1, pendingReadCount')
    <3> DEFINE kind == "write"
    <3>1. Idle(c, kind, a, asks) /\ kind = "write" /\ class # "singlePages"
      BY <1>1, <2>5
    <3> HIDE DEF kind, U1
    <3>2. \A s \in DOMAIN pendingReadCount \ {Id} :
            s \in DOMAIN pendingReadCount' /\ pendingReadCount'[s] = pendingReadCount[s]
      BY <1>1
    <3> QED BY <2>1, <2>2, <2>4, <3>1, <3>2, ReadsStart
  <2>7. AskedBy(c, Id, asks) /\ AsksStay(c, asks)
    BY <2>5 DEF Idle
  <2> HIDE DEF q1, p1
  <2> QED BY <1>3, <2>3, <2>6, <2>7, WriteStepEnds
<1>5. CASE missing = {}
  <2> DEFINE p0 == WriteRegistered(c, {})
             b == BlockIndexedWritebacks(c, first.out, Id)
             v == [first EXCEPT !.out = << >>]
             w == UpdateWithWritePages(v, a, PartialKeys(a))
             p1 == RegisterPendingWrites(p0, Id, first.out)
  <2>1. Bag(b) /\ \A m \in DOMAIN b : m.kind # "read" /\ m.cache = c
    <3>1. WritesOut(b, c, Id, first.out)
      BY <1>3, BlockIndexedWritten
    <3> QED BY <3>1 DEF WritesOut
  <2>2. WriteStep(c, Id, w, ResolveReads(p1, FullKeys(a)), Asked(c, "write", a), {}, fs (+) b)
    BY <1>2, <1>5
  <2>3. UpdateOK(v)
    <3>1. \A x, o, k : [[cache |-> x, out |-> o, ok |-> k] EXCEPT !.out = << >>] = [cache |-> x, out |-> << >>, ok |-> k]
      OBVIOUS
    <3>2. v = [cache |-> first.cache, out |-> << >>, ok |-> first.ok]
      <4> DEFINE x == first.cache
                 o == first.out
                 k == first.ok
      <4>1. first = [cache |-> x, out |-> o, ok |-> k]
        BY <1>3 DEF UpdateOK
      <4> HIDE DEF x, o, k
      <4>2. [[cache |-> x, out |-> o, ok |-> k] EXCEPT !.out = << >>] = [cache |-> x, out |-> << >>, ok |-> k]
        OBVIOUS
      <4> QED BY <4>1, <4>2 DEF x, k
    <3>3. v.cache = first.cache /\ v.out = << >> /\ v = [cache |-> v.cache, out |-> v.out, ok |-> v.ok]
      BY <3>2
    <3> HIDE DEF v
    <3> QED BY <1>3, <3>3 DEF UpdateOK
  <2> HIDE DEF v
  <2>4. UpdateOK(w)
    <3>1. PartialKeys(a) \subseteq PartialKeys(a)
      OBVIOUS
    <3> QED BY <2>3, <3>1, WritePagesLeave
  <2>5. w.out \in Seq(Outs)
    BY <2>4 DEF UpdateOK
  <2>6. p1 = RegisterPendingWrites(WriteRegistered(c, {}), Id, first.out)
    OBVIOUS
  <2> HIDE DEF w, p1, b
  <2> QED BY <1>1, <2>1, <2>2, <2>5, <2>6, CachedWriteWaits
<1> QED BY <1>4, <1>5

LEMMA SinglePagesWriteWaits ==
  ASSUME BlockingOK, MaxOutstanding = 1, class = "singlePages", NEW c \in Caches, NEW a \in Accesses,
         SinglePagesWrite(c, a)
  PROVE  BlockingInv'
<1> DEFINE partial == SinglePagesPartialKeys(a)
           found == partial \intersect Cached(lruCache)
           missing == partial \ found
           first == FirstUpdate(a, found)
           asks == Asked(c, "write", a)
           todo == SinglePagesAllKeys(a) \ found
           e == [state |-> "BEGIN_PARTIAL_PAGE_READ", reads |-> Cardinality(missing)]
<1>1. Issue(c)
  BY DEF SinglePagesWrite
<1>2. first = SinglePagesUpdatePartial(Update(SinglePagesLookup(lruCache, partial)), a, found)
  BY DEF FirstUpdate, SinglePagesUpdatePartial, SinglePagesLookup, SinglePagesPartialKeys
<1>3. /\ ~first.ok => Fail("insertDirtyPartialPage")
      /\ first.ok /\ first.out # << >> => Fail("writebackPages")
      /\ first.ok /\ first.out = << >> /\ missing = {} =>
           BeginWriteback(c, Id, first, WriteRegistered(c, {}), asks, fs) /\ UNCHANGED pendingReadCount
      /\ first.ok /\ first.out = << >> /\ missing # {} =>
           /\ fs' = fs (+) SinglePagesReads(c, missing, Id)
           /\ pendingReadCount' = With(pendingReadCount, Id, e)
           /\ SinglePagesComplete(c, WriteRegistered(c, missing), asks)
           /\ uncached' = With(uncached, Id, todo)
  <2> DEFINE u == SinglePagesUpdatePartial(Update(SinglePagesLookup(lruCache, partial)), a, found)
  <2>1. (CASE ~u.ok -> Fail("insertDirtyPartialPage")
          [] u.ok /\ u.out # << >> -> Fail("writebackPages")
          [] u.ok /\ u.out = << >> /\ missing = {} ->
               /\ BeginWriteback(c, Id, u, WriteRegistered(c, {}), asks, fs)
               /\ UNCHANGED pendingReadCount
          [] OTHER ->
               /\ lruCache' = u.cache
               /\ fs' = fs (+) SinglePagesReads(c, missing, Id)
               /\ pendingReadCount' = With(pendingReadCount, Id, e)
               /\ SinglePagesComplete(c, WriteRegistered(c, missing), asks)
               /\ uncached' = With(uncached, Id, todo)
               /\ UNCHANGED <<openFileCounts, isOpen, failed>>)
    BY Zenon DEF SinglePagesWrite
  <2> HIDE DEF u, missing, asks, todo, e
  <2>2. u = first
    BY <1>2 DEF u
  <2> HIDE DEF first
  <2> QED BY <2>1, <2>2
<1>4. partial = PartialKeys(a) /\ found \subseteq PartialKeys(a) /\ missing \subseteq PartialKeys(a)
  BY DEF SinglePagesPartialKeys
<1>5. UpdateOK(first)
  <2>1. TwinOK
    BY DEF BlockingOK
  <2> HIDE DEF found, partial
  <2> QED BY <1>4, <2>1, WriteUpdates
<1> HIDE DEF partial, found, missing, first
<1>6. CASE ~first.ok \/ first.out # << >>
  <2>1. Fail("insertDirtyPartialPage") \/ Fail("writebackPages")
    BY <1>3, <1>6
  <2>2. UNCHANGED <<fs, live, pendingPages, pendingPartialPages, uncached, pendingReadCount>>
    BY <2>1 DEF Fail, pend
  <2> QED BY <2>2, NoneLost
<1>7. CASE first.ok /\ first.out = << >> /\ missing = {}
  <2> DEFINE w == UpdateWithWritePages(first, a, {})
             b == SetToBag({})
             p == WriteRegistered(c, {})
  <2>1. Idle(c, "write", a, asks)
    BY <1>1, BeginsIdle, Zenon
  <2>2. asks[Id].access = a
    <3> HIDE DEF asks
    <3> QED BY <2>1 DEF Idle
  <2>3. fs (+) b = fs
    BY BlockingBags, NothingRead
  <2>4. WriteStep(c, Id, w, ResolveReads(p, FullKeys(a)), asks, {}, fs)
    <3> HIDE DEF asks
    <3> QED BY <1>3, <1>7, <2>2 DEF BeginWriteback, SinglePagesUpdateWrite, SinglePagesResolveReads, SinglePagesFullKeys
  <2>5. w.out \in Seq(Outs)
    <3>1. {} \subseteq PartialKeys(a)
      OBVIOUS
    <3>2. UpdateOK(w)
      BY <1>5, <3>1, WritePagesLeave
    <3> QED BY <3>2 DEF UpdateOK
  <2>6. Bag(b) /\ DOMAIN b = {}
    BY BagOfSet
  <2>7. UNCHANGED pendingReadCount
    BY <1>3, <1>7
  <2>8. WriteStep(c, Id, w, ResolveReads(p, FullKeys(a)), Asked(c, "write", a), {}, fs (+) b)
    BY <2>3, <2>4
  <2>9. b = SetToBag({}) /\ p = WriteRegistered(c, {})
    OBVIOUS
  <2> HIDE DEF w, b, p, asks
  <2> QED BY <1>1, <2>5, <2>6, <2>7, <2>8, <2>9, CachedWriteWaits
<1>8. CASE first.ok /\ first.out = << >> /\ missing # {}
  <2>1. IsFiniteSet(missing)
    BY <1>4, AccessOfFile, SomeOfFile DEF OfFile
  <2>2. PICK W : /\ ReadsApart(W, c, Id, missing) /\ SinglePagesReads(c, missing, Id) = SetToBag(W)
                 /\ Cardinality(W) = Cardinality(missing) /\ W # {}
    <3>1. \E W : /\ ReadsApart(W, c, Id, missing) /\ SinglePagesReads(c, missing, Id) = SetToBag(W)
                 /\ Cardinality(W) = Cardinality(missing) /\ (missing # {} => W # {})
      BY <2>1, SingleReadsApart
    <3> HIDE DEF asks, todo, e
    <3> QED BY <1>8, <3>1
  <2> DEFINE p1 == RegisterPendingPages(Pending(c), Id, missing)
             U1 == With(uncached, Id, todo)
             N1 == With(pendingReadCount, Id, e)
  <2>3. /\ fs' = fs (+) SetToBag(W) /\ pendingReadCount' = N1 /\ uncached' = U1
        /\ SinglePagesComplete(c, p1, asks)
    BY <1>3, <1>8, <2>2 DEF WriteRegistered
  <2>4. CompleteRequests(c, p1, asks)
    BY <2>3 DEF SinglePagesComplete, SinglePagesPopCompleted, SinglePagesHasPending, CompleteRequests, PopCompleted
  <2>5. Idle(c, "write", a, asks)
    BY <1>1, BeginsIdle, Zenon
  <2>6. e.state = "BEGIN_PARTIAL_PAGE_READ" /\ e.reads = Cardinality(W) /\ e.reads \in Nat
    BY <2>1, <2>2, FS_CardinalityType
  <2> HIDE DEF e, asks, todo
  <2>7. /\ Gathers(N1, Id, Cardinality(W)) /\ DOMAIN U1 \subseteq DOMAIN uncached \union {Id}
        /\ \A s \in DOMAIN pendingReadCount \ {Id} : s \in DOMAIN N1 /\ N1[s] = pendingReadCount[s]
    BY <2>6 DEF With, Gathers, ToCome
  <2>8. Bag(fs') /\ Apart(c, fs, fs') /\ Waits(c, p1, fs', asks, U1, N1)
    <3> DEFINE kind == "write"
    <3>1. Idle(c, kind, a, asks) /\ kind = "write"
      BY <2>5
    <3> HIDE DEF kind, U1, N1
    <3>2. LET q1 == fs (+) SetToBag(W)
          IN  Bag(q1) /\ Apart(c, fs, q1) /\ Waits(c, RegisterPendingPages(Pending(c), Id, missing), q1, asks, U1, N1)
      BY <2>2, <2>7, <3>1, ReadsStart
    <3> QED BY <2>3, <3>2
  <2> HIDE DEF p1, U1, N1
  <2>9. Waits(c, p1, fs', asks, uncached', pendingReadCount')
    BY <2>3, <2>8
  <2> QED BY <2>4, <2>5, <2>8, <2>9, BlockingEnds DEF Idle
<1> QED BY <1>6, <1>7, <1>8
-----------------------------------------------------------------------------
(* Answers to modules of blocking calls.                                   *)

AnswerToRead(m, c, r, q1) ==
  /\ c \in Caches /\ r \in DOMAIN live /\ AskedBy(c, r, live) /\ AsksStay(c, live)
  /\ AloneIn(live) /\ Own(c, Pending(c), live) /\ Waiting(c, Pending(c), fs)
  /\ Gathering(live, fs, uncached, pendingReadCount)
  /\ Bag(fs) /\ m \in SentBy(fs, c, "read") /\ m \in ReadsOf(fs, c, r)
  /\ Bag(q1) /\ Apart(c, fs, q1) /\ SentBy(q1, c, "read") = SentBy(fs, c, "read") \ {m}
  /\ ReadsOf(q1, c, r) = ReadsOf(fs, c, r) \ {m}
  /\ OfFile(m.keys)
  /\ live[r].kind = "write" => live[r].access \in Accesses /\ m.keys \subseteq PartialKeys(live[r].access)

LEMMA ReadIsAnswered ==
  ASSUME BlockingOK, NEW m \in DOMAIN fs, m.kind = "read", m.parent \in DOMAIN live
  PROVE  AnswerToRead(m, m.cache, m.parent, BagRemove(fs, m))
<1> DEFINE c == m.cache
           r == m.parent
           q1 == BagRemove(fs, m)
<1>1. /\ AskedBy(c, r, live) /\ OfFile(m.keys) /\ c \in Caches
      /\ live[r].kind = "write" => live[r].access \in Accesses /\ m.keys \subseteq PartialKeys(live[r].access)
  BY BlockingBags DEF AsksOK, MessagesOK, AskedBy
<1>2. /\ AloneIn(live) /\ Own(c, Pending(c), live) /\ Waiting(c, Pending(c), fs) /\ Bag(fs)
      /\ Gathering(live, fs, uncached, pendingReadCount)
  BY <1>1, BlockingBags DEF BlockingOK, BlockingInv
<1>3. m \in SentBy(fs, c, "read") /\ m \in ReadsOf(fs, c, r)
  BY DEF SentBy, ReadsOf
<1>4. /\ Bag(q1) /\ Apart(c, fs, q1) /\ SentBy(q1, c, "read") = SentBy(fs, c, "read") \ {m}
      /\ \A s : ReadsOf(q1, c, s) = ReadsOf(fs, c, s) \ {m}
  BY <1>2, <1>3, ReadTaken
<1>5. AsksStay(c, live)
  BY DEF AsksStay
<1> HIDE DEF q1, c, r
<1>6. AnswerToRead(m, c, r, q1)
  BY <1>1, <1>2, <1>3, <1>4, <1>5 DEF AnswerToRead, AskedBy
<1> QED BY <1>6 DEF q1, c, r

LEMMA ReadAnswerWaits ==
  ASSUME BlockingOK, NEW m \in DOMAIN fs, ReadDone(m) \/ SinglePagesReadRequestDone(m)
  PROVE  BlockingInv'
<1> DEFINE c == m.cache
           r == m.parent
           q1 == BagRemove(fs, m)
           p1 == ResolveReads(Pending(c), m.keys)
           u == UpdateWithReadPages(Update(lruCache), m.keys)
<1>1. /\ m.kind = "read" /\ r \in DOMAIN live /\ live[r].kind = "read" /\ UNCHANGED <<uncached, pendingReadCount>>
  BY DEF ReadDone, SinglePagesReadRequestDone, IsAnswerTo
<1>2. AnswerToRead(m, c, r, q1)
  BY <1>1, ReadIsAnswered
<1>3. UpdateOK(u)
  <2>1. Same(lruCache, lruCache)
    BY DEF Same, BlockingOK, TwinOK
  <2>2. UpdateOK(Update(lruCache))
    BY <2>1, UpdateBegins
  <2> QED BY <1>2, <2>2, ReadPagesLeave DEF AnswerToRead
<1>4. \E b : /\ WritesOut(b, c, r, u.out) /\ fs' = q1 (+) b
             /\ CompleteRequests(c, RegisterPendingWrites(p1, r, u.out), live)
  <2>1. CASE ReadDone(m)
    <3>1. /\ fs' = q1 (+) BlockIndexedWritebacks(c, u.out, r)
          /\ CompleteRequests(c, RegisterPendingWrites(p1, r, u.out), live)
      BY <2>1, Zenon DEF ReadDone
    <3>2. WritesOut(BlockIndexedWritebacks(c, u.out, r), c, r, u.out)
      BY <1>3, BlockIndexedWritten DEF UpdateOK
    <3> HIDE DEF u, p1, q1
    <3> QED BY <3>1, <3>2
  <2>2. CASE SinglePagesReadRequestDone(m)
    <3>1. /\ fs' = q1 (+) SinglePagesWritebacks(c, u.out, r)
          /\ SinglePagesComplete(c, RegisterPendingWrites(p1, r, u.out), live)
      BY <2>2, Zenon DEF SinglePagesReadRequestDone, SinglePagesUpdateRead, SinglePagesRegisterWrites,
                         SinglePagesResolveReads
    <3>2. WritesOut(SinglePagesWritebacks(c, u.out, r), c, r, u.out)
      BY <1>3, SinglePagesWritten DEF UpdateOK
    <3>3. CompleteRequests(c, RegisterPendingWrites(p1, r, u.out), live)
      BY <3>1 DEF SinglePagesComplete, SinglePagesPopCompleted, SinglePagesHasPending, CompleteRequests, PopCompleted
    <3> HIDE DEF u, p1, q1
    <3> QED BY <3>1, <3>2, <3>3
  <2> QED BY <2>1, <2>2
<1>5. Own(c, p1, live) /\ Waiting(c, p1, q1)
  BY <1>2, ReadAnswered DEF AnswerToRead
<1> HIDE DEF u, p1, q1, c, r
<1>6. Gathering(live, q1, uncached, pendingReadCount)
  <2>1. r \notin DOMAIN uncached
    BY <1>1, <1>2 DEF AnswerToRead, Gathering
  <2> QED BY <1>1, <1>2, <2>1, GatherOn DEF AnswerToRead
<1>7. Waits(c, p1, q1, live, uncached', pendingReadCount')
  BY <1>1, <1>2, <1>5, <1>6 DEF Waits, AnswerToRead
<1> QED BY <1>2, <1>4, <1>7, WritesEnd DEF AnswerToRead

LEMMA BlockIndexedAnswerWaits ==
  ASSUME BlockingOK, NEW m \in DOMAIN fs, BlockIndexedReadDone(m)
  PROVE  BlockingInv'
<1> DEFINE c == m.cache
           r == m.parent
           a == live[r].access
           keys == m.keys \union FullKeys(a)
           q1 == BagRemove(fs, m)
           p1 == ResolveReads(Pending(c), keys)
           u == UpdatePartial(UpdateWithReadPages(Update(lruCache), m.keys), a, m.keys)
           v == UpdateWithWritePages(u, a, {})
<1>1. m.kind = "read" /\ r \in DOMAIN live /\ live[r].kind = "write" /\ class = "blockIndexed" /\ UNCHANGED pendingReadCount
  BY DEF BlockIndexedReadDone, IsAnswerTo
<1>2. WriteStep(c, r, v, p1, live, {}, q1)
  BY Zenon DEF BlockIndexedReadDone
<1>3. AnswerToRead(m, c, r, q1)
  BY <1>1, ReadIsAnswered
<1>4. a \in Accesses /\ OfFile(m.keys) /\ m.keys \subseteq PartialKeys(a)
  BY <1>1, <1>3 DEF AnswerToRead
<1>5. Own(c, p1, live)
  BY <1>3, ResolvedReadsAre DEF AnswerToRead
<1> HIDE DEF a
<1>6. UpdateOK(u)
  BY <1>4, ReadForWrite DEF BlockingOK
<1> HIDE DEF u
<1>7. v.out \in Seq(Outs)
  <2>1. {} \subseteq PartialKeys(a)
    OBVIOUS
  <2>2. UpdateOK(v)
    BY <1>4, <1>6, <2>1, WritePagesLeave
  <2> QED BY <2>2 DEF UpdateOK
<1> HIDE DEF v, p1, q1, c, r, keys
<1>8. SentBy(q1, c, "read") = {}
  BY <1>1, <1>3 DEF AnswerToRead, Waiting
<1>9. Waits(c, p1, q1, live, Without(uncached, {r}), pendingReadCount')
  <2>1. \A s \in DOMAIN pendingReadCount \ {r} :
          s \in DOMAIN pendingReadCount' /\ pendingReadCount'[s] = pendingReadCount[s]
    BY <1>1
  <2> QED BY <1>3, <1>5, <1>8, <2>1, NothingLeft DEF AnswerToRead
<1> QED BY <1>2, <1>3, <1>7, <1>9, WriteStepEnds DEF AnswerToRead

\* The page reads of a write are all that its module reads.
LEMMA AllItsReads ==
  ASSUME BlockingOK, class = "singlePages", NEW m, NEW c, NEW r, NEW q1, AnswerToRead(m, c, r, q1), live[r].kind = "write"
  PROVE  LET R == ReadsOf(fs, c, r)
         IN  /\ SentBy(fs, c, "read") = R /\ R # {} /\ IsFiniteSet(R) /\ r \in DOMAIN pendingReadCount
             /\ ReadsToCome(r) = Cardinality(R) /\ Cardinality(R) \in Nat
             /\ Cardinality(R \ {m}) = Cardinality(R) - 1
             /\ (Cardinality(R) = 1 <=> R \ {m} = {})
<1> DEFINE R == ReadsOf(fs, c, r)
<1>1. m \in R
  BY DEF AnswerToRead
<1>2. SentBy(fs, c, "read") = R
  BY DEF AnswerToRead, Waiting, Own, AloneIn, AskedBy, ReadsOf
<1>3. IsFiniteSet(R)
  <2>1. R \subseteq DOMAIN fs
    BY DEF ReadsOf, SentBy
  <2> QED BY <2>1, BlockingBags, FS_Subset
<1>4. Gathers(pendingReadCount, r, Cardinality(R))
  BY <1>1 DEF AnswerToRead, AskedBy, Gathering
<1>5. ReadsToCome(r) = Cardinality(R) /\ r \in DOMAIN pendingReadCount
  BY <1>4 DEF Gathers, ToCome, ReadsToCome
<1> HIDE DEF R
<1>6. Cardinality(R) \in Nat
  BY <1>3, FS_CardinalityType
<1>7. IsFiniteSet(R \ {m}) /\ Cardinality(R \ {m}) = Cardinality(R) - 1
  BY <1>1, <1>3, FS_RemoveElement
<1>8. Cardinality(R \ {m}) = 0 <=> R \ {m} = {}
  BY <1>7, FS_EmptySet
<1>9. Cardinality(R) = 1 <=> R \ {m} = {}
  BY <1>6, <1>7, <1>8
<1> QED BY <1>1, <1>2, <1>3, <1>5, <1>6, <1>7, <1>9 DEF R

LEMMA SinglePagesAnswerWaits ==
  ASSUME BlockingOK, class = "singlePages", NEW m \in DOMAIN fs, SinglePagesReadDone(m)
  PROVE  BlockingInv'
<1> DEFINE c == m.cache
           r == m.parent
           a == live[r].access
           q1 == BagRemove(fs, m)
           p1 == ResolveReads(Pending(c), m.keys)
           p2 == ResolveReads(p1, FullKeys(a))
           u == UpdatePartial(UpdateWithReadPages(Update(lruCache), m.keys), a, m.keys)
           v == UpdateWithWritePages(u, a, {})
           todo == uncached[r] \ m.keys
           e == [state |-> "UPDATE_CACHE", reads |-> ReadsToCome(r)]
           R == ReadsOf(fs, c, r)
<1>1. m.kind = "read" /\ r \in DOMAIN live /\ live[r].kind = "write"
  BY DEF SinglePagesReadDone, IsAnswerTo
<1>2. \/ /\ ReadsToCome(r) = 1 /\ WriteStep(c, r, v, p2, live, {}, q1)
         /\ pendingReadCount' = Without(pendingReadCount, {r})
      \/ Fail("insertDirtyPartialPage")
      \/ /\ ReadsToCome(r) # 1 /\ WriteStep(c, r, u, p1, live, todo, q1)
         /\ pendingReadCount' = [pendingReadCount EXCEPT ![r] = e]
  BY DEF SinglePagesReadDone, SinglePagesUpdatePartial, SinglePagesUpdateRead, SinglePagesResolveReads,
         BeginWriteback, SinglePagesUpdateWrite, SinglePagesFullKeys
<1>3. AnswerToRead(m, c, r, q1)
  BY <1>1, ReadIsAnswered
<1>4. a \in Accesses /\ OfFile(m.keys) /\ m.keys \subseteq PartialKeys(a)
  BY <1>1, <1>3 DEF AnswerToRead
<1>5. /\ Own(c, p1, live) /\ Waiting(c, p1, q1) /\ Own(c, p2, live)
  <2>1. Own(c, p1, live) /\ Waiting(c, p1, q1)
    BY <1>3, ReadAnswered DEF AnswerToRead
  <2> HIDE DEF p1
  <2>2. Own(c, p2, live)
    BY <2>1, ResolvedReadsAre
  <2> QED BY <2>1, <2>2
<1>6. /\ SentBy(fs, c, "read") = R /\ R # {} /\ IsFiniteSet(R) /\ r \in DOMAIN pendingReadCount
      /\ ReadsToCome(r) = Cardinality(R) /\ Cardinality(R) \in Nat
      /\ Cardinality(R \ {m}) = Cardinality(R) - 1
      /\ (Cardinality(R) = 1 <=> R \ {m} = {})
  BY <1>1, <1>3, AllItsReads
<1>7. e.state # "BEGIN_PARTIAL_PAGE_READ" /\ e.reads = ReadsToCome(r)
  OBVIOUS
<1> HIDE DEF a, e
<1>8. UpdateOK(u) /\ u.out \in Seq(Outs)
  <2>1. UpdateOK(u)
    BY <1>4, ReadForWrite DEF BlockingOK
  <2> QED BY <2>1 DEF UpdateOK
<1> HIDE DEF u
<1>9. v.out \in Seq(Outs)
  <2>1. {} \subseteq PartialKeys(a)
    OBVIOUS
  <2>2. UpdateOK(v)
    BY <1>4, <1>8, <2>1, WritePagesLeave
  <2> QED BY <2>2 DEF UpdateOK
<1>10. ReadsOf(q1, c, r) = R \ {m} /\ SentBy(q1, c, "read") = SentBy(fs, c, "read") \ {m} /\ Bag(q1)
  BY <1>3 DEF AnswerToRead
<1> HIDE DEF v, p1, p2, q1, c, r, todo, R
<1>11. CASE ReadsToCome(r) = 1 /\ WriteStep(c, r, v, p2, live, {}, q1) /\ pendingReadCount' = Without(pendingReadCount, {r})
  <2>1. SentBy(q1, c, "read") = {}
    BY <1>6, <1>10, <1>11
  <2>2. \A s \in DOMAIN pendingReadCount \ {r} :
          s \in DOMAIN pendingReadCount' /\ pendingReadCount'[s] = pendingReadCount[s]
    BY <1>11 DEF Without
  <2>3. Waits(c, p2, q1, live, Without(uncached, {r}), pendingReadCount')
    BY <1>3, <1>5, <2>1, <2>2, NothingLeft DEF AnswerToRead
  <2> QED BY <1>3, <1>9, <1>11, <2>3, WriteStepEnds DEF AnswerToRead
<1>12. CASE Fail("insertDirtyPartialPage")
  <2>1. UNCHANGED <<fs, live, pendingPages, pendingPartialPages, uncached, pendingReadCount>>
    BY <1>12 DEF Fail, pend
  <2> QED BY <2>1, NoneLost
<1>13. CASE /\ ReadsToCome(r) # 1 /\ WriteStep(c, r, u, p1, live, todo, q1)
            /\ pendingReadCount' = [pendingReadCount EXCEPT ![r] = e]
  <2> DEFINE U1 == IF todo = {} THEN Without(uncached, {r}) ELSE With(uncached, r, todo)
             N1 == pendingReadCount'
  <2>1. DOMAIN U1 \subseteq DOMAIN uncached \union {r}
    BY DEF With, Without
  <2>2. R \ {m} # {}
    BY <1>6, <1>13
  <2>3. r \in DOMAIN N1 /\ N1[r] = e /\ \A s \in DOMAIN pendingReadCount \ {r} : s \in DOMAIN N1 /\ N1[s] = pendingReadCount[s]
    BY <1>6, <1>13
  <2> HIDE DEF U1, N1
  <2>4. Gathers(N1, r, Cardinality(R \ {m}))
    BY <1>6, <1>7, <2>3 DEF Gathers, ToCome
  <2>5. Gathering(live, q1, U1, N1)
    <3>1. Bag(fs) /\ Apart(c, fs, q1) /\ AloneIn(live) /\ AskedBy(c, r, live) /\ Gathering(live, fs, uncached, pendingReadCount)
      BY <1>3 DEF AnswerToRead
    <3> QED BY <1>1, <1>10, <2>1, <2>2, <2>3, <2>4, <3>1, GatherOn DEF r
  <2>6. Waits(c, p1, q1, live, U1, N1)
    BY <1>3, <1>5, <2>5 DEF Waits, AnswerToRead
  <2> QED BY <1>3, <1>8, <1>13, <2>6, WriteStepEnds DEF AnswerToRead, U1, N1
<1> QED BY <1>2, <1>11, <1>12, <1>13

LEMMA WriteAnswerWaits ==
  ASSUME BlockingOK, NEW m \in DOMAIN fs, WrittenBack(m) \/ SinglePagesWrittenBack(m)
  PROVE  BlockingInv'
<1> DEFINE c == m.cache
           q1 == BagRemove(fs, m)
           p1 == IF m.kind = "partial" THEN ResolvePartialWrite(Pending(c), m.parent)
                 ELSE ResolveWrites(Pending(c), m.keys)
<1>1. /\ m.kind # "read" /\ m.parent \in DOMAIN live /\ fs' = q1 /\ UNCHANGED <<uncached, pendingReadCount>>
  BY DEF WrittenBack, SinglePagesWrittenBack
<1>2. CompleteRequests(c, p1, live)
  BY DEF WrittenBack, SinglePagesWrittenBack, SinglePagesComplete, SinglePagesPopCompleted, SinglePagesHasPending,
         CompleteRequests, PopCompleted, SinglePagesResolvePartial, SinglePagesResolveWrites
<1>3. c \in Caches /\ Bag(fs)
  BY <1>1, BlockingBags DEF AsksOK, MessagesOK
<1>4. /\ AloneIn(live) /\ Own(c, Pending(c), live) /\ Waiting(c, Pending(c), fs)
      /\ Gathering(live, fs, uncached, pendingReadCount)
  BY <1>3, BlockingBags DEF BlockingOK, BlockingInv
<1>5. SameReads(fs, q1) /\ Bag(q1) /\ Apart(c, fs, q1)
  BY <1>1, <1>3, TakesNoRead, ApartTakes
<1>6. Own(c, p1, live) /\ Waiting(c, p1, fs)
  BY <1>4, WrittenDoesNotWait, PartDoesNotWait
<1> HIDE DEF p1, q1
<1>7. Waits(c, p1, fs, live, uncached', pendingReadCount')
  BY <1>1, <1>4, <1>6 DEF Waits
<1>8. Waits(c, p1, fs', live, uncached', pendingReadCount')
  BY <1>1, <1>3, <1>5, <1>7, WaitsSame
<1>9. AsksStay(c, live)
  BY DEF AsksStay
<1> QED BY <1>1, <1>2, <1>3, <1>5, <1>8, <1>9, BlockingEnds

LEMMA ForwardAnswerWaits ==
  ASSUME BlockingOK, NEW m \in DOMAIN fs, Forward(m)
  PROVE  BlockingInv'
<1> DEFINE c == m.cache
           r == m.parent
           q1 == BagRemove(fs, m)
<1>1. /\ m.kind \in {"open", "close", "bypass"} /\ r \in DOMAIN live /\ live' = Without(live, {r}) /\ fs' = q1
      /\ UNCHANGED <<class, pendingPages, pendingPartialPages, uncached, pendingReadCount>>
  BY DEF Forward, PassedOn, twinVars, pend
<1>2. \A d \in Caches : Pending(d)' = Pending(d)
  BY <1>1 DEF Pending
<1>3. Forwarded(m) /\ live[r].cache = c /\ c \in Caches /\ m.kind # "read" /\ Bag(fs)
  BY <1>1, BlockingBags DEF MessagesOK, Forwarded, AsksOK
<1>4. SameReads(fs, q1) /\ Bag(q1)
  BY <1>3, TakesNoRead
<1>5. r \notin DOMAIN Pending(c).pages
  BY <1>1, <1>3, BlockingBags DEF ModuleOK
<1> HIDE DEF q1, r, c
<1>6. /\ AloneIn(live) /\ (\A d \in Caches : Waiting(d, Pending(d), fs))
      /\ Gathering(live, fs, uncached, pendingReadCount) /\ class \in TwinClasses
  BY BlockingBags DEF BlockingOK, BlockingInv
<1>7. ReadsOf(fs, c, r) = {}
  BY <1>3, <1>5, <1>6 DEF ReadsOf, Waiting
<1>8. DOMAIN live' = DOMAIN live \ {r} /\ \A s \in DOMAIN live' : live'[s] = live[s]
  BY <1>1 DEF Without
<1>9. \A d, s : ReadsOf(fs', d, s) = ReadsOf(fs, d, s)
  BY <1>1, <1>3, <1>4, SameSent DEF SameReads
<1>10. \A d \in Caches : Waiting(d, Pending(d)', fs')
  BY <1>1, <1>2, <1>3, <1>4, <1>6, WaitingSame DEF SameReads
<1>11. AloneIn(live')
  BY <1>6, <1>8 DEF AloneIn
<1>12. Gathering(live', fs', uncached', pendingReadCount')
  <2>1. \A s \in DOMAIN uncached : s # r /\ s \in DOMAIN live /\ live[s].kind = "write" /\ ReadsOf(fs, live[s].cache, s) # {}
    BY <1>3, <1>6, <1>7 DEF Gathering
  <2>2. \A s \in DOMAIN live' : s \in DOMAIN live /\ live'[s] = live[s]
                                /\ ReadsOf(fs', live[s].cache, s) = ReadsOf(fs, live[s].cache, s)
    BY <1>8, <1>9
  <2>3. \A s \in DOMAIN uncached : s \in DOMAIN live'
    BY <1>8, <2>1
  <2>4. uncached' = uncached /\ pendingReadCount' = pendingReadCount
    BY <1>1
  <2>5. Gathering(live', fs', uncached, pendingReadCount)
    BY <1>6, <2>1, <2>2, <2>3 DEF Gathering
  <2> QED BY <2>4, <2>5
<1>13. /\ AloneIn(live)' /\ (\A d \in Caches : Waiting(d, Pending(d), fs))'
       /\ Gathering(live, fs, uncached, pendingReadCount)'
  <2>1. class' = class
    BY <1>1
  <2> QED BY <1>10, <1>11, <1>12, <2>1 DEF AloneIn, Waiting, Gathering, SentBy, ReadsOf
<1> QED BY <1>1, <1>6, <1>13 DEF BlockingInv

LEMMA BlockingStep ==
  ASSUME BlockingOK, MaxOutstanding = 1, Request \/ Answer
  PROVE  BlockingInv'
<1>0. class # "progressive"
  BY BlockingBags DEF TwinClasses
<1>1. ASSUME NEW c \in Caches, NEW f \in Files, TwinRequest(c, f) PROVE BlockingInv'
  <2>1. CASE \E a \in AccessesOf(f) :
               \/ WriteBypass(c, a) \/ BlockIndexedWrite(c, a)
               \/ class = "blockIndexed" /\ Read(c, a)
               \/ class = "singlePages" /\ (SinglePagesRead(c, a) \/ SinglePagesWrite(c, a))
    <3>1. PICK a \in AccessesOf(f) :
               \/ WriteBypass(c, a) \/ BlockIndexedWrite(c, a)
               \/ class = "blockIndexed" /\ Read(c, a)
               \/ class = "singlePages" /\ (SinglePagesRead(c, a) \/ SinglePagesWrite(c, a))
      BY <2>1
    <3>2. a \in Accesses
      BY DEF AccessesOf
    <3>3. CASE WriteBypass(c, a)
      <4>1. /\ Issue(c) /\ fs' = BagAdd(fs, ToFs(c, "bypass", AllKeys(a), {}, Id))
            /\ UNCHANGED <<uncached, pendingReadCount>>
            /\ CompleteRequests(c, Pending(c), Asked(c, "write", a))
        BY <3>3 DEF WriteBypass
      <4> QED BY <4>1, ForwardWaits
    <3>4. CASE BlockIndexedWrite(c, a)
      BY <3>2, <3>4, BlockIndexedWriteWaits
    <3>5. CASE (class = "blockIndexed" /\ Read(c, a)) \/ (class = "singlePages" /\ SinglePagesRead(c, a))
      BY <3>2, <3>5, ReadWaits
    <3>6. CASE class = "singlePages" /\ SinglePagesWrite(c, a)
      BY <3>2, <3>6, SinglePagesWriteWaits
    <3> QED BY <3>1, <3>3, <3>4, <3>5, <3>6
  <2>2. CASE Open(c, f)
    <3>1. /\ Issue(c) /\ fs' = BagAdd(fs, ToFs(c, "open", {}, {}, Id))
          /\ UNCHANGED <<uncached, pendingReadCount>>
          /\ CompleteRequests(c, Pending(c), Asked(c, "open", OnFile(f)))
      BY <2>2 DEF Open
    <3> QED BY <3>1, ForwardWaits
  <2>3. CASE FakeOpen(c, f)
    <3>1. UNCHANGED <<fs, live, pendingPages, pendingPartialPages, uncached, pendingReadCount>>
      BY <2>3 DEF FakeOpen, pend
    <3> QED BY <3>1, NoneLost
  <2>4. CASE Close(c, f) \/ SinglePagesClose(c, f)
    BY <2>4, CloseWaits
  <2> QED BY <1>1, <2>1, <2>2, <2>3, <2>4
          DEF TwinRequest, BlockIndexed, SinglePages, SinglePagesOpen, SinglePagesFakeOpen, SinglePagesBypass
<1>2. ASSUME NEW m \in DOMAIN fs, TwinAnswer(m) PROVE BlockingInv'
  <2>1. CASE DanglingContext(m)
    <3>1. UNCHANGED <<fs, live, pendingPages, pendingPartialPages, uncached, pendingReadCount>>
      BY <2>1 DEF DanglingContext, Fail, pend
    <3> QED BY <3>1, NoneLost
  <2>2. CASE Forward(m)
    BY <2>2, ForwardAnswerWaits
  <2>3. CASE ReadDone(m) \/ SinglePagesReadRequestDone(m)
    BY <2>3, ReadAnswerWaits
  <2>4. CASE BlockIndexedReadDone(m)
    BY <2>4, BlockIndexedAnswerWaits
  <2>5. CASE class = "singlePages" /\ SinglePagesReadDone(m)
    BY <2>5, SinglePagesAnswerWaits
  <2>6. CASE WrittenBack(m) \/ SinglePagesWrittenBack(m)
    BY <2>6, WriteAnswerWaits
  <2> QED BY <1>2, <2>1, <2>2, <2>3, <2>4, <2>5, <2>6
          DEF TwinAnswer, BlockIndexedAnswer, SinglePagesAnswer, SinglePagesForward
<1> QED BY <1>0, <1>1, <1>2 DEF Request, Answer, BagToSet
-----------------------------------------------------------------------------
LEMMA BlockingInvInit == Init => BlockingInv
<1> SUFFICES ASSUME Init PROVE BlockingInv
  OBVIOUS
<1>1. live = << >> /\ fs = EmptyBag /\ uncached = << >>
  BY DEF Init, NodeInit, TwinInit
<1>2. DOMAIN live = {} /\ DOMAIN uncached = {} /\ DOMAIN fs = {}
  BY <1>1, NothingSent
<1>3. AloneIn(live)
  BY <1>2 DEF AloneIn
<1>4. \A c : SentBy(fs, c, "read") = {}
  BY <1>2 DEF SentBy
<1>5. \A c \in Caches : Waiting(c, Pending(c), fs)
  BY <1>4 DEF Waiting
<1>6. Gathering(live, fs, uncached, pendingReadCount)
  BY <1>2 DEF Gathering
<1> QED BY <1>1, <1>3, <1>5, <1>6 DEF BlockingInv

\* The invariant of a node whose processes make blocking calls.
Blocking == MaxOutstanding = 1 => BlockingInv

LEMMA BlockingNext == CacheInv /\ Blocking /\ [Next]_vars => Blocking'
<1> SUFFICES ASSUME CacheInv, [Next]_vars, MaxOutstanding = 1, BlockingInv PROVE BlockingInv'
  BY DEF Blocking
<1>1. CacheInv'
  BY CacheInvNext
<1>2. CASE UNCHANGED vars
  <2>1. UNCHANGED <<class, fs, live, pendingPages, pendingPartialPages, uncached, pendingReadCount>>
    BY <1>2 DEF vars, nodeVars, twinVars, pend
  <2> QED BY <2>1 DEF BlockingInv, AloneIn, Waiting, Gathering, SentBy, ReadsOf, Pending
<1>3. CASE Request \/ Answer
  <2>1. class' = class
    BY <1>3, ClassStays DEF Next
  <2>2. CASE class \in TwinClasses
    <3>1. BlockingOK
      BY <1>1, <2>1, <2>2 DEF BlockingOK, TwinOK, CacheInv
    <3> QED BY <1>3, <3>1, BlockingStep
  <2>3. CASE class \notin TwinClasses
    <3>1. UNCHANGED twinVars
      BY <1>3, <2>3 DEF Request, Answer
    <3>2. uncached' = uncached
      BY <3>1 DEF twinVars
    <3>3. class' \notin TwinClasses /\ uncached' = << >>
      BY <2>1, <2>3, <3>2 DEF BlockingInv
    <3> QED BY <3>3 DEF BlockingInv, TwinClasses
  <2> QED BY <2>2, <2>3
<1>4. CASE Ended
  BY <1>2, <1>4 DEF Ended
<1> QED BY <1>2, <1>3, <1>4 DEF Next
-----------------------------------------------------------------------------
\* What a progressive request waits for is at the file system, and every write
\* message there is registered, as often as it was sent: the entry of request
\* 0, which takes the writes of evicted pages, misses none.
THEOREM ProgressiveRequestsWait == Spec => []ProgressiveIsAtFs
<1>1. ProgressiveInv => ProgressiveIsAtFs
  BY DEF ProgressiveInv, ProgressiveIsAtFs, Accounted, WaitsFor, SentFor, ReadKeys, AtFs, BagToSet
<1> QED BY <1>1, ProgressiveInvInit, ProgressiveInvNext, PTL DEF Spec

\* When the last close of a file is answered, no write of the file is on its
\* way, whichever request or process it was sent for.
THEOREM CloseWaitsForWrites == Spec => CloseEndsWrites
<1>1. ProgressiveInv /\ [Next]_vars => [ClosesEndWrites]_vars
  BY ProgressiveInvNext
<1>2. Spec => [][ClosesEndWrites]_vars
  BY <1>1, ProgressiveInvInit, ProgressiveInvNext, PTL DEF Spec
<1> QED BY <1>2 DEF CloseEndsWrites, ClosesEndWrites

\* The page cache of a node, with twins or progressive, is within its capacity
\* and in LRU order, and what a request waits for is at the file system: its
\* pages, and exactly as many region writes as its count says.
THEOREM PageCachesConsistent == Spec => []CacheConsistent
<1>1. CacheInv => ProgressiveIsAtFs
  BY DEF CacheInv, ProgressiveInv, ProgressiveIsAtFs, Accounted, WaitsFor, SentFor, ReadKeys, AtFs, BagToSet
<1>2. CacheInv => CacheConsistent
  BY <1>1, CacheTyped, TwinsWait DEF CacheConsistent, PendingIsAtFs
<1> QED BY <1>2, CacheInvInit, CacheInvNext, PTL DEF Spec

\* A region written to a page of the cache stays there until a write of it is
\* sent or the page is written over, whatever evicts the page, reads it or
\* closes its file.  A full page of a progressive cache is written in full; of a
\* partial one a message is sent, which writes a byte of it.
THEOREM DirtyRegionsKept == Spec => NoDirtyRegionLost
<1>1. CacheInv /\ [Next]_vars => [DirtyKept]_vars
  <2> SUFFICES ASSUME CacheInv, [Next]_vars, vars' # vars PROVE DirtyKept
    OBVIOUS
  <2>1. CacheInv' /\ RegionsStay /\ class' = class
    BY CacheInvNext, ClassStays
  <2> QED BY <2>1, DirtyStays
<1>2. Spec => [][DirtyKept]_vars
  BY <1>1, CacheInvInit, CacheInvNext, PTL DEF Spec
<1> QED BY <1>2 DEF NoDirtyRegionLost, DirtyKept

\* When calls block, a write is answered only after all of its pages have gone
\* through the cache: a read it waits for is its own, no other answer resolves
\* its pages, and it is complete only when the last read has come.
THEOREM BlockingWritesReachTheCache == MaxOutstanding = 1 => (Spec => []AnsweredWritesWereCached)
<1> SUFFICES ASSUME MaxOutstanding = 1 PROVE Spec => []AnsweredWritesWereCached
  OBVIOUS
<1>1. CacheInv /\ Blocking => AnsweredWritesWereCached
  <2> SUFFICES ASSUME BlockingInv, CacheInv PROVE DOMAIN uncached \subseteq DOMAIN live
    BY DEF Blocking, AnsweredWritesWereCached
  <2>1. CASE class \in TwinClasses
    BY <2>1 DEF BlockingInv, Gathering
  <2>2. CASE class \notin TwinClasses
    BY <2>2 DEF BlockingInv
  <2> QED BY <2>1, <2>2
<1>2. Init => Blocking
  BY BlockingInvInit DEF Blocking
<1> QED BY <1>1, <1>2, CacheInvInit, CacheInvNext, BlockingNext, PTL DEF Spec
=============================================================================
