------------------------ MODULE CollectiveTreeProofs ------------------------
(***************************************************************************)
(* Sending the second half of the remaining handles away until none remain *)
(* (sendCollectiveRequests) gives every handle to exactly one child, and no*)
(* child nothing; the counter in each request of a collective operation is *)
(* exact: for any number of data objects and however the answers of disks  *)
(* and servers interleave.  To its client the operation, however its tree  *)
(* unfolds, is CollectiveOp: every object is processed exactly once, the   *)
(* directory entry after all others, and the response is last.             *)
(***************************************************************************)
EXTENDS CollectiveTree, FiniteSetTheorems, TLAPS

\* The powers of two, which count the subsets of an interval.
LEMMA PowerCountsSubsets ==
  ASSUME NEW i \in Nat
  PROVE  /\ IsFiniteSet(SUBSET (1 .. i)) /\ Cardinality(SUBSET (1 .. i)) = 2 ^ i
         /\ 2 ^ i \in Nat
<1>1. IsFiniteSet(1 .. i) /\ Cardinality(1 .. i) = i
  BY FS_Interval
<1>2. IsFiniteSet(SUBSET (1 .. i)) /\ Cardinality(SUBSET (1 .. i)) = 2 ^ i
  BY <1>1, FS_SUBSET
<1> QED BY <1>2, FS_CardinalityType

LEMMA PowersGrow ==
  ASSUME NEW i \in Nat, NEW j \in Nat, i <= j
  PROVE  2 ^ i <= 2 ^ j
<1> DEFINE low == SUBSET (1 .. i)
           all == SUBSET (1 .. j)
<1>1. low \in SUBSET all
  OBVIOUS
<1>2. IsFiniteSet(all) /\ Cardinality(all) = 2 ^ j /\ Cardinality(low) = 2 ^ i
  BY PowerCountsSubsets
<1>3. Cardinality(low) <= Cardinality(all)
  <2> HIDE DEF low, all
  <2> QED BY <1>1, <1>2, FS_Subset
<1> QED BY <1>2, <1>3

\* The empty set and the singletons alone are more than i.
LEMMA PowerAbove ==
  ASSUME NEW i \in Nat
  PROVE  i < 2 ^ i
<1> DEFINE f == [x \in 0 .. i |-> IF x = 0 THEN {} ELSE {x}]
<1>1. f \in Injection(0 .. i, SUBSET (1 .. i))
  BY SMTT(30) DEF Injection, IsInjective
<1>2. Cardinality(0 .. i) <= 2 ^ i
  BY <1>1, PowerCountsSubsets, FS_Injection
<1>3. Cardinality(0 .. i) = i + 1
  BY FS_Interval
<1> QED BY <1>2, <1>3, PowerCountsSubsets

\* With i + 1 or without it: a subset of 1 .. i + 1 is one of two.
LEMMA PowerDoubles ==
  ASSUME NEW i \in Nat
  PROVE  2 ^ (i + 1) = 2 * 2 ^ i
<1> DEFINE low == SUBSET (1 .. i)
           all == SUBSET (1 .. i + 1)
           high == all \ low
           f == [X \in low |-> X \union {i + 1}]
<1>1. f \in Bijection(low, high)
  <2>1. f \in [low -> high]
    <3>1. ASSUME NEW X \in low PROVE X \union {i + 1} \in high
      BY <3>1
    <3> QED BY <3>1
  <2>2. \A X, Y \in low : f[X] = f[Y] => X = Y
    <3>1. ASSUME NEW X \in low, NEW Y \in low, X \union {i + 1} = Y \union {i + 1} PROVE X = Y
      <4>1. i + 1 \notin X /\ i + 1 \notin Y
        OBVIOUS
      <4> QED BY <3>1, <4>1
    <3> QED BY <3>1
  <2>3. \A Y \in high : \E X \in low : f[X] = Y
    <3>1. ASSUME NEW Y \in high PROVE f[Y \ {i + 1}] = Y /\ Y \ {i + 1} \in low
      <4>1. Y \ {i + 1} \in low
        BY <3>1
      <4>2. i + 1 \in Y
        BY <3>1
      <4> QED BY <4>1, <4>2
    <3> QED BY <3>1
  <2> QED BY <2>1, <2>2, <2>3 DEF Bijection, Injection, Surjection, IsInjective
<1>2. IsFiniteSet(low) /\ Cardinality(low) = 2 ^ i /\ 2 ^ i \in Nat
  BY PowerCountsSubsets
<1>3. IsFiniteSet(high) /\ Cardinality(high) = 2 ^ i
  BY <1>1, <1>2, FS_Bijection DEF ExistsBijection
<1>4. low \cup high = all /\ low \cap high = {}
  OBVIOUS
<1>5. Cardinality(all) = Cardinality(low) + Cardinality(high) - Cardinality({})
  <2> HIDE DEF low, high, all
  <2> QED BY <1>2, <1>3, <1>4, FS_Union
<1>6. Cardinality(all) = 2 ^ (i + 1)
  <2>1. i + 1 \in Nat
    OBVIOUS
  <2> QED BY <2>1, PowerCountsSubsets
<1> QED BY <1>2, <1>3, <1>5, <1>6, FS_EmptySet

\* A set of numbers that has every number below each of its own is an interval.
LEMMA InitialSegment ==
  ASSUME NEW n \in Nat, NEW S \in SUBSET (0 .. n), \A x \in S : \A y \in 0 .. x : y \in S
  PROVE  Cardinality(S) \in Nat /\ Cardinality(S) <= n + 1 /\ S = 0 .. Cardinality(S) - 1
<1> DEFINE k == Cardinality(S)
<1>1. IsFiniteSet(0 .. n) /\ Cardinality(0 .. n) = n + 1
  BY FS_Interval
<1>2. IsFiniteSet(S) /\ k \in Nat /\ k <= n + 1
  <2>1. IsFiniteSet(S) /\ Cardinality(S) <= n + 1
    BY <1>1, FS_Subset
  <2> QED BY <2>1, FS_CardinalityType
<1>3. ASSUME NEW x \in S, x >= k PROVE FALSE
  <2>1. 0 .. x \in SUBSET S /\ x \in Nat
    BY <1>3
  <2>2. Cardinality(0 .. x) <= k
    BY <1>2, <2>1, FS_Subset
  <2>3. Cardinality(0 .. x) = x + 1
    BY <2>1, FS_Interval
  <2> QED BY <1>2, <1>3, <2>1, <2>2, <2>3
<1>4. S \in SUBSET (0 .. k - 1)
  BY <1>2, <1>3
<1>5. IsFiniteSet(0 .. k - 1) /\ Cardinality(0 .. k - 1) = k
  <2>1. k - 1 \in Int /\ 0 \in Int /\ (IF 0 > k - 1 THEN 0 ELSE k - 1 - 0 + 1) = k
    BY <1>2
  <2> HIDE DEF k
  <2> QED BY <2>1, FS_Interval
<1>6. S = 0 .. k - 1
  BY <1>4, <1>5, FS_Subset
<1> QED BY <1>2, <1>6
-----------------------------------------------------------------------------
\* What is left of n handles after i rounds.
Left(n, i) == n \div 2 ^ i

LEMMA DivBounds ==
  ASSUME NEW n \in Nat, NEW b \in Nat \ {0}
  PROVE  /\ n \div b \in Nat /\ (n \div b) * b <= n /\ n < (n \div b + 1) * b
         /\ b <= n => n \div b >= 1
         /\ n < b => n \div b = 0
  OBVIOUS

LEMMA MulGrows ==
  ASSUME NEW a \in Nat, NEW b \in Nat, NEW c \in Nat, b <= c
  PROVE  a * b <= a * c /\ b * a <= c * a
  OBVIOUS

LEMMA LeftFalls ==
  ASSUME NEW n \in Nat, NEW i \in Nat
  PROVE  /\ Left(n, i) \in Nat /\ Left(n, i) <= n /\ Left(n, 0) = n
         /\ \A j \in Nat : i <= j => Left(n, j) <= Left(n, i)
         /\ 2 ^ i <= n => Left(n, i + 1) < Left(n, i)
         /\ n < 2 ^ i => Left(n, i) = 0
<1>1. ASSUME NEW j \in Nat, i <= j PROVE Left(n, j) <= Left(n, i)
  <2> DEFINE b == 2 ^ i  c == 2 ^ j  q == n \div b  r == n \div c
  <2>1. b \in Nat \ {0} /\ c \in Nat \ {0} /\ b <= c
    BY <1>1, PowerCountsSubsets, PowerAbove, PowersGrow
  <2> HIDE DEF b, c
  <2>2. q \in Nat /\ r \in Nat /\ n < (q + 1) * b /\ r * c <= n
    BY <2>1, DivBounds
  <2> HIDE DEF q, r
  <2>3. r * b <= r * c
    BY <2>1, <2>2, MulGrows
  <2>4. ASSUME q + 1 <= r PROVE FALSE
    <3>1. (q + 1) * b <= r * b
      BY <2>1, <2>2, <2>4, MulGrows
    <3> QED BY <2>1, <2>2, <2>3, <3>1
  <2>5. r <= q
    BY <2>2, <2>4
  <2> QED BY <2>5 DEF Left, q, r, b, c
<1>2. 2 ^ 0 = 1
  OBVIOUS
<1>3. Left(n, 0) = n
  BY <1>2 DEF Left
<1> DEFINE b == 2 ^ i
<1>4. b \in Nat \ {0}
  BY PowerCountsSubsets, PowerAbove
<1>5. Left(n, i) \in Nat /\ (n < b => Left(n, i) = 0)
  <2> HIDE DEF b
  <2>1. n \div b \in Nat /\ (n < b => n \div b = 0)
    BY <1>4, DivBounds
  <2> QED BY <2>1 DEF Left, b
<1>6. ASSUME b <= n PROVE Left(n, i + 1) < Left(n, i)
  <2> DEFINE c == 2 ^ (i + 1)  q == n \div b  r == n \div c
  <2>1. c = 2 * b /\ c \in Nat \ {0}
    BY <1>4, PowerDoubles
  <2> HIDE DEF b, c
  <2>2. q \in Nat /\ q >= 1 /\ r \in Nat /\ n < (q + 1) * b /\ r * c <= n
    BY <1>4, <1>6, <2>1, DivBounds
  <2> HIDE DEF q, r
  <2>3. r * c = (2 * r) * b
    BY <1>4, <2>1, <2>2
  <2>4. ASSUME q <= r PROVE FALSE
    <3>1. (q + 1) * b <= (2 * r) * b
      BY <1>4, <2>2, <2>4, MulGrows
    <3> QED BY <1>4, <2>2, <2>3, <3>1
  <2>5. r < q
    BY <2>2, <2>4
  <2> QED BY <2>5 DEF Left, q, r, b, c
<1>7. Left(n, i) <= n
  <2>1. \A j \in Nat : 0 <= j => Left(n, j) <= Left(n, 0)
    <3> SUFFICES ASSUME NEW j \in Nat PROVE Left(n, j) <= n
      BY <1>3
    <3> DEFINE c == 2 ^ j
    <3>1. c \in Nat \ {0}
      BY PowerCountsSubsets, PowerAbove
    <3> HIDE DEF c
    <3>2. n \div c <= n
      BY <3>1
    <3> QED BY <3>2 DEF Left, c
  <2> QED BY <1>3, <2>1
<1> QED BY <1>1, <1>3, <1>5, <1>6, <1>7

\* The rounds are those that find a handle left, and after them none is.
LEMMA RoundsEnd ==
  ASSUME NEW n \in Nat
  PROVE  /\ Rounds(n) \in Nat /\ n < 2 ^ Rounds(n)
         /\ \A i \in Nat : i < Rounds(n) => 2 ^ i <= n
<1> DEFINE S == {i \in 0 .. n : 2 ^ i <= n}
           k == Rounds(n)
<1>1. k = Cardinality(S)
  BY DEF Rounds
<1>2. ASSUME NEW x \in S, NEW y \in 0 .. x PROVE y \in S
  <2>1. x \in Nat /\ y \in Nat /\ y <= x /\ y \in 0 .. n /\ 2 ^ x <= n
    BY <1>2
  <2>2. 2 ^ y <= 2 ^ x /\ 2 ^ x \in Nat /\ 2 ^ y \in Nat
    BY <2>1, PowersGrow, PowerCountsSubsets
  <2>3. 2 ^ y <= n
    BY <2>1, <2>2
  <2> QED BY <2>1, <2>3
<1>3. S \in SUBSET (0 .. n)
  OBVIOUS
<1>4. k \in Nat /\ k <= n + 1 /\ S = 0 .. k - 1
  <2> HIDE DEF S, k
  <2> QED BY <1>1, <1>2, <1>3, InitialSegment
<1>5. n < 2 ^ k
  <2>1. 2 ^ k \in Nat /\ k < 2 ^ k
    BY <1>4, PowerCountsSubsets, PowerAbove
  <2>2. CASE k <= n
    <3>1. k \notin S /\ k \in 0 .. n
      BY <1>4, <2>2
    <3>2. ~(2 ^ k <= n)
      BY <3>1
    <3> QED BY <2>1, <3>2
  <2>3. CASE k = n + 1
    BY <2>1, <2>3
  <2> QED BY <1>4, <2>2, <2>3
<1>6. ASSUME NEW i \in Nat, i < k PROVE 2 ^ i <= n
  <2>1. i \in S
    BY <1>4, <1>6
  <2> QED BY <2>1
<1> QED BY <1>4, <1>5, <1>6

\* Every handle goes out in one round, and every round sends one.
LEMMA RoundsPartition ==
  ASSUME NEW n \in Nat
  PROVE  /\ \A i \in 1 .. Rounds(n) : 0 <= Left(n, i) /\ Left(n, i) < Left(n, i - 1) /\ Left(n, i - 1) <= n
         /\ \A j \in 1 .. n : \E i \in 1 .. Rounds(n) : Left(n, i) < j /\ j <= Left(n, i - 1)
         /\ \A i \in 1 .. Rounds(n), h \in 1 .. Rounds(n) : i < h => Left(n, h - 1) <= Left(n, i)
<1> DEFINE k == Rounds(n)
<1>1. k \in Nat /\ n < 2 ^ k /\ \A i \in Nat : i < k => 2 ^ i <= n
  BY RoundsEnd
<1> HIDE DEF k
<1>2. ASSUME NEW i \in 1 .. k
      PROVE  0 <= Left(n, i) /\ Left(n, i) < Left(n, i - 1) /\ Left(n, i - 1) <= n
  <2>1. i \in Nat /\ i - 1 \in Nat /\ i - 1 < k /\ (i - 1) + 1 = i
    BY <1>1
  <2>2. 2 ^ (i - 1) <= n
    BY <1>1, <2>1
  <2>3. Left(n, (i - 1) + 1) < Left(n, i - 1) /\ Left(n, i - 1) <= n
    BY <2>1, <2>2, LeftFalls
  <2>4. Left(n, i) \in Nat
    BY <2>1, LeftFalls
  <2> QED BY <2>1, <2>3, <2>4
<1>3. ASSUME NEW j \in 1 .. n PROVE \E i \in 1 .. k : Left(n, i) < j /\ j <= Left(n, i - 1)
  <2> DEFINE T == {i \in 0 .. k : Left(n, i) >= j}
             t == Cardinality(T)
  <2>1. ASSUME NEW x \in T, NEW y \in 0 .. x PROVE y \in T
    <3>1. x \in Nat /\ y \in Nat /\ y <= x /\ y \in 0 .. k /\ Left(n, x) >= j
      BY <1>1, <2>1
    <3>2. Left(n, x) <= Left(n, y) /\ Left(n, x) \in Nat /\ Left(n, y) \in Nat
      BY <3>1, LeftFalls
    <3> QED BY <3>1, <3>2
  <2>2. T \in SUBSET (0 .. k)
    OBVIOUS
  <2>3. t \in Nat /\ t <= k + 1 /\ T = 0 .. t - 1
    <3> HIDE DEF T
    <3> QED BY <1>1, <2>1, <2>2, InitialSegment
  <2>4. 0 \in T
    BY <1>1, LeftFalls
  <2>5. Left(n, k) = 0
    BY <1>1, LeftFalls
  <2>6. k \notin T
    BY <2>5
  <2> HIDE DEF t
  <2>7. t \in 1 .. k /\ t \notin T /\ t - 1 \in T
    BY <1>1, <2>3, <2>4, <2>6
  <2>8. t \in Nat /\ Left(n, t) \in Nat /\ Left(n, t) < j /\ j <= Left(n, t - 1)
    BY <1>1, <2>7, LeftFalls
  <2> QED BY <2>7, <2>8
<1>4. ASSUME NEW i \in 1 .. k, NEW h \in 1 .. k, i < h PROVE Left(n, h - 1) <= Left(n, i)
  <2>1. i \in Nat /\ h - 1 \in Nat /\ i <= h - 1
    BY <1>1, <1>4
  <2> QED BY <2>1, LeftFalls
<1> QED BY <1>2, <1>3, <1>4 DEF k
-----------------------------------------------------------------------------
Different(s) == \A j, k \in 1 .. Len(s) : s[j] = s[k] => j = k

\* A part is the handles from one count of what is left to the next.
LEMMA PartElements ==
  ASSUME NEW S, NEW data \in Seq(S), NEW i \in 1 .. Rounds(Len(data))
  PROVE  LET n == Len(data) IN
         /\ Part(data, i) \in Seq(S) /\ Part(data, i) # << >>
         /\ Len(Part(data, i)) = Left(n, i - 1) - Left(n, i) /\ Len(Part(data, i)) \in Nat \ {0}
         /\ \A j \in 1 .. Len(Part(data, i)) : /\ Part(data, i)[j] = data[Left(n, i) + j]
                                               /\ Left(n, i) + j \in 1 .. n
<1> DEFINE n == Len(data)
           a == Left(n, i)
           b == Left(n, i - 1)
           part == SubSeq(data, a + 1, b)
<1>1. n \in Nat /\ data \in Seq(S)
  OBVIOUS
<1>2. Rounds(n) \in Nat
  BY <1>1, RoundsEnd
<1>3. 0 <= a /\ a < b /\ b <= n
  BY <1>1, RoundsPartition
<1>4. i \in Nat /\ i - 1 \in Nat
  BY <1>2
<1>5. a \in Nat /\ b \in Nat
  BY <1>1, <1>4, LeftFalls
<1>6. Part(data, i) = part
  BY DEF Part, Left
<1> HIDE DEF a, b
<1>7. part \in Seq(S) /\ Len(part) = b - a
  BY <1>1, <1>3, <1>5
<1>8. \A j \in 1 .. b - a : part[j] = data[a + j] /\ a + j \in 1 .. n
  <2> TAKE j \in 1 .. b - a
  <2>1. part[j] = data[a + 1 + j - 1]
    BY <1>1, <1>3, <1>5
  <2>2. a + 1 + j - 1 = a + j /\ a + j \in 1 .. n
    BY <1>1, <1>3, <1>5
  <2> QED BY <2>1, <2>2
<1> HIDE DEF part
<1>9. Len(part) \in Nat \ {0} /\ part # << >>
  BY <1>3, <1>5, <1>7
<1> QED BY <1>6, <1>7, <1>8, <1>9 DEF a, b

\* The parts hold what the data holds, and no two of them the same handle.
THEOREM PartsShareOut ==
  ASSUME NEW S, NEW data \in Seq(S)
  PROVE  LET parts == 1 .. Rounds(Len(data)) IN
         /\ ToSet(data) = UNION {ToSet(Part(data, i)) : i \in parts}
         /\ Different(data) =>
              /\ \A i \in parts : Different(Part(data, i))
              /\ \A i, h \in parts : i # h => ToSet(Part(data, i)) \cap ToSet(Part(data, h)) = {}
<1> DEFINE n == Len(data)
           k == Rounds(n)
<1>1. n \in Nat /\ k \in Nat /\ DOMAIN data = 1 .. n
  BY RoundsEnd
<1> HIDE DEF k
<1>2. ASSUME NEW i \in 1 .. k
      PROVE  i \in Nat /\ i - 1 \in Nat /\ Left(n, i) \in Nat /\ Left(n, i - 1) \in Nat
  <2>1. i \in Nat /\ i - 1 \in Nat
    BY <1>1
  <2> HIDE DEF n
  <2> QED BY <1>1, <2>1, LeftFalls
<1>3. ASSUME NEW i \in 1 .. k
      PROVE  ToSet(Part(data, i)) = {data[j] : j \in Left(n, i) + 1 .. Left(n, i - 1)}
  <2> DEFINE part == Part(data, i)
             a == Left(n, i)
             b == Left(n, i - 1)
  <2>1. part \in Seq(S) /\ Len(part) = b - a /\ \A j \in 1 .. b - a : part[j] = data[a + j]
    BY <1>3, PartElements DEF k
  <2>2. a \in Nat /\ b \in Nat
    BY <1>2
  <2> HIDE DEF part, a, b
  <2>3. DOMAIN part = 1 .. b - a
    BY <2>1, <2>2
  <2>4. \A j \in 1 .. b - a : a + j \in a + 1 .. b
    BY <2>2
  <2>5. \A j \in a + 1 .. b : j - a \in 1 .. b - a /\ j = a + (j - a)
    BY <2>2
  <2>6. ToSet(part) = {data[j] : j \in a + 1 .. b}
    BY <2>1, <2>3, <2>4, <2>5 DEF ToSet
  <2> QED BY <2>6 DEF part, a, b
<1>4. ToSet(data) = UNION {ToSet(Part(data, i)) : i \in 1 .. k}
  <2>1. ASSUME NEW x \in ToSet(data)
        PROVE  \E i \in 1 .. k : x \in ToSet(Part(data, i))
    <3>1. PICK j \in 1 .. n : x = data[j]
      BY <1>1, <2>1 DEF ToSet
    <3>2. PICK i \in 1 .. k : Left(n, i) < j /\ j <= Left(n, i - 1)
      BY <1>1, <3>1, RoundsPartition DEF k
    <3>3. j \in Left(n, i) + 1 .. Left(n, i - 1)
      BY <1>2, <3>1, <3>2
    <3> QED BY <1>3, <3>1, <3>3
  <2>2. ASSUME NEW i \in 1 .. k, NEW x \in ToSet(Part(data, i))
        PROVE  x \in ToSet(data)
    <3>1. PICK j \in Left(n, i) + 1 .. Left(n, i - 1) : x = data[j]
      BY <1>3, <2>2
    <3>2. Left(n, i - 1) <= n
      BY <1>1, <2>2, RoundsPartition DEF k
    <3>3. j \in 1 .. n
      BY <1>1, <1>2, <3>1, <3>2
    <3> QED BY <1>1, <3>1, <3>3 DEF ToSet
  <2> QED BY <2>1, <2>2
<1>5. ASSUME Different(data), NEW i \in 1 .. k
      PROVE  Different(Part(data, i))
  <2> DEFINE part == Part(data, i)
             a == Left(n, i)
  <2>1. /\ Len(part) \in Nat
        /\ \A j \in 1 .. Len(part) : part[j] = data[a + j] /\ a + j \in 1 .. n
    BY <1>5, PartElements DEF k
  <2>2. a \in Nat
    BY <1>2
  <2> HIDE DEF part, a
  <2>3. ASSUME NEW j \in 1 .. Len(part), NEW h \in 1 .. Len(part), part[j] = part[h]
        PROVE  j = h
    <3>1. data[a + j] = data[a + h] /\ a + j \in 1 .. n /\ a + h \in 1 .. n
      BY <2>1, <2>3
    <3>2. a + j = a + h
      BY <1>5, <3>1 DEF Different
    <3> QED BY <2>1, <2>2, <3>2
  <2> QED BY <2>3 DEF Different, part
<1>6. ASSUME Different(data), NEW i \in 1 .. k, NEW h \in 1 .. k, i < h,
             NEW x \in ToSet(Part(data, i)) \cap ToSet(Part(data, h))
      PROVE  FALSE
  <2>1. PICK j \in Left(n, i) + 1 .. Left(n, i - 1) : x = data[j]
    BY <1>3, <1>6
  <2>2. PICK g \in Left(n, h) + 1 .. Left(n, h - 1) : x = data[g]
    BY <1>3, <1>6
  <2>3. Left(n, h - 1) <= Left(n, i) /\ Left(n, i - 1) <= n /\ Left(n, h - 1) <= n
    BY <1>1, <1>6, RoundsPartition DEF k
  <2>4. j \in 1 .. n /\ g \in 1 .. n /\ g < j
    BY <1>1, <1>2, <2>1, <2>2, <2>3
  <2>5. j = g
    BY <1>6, <2>1, <2>2, <2>4 DEF Different
  <2> QED BY <2>4, <2>5
<1>7. ASSUME Different(data), NEW i \in 1 .. k, NEW h \in 1 .. k, i # h
      PROVE  ToSet(Part(data, i)) \cap ToSet(Part(data, h)) = {}
  <2>1. i < h \/ h < i
    BY <1>1, <1>7
  <2> QED BY <1>6, <1>7, <2>1
<1> QED BY <1>4, <1>5, <1>7 DEF k
-----------------------------------------------------------------------------
Path == Seq(Int)

\* A child's path is its parent's and a number.
LEMMA ChildPath ==
  ASSUME NEW p \in Path, NEW i \in Int
  PROVE  /\ Append(p, i) \in Path /\ Append(p, i) # Root
         /\ Front(Append(p, i)) = p /\ Last(Append(p, i)) = i
         /\ Append(p, i) # p
<1>1. Len(Append(p, i)) = Len(p) + 1 /\ Len(p) \in Nat /\ Append(p, i) \in Path
  BY DEF Path
<1>2. Append(p, i) # Root /\ Append(p, i) # p
  BY <1>1 DEF Root
<1>3. Last(Append(p, i)) = i
  BY <1>1 DEF Last, Path
<1>4. Front(Append(p, i)) = p
  <2>1. Front(Append(p, i)) = SubSeq(Append(p, i), 1, Len(p))
    BY <1>1 DEF Front
  <2>2. SubSeq(Append(p, i), 1, Len(p)) \in Seq(Int)
        /\ Len(SubSeq(Append(p, i), 1, Len(p))) = Len(p)
    BY <1>1 DEF Path
  <2>3. \A k \in 1 .. Len(p) : SubSeq(Append(p, i), 1, Len(p))[k] = p[k]
    BY <1>1 DEF Path
  <2> QED BY <2>1, <2>2, <2>3 DEF Path
<1> QED BY <1>1, <1>2, <1>3, <1>4

LEMMA PathOfChild ==
  ASSUME NEW c \in Path, c # Root
  PROVE  /\ Front(c) \in Path /\ Last(c) \in Int /\ c = Append(Front(c), Last(c))
         /\ Len(Front(c)) = Len(c) - 1 /\ Len(c) \in Nat
<1>1. Len(c) \in Nat /\ Len(c) # 0
  BY DEF Path, Root
<1>2. Front(c) \in Path /\ Len(Front(c)) = Len(c) - 1
  <2>1. c \in Seq(Int) /\ Len(c) - 1 \in Nat /\ Len(c) - 1 <= Len(c)
    BY <1>1 DEF Path
  <2>2. SubSeq(c, 1, Len(c) - 1) \in Seq(Int) /\ Len(SubSeq(c, 1, Len(c) - 1)) = Len(c) - 1
    BY SMTT(30), <2>1
  <2> QED BY <2>2 DEF Front, Path
<1>3. Last(c) \in Int
  BY <1>1 DEF Last, Path
<1>4. c = Append(Front(c), Last(c))
  <2>1. Append(Front(c), Last(c)) \in Seq(Int) /\ Len(Append(Front(c), Last(c))) = Len(c)
    BY <1>1, <1>2, <1>3 DEF Path
  <2>2. \A k \in 1 .. Len(c) : Append(Front(c), Last(c))[k] = c[k]
    BY <1>1, <1>2, <1>3 DEF Path, Front, Last
  <2> QED BY <2>1, <2>2 DEF Path
<1> QED BY <1>1, <1>2, <1>3, <1>4
-----------------------------------------------------------------------------
Types == {"DIR_ENT", "METADATA", "DATA", "SET_ATTR"}

States == {"INIT", "SEND_META", "CREATE_META", "WAIT_FOR_RESPONSE", "SET_ATTR", "WRITE_ATTR",
           "CREATE_DIR_ENT", "REMOVE_DIRENT", "FINISH", "DELETED"}

Messages(o) == [type : Types, handle : ObjectsOf(o), data : Seq(DataHandles),
                state : States, outstanding : Nat, disk : BOOLEAN]

Fresh(m) == m.state = "INIT" /\ ~m.disk /\ m.outstanding = 0

Running(p) == {c \in DataChildren(p) : node[c].state # "DELETED"}
AllDeleted(S) == \A c \in S : node[c].state = "DELETED"

\* The data requests of a node share its data handles out.
Partitioned(p) ==
  /\ ToSet(node[p].data) = UNION {Addressed(c) : c \in DataChildren(p)}
  /\ \A c, d \in DataChildren(p) : c # d => Addressed(c) \cap Addressed(d) = {}
  /\ \A c \in DataChildren(p) : node[c].handle \notin ToSet(node[c].data)

\* Messages that carry no data handles, whatever the operation is.
NoData(m) == m.type = "SET_ATTR" \/ (m.type = "METADATA" /\ op # "get_attr")

MessageOK(m) ==
  /\ m \in Messages(op) /\ Different(m.data)
  /\ m.type = "DIR_ENT" => op # "get_attr"
  /\ NoData(m) => m.data = << >>

\* What the state of a node's machine says of its children: the counter
\* matters in one state, and in that state nothing but data requests run.
NodeOK(p) ==
  /\ MessageOK(node[p])
  /\ node[p].state = "INIT" => ChildrenOf(p) = {} /\ Fresh(node[p])
  /\ node[p].state = "SEND_META" =>
       /\ ChildrenOf(p) = {MetaChild(p)} /\ DataChildren(p) = {}
       /\ ~node[p].disk /\ node[p].outstanding = 0
  /\ node[p].state \notin {"INIT", "SEND_META"} => Partitioned(p)
  /\ node[p].state = "WAIT_FOR_RESPONSE" =>
       /\ IsFiniteSet(Running(p))
       /\ node[p].outstanding = (IF node[p].disk THEN 1 ELSE 0) + Cardinality(Running(p))
       /\ AllDeleted(ChildrenOf(p) \ DataChildren(p))
       /\ AttrChild(p) \notin ChildrenOf(p)
  /\ node[p].state = "SET_ATTR" => ~node[p].disk /\ AllDeleted(ChildrenOf(p) \ {AttrChild(p)})
  /\ node[p].state \in {"CREATE_META", "WRITE_ATTR", "CREATE_DIR_ENT", "REMOVE_DIRENT",
                        "FINISH", "DELETED"} => AllDeleted(ChildrenOf(p))
  /\ node[p].state \in {"FINISH", "DELETED"} => ~node[p].disk

IInv ==
  /\ op \in Operations
  /\ Nodes \subseteq Path /\ Root \in Nodes
  /\ \A c \in Nodes \ {Root} : Front(c) \in Nodes
  /\ \A p \in Nodes : NodeOK(p)
-----------------------------------------------------------------------------
LEMMA MessageFields ==
  ASSUME NEW type, NEW handle, NEW data
  PROVE  LET m == Message(type, handle, data)
         IN  m.type = type /\ m.handle = handle /\ m.data = data /\ Fresh(m)
BY DEF Message, Fresh

LEMMA MessageTyped ==
  ASSUME NEW type \in Types, NEW handle \in ObjectsOf(op), NEW data \in Seq(DataHandles)
  PROVE  Message(type, handle, data) \in Messages(op)
BY DEF Message, Messages, States

LEMMA Handles == /\ DataHandles \subseteq ObjectsOf(op) /\ Meta \in ObjectsOf(op)
                 /\ op # "get_attr" => DirEnt \in ObjectsOf(op)
                 /\ op = "create" => Attr \in ObjectsOf(op)
BY DEF ObjectsOf

LEMMA EmptyData == << >> \in Seq(DataHandles) /\ Different(<< >>) /\ ToSet(<< >>) = {}
BY DEF Different, ToSet

\* A message deleted keeps everything but its state.
LEMMA DeletedMessage ==
  ASSUME NEW m \in Messages(op), NEW n, n = [m EXCEPT !.state = "DELETED"]
  PROVE  /\ n.state = "DELETED" /\ n.disk = m.disk /\ n.type = m.type
         /\ n.data = m.data /\ n.handle = m.handle /\ n \in Messages(op)
BY DEF Messages, States

LEMMA InitIInv == Init => IInv
<1> SUFFICES ASSUME Init PROVE IInv
  OBVIOUS
<1> DEFINE all == [i \in DataHandles |-> i]
<1>1. Nodes = {Root} /\ node[Root] = RootMessage(op) /\ op \in Operations
  BY DEF Init, Nodes
<1>2. Root \in Path
  BY DEF Root, Path
<1>3. ChildrenOf(Root) = {}
  BY <1>1 DEF ChildrenOf
<1>4. all \in Seq(DataHandles) /\ Different(all)
  <2>1. NumDataHandles \in Nat
    BY TreeAssumption
  <2>2. all \in Seq(DataHandles) /\ Len(all) = NumDataHandles
    BY <2>1 DEF DataHandles
  <2> QED BY <2>1, <2>2 DEF Different, DataHandles
<1> HIDE DEF all
<1>5. MessageOK(node[Root]) /\ node[Root].state = "INIT" /\ Fresh(node[Root])
  <2>1. CASE op = "get_attr"
    <3>1. node[Root] = Message("METADATA", Meta, all)
      BY <1>1, <2>1 DEF RootMessage, all
    <3>2. node[Root] \in Messages(op)
      BY <1>4, <3>1, MessageTyped, Handles DEF Types
    <3> QED BY <1>4, <2>1, <3>1, <3>2, MessageFields DEF MessageOK, NoData, Fresh
  <2>2. CASE op # "get_attr"
    <3>1. node[Root] = Message("DIR_ENT", DirEnt, all)
      BY <1>1, <2>2 DEF RootMessage, all
    <3>2. node[Root] \in Messages(op)
      BY <1>4, <2>2, <3>1, MessageTyped, Handles DEF Types
    <3> QED BY <1>4, <2>2, <3>1, <3>2, MessageFields DEF MessageOK, NoData, Fresh
  <2> QED BY <2>1, <2>2
<1>6. NodeOK(Root)
  BY <1>3, <1>5 DEF NodeOK
<1> QED BY <1>1, <1>2, <1>6 DEF IInv
-----------------------------------------------------------------------------
\* A step changes one node, deletes answered children of it and creates new
\* ones; for every other node its children are as they were.
LEMMA OneNodeChanges ==
  ASSUME IInv, op' = op,
         NEW p \in Nodes, NEW new, NEW gone \in SUBSET ChildrenOf(p),
         new \subseteq {Append(p, i) : i \in Int}, new \cap Nodes = {},
         Nodes' = Nodes \cup new,
         \A q \in Nodes \ ({p} \cup gone) : node'[q] = node[q],
         \A c \in gone : /\ node[c].state = "FINISH"
                         /\ node'[c] = [node[c] EXCEPT !.state = "DELETED"],
         \A c \in new : MessageOK(node'[c]) /\ Fresh(node'[c]),
         node'[p].type = node[p].type, node'[p].data = node[p].data,
         node'[p].handle = node[p].handle,
         p = Root \/ (node[p].state # "DELETED" /\ node'[p].state # "DELETED"),
         NodeOK(p)'
  PROVE  IInv'
<1>1. Nodes \subseteq Path /\ \A c \in Nodes \ {Root} : Front(c) \in Nodes
  BY DEF IInv
<1>2. ASSUME NEW c \in new PROVE c \in Path /\ c # Root /\ Front(c) = p
  <2>1. PICK i \in Int : c = Append(p, i)
    BY <1>2
  <2> QED BY <1>1, <2>1, ChildPath
<1>3. Nodes' \subseteq Path /\ Root' \in Nodes'
  BY <1>1, <1>2 DEF IInv, Root
<1>4. \A c \in Nodes' \ {Root'} : Front(c) \in Nodes'
  BY <1>1, <1>2 DEF Root
<1>5. p \notin gone
  <2>1. ASSUME p \in ChildrenOf(p) PROVE FALSE
    <3>1. p \in Path /\ p # Root /\ Front(p) = p
      BY <1>1, <2>1 DEF ChildrenOf
    <3>2. Len(p) \in Nat /\ Len(p) = Len(p) - 1
      BY <3>1, PathOfChild
    <3> QED BY <3>2
  <2> QED BY <2>1
<1>6. ASSUME NEW c \in gone
      PROVE  /\ node'[c].state = "DELETED" /\ node'[c].disk = node[c].disk
             /\ node'[c].type = node[c].type /\ node'[c].data = node[c].data
             /\ node'[c].handle = node[c].handle
             /\ node[c] \in Messages(op) => node'[c] \in Messages(op)
  <2>1. node[c] \in Messages(op)
    BY <1>6 DEF IInv, NodeOK, MessageOK, ChildrenOf
  <2>2. node'[c] = [node[c] EXCEPT !.state = "DELETED"]
    BY <1>6
  <2> QED BY ONLY <2>1, <2>2, DeletedMessage
<1>7. ASSUME NEW q \in Nodes \ {p}
      PROVE  NodeOK(q)'
  <2>1. ChildrenOf(q)' = ChildrenOf(q)
    BY <1>2, <1>7 DEF ChildrenOf, Root
  <2>2. \A c \in ChildrenOf(q) : c \in Nodes /\ c \notin gone
    BY <1>7 DEF ChildrenOf
  <2>3. \A c \in ChildrenOf(q) : /\ node'[c].type = node[c].type /\ node'[c].data = node[c].data
                                 /\ node'[c].handle = node[c].handle
                                 /\ node'[c].state = "DELETED" <=> node[c].state = "DELETED"
    <3>1. \A c \in ChildrenOf(q) : c # Root
      BY DEF ChildrenOf
    <3> QED BY <2>2, <3>1
  <2>4. DataChildren(q)' = DataChildren(q) /\ Running(q)' = Running(q)
    BY <2>1, <2>3 DEF DataChildren, Running
  <2>5. \A c \in DataChildren(q) : Addressed(c)' = Addressed(c)
    BY <2>3 DEF Addressed, DataChildren
  <2>6. MetaChild(q)' = MetaChild(q) /\ AttrChild(q)' = AttrChild(q)
    BY DEF MetaChild, AttrChild
  <2>7. NodeOK(q) /\ node'[q].data = node[q].data
    BY <1>6, <1>7 DEF IInv
  <2>8. Partitioned(q) => Partitioned(q)'
    <3>1. {Addressed(c)' : c \in DataChildren(q)} = {Addressed(c) : c \in DataChildren(q)}
      BY <2>5
    <3>2. \A c \in DataChildren(q) : node'[c].data = node[c].data /\ node'[c].handle = node[c].handle
      BY <2>3 DEF DataChildren
    <3> QED BY <2>4, <2>5, <2>7, <3>1, <3>2 DEF Partitioned
  <2>9. CASE q \in gone
    <3>1. /\ node[q].state = "FINISH" /\ MessageOK(node[q])
          /\ ~node[q].disk /\ AllDeleted(ChildrenOf(q)) /\ Partitioned(q)
      BY <2>7, <2>9 DEF NodeOK
    <3>2. MessageOK(node[q])'
      BY <1>6, <2>9, <3>1 DEF MessageOK, NoData, Messages, ObjectsOf, DirEnt, Attr, Meta, DataHandles, Types
    <3>3. AllDeleted(ChildrenOf(q))'
      BY <2>1, <2>3, <3>1 DEF AllDeleted
    <3> QED BY <1>6, <2>8, <2>9, <3>1, <3>2, <3>3 DEF NodeOK
  <2>10. CASE q \notin gone
    <3>1. node'[q] = node[q]
      BY <1>7, <2>10
    <3>2. /\ AllDeleted(ChildrenOf(q))' <=> AllDeleted(ChildrenOf(q))
          /\ AllDeleted(ChildrenOf(q) \ DataChildren(q))' <=> AllDeleted(ChildrenOf(q) \ DataChildren(q))
          /\ AllDeleted(ChildrenOf(q) \ {AttrChild(q)})' <=> AllDeleted(ChildrenOf(q) \ {AttrChild(q)})
      BY <2>1, <2>3, <2>4, <2>6 DEF AllDeleted
    <3>3. MessageOK(node[q])' /\ (Fresh(node[q])' <=> Fresh(node[q]))
      BY <2>7, <3>1 DEF NodeOK, MessageOK, NoData, Messages, ObjectsOf, DirEnt, Attr, Meta, DataHandles,
                        Types, Fresh
    <3> QED BY <2>1, <2>4, <2>6, <2>7, <2>8, <3>1, <3>2, <3>3 DEF NodeOK
  <2> QED BY <2>9, <2>10
<1>8. ASSUME NEW c \in new
      PROVE  NodeOK(c)'
  <2>1. ChildrenOf(c)' = {}
    <3>1. ASSUME NEW d \in Nodes', d # Root, Front(d) = c
          PROVE  FALSE
      <4>1. CASE d \in Nodes
        BY <1>1, <1>8, <3>1, <4>1
      <4>2. CASE d \in new
        BY <1>2, <1>8, <3>1, <4>2
      <4> QED BY <3>1, <4>1, <4>2
    <3> QED BY <3>1 DEF ChildrenOf, Root
  <2>2. MessageOK(node[c])' /\ Fresh(node[c])'
    BY <1>8 DEF MessageOK, NoData, Messages, ObjectsOf, DirEnt, Attr, Meta, DataHandles, Types, Fresh
  <2> QED BY <2>1, <2>2 DEF NodeOK, Fresh
<1> QED BY <1>3, <1>4, <1>7, <1>8 DEF IInv
-----------------------------------------------------------------------------
\* The nodes once p has become m, deleted gone and sent sent.
Stepped(p, m, gone, sent) ==
  /\ Nodes' = Nodes \cup DOMAIN sent
  /\ node'[p] = m
  /\ \A q \in Nodes \ ({p} \cup gone) : node'[q] = node[q]
  /\ \A c \in gone : node'[c] = [node[c] EXCEPT !.state = "DELETED"]
  /\ \A c \in DOMAIN sent : node'[c] = sent[c]
  /\ ChildrenOf(p)' = ChildrenOf(p) \cup DOMAIN sent
  /\ p \notin gone /\ gone \subseteq Nodes

LEMMA NodesAfterIs ==
  ASSUME IInv, NEW p \in Nodes, NEW m, NEW gone \in SUBSET ChildrenOf(p), NEW sent,
         DOMAIN sent \subseteq {Append(p, i) : i \in Int}, DOMAIN sent \cap Nodes = {},
         node' = NodesAfter(p, m, gone, sent)
  PROVE  Stepped(p, m, gone, sent)
<1>1. p \in Path /\ Nodes \subseteq Path
  BY DEF IInv
<1>2. gone \subseteq Nodes
  BY DEF ChildrenOf
<1>3. p \notin gone
  <2>1. ASSUME p \in ChildrenOf(p) PROVE FALSE
    <3>1. Len(p) \in Nat /\ Len(p) = Len(p) - 1
      BY <1>1, <2>1, PathOfChild DEF ChildrenOf
    <3> QED BY <3>1
  <2> QED BY <2>1
<1>4. Nodes' = Nodes \cup DOMAIN sent
  BY DEF NodesAfter, Nodes
<1>5. \A q \in Nodes' :
        node'[q] = IF q = p THEN m
                   ELSE IF q \in gone THEN [node[q] EXCEPT !.state = "DELETED"]
                   ELSE IF q \in DOMAIN sent THEN sent[q]
                   ELSE node[q]
  BY <1>4 DEF NodesAfter, Nodes
<1>6. node'[p] = m
  BY <1>4, <1>5
<1>7. \A q \in Nodes \ ({p} \cup gone) : node'[q] = node[q]
  BY <1>4, <1>5
<1>8. \A c \in gone : node'[c] = [node[c] EXCEPT !.state = "DELETED"]
  BY <1>2, <1>3, <1>4, <1>5
<1>9. \A c \in DOMAIN sent : node'[c] = sent[c]
  BY <1>2, <1>4, <1>5
<1>10. ChildrenOf(p)' = ChildrenOf(p) \cup DOMAIN sent
  <2>1. ASSUME NEW c \in DOMAIN sent PROVE c # Root /\ Front(c) = p
    <3>1. PICK i \in Int : c = Append(p, i)
      BY <2>1
    <3> QED BY <1>1, <3>1, ChildPath
  <2> QED BY <1>4, <2>1 DEF ChildrenOf, Root
<1> QED BY <1>2, <1>3, <1>4, <1>6, <1>7, <1>8, <1>9, <1>10 DEF Stepped

LEMMA StepPreserves ==
  ASSUME IInv, op' = op,
         NEW p \in Nodes, NEW m, NEW gone \in SUBSET ChildrenOf(p), NEW sent,
         DOMAIN sent \subseteq {Append(p, i) : i \in Int}, DOMAIN sent \cap Nodes = {},
         node' = NodesAfter(p, m, gone, sent),
         \A c \in gone : node[c].state = "FINISH",
         \A c \in DOMAIN sent : MessageOK(sent[c]) /\ Fresh(sent[c]),
         m.type = node[p].type, m.data = node[p].data, m.handle = node[p].handle,
         p = Root \/ (node[p].state # "DELETED" /\ m.state # "DELETED"),
         NodeOK(p)'
  PROVE  IInv'
<1> DEFINE new == DOMAIN sent
<1>1. /\ Nodes' = Nodes \cup new /\ node'[p] = m
      /\ \A q \in Nodes \ ({p} \cup gone) : node'[q] = node[q]
      /\ \A c \in gone : node'[c] = [node[c] EXCEPT !.state = "DELETED"]
      /\ \A c \in new : node'[c] = sent[c]
  <2>1. Stepped(p, m, gone, sent)
    BY NodesAfterIs
  <2> QED BY <2>1 DEF Stepped
<1>2. \A c \in new : MessageOK(node'[c]) /\ Fresh(node'[c])
  BY <1>1
<1>3. \A c \in gone : /\ node[c].state = "FINISH"
                      /\ node'[c] = [node[c] EXCEPT !.state = "DELETED"]
  BY <1>1
<1>4. /\ node'[p].type = node[p].type /\ node'[p].data = node[p].data
      /\ node'[p].handle = node[p].handle
      /\ p = Root \/ (node[p].state # "DELETED" /\ node'[p].state # "DELETED")
  BY <1>1
<1> HIDE DEF new
<1>5. new \subseteq {Append(p, i) : i \in Int} /\ new \cap Nodes = {}
  BY DEF new
<1> QED BY <1>1, <1>2, <1>3, <1>4, <1>5, OneNodeChanges

\* Requests that are not for data leave the node's data requests as they are,
\* but for those that were answered.
KeepsChildren(p, gone) ==
  /\ DataChildren(p)' = DataChildren(p) /\ Running(p)' = Running(p) \ gone
  /\ Partitioned(p) => Partitioned(p)'
  /\ \A c \in ChildrenOf(p) : node'[c].state = "DELETED" <=> (c \in gone \/ node[c].state = "DELETED")

LEMMA NoDataSent ==
  ASSUME IInv, NEW p \in Nodes, NEW m, NEW gone \in SUBSET ChildrenOf(p), NEW sent,
         DOMAIN sent \subseteq {Append(p, i) : i \in Int}, DOMAIN sent \cap Nodes = {},
         node' = NodesAfter(p, m, gone, sent), m.data = node[p].data,
         \A c \in gone : node[c].state = "FINISH",
         \A c \in DOMAIN sent : sent[c].type # "DATA"
  PROVE  KeepsChildren(p, gone)
<1>1. /\ node'[p] = m
      /\ \A q \in Nodes \ ({p} \cup gone) : node'[q] = node[q]
      /\ \A c \in gone : node'[c] = [node[c] EXCEPT !.state = "DELETED"]
      /\ \A c \in DOMAIN sent : node'[c] = sent[c]
      /\ ChildrenOf(p)' = ChildrenOf(p) \cup DOMAIN sent
  <2>1. Stepped(p, m, gone, sent)
    BY NodesAfterIs
  <2> QED BY <2>1 DEF Stepped
<1>2. ASSUME NEW c \in ChildrenOf(p)
      PROVE  /\ c \notin DOMAIN sent /\ node'[c].type = node[c].type /\ node'[c].data = node[c].data
             /\ node'[c].handle = node[c].handle
             /\ node'[c].state = IF c \in gone THEN "DELETED" ELSE node[c].state
  <2>1. c \in Nodes /\ node[c] \in Messages(op) /\ c # p
    <3>1. c \in Nodes /\ c \in Path /\ c # Root /\ Front(c) = p
      BY <1>2 DEF ChildrenOf, IInv
    <3>2. node[c] \in Messages(op)
      BY <3>1 DEF IInv, NodeOK, MessageOK
    <3>3. c # p
      <4>1. Len(Front(c)) = Len(c) - 1 /\ Len(c) \in Nat
        BY <3>1, PathOfChild
      <4> QED BY <3>1, <4>1
    <3> QED BY <3>1, <3>2, <3>3
  <2>2. CASE c \in gone
    <3>1. node'[c] = [node[c] EXCEPT !.state = "DELETED"] /\ c \notin DOMAIN sent
      BY <1>1, <2>1, <2>2
    <3> QED BY <2>1, <2>2, <3>1, DeletedMessage
  <2>3. CASE c \notin gone
    BY <1>1, <2>1, <2>3
  <2> QED BY <2>1, <2>2, <2>3
<1>3. DataChildren(p)' = DataChildren(p)
  BY <1>1, <1>2 DEF DataChildren
<1>4. Running(p)' = Running(p) \ gone
  BY <1>2, <1>3 DEF Running, DataChildren
<1>5. Partitioned(p) => Partitioned(p)'
  <2>1. \A c \in DataChildren(p) : Addressed(c)' = Addressed(c)
    BY <1>2 DEF Addressed, DataChildren
  <2>2. {Addressed(c)' : c \in DataChildren(p)} = {Addressed(c) : c \in DataChildren(p)}
    BY <2>1
  <2>3. \A c \in DataChildren(p) : node'[c].data = node[c].data /\ node'[c].handle = node[c].handle
    BY <1>2 DEF DataChildren
  <2> QED BY <1>1, <1>3, <2>1, <2>2, <2>3 DEF Partitioned
<1> QED BY <1>2, <1>3, <1>4, <1>5 DEF KeepsChildren

\* A step that only answers: the children are those there were.
LEMMA NothingSent ==
  ASSUME IInv, NEW p \in Nodes, NEW m, NEW gone \in SUBSET ChildrenOf(p),
         node' = NodesAfter(p, m, gone, << >>), m.data = node[p].data,
         \A c \in gone : node[c].state = "FINISH", Partitioned(p)
  PROVE  /\ node'[p] = m /\ ChildrenOf(p)' = ChildrenOf(p)
         /\ DataChildren(p)' = DataChildren(p) /\ Running(p)' = Running(p) \ gone
         /\ Partitioned(p)'
         /\ \A c \in ChildrenOf(p) : node'[c].state = "DELETED" <=> (c \in gone \/ node[c].state = "DELETED")
<1>1. PICK s : s = << >> /\ DOMAIN s = {}
  OBVIOUS
<1>2. /\ node' = NodesAfter(p, m, gone, s) /\ \A c \in DOMAIN s : s[c].type # "DATA"
      /\ DOMAIN s \subseteq {Append(p, i) : i \in Int} /\ DOMAIN s \cap Nodes = {}
  BY <1>1
<1>3. Stepped(p, m, gone, s)
  BY <1>2, NodesAfterIs
<1>4. KeepsChildren(p, gone)
  BY <1>2, NoDataSent
<1> QED BY <1>1, <1>3, <1>4 DEF Stepped, KeepsChildren

LEMMA HeadAndTail ==
  ASSUME NEW S, NEW part \in Seq(S), part # << >>
  PROVE  /\ Head(part) \in S /\ Tail(part) \in Seq(S)
         /\ ToSet(part) = {Head(part)} \cup ToSet(Tail(part))
         /\ Different(part) => Different(Tail(part)) /\ Head(part) \notin ToSet(Tail(part))
<1>1. Len(part) \in Nat \ {0} /\ DOMAIN part = 1 .. Len(part)
  OBVIOUS
<1>2. /\ Tail(part) \in Seq(S) /\ Len(Tail(part)) = Len(part) - 1 /\ Head(part) = part[1]
      /\ \A i \in 1 .. Len(part) - 1 : Tail(part)[i] = part[i + 1]
  BY <1>1
<1>3. DOMAIN Tail(part) = 1 .. Len(part) - 1
  BY <1>2
<1>4. \A i \in 1 .. Len(part) : i = 1 \/ (i - 1 \in 1 .. Len(part) - 1 /\ i = (i - 1) + 1)
  BY <1>1
<1>5. \A i \in 1 .. Len(part) - 1 : i + 1 \in 1 .. Len(part)
  BY <1>1
<1>6. ToSet(part) = {Head(part)} \cup ToSet(Tail(part))
  <2>1. ASSUME NEW x \in ToSet(part) PROVE x = Head(part) \/ x \in ToSet(Tail(part))
    <3>1. PICK i \in 1 .. Len(part) : x = part[i]
      BY <1>1, <2>1 DEF ToSet
    <3>2. CASE i = 1
      BY <1>2, <3>1, <3>2
    <3>3. CASE i - 1 \in 1 .. Len(part) - 1 /\ i = (i - 1) + 1
      <4>1. Tail(part)[i - 1] = part[(i - 1) + 1]
        BY <1>2, <3>3
      <4> QED BY <1>3, <3>1, <3>3, <4>1 DEF ToSet
    <3> QED BY <1>4, <3>1, <3>2, <3>3
  <2>2. ASSUME NEW x \in ToSet(Tail(part)) PROVE x \in ToSet(part)
    <3>1. PICK i \in 1 .. Len(part) - 1 : x = Tail(part)[i]
      BY <1>3, <2>2 DEF ToSet
    <3> QED BY <1>1, <1>2, <1>5, <3>1 DEF ToSet
  <2>3. Head(part) \in ToSet(part)
    BY <1>1, <1>2 DEF ToSet
  <2> QED BY <2>1, <2>2, <2>3
<1>7. ASSUME Different(part) PROVE Different(Tail(part)) /\ Head(part) \notin ToSet(Tail(part))
  <2>1. ASSUME NEW i \in 1 .. Len(part) - 1, NEW j \in 1 .. Len(part) - 1, part[i + 1] = part[j + 1]
        PROVE  i = j
    BY <1>1, <1>5, <1>7, <2>1 DEF Different
  <2>2. ASSUME NEW i \in 1 .. Len(part) - 1, part[i + 1] = part[1] PROVE FALSE
    BY <1>1, <1>5, <1>7, <2>2 DEF Different
  <2> QED BY <1>2, <1>3, <2>1, <2>2 DEF Different, ToSet
<1> QED BY <1>1, <1>2, <1>6, <1>7

\* The requests sent by node p are as many as the rounds and share the data out.
Held(m) == {m.handle} \cup ToSet(m.data)

SharesOut(p, data, sent) ==
  /\ DOMAIN sent \subseteq {Append(p, i) : i \in Int}
  /\ MetaChild(p) \notin DOMAIN sent /\ AttrChild(p) \notin DOMAIN sent
  /\ IsFiniteSet(DOMAIN sent) /\ Cardinality(DOMAIN sent) = Rounds(Len(data))
  /\ Rounds(Len(data)) \in Nat
  /\ \A c \in DOMAIN sent : /\ MessageOK(sent[c]) /\ Fresh(sent[c]) /\ sent[c].type = "DATA"
                            /\ sent[c].handle \notin ToSet(sent[c].data)
  /\ ToSet(data) = UNION {Held(sent[c]) : c \in DOMAIN sent}
  /\ \A c, d \in DOMAIN sent : c # d => Held(sent[c]) \cap Held(sent[d]) = {}

LEMMA RequestsShareOut ==
  ASSUME NEW p \in Path, NEW data \in Seq(DataHandles), Different(data)
  PROVE  SharesOut(p, data, CollectiveRequests(p, data))
<1> DEFINE sent == CollectiveRequests(p, data)
           k == Rounds(Len(data))
           f == [i \in 1 .. k |-> Append(p, i)]
           holds(c) == Held(sent[c])
<1>1. k \in Nat /\ \A i \in 1 .. k : i \in Int
  BY RoundsEnd
<1> HIDE DEF k
<1>2. DOMAIN sent = {Append(p, i) : i \in 1 .. k}
  BY DEF CollectiveRequests, k
<1>3. \A c \in DOMAIN sent : sent[c] = ChildMessage(Part(data, Last(c)))
  BY DEF CollectiveRequests
<1> HIDE DEF sent
<1>4. \A i \in Int : Append(p, i) \in Path /\ Last(Append(p, i)) = i
  BY ChildPath
<1>5. MetaChild(p) \notin DOMAIN sent /\ AttrChild(p) \notin DOMAIN sent
  <2>1. 0 \in Int /\ -1 \in Int /\ 0 \notin 1 .. k /\ -1 \notin 1 .. k
    BY <1>1
  <2> QED BY <1>1, <1>2, <1>4, <2>1 DEF MetaChild, AttrChild
<1>6. IsFiniteSet(DOMAIN sent) /\ Cardinality(DOMAIN sent) = k
  <2>1. f \in Bijection(1 .. k, DOMAIN sent)
    <3>1. f \in [1 .. k -> DOMAIN sent]
      BY <1>2
    <3>2. \A i, j \in 1 .. k : f[i] = f[j] => i = j
      BY <1>1, <1>4
    <3>3. \A c \in DOMAIN sent : \E i \in 1 .. k : f[i] = c
      BY <1>2
    <3> QED BY <3>1, <3>2, <3>3 DEF Bijection, Injection, Surjection, IsInjective
  <2>2. IsFiniteSet(1 .. k) /\ Cardinality(1 .. k) = k
    BY <1>1, FS_Interval
  <2> QED BY <2>1, <2>2, FS_Bijection DEF ExistsBijection
<1>7. ASSUME NEW c \in DOMAIN sent
      PROVE  /\ Last(c) \in 1 .. k
             /\ MessageOK(sent[c]) /\ Fresh(sent[c]) /\ sent[c].type = "DATA"
             /\ sent[c].handle \notin ToSet(sent[c].data)
             /\ holds(c) = ToSet(Part(data, Last(c)))
  <2>1. PICK i \in 1 .. k : c = Append(p, i) /\ Last(c) = i
    BY <1>1, <1>2, <1>4, <1>7
  <2> DEFINE part == Part(data, i)
  <2>2. part \in Seq(DataHandles) /\ part # << >>
    BY <2>1, PartElements DEF k
  <2>3. Different(part)
    BY <2>1, PartsShareOut DEF k
  <2> HIDE DEF part
  <2>4. /\ Head(part) \in DataHandles /\ Tail(part) \in Seq(DataHandles)
        /\ ToSet(part) = {Head(part)} \cup ToSet(Tail(part))
        /\ Different(Tail(part)) /\ Head(part) \notin ToSet(Tail(part))
    BY <2>2, <2>3, HeadAndTail
  <2>5. sent[c] = Message("DATA", Head(part), Tail(part))
    BY <1>3, <1>7, <2>1 DEF ChildMessage, part
  <2>6. sent[c] \in Messages(op)
    BY <2>4, <2>5, MessageTyped, Handles DEF Types
  <2>7. /\ sent[c].type = "DATA" /\ sent[c].handle = Head(part) /\ sent[c].data = Tail(part)
        /\ Fresh(sent[c])
    <3> DEFINE h == Head(part)  t == Tail(part)
    <3> HIDE DEF h, t
    <3>1. sent[c] = Message("DATA", h, t)
      BY <2>5 DEF h, t
    <3>2. sent[c].type = "DATA" /\ sent[c].handle = h /\ sent[c].data = t /\ Fresh(sent[c])
      BY <3>1, MessageFields
    <3> QED BY <3>2 DEF h, t
  <2>8. MessageOK(sent[c])
    BY <2>4, <2>6, <2>7 DEF MessageOK, NoData
  <2> QED BY <2>1, <2>4, <2>7, <2>8 DEF part, Held
<1>8. ToSet(data) = UNION {holds(c) : c \in DOMAIN sent}
  <2>1. {holds(c) : c \in DOMAIN sent} = {ToSet(Part(data, i)) : i \in 1 .. k}
    <3>1. \A i \in 1 .. k : Append(p, i) \in DOMAIN sent /\ Last(Append(p, i)) = i
      BY <1>1, <1>2, <1>4
    <3> HIDE DEF holds
    <3> QED BY <1>7, <3>1
  <2> QED BY <2>1, PartsShareOut DEF k
<1>9. ASSUME NEW c \in DOMAIN sent, NEW d \in DOMAIN sent, c # d
      PROVE  holds(c) \cap holds(d) = {}
  <2>1. Last(c) \in 1 .. k /\ Last(d) \in 1 .. k /\ Last(c) # Last(d)
    <3>1. PICK i \in 1 .. k : c = Append(p, i)
      BY <1>2, <1>9
    <3>2. PICK j \in 1 .. k : d = Append(p, j)
      BY <1>2, <1>9
    <3>3. Last(c) = i /\ Last(d) = j
      BY <1>1, <1>4, <3>1, <3>2
    <3> QED BY <1>9, <3>1, <3>2, <3>3
  <2>2. ToSet(Part(data, Last(c))) \cap ToSet(Part(data, Last(d))) = {}
    BY <2>1, PartsShareOut DEF k
  <2> QED BY <1>7, <1>9, <2>2
<1>10. DOMAIN sent \subseteq {Append(p, i) : i \in Int}
  BY <1>1, <1>2
<1> QED BY <1>1, <1>5, <1>6, <1>7, <1>8, <1>9, <1>10 DEF sent, k, SharesOut

\* A node that had no data requests sends them.
LEMMA DataSent ==
  ASSUME IInv, NEW p \in Nodes, NEW m, NEW gone \in SUBSET ChildrenOf(p), NEW sent,
         SharesOut(p, m.data, sent),
         ChildrenOf(p) \subseteq {MetaChild(p)}, DataChildren(p) = {},
         \A c \in gone : node[c].state = "FINISH",
         m.data = node[p].data,
         node' = NodesAfter(p, m, gone, sent)
  PROVE  /\ DOMAIN sent \subseteq {Append(p, i) : i \in Int} /\ DOMAIN sent \cap Nodes = {}
         /\ \A c \in DOMAIN sent : MessageOK(sent[c]) /\ Fresh(sent[c])
         /\ Running(p)' = DOMAIN sent /\ IsFiniteSet(DOMAIN sent)
         /\ Cardinality(DOMAIN sent) = Rounds(Len(m.data)) /\ Rounds(Len(m.data)) \in Nat
         /\ Partitioned(p)'
         /\ AttrChild(p) \notin ChildrenOf(p)'
         /\ ChildrenOf(p)' \ DataChildren(p)' = ChildrenOf(p)
         /\ \A c \in ChildrenOf(p) : node'[c].state = "DELETED" <=> (c \in gone \/ node[c].state = "DELETED")
<1>1. p \in Path /\ m.data \in Seq(DataHandles) /\ Different(m.data)
  BY DEF IInv, NodeOK, MessageOK, Messages
<1>2. /\ DOMAIN sent \subseteq {Append(p, i) : i \in Int}
      /\ MetaChild(p) \notin DOMAIN sent /\ AttrChild(p) \notin DOMAIN sent
      /\ \A c \in DOMAIN sent : /\ MessageOK(sent[c]) /\ Fresh(sent[c]) /\ sent[c].type = "DATA"
                                /\ sent[c].handle \notin ToSet(sent[c].data)
      /\ ToSet(m.data) = UNION {Held(sent[c]) : c \in DOMAIN sent}
      /\ \A c, d \in DOMAIN sent : c # d => Held(sent[c]) \cap Held(sent[d]) = {}
  BY DEF SharesOut
<1>3. DOMAIN sent \cap Nodes = {}
  <2>1. ASSUME NEW c \in DOMAIN sent, c \in Nodes PROVE FALSE
    <3>1. PICK i \in Int : c = Append(p, i)
      BY <1>2, <2>1
    <3>2. c \in ChildrenOf(p)
      BY <1>1, <2>1, <3>1, ChildPath DEF ChildrenOf
    <3> QED BY <1>2, <2>1, <3>2
  <2> QED BY <2>1
<1>4. /\ node'[p] = m
      /\ \A q \in Nodes \ ({p} \cup gone) : node'[q] = node[q]
      /\ \A c \in gone : node'[c] = [node[c] EXCEPT !.state = "DELETED"]
      /\ \A c \in DOMAIN sent : node'[c] = sent[c]
      /\ ChildrenOf(p)' = ChildrenOf(p) \cup DOMAIN sent
      /\ p \notin gone
  <2>1. DOMAIN sent \subseteq {Append(p, i) : i \in Int}
    BY <1>2
  <2>2. Stepped(p, m, gone, sent)
    BY <1>3, <2>1, NodesAfterIs
  <2> QED BY <2>2 DEF Stepped
<1>5. ASSUME NEW c \in ChildrenOf(p)
      PROVE  /\ c \in Nodes /\ c # p /\ node'[c].type # "DATA" /\ node[c] \in Messages(op)
             /\ node'[c].state = IF c \in gone THEN "DELETED" ELSE node[c].state
  <2>1. c \in Nodes /\ c # p /\ node[c].type # "DATA"
    <3>1. c = MetaChild(p) /\ c \in Nodes
      BY <1>5 DEF ChildrenOf
    <3>2. c # p
      BY <1>1, <3>1, ChildPath DEF MetaChild
    <3> QED BY <1>5, <3>1, <3>2 DEF DataChildren
  <2>2. node[c] \in Messages(op)
    BY <2>1 DEF IInv, NodeOK, MessageOK
  <2>3. CASE c \in gone
    BY <1>4, <2>1, <2>2, <2>3 DEF Messages
  <2>4. CASE c \notin gone
    BY <1>4, <2>1, <2>2, <2>4
  <2> QED BY <2>1, <2>2, <2>3, <2>4
<1>6. DataChildren(p)' = DOMAIN sent
  <2>1. \A c \in DOMAIN sent : node'[c].type = "DATA"
    BY <1>2, <1>4
  <2> QED BY <1>4, <1>5, <2>1 DEF DataChildren
<1>7. Running(p)' = DOMAIN sent
  <2>1. \A c \in DOMAIN sent : node'[c].state = "INIT"
    BY <1>2, <1>4 DEF Fresh
  <2> QED BY <1>6, <2>1 DEF Running
<1>8. Partitioned(p)'
  <2>1. ASSUME NEW c \in DOMAIN sent
        PROVE  /\ Addressed(c)' = Held(sent[c])
               /\ node'[c].handle = sent[c].handle /\ node'[c].data = sent[c].data
    BY <1>4, <2>1 DEF Addressed, Held
  <2>2. {Addressed(c)' : c \in DOMAIN sent}
          = {Held(sent[c]) : c \in DOMAIN sent}
    BY <2>1
  <2>3. ToSet(node[p].data)' = UNION {Addressed(c)' : c \in DOMAIN sent}
    BY <1>2, <1>4, <2>2
  <2> QED BY <1>2, <1>6, <2>1, <2>3 DEF Partitioned
<1>9. AttrChild(p) \notin ChildrenOf(p)'
  <2>1. AttrChild(p) # MetaChild(p)
    <3>1. Last(Append(p, 0)) = 0 /\ Last(Append(p, -1)) = -1
      BY <1>1, ChildPath
    <3> QED BY <3>1 DEF AttrChild, MetaChild
  <2> QED BY <1>2, <1>4, <2>1
<1>10. ChildrenOf(p)' \ DataChildren(p)' = ChildrenOf(p)
  <2>1. \A c \in ChildrenOf(p) : c \notin DOMAIN sent
    BY <1>3, <1>5
  <2> QED BY <1>4, <1>6, <2>1
<1>11. IsFiniteSet(DOMAIN sent) /\ Cardinality(DOMAIN sent) = Rounds(Len(m.data)) /\ Rounds(Len(m.data)) \in Nat
  BY DEF SharesOut
<1> QED BY <1>2, <1>3, <1>5, <1>7, <1>8, <1>9, <1>10, <1>11
-----------------------------------------------------------------------------
LEMMA NewPaths ==
  ASSUME IInv, NEW p \in Nodes, NEW S, S \subseteq {Append(p, i) : i \in Int}, S \cap ChildrenOf(p) = {}
  PROVE  S \cap Nodes = {}
<1>1. p \in Path
  BY DEF IInv
<1>2. ASSUME NEW c \in S, c \in Nodes PROVE FALSE
  <2>1. PICK i \in Int : c = Append(p, i)
    BY <1>2
  <2>2. c \in ChildrenOf(p)
    BY <1>1, <1>2, <2>1, ChildPath DEF ChildrenOf
  <2> QED BY <1>2, <2>2
<1> QED BY <1>2

\* A step that changes nothing but the node of p.
LEMMA PlainStep ==
  ASSUME NEW p \in Nodes, NEW m, node' = [node EXCEPT ![p] = m]
  PROVE  node' = NodesAfter(p, m, {}, << >>) /\ DOMAIN << >> = {}
<1>1. DOMAIN << >> = {}
  OBVIOUS
<1>2. Nodes \cup DOMAIN << >> = DOMAIN node
  BY <1>1 DEF Nodes
<1>3. NodesAfter(p, m, {}, << >>) = [q \in DOMAIN node |-> IF q = p THEN m ELSE node[q]]
  BY <1>1, <1>2 DEF NodesAfter
<1> QED BY <1>1, <1>3 DEF Nodes

LEMMA MessageKept ==
  ASSUME op' = op, NEW old, NEW m, MessageOK(old), m \in Messages(op), m.type = old.type, m.data = old.data
  PROVE  MessageOK(m)'
BY DEF MessageOK, NoData, Messages, ObjectsOf, DirEnt, Attr, Meta, DataHandles, Types

\* What is left of a request once its disk request is out, or its state changed.
LEMMA Requested ==
  ASSUME NEW m \in Messages(op)
  PROVE  /\ WithDiskRequest(m) \in Messages(op) /\ WithDiskRequest(m).type = m.type
         /\ WithDiskRequest(m).data = m.data /\ WithDiskRequest(m).handle = m.handle
         /\ WithDiskRequest(m).state = m.state /\ WithDiskRequest(m).disk
         /\ WithDiskRequest(m).outstanding = m.outstanding + 1
<1> DEFINE n == m.outstanding + 1
           r == [m EXCEPT !.disk = TRUE, !.outstanding = n]
<1>1. n \in Nat
  BY DEF Messages
<1>2. WithDiskRequest(m) = r
  BY DEF WithDiskRequest
<1> HIDE DEF n
<1>3. r.type = m.type /\ r.data = m.data /\ r.handle = m.handle /\ r.state = m.state
  BY DEF Messages
<1>4. r.disk = TRUE /\ r.outstanding = n
  BY DEF Messages
<1>5. r \in Messages(op)
  BY <1>1 DEF Messages
<1> QED BY <1>2, <1>3, <1>4, <1>5 DEF n

LEMMA Waiting ==
  ASSUME NEW d \in Messages(op), NEW k \in Nat
  PROVE  LET m == [d EXCEPT !.state = "WAIT_FOR_RESPONSE", !.outstanding = @ + k]
         IN  /\ m \in Messages(op) /\ m.type = d.type /\ m.data = d.data /\ m.handle = d.handle
             /\ m.state = "WAIT_FOR_RESPONSE" /\ m.disk = d.disk /\ m.outstanding = d.outstanding + k
<1> DEFINE n == d.outstanding + k
           m == [d EXCEPT !.state = "WAIT_FOR_RESPONSE", !.outstanding = n]
<1>1. n \in Nat
  BY DEF Messages
<1> HIDE DEF n
<1>2. m.type = d.type /\ m.data = d.data /\ m.handle = d.handle /\ m.state = "WAIT_FOR_RESPONSE"
  BY DEF Messages
<1>3. m.disk = d.disk /\ m.outstanding = n
  BY DEF Messages
<1>4. m \in Messages(op)
  BY <1>1 DEF Messages, States
<1> QED BY <1>2, <1>3, <1>4 DEF n

LEMMA DirEntReceived ==
  ASSUME IInv, op' = op, NEW p \in Nodes, ReceiveDirEnt(p)
  PROVE  IInv'
<1> DEFINE m == [node[p] EXCEPT !.state = "SEND_META"]
           sent == [c \in {MetaChild(p)} |-> Message("METADATA", Meta, << >>)]
<1>1. /\ node[p].state = "INIT" /\ node[p].type = "DIR_ENT" /\ node' = NodesAfter(p, m, {}, sent)
      /\ NodeOK(p) /\ MessageOK(node[p]) /\ node[p] \in Messages(op) /\ ChildrenOf(p) = {}
      /\ Fresh(node[p]) /\ op # "get_attr"
  BY DEF ReceiveDirEnt, IInv, NodeOK, MessageOK
<1>2. /\ m \in Messages(op) /\ m.type = node[p].type /\ m.data = node[p].data
      /\ m.handle = node[p].handle /\ m.state = "SEND_META" /\ ~m.disk /\ m.outstanding = 0
  BY <1>1 DEF Messages, States, Fresh
<1>3. DOMAIN sent = {MetaChild(p)} /\ sent[MetaChild(p)] = Message("METADATA", Meta, << >>)
  OBVIOUS
<1> HIDE DEF m, sent
<1>4. DOMAIN sent \subseteq {Append(p, i) : i \in Int} /\ DOMAIN sent \cap Nodes = {}
  <2>1. DOMAIN sent \subseteq {Append(p, i) : i \in Int}
    BY <1>3 DEF MetaChild
  <2>2. DOMAIN sent \cap ChildrenOf(p) = {}
    BY <1>1
  <2> QED BY <2>1, <2>2, NewPaths
<1>5. \A c \in DOMAIN sent : MessageOK(sent[c]) /\ Fresh(sent[c]) /\ sent[c].type # "DATA"
  <2>1. sent[MetaChild(p)] \in Messages(op)
    BY <1>3, MessageTyped, Handles, EmptyData DEF Types
  <2>2. /\ sent[MetaChild(p)].type = "METADATA" /\ sent[MetaChild(p)].data = << >>
        /\ Fresh(sent[MetaChild(p)])
    BY <1>3, MessageFields
  <2>3. MessageOK(sent[MetaChild(p)])
    BY <2>1, <2>2, EmptyData DEF MessageOK
  <2> QED BY <1>3, <2>2, <2>3
<1>6. Stepped(p, m, {}, sent) /\ DataChildren(p)' = DataChildren(p)
  <2>1. Stepped(p, m, {}, sent)
    BY <1>1, <1>4, NodesAfterIs
  <2>2. KeepsChildren(p, {})
    BY <1>1, <1>2, <1>4, <1>5, NoDataSent
  <2> QED BY <2>1, <2>2 DEF KeepsChildren
<1>7. NodeOK(p)'
  <2>1. node'[p] = m /\ ChildrenOf(p)' = {MetaChild(p)} /\ DataChildren(p)' = {}
    BY <1>1, <1>3, <1>6 DEF Stepped, DataChildren
  <2>2. MessageOK(node[p])'
    BY <1>1, <1>2, <2>1, MessageKept
  <2> QED BY <1>2, <2>1, <2>2 DEF NodeOK, MetaChild
<1> QED BY <1>1, <1>2, <1>4, <1>5, <1>7, StepPreserves

LEMMA MetadataReceived ==
  ASSUME IInv, op' = op, NEW p \in Nodes, ReceiveMetadata(p)
  PROVE  IInv'
<1> DEFINE m == WithDiskRequest([node[p] EXCEPT !.state = "CREATE_META"])
<1>1. /\ node[p].state = "INIT" /\ node[p].type = "METADATA" /\ op # "get_attr"
      /\ node' = [node EXCEPT ![p] = m]
      /\ NodeOK(p) /\ MessageOK(node[p]) /\ node[p] \in Messages(op) /\ ChildrenOf(p) = {}
      /\ Fresh(node[p])
  BY DEF ReceiveMetadata, IInv, NodeOK, MessageOK
<1>2. /\ m \in Messages(op) /\ m.type = node[p].type /\ m.data = node[p].data
      /\ m.handle = node[p].handle /\ m.state = "CREATE_META"
  <2> DEFINE d == [node[p] EXCEPT !.state = "CREATE_META"]
  <2>1. /\ d \in Messages(op) /\ d.type = node[p].type /\ d.data = node[p].data
        /\ d.handle = node[p].handle /\ d.state = "CREATE_META"
    BY <1>1 DEF Messages, States
  <2> HIDE DEF d
  <2>2. m = WithDiskRequest(d)
    BY DEF d
  <2> QED BY <2>1, <2>2, Requested
<1> HIDE DEF m
<1>3. node' = NodesAfter(p, m, {}, << >>) /\ DOMAIN << >> = {}
  BY <1>1, PlainStep
<1>4. Stepped(p, m, {}, << >>)
  BY <1>3, NodesAfterIs
<1>5. node'[p] = m /\ ChildrenOf(p)' = {} /\ DataChildren(p)' = {}
  BY <1>1, <1>3, <1>4 DEF Stepped, DataChildren
<1>6. NodeOK(p)'
  <2>1. MessageOK(node[p])'
    BY <1>1, <1>2, <1>5, MessageKept
  <2>2. node'[p].data = << >>
    BY <1>1, <1>2, <1>5 DEF MessageOK, NoData
  <2>3. Partitioned(p)'
    BY <1>5, <2>2, EmptyData DEF Partitioned
  <2> QED BY <1>2, <1>5, <2>1, <2>3 DEF NodeOK, AllDeleted
<1> QED BY <1>1, <1>2, <1>3, <1>6, StepPreserves

LEMMA SetAttrReceived ==
  ASSUME IInv, op' = op, NEW p \in Nodes, ReceiveSetAttr(p)
  PROVE  IInv'
<1> DEFINE m == [node[p] EXCEPT !.state = "WRITE_ATTR", !.disk = TRUE]
<1>1. /\ node[p].state = "INIT" /\ node[p].type = "SET_ATTR"
      /\ node' = [node EXCEPT ![p].state = "WRITE_ATTR", ![p].disk = TRUE]
      /\ NodeOK(p) /\ MessageOK(node[p]) /\ node[p] \in Messages(op) /\ ChildrenOf(p) = {}
  BY DEF ReceiveSetAttr, IInv, NodeOK, MessageOK
<1>2. /\ m \in Messages(op) /\ m.type = node[p].type /\ m.data = node[p].data
      /\ m.handle = node[p].handle /\ m.state = "WRITE_ATTR"
  BY <1>1 DEF Messages, States
<1>3. node' = [node EXCEPT ![p] = m]
  BY <1>1 DEF Nodes
<1> HIDE DEF m
<1>4. node' = NodesAfter(p, m, {}, << >>) /\ DOMAIN << >> = {}
  BY <1>3, PlainStep
<1>5. Stepped(p, m, {}, << >>)
  BY <1>4, NodesAfterIs
<1>6. node'[p] = m /\ ChildrenOf(p)' = {} /\ DataChildren(p)' = {}
  BY <1>1, <1>4, <1>5 DEF Stepped, DataChildren
<1>7. NodeOK(p)'
  <2>1. MessageOK(node[p])'
    BY <1>1, <1>2, <1>6, MessageKept
  <2>2. node'[p].data = << >>
    BY <1>1, <1>2, <1>6 DEF MessageOK, NoData
  <2>3. Partitioned(p)'
    BY <1>6, <2>2, EmptyData DEF Partitioned
  <2> QED BY <1>2, <1>6, <2>1, <2>3 DEF NodeOK, AllDeleted
<1> QED BY <1>1, <1>2, <1>4, <1>7, StepPreserves

LEMMA ObjectReceived ==
  ASSUME IInv, op' = op, NEW p \in Nodes, ReceiveObject(p)
  PROVE  IInv'
<1> DEFINE d == WithDiskRequest(node[p])
           k == Rounds(Len(d.data))
           m == [d EXCEPT !.state = "WAIT_FOR_RESPONSE", !.outstanding = @ + k]
           sent == CollectiveRequests(p, d.data)
<1>1. /\ node[p].state = "INIT" /\ node' = NodesAfter(p, m, {}, sent)
      /\ NodeOK(p) /\ MessageOK(node[p]) /\ node[p] \in Messages(op) /\ ChildrenOf(p) = {}
      /\ Fresh(node[p]) /\ p \in Path
  BY DEF ReceiveObject, SentAndWaiting, IInv, NodeOK, MessageOK
<1>2. /\ d.type = node[p].type /\ d.data = node[p].data /\ d.handle = node[p].handle
      /\ d \in Messages(op) /\ d.disk = TRUE /\ d.outstanding = 1
  <2>1. node[p].outstanding = 0
    BY <1>1 DEF Fresh
  <2> QED BY <1>1, <2>1, Requested
<1> HIDE DEF d
<1>3. SharesOut(p, d.data, sent)
  BY <1>1, <1>2, RequestsShareOut DEF MessageOK, Messages
<1>4. k \in Nat
  BY <1>3 DEF SharesOut
<1> HIDE DEF k, sent
<1>5. /\ m \in Messages(op) /\ m.type = node[p].type /\ m.data = node[p].data /\ m.data = d.data
      /\ m.handle = node[p].handle /\ m.state = "WAIT_FOR_RESPONSE"
      /\ m.disk = TRUE /\ m.outstanding = 1 + k
  BY <1>2, <1>4, Waiting
<1> HIDE DEF m
<1>6. DataChildren(p) = {} /\ ChildrenOf(p) \subseteq {MetaChild(p)}
  BY <1>1 DEF DataChildren
<1>7. /\ DOMAIN sent \subseteq {Append(p, i) : i \in Int} /\ DOMAIN sent \cap Nodes = {}
      /\ \A c \in DOMAIN sent : MessageOK(sent[c]) /\ Fresh(sent[c])
      /\ Running(p)' = DOMAIN sent /\ IsFiniteSet(DOMAIN sent)
      /\ Cardinality(DOMAIN sent) = Rounds(Len(m.data)) /\ Rounds(Len(m.data)) \in Nat
      /\ Partitioned(p)'
      /\ AttrChild(p) \notin ChildrenOf(p)'
      /\ ChildrenOf(p)' \ DataChildren(p)' = ChildrenOf(p)
  <2>1. SharesOut(p, m.data, sent)
    BY <1>3, <1>5
  <2>2. node' = NodesAfter(p, m, {}, sent) /\ m.data = node[p].data /\ {} \in SUBSET ChildrenOf(p)
    BY <1>1, <1>5
  <2> QED BY <1>6, <2>1, <2>2, DataSent
<1>8. Stepped(p, m, {}, sent)
  BY <1>1, <1>7, NodesAfterIs
<1>9. NodeOK(p)'
  <2>1. node'[p] = m
    BY <1>8 DEF Stepped
  <2>2. MessageOK(node[p])'
    BY <1>1, <1>5, <2>1, MessageKept
  <2>3. /\ IsFiniteSet(Running(p))'
        /\ node'[p].outstanding = 1 + Cardinality(Running(p)')
    BY <1>5, <1>7, <2>1 DEF k
  <2>4. AllDeleted(ChildrenOf(p) \ DataChildren(p))'
    BY <1>1, <1>7 DEF AllDeleted
  <2>5. (AttrChild(p) \notin ChildrenOf(p))'
    BY <1>7 DEF AttrChild
  <2> QED BY <1>5, <1>7, <2>1, <2>2, <2>3, <2>4, <2>5 DEF NodeOK
<1> QED BY <1>1, <1>5, <1>7, <1>9, StepPreserves

\* Setting the state, or the disk request, keeps the rest of a message.
LEMMA StateSet ==
  ASSUME NEW m \in Messages(op), NEW s \in States
  PROVE  LET n == [m EXCEPT !.state = s]
         IN  /\ n \in Messages(op) /\ n.type = m.type /\ n.data = m.data /\ n.handle = m.handle
             /\ n.state = s /\ n.disk = m.disk /\ n.outstanding = m.outstanding
<1>1. [m EXCEPT !.state = s] \in Messages(op)
  BY DEF Messages
<1> QED BY <1>1 DEF Messages

LEMMA DiskRequested ==
  ASSUME NEW m \in Messages(op), NEW s \in States
  PROVE  LET n == [m EXCEPT !.state = s, !.disk = TRUE]
         IN  /\ n \in Messages(op) /\ n.type = m.type /\ n.data = m.data /\ n.handle = m.handle
             /\ n.state = s /\ n.outstanding = m.outstanding
<1>1. [m EXCEPT !.state = s, !.disk = TRUE] \in Messages(op)
  BY DEF Messages
<1> QED BY <1>1 DEF Messages

LEMMA DiskAnswered ==
  ASSUME NEW m \in Messages(op)
  PROVE  LET n == [m EXCEPT !.disk = FALSE]
         IN  /\ n \in Messages(op) /\ n.type = m.type /\ n.data = m.data /\ n.handle = m.handle
             /\ n.state = m.state /\ ~n.disk /\ n.outstanding = m.outstanding
<1>1. [m EXCEPT !.disk = FALSE] \in Messages(op)
  BY DEF Messages
<1> QED BY <1>1 DEF Messages

\* What one response changes in a waiting node: it was one of those counted,
\* so a counter of one means that nothing is left to answer.
LEMMA ResponseTaken ==
  ASSUME IInv, op' = op, NEW p \in Nodes, node[p].state = "WAIT_FOR_RESPONSE",
         NEW m \in Messages(op), m.type = node[p].type, m.data = node[p].data,
         m.handle = node[p].handle, m.state = "WAIT_FOR_RESPONSE", m.disk \in BOOLEAN,
         NEW gone \in SUBSET ChildrenOf(p), \A c \in gone : node[c].state = "FINISH",
         IsFiniteSet(Running(p) \ gone),
         m.outstanding = 1 + (IF m.disk THEN 1 ELSE 0) + Cardinality(Running(p) \ gone),
         node' = ResponseProcessed(p, m, gone)
  PROVE  IInv'
<1> DEFINE n == [m EXCEPT !.outstanding = @ - 1]
<1>1. /\ NodeOK(p) /\ MessageOK(node[p]) /\ Partitioned(p)
      /\ AllDeleted(ChildrenOf(p) \ DataChildren(p)) /\ AttrChild(p) \notin ChildrenOf(p)
      /\ (m.type = "DIR_ENT" => op \in {"create", "remove"})
  <2>1. NodeOK(p) /\ op \in Operations
    BY DEF IInv
  <2>2. Operations \subseteq {"create", "remove", "get_attr"}
    BY TreeAssumption
  <2> QED BY <2>1, <2>2 DEF NodeOK, MessageOK
<1>2. Cardinality(Running(p) \ gone) \in Nat
  BY FS_CardinalityType
<1>3. /\ n \in Messages(op) /\ n.type = node[p].type /\ n.data = node[p].data
      /\ n.handle = node[p].handle /\ n.state = "WAIT_FOR_RESPONSE" /\ n.disk = m.disk
      /\ n.outstanding = (IF m.disk THEN 1 ELSE 0) + Cardinality(Running(p) \ gone)
  <2> DEFINE k == m.outstanding - 1
             r == [m EXCEPT !.outstanding = k]
  <2>1. k \in Nat /\ k = (IF m.disk THEN 1 ELSE 0) + Cardinality(Running(p) \ gone)
    BY <1>2
  <2> HIDE DEF k
  <2>2. r \in Messages(op)
    BY <2>1 DEF Messages
  <2>3. /\ r.type = m.type /\ r.data = m.data /\ r.handle = m.handle /\ r.state = m.state
        /\ r.disk = m.disk /\ r.outstanding = k
    BY DEF Messages
  <2> QED BY <2>1, <2>2, <2>3 DEF k
<1> HIDE DEF n
<1>4. CASE ~AllIn(m)
  <2>1. node' = NodesAfter(p, n, gone, << >>) /\ DOMAIN << >> = {}
    BY <1>4 DEF ResponseProcessed, n
  <2>2. Stepped(p, n, gone, << >>)
    BY <2>1, NodesAfterIs
  <2>3. /\ DataChildren(p)' = DataChildren(p) /\ Running(p)' = Running(p) \ gone
        /\ Partitioned(p)'
        /\ \A c \in ChildrenOf(p) : node'[c].state = "DELETED" <=> (c \in gone \/ node[c].state = "DELETED")
    BY <1>1, <1>3, <2>1, NothingSent
  <2>4. node'[p] = n /\ ChildrenOf(p)' = ChildrenOf(p)
    BY <2>1, <2>2 DEF Stepped
  <2>5. AllDeleted(ChildrenOf(p) \ DataChildren(p))'
    BY <1>1, <2>3, <2>4 DEF AllDeleted
  <2>6. MessageOK(node[p])'
    BY <1>1, <1>3, <2>4, MessageKept
  <2>7. /\ IsFiniteSet(Running(p))'
        /\ node'[p].outstanding = (IF node'[p].disk THEN 1 ELSE 0) + Cardinality(Running(p)')
    BY <1>3, <2>3, <2>4
  <2>8. (AttrChild(p) \notin ChildrenOf(p))'
    BY <1>1, <2>4 DEF AttrChild
  <2>9. NodeOK(p)'
    BY <1>3, <2>3, <2>4, <2>5, <2>6, <2>7, <2>8 DEF NodeOK
  <2> QED BY <1>3, <2>1, <2>9, StepPreserves
<1>5. CASE AllIn(m)
  <2>1. ~m.disk /\ Running(p) \ gone = {}
    <3>1. m.outstanding = 1
      BY <1>5 DEF AllIn
    <3>2. ~m.disk /\ Cardinality(Running(p) \ gone) = 0
      BY <1>2, <3>1
    <3> QED BY <3>2, FS_EmptySet
  <2>2. \A c \in ChildrenOf(p) : c \in gone \/ node[c].state = "DELETED"
    BY <1>1, <2>1 DEF AllDeleted, Running
  <2>3. ~n.disk
    BY <1>3, <2>1
  <2>4. ASSUME NEW r, NEW sent,
               DOMAIN sent \subseteq {AttrChild(p)}, \A c \in DOMAIN sent : sent[c].type # "DATA",
               node' = NodesAfter(p, r, gone, sent), r.data = node[p].data
        PROVE  /\ DOMAIN sent \subseteq {Append(p, i) : i \in Int} /\ DOMAIN sent \cap Nodes = {}
               /\ node'[p] = r /\ Partitioned(p)'
               /\ ChildrenOf(p)' = ChildrenOf(p) \cup DOMAIN sent
               /\ \A c \in ChildrenOf(p) : node'[c].state = "DELETED"
    <3>1. DOMAIN sent \subseteq {Append(p, i) : i \in Int}
      BY <2>4 DEF AttrChild
    <3>2. DOMAIN sent \cap ChildrenOf(p) = {}
      BY <1>1, <2>4
    <3>3. DOMAIN sent \cap Nodes = {}
      BY <3>1, <3>2, NewPaths
    <3>4. Stepped(p, r, gone, sent)
      BY <2>4, <3>1, <3>3, NodesAfterIs
    <3>5. /\ Partitioned(p)'
          /\ \A c \in ChildrenOf(p) : node'[c].state = "DELETED" <=> (c \in gone \/ node[c].state = "DELETED")
      <4>1. KeepsChildren(p, gone)
        BY <2>4, <3>1, <3>3, NoDataSent
      <4> QED BY <1>1, <4>1 DEF KeepsChildren
    <3> QED BY <2>2, <3>1, <3>3, <3>4, <3>5 DEF Stepped
  <2>5. CASE m.type # "DIR_ENT"
    <3> DEFINE r == [n EXCEPT !.state = "FINISH"]
    <3>1. node' = NodesAfter(p, r, gone, << >>) /\ DOMAIN << >> = {}
      BY <1>5, <2>5 DEF ResponseProcessed, n
    <3>2. /\ r \in Messages(op) /\ r.type = node[p].type /\ r.data = node[p].data
          /\ r.handle = node[p].handle /\ r.state = "FINISH" /\ ~r.disk
      <4>1. "FINISH" \in States
        BY DEF States
      <4> QED BY <1>3, <2>3, <4>1, StateSet
    <3> HIDE DEF r
    <3>3. /\ node'[p] = r /\ Partitioned(p)' /\ ChildrenOf(p)' = ChildrenOf(p)
          /\ \A c \in ChildrenOf(p) : node'[c].state = "DELETED"
      <4>1. node' = NodesAfter(p, r, gone, << >>) /\ r.data = node[p].data
        BY <3>1, <3>2
      <4> QED BY <1>1, <2>2, <4>1, NothingSent
    <3>4. MessageOK(node[p])' /\ AllDeleted(ChildrenOf(p))'
      BY <1>1, <3>2, <3>3, MessageKept DEF AllDeleted
    <3>5. NodeOK(p)'
      BY <3>2, <3>3, <3>4 DEF NodeOK
    <3> QED BY <3>1, <3>2, <3>5, StepPreserves
  <2>6. CASE m.type = "DIR_ENT" /\ op = "create"
    <3> DEFINE r == [n EXCEPT !.state = "SET_ATTR"]
               sent == [c \in {AttrChild(p)} |-> Message("SET_ATTR", Attr, << >>)]
    <3>1. node' = NodesAfter(p, r, gone, sent)
      BY <1>5, <2>6 DEF ResponseProcessed, n
    <3>2. /\ r \in Messages(op) /\ r.type = node[p].type /\ r.data = node[p].data
          /\ r.handle = node[p].handle /\ r.state = "SET_ATTR" /\ ~r.disk
      <4>1. "SET_ATTR" \in States
        BY DEF States
      <4> QED BY <1>3, <2>3, <4>1, StateSet
    <3>3. DOMAIN sent = {AttrChild(p)} /\ sent[AttrChild(p)] = Message("SET_ATTR", Attr, << >>)
      OBVIOUS
    <3> HIDE DEF r, sent
    <3>4. \A c \in DOMAIN sent : MessageOK(sent[c]) /\ Fresh(sent[c]) /\ sent[c].type # "DATA"
      <4>1. sent[AttrChild(p)] \in Messages(op)
        BY <2>6, <3>3, MessageTyped, Handles, EmptyData DEF Types
      <4>2. /\ sent[AttrChild(p)].type = "SET_ATTR" /\ sent[AttrChild(p)].data = << >>
            /\ Fresh(sent[AttrChild(p)])
        BY <3>3, MessageFields
      <4>3. MessageOK(sent[AttrChild(p)])
        BY <4>1, <4>2, EmptyData DEF MessageOK
      <4> QED BY <3>3, <4>2, <4>3
    <3>5. /\ DOMAIN sent \subseteq {Append(p, i) : i \in Int} /\ DOMAIN sent \cap Nodes = {}
          /\ node'[p] = r /\ Partitioned(p)' /\ ChildrenOf(p)' = ChildrenOf(p) \cup DOMAIN sent
          /\ \A c \in ChildrenOf(p) : node'[c].state = "DELETED"
      BY <2>4, <3>1, <3>2, <3>3, <3>4
    <3>6. MessageOK(node[p])'
      BY <1>1, <3>2, <3>5, MessageKept
    <3>7. AllDeleted(ChildrenOf(p) \ {AttrChild(p)})'
      BY <3>3, <3>5 DEF AllDeleted, AttrChild
    <3>8. NodeOK(p)'
      BY <3>2, <3>5, <3>6, <3>7 DEF NodeOK
    <3> QED BY <3>1, <3>2, <3>4, <3>5, <3>8, StepPreserves
  <2>7. CASE m.type = "DIR_ENT" /\ op = "remove"
    <3> DEFINE r == [n EXCEPT !.state = "REMOVE_DIRENT", !.disk = TRUE]
    <3>1. node' = NodesAfter(p, r, gone, << >>) /\ DOMAIN << >> = {}
      BY <1>5, <2>7 DEF ResponseProcessed, n
    <3>2. /\ r \in Messages(op) /\ r.type = node[p].type /\ r.data = node[p].data
          /\ r.handle = node[p].handle /\ r.state = "REMOVE_DIRENT"
      <4>1. "REMOVE_DIRENT" \in States
        BY DEF States
      <4>2. n \in Messages(op)
        BY <1>3
      <4>3. /\ r \in Messages(op) /\ r.type = n.type /\ r.data = n.data
            /\ r.handle = n.handle /\ r.state = "REMOVE_DIRENT"
        BY ONLY <4>1, <4>2, DiskRequested
      <4> QED BY <1>3, <4>3
    <3> HIDE DEF r
    <3>3. /\ node'[p] = r /\ Partitioned(p)' /\ ChildrenOf(p)' = ChildrenOf(p)
          /\ \A c \in ChildrenOf(p) : node'[c].state = "DELETED"
      <4>1. node' = NodesAfter(p, r, gone, << >>) /\ r.data = node[p].data
        BY <3>1, <3>2
      <4> QED BY <1>1, <2>2, <4>1, NothingSent
    <3>4. MessageOK(node[p])' /\ AllDeleted(ChildrenOf(p))'
      BY <1>1, <3>2, <3>3, MessageKept DEF AllDeleted
    <3>5. NodeOK(p)'
      BY <3>2, <3>3, <3>4 DEF NodeOK
    <3> QED BY <3>1, <3>2, <3>5, StepPreserves
  <2> QED BY <1>1, <2>5, <2>6, <2>7
<1> QED BY <1>4, <1>5

LEMMA DiskResponded ==
  ASSUME IInv, op' = op, NEW p \in Nodes, DiskResponse(p)
  PROVE  IInv'
<1> DEFINE m == [node[p] EXCEPT !.disk = FALSE]
<1>1. /\ NodeOK(p) /\ MessageOK(node[p]) /\ node[p] \in Messages(op) /\ node[p].disk
      /\ node' = IF m.state = "WAIT_FOR_RESPONSE"
                 THEN ResponseProcessed(p, m, {})
                 ELSE NodesAfter(p, [m EXCEPT !.state = "FINISH"], {}, << >>)
  BY DEF DiskResponse, IInv, NodeOK, MessageOK
<1>2. /\ m \in Messages(op) /\ m.type = node[p].type /\ m.data = node[p].data
      /\ m.handle = node[p].handle /\ m.state = node[p].state /\ ~m.disk
      /\ m.outstanding = node[p].outstanding
  BY <1>1, DiskAnswered
<1> HIDE DEF m
<1>3. CASE node[p].state = "WAIT_FOR_RESPONSE"
  <2>1. node' = ResponseProcessed(p, m, {}) /\ m.state = "WAIT_FOR_RESPONSE"
    BY <1>1, <1>2, <1>3
  <2>2. IsFiniteSet(Running(p)) /\ node[p].outstanding = 1 + Cardinality(Running(p))
    BY <1>1, <1>3 DEF NodeOK
  <2>3. Running(p) \ {} = Running(p) /\ {} \in SUBSET ChildrenOf(p)
    OBVIOUS
  <2>4. Cardinality(Running(p)) \in Nat
    BY <2>2, FS_CardinalityType
  <2>5. /\ IsFiniteSet(Running(p) \ {})
        /\ m.outstanding = 1 + (IF m.disk THEN 1 ELSE 0) + Cardinality(Running(p) \ {})
    BY <1>2, <2>2, <2>3, <2>4
  <2>6. m.disk \in BOOLEAN
    BY <1>2 DEF Messages
  <2> QED BY <1>2, <1>3, <2>1, <2>3, <2>5, <2>6, ResponseTaken
<1>4. CASE node[p].state # "WAIT_FOR_RESPONSE"
  <2> DEFINE r == [m EXCEPT !.state = "FINISH"]
  <2>1. node' = NodesAfter(p, r, {}, << >>) /\ DOMAIN << >> = {}
    BY <1>1, <1>2, <1>4
  <2>2. "FINISH" \in States
    BY DEF States
  <2>3. /\ r \in Messages(op) /\ r.type = node[p].type /\ r.data = node[p].data
        /\ r.handle = node[p].handle /\ r.state = "FINISH" /\ ~r.disk
    BY <1>2, <2>2, StateSet
  <2> HIDE DEF r
  <2>4. node[p].state \in {"CREATE_META", "WRITE_ATTR", "CREATE_DIR_ENT", "REMOVE_DIRENT"}
    BY <1>1, <1>4 DEF NodeOK, Messages, States, Fresh
  <2>5. Partitioned(p) /\ AllDeleted(ChildrenOf(p)) /\ node[p].state # "DELETED"
    BY <1>1, <2>4 DEF NodeOK
  <2>6. {} \in SUBSET ChildrenOf(p) /\ \A c \in {} : node[c].state = "FINISH"
    OBVIOUS
  <2>7. /\ node'[p] = r /\ ChildrenOf(p)' = ChildrenOf(p) /\ Partitioned(p)'
        /\ \A c \in ChildrenOf(p) : node'[c].state = "DELETED" <=> (c \in {} \/ node[c].state = "DELETED")
    BY <2>1, <2>3, <2>5, <2>6, NothingSent
  <2>8. \A c \in ChildrenOf(p) : node'[c].state = "DELETED" <=> node[c].state = "DELETED"
    BY <2>7
  <2>9. MessageOK(node[p])' /\ AllDeleted(ChildrenOf(p))'
    BY <1>1, <2>3, <2>5, <2>7, <2>8, MessageKept DEF AllDeleted
  <2>10. NodeOK(p)'
    BY <2>3, <2>7, <2>9 DEF NodeOK
  <2> QED BY <2>1, <2>3, <2>5, <2>6, <2>10, StepPreserves
<1> QED BY <1>3, <1>4

LEMMA ChildResponded ==
  ASSUME IInv, op' = op, NEW p \in Nodes, NEW c \in Nodes, ChildResponse(p, c)
  PROVE  IInv'
<1>1. /\ c \in ChildrenOf(p) /\ {c} \in SUBSET ChildrenOf(p) /\ \A d \in {c} : node[d].state = "FINISH"
      /\ NodeOK(p) /\ MessageOK(node[p]) /\ node[p] \in Messages(op) /\ p \in Path
  BY DEF ChildResponse, IInv, NodeOK, MessageOK
<1>2. CASE node[p].state = "SEND_META" /\ node' = SentAndWaiting(p, node[p], {c})
  <2> DEFINE k == Rounds(Len(node[p].data))
             m == [node[p] EXCEPT !.state = "WAIT_FOR_RESPONSE", !.outstanding = @ + k]
             sent == CollectiveRequests(p, node[p].data)
  <2>1. node' = NodesAfter(p, m, {c}, sent)
    BY <1>2 DEF SentAndWaiting
  <2>2. SharesOut(p, node[p].data, sent)
    BY <1>1, RequestsShareOut DEF MessageOK, Messages
  <2>3. k \in Nat
    BY <2>2 DEF SharesOut
  <2> HIDE DEF k, sent
  <2>4. /\ ~node[p].disk /\ node[p].outstanding = 0 /\ ChildrenOf(p) = {MetaChild(p)}
        /\ DataChildren(p) = {}
    BY <1>1, <1>2 DEF NodeOK
  <2>5. /\ m \in Messages(op) /\ m.type = node[p].type /\ m.data = node[p].data
        /\ m.handle = node[p].handle /\ m.state = "WAIT_FOR_RESPONSE"
        /\ ~m.disk /\ m.outstanding = k
    <3>1. /\ m \in Messages(op) /\ m.type = node[p].type /\ m.data = node[p].data
          /\ m.handle = node[p].handle /\ m.state = "WAIT_FOR_RESPONSE"
          /\ m.disk = node[p].disk /\ m.outstanding = node[p].outstanding + k
      BY <1>1, <2>3, Waiting
    <3>2. m.outstanding = k
      BY <2>3, <2>4, <3>1
    <3> QED BY <2>4, <3>1, <3>2
  <2> HIDE DEF m
  <2>6. /\ DOMAIN sent \subseteq {Append(p, i) : i \in Int} /\ DOMAIN sent \cap Nodes = {}
        /\ \A d \in DOMAIN sent : MessageOK(sent[d]) /\ Fresh(sent[d])
        /\ Running(p)' = DOMAIN sent /\ IsFiniteSet(DOMAIN sent)
        /\ Cardinality(DOMAIN sent) = Rounds(Len(m.data)) /\ Rounds(Len(m.data)) \in Nat
        /\ Partitioned(p)'
        /\ AttrChild(p) \notin ChildrenOf(p)'
        /\ ChildrenOf(p)' \ DataChildren(p)' = ChildrenOf(p)
        /\ \A d \in ChildrenOf(p) : node'[d].state = "DELETED" <=> (d \in {c} \/ node[d].state = "DELETED")
    <3>1. SharesOut(p, m.data, sent) /\ ChildrenOf(p) \subseteq {MetaChild(p)}
      BY <2>2, <2>4, <2>5
    <3> QED BY <1>1, <2>1, <2>4, <2>5, <3>1, DataSent
  <2>7. Stepped(p, m, {c}, sent)
    BY <1>1, <2>1, <2>6, NodesAfterIs
  <2>8. NodeOK(p)'
    <3>1. node'[p] = m
      BY <2>7 DEF Stepped
    <3>2. MessageOK(node[p])'
      BY <1>1, <2>5, <3>1, MessageKept
    <3>3. IsFiniteSet(Running(p))' /\ node'[p].outstanding = Cardinality(Running(p)')
      BY <2>5, <2>6, <3>1 DEF k
    <3>4. AllDeleted(ChildrenOf(p) \ DataChildren(p))'
      <4>1. ChildrenOf(p) = {c}
        BY <1>1, <2>4
      <4> QED BY <2>6, <4>1 DEF AllDeleted
    <3>5. (AttrChild(p) \notin ChildrenOf(p))'
      BY <2>6 DEF AttrChild
    <3>6. ~node'[p].disk /\ node'[p].state = "WAIT_FOR_RESPONSE" /\ Cardinality(Running(p)') \in Nat
      BY <2>5, <2>6, <3>1
    <3>7. node'[p].outstanding = (IF node'[p].disk THEN 1 ELSE 0) + Cardinality(Running(p)')
      BY <3>3, <3>6
    <3> QED BY <2>6, <3>2, <3>3, <3>4, <3>5, <3>6, <3>7 DEF NodeOK
  <2>9. p = Root \/ (node[p].state # "DELETED" /\ m.state # "DELETED")
    BY <1>2, <2>5
  <2> QED BY <1>1, <2>1, <2>5, <2>6, <2>8, <2>9, StepPreserves
<1>3. CASE node[p].state = "WAIT_FOR_RESPONSE" /\ node' = ResponseProcessed(p, node[p], {c})
  <2>1. /\ IsFiniteSet(Running(p)) /\ AllDeleted(ChildrenOf(p) \ DataChildren(p))
        /\ node[p].outstanding = (IF node[p].disk THEN 1 ELSE 0) + Cardinality(Running(p))
    BY <1>1, <1>3 DEF NodeOK
  <2>2. c \in Running(p)
    BY <1>1, <2>1 DEF AllDeleted, Running
  <2>3. /\ IsFiniteSet(Running(p) \ {c}) /\ Cardinality(Running(p)) \in Nat
        /\ Cardinality(Running(p) \ {c}) = Cardinality(Running(p)) - 1
    BY <2>1, <2>2, FS_RemoveElement, FS_CardinalityType
  <2>4. node[p].disk \in BOOLEAN
    BY <1>1 DEF Messages
  <2>5. node[p].outstanding = 1 + (IF node[p].disk THEN 1 ELSE 0) + Cardinality(Running(p) \ {c})
    BY <2>1, <2>3
  <2> QED BY <1>1, <1>3, <2>3, <2>4, <2>5, ResponseTaken
<1>4. CASE /\ node[p].state = "SET_ATTR"
           /\ node' = NodesAfter(p, [node[p] EXCEPT !.state = "CREATE_DIR_ENT", !.disk = TRUE], {c}, << >>)
  <2> DEFINE r == [node[p] EXCEPT !.state = "CREATE_DIR_ENT", !.disk = TRUE]
  <2>1. node' = NodesAfter(p, r, {c}, << >>) /\ DOMAIN << >> = {}
    BY <1>4
  <2>2. "CREATE_DIR_ENT" \in States
    BY DEF States
  <2>3. /\ r \in Messages(op) /\ r.type = node[p].type /\ r.data = node[p].data
        /\ r.handle = node[p].handle /\ r.state = "CREATE_DIR_ENT"
    BY <1>1, <2>2, DiskRequested
  <2> HIDE DEF r
  <2>4. Partitioned(p) /\ AllDeleted(ChildrenOf(p) \ {AttrChild(p)})
    BY <1>1, <1>4 DEF NodeOK
  <2>5. /\ node'[p] = r /\ ChildrenOf(p)' = ChildrenOf(p) /\ Partitioned(p)'
        /\ \A d \in ChildrenOf(p) : node'[d].state = "DELETED" <=> (d \in {c} \/ node[d].state = "DELETED")
    <3>1. {c} \in SUBSET ChildrenOf(p) /\ \A d \in {c} : node[d].state = "FINISH"
      BY <1>1
    <3>2. node' = NodesAfter(p, r, {c}, << >>) /\ r.data = node[p].data
      BY <2>1, <2>3
    <3> QED BY <2>4, <3>1, <3>2, NothingSent
  <2>8. AllDeleted(ChildrenOf(p))'
    <3>1. c = AttrChild(p)
      BY <1>1, <2>4 DEF AllDeleted
    <3> QED BY <2>4, <2>5, <3>1 DEF AllDeleted
  <2>9. MessageOK(node[p])'
    BY <1>1, <2>3, <2>5, MessageKept
  <2>10. NodeOK(p)'
    BY <2>3, <2>5, <2>8, <2>9 DEF NodeOK
  <2>11. p = Root \/ (node[p].state # "DELETED" /\ r.state # "DELETED")
    BY <1>4, <2>3
  <2> QED BY <1>1, <2>1, <2>3, <2>10, <2>11, StepPreserves
<1> QED BY <1>2, <1>3, <1>4 DEF ChildResponse

LEMMA ClientResponded ==
  ASSUME IInv, op' = op, ClientResponse
  PROVE  IInv'
<1> DEFINE r == [node[Root] EXCEPT !.state = "DELETED"]
<1>1. /\ Root \in Nodes /\ node[Root].state = "FINISH" /\ node' = [node EXCEPT ![Root] = r]
      /\ NodeOK(Root) /\ MessageOK(node[Root]) /\ node[Root] \in Messages(op)
  BY DEF ClientResponse, IInv, NodeOK, MessageOK
<1>2. ~node[Root].disk /\ Partitioned(Root) /\ AllDeleted(ChildrenOf(Root))
  BY <1>1 DEF NodeOK
<1>3. "DELETED" \in States
  BY DEF States
<1>4. /\ r \in Messages(op) /\ r.type = node[Root].type /\ r.data = node[Root].data
      /\ r.handle = node[Root].handle /\ r.state = "DELETED" /\ ~r.disk
  BY <1>1, <1>2, <1>3, StateSet
<1> HIDE DEF r
<1>5. node' = NodesAfter(Root, r, {}, << >>) /\ DOMAIN << >> = {}
  BY <1>1, PlainStep
<1>6. {} \in SUBSET ChildrenOf(Root) /\ \A c \in {} : node[c].state = "FINISH"
  OBVIOUS
<1>7. /\ node'[Root] = r /\ ChildrenOf(Root)' = ChildrenOf(Root) /\ Partitioned(Root)'
      /\ \A c \in ChildrenOf(Root) : node'[c].state = "DELETED" <=> (c \in {} \/ node[c].state = "DELETED")
  BY <1>1, <1>2, <1>4, <1>5, <1>6, NothingSent
<1>8. \A c \in ChildrenOf(Root) : node'[c].state = "DELETED" <=> node[c].state = "DELETED"
  BY <1>7
<1>9. MessageOK(node[Root])' /\ AllDeleted(ChildrenOf(Root))'
  BY <1>1, <1>2, <1>4, <1>7, <1>8, MessageKept DEF AllDeleted
<1>10. NodeOK(Root)'
  BY <1>4, <1>7, <1>9 DEF NodeOK
<1> QED BY <1>1, <1>4, <1>5, <1>6, <1>10, StepPreserves
-----------------------------------------------------------------------------
LEMMA NothingChanges ==
  ASSUME IInv, node' = node, op' = op
  PROVE  IInv'
<1>1. Nodes' = Nodes /\ Root' = Root
  BY DEF Nodes, Root
<1>2. ASSUME NEW q \in Nodes PROVE NodeOK(q)'
  <2>1. NodeOK(q)
    BY <1>2 DEF IInv
  <2>2. ChildrenOf(q)' = ChildrenOf(q)
    BY DEF ChildrenOf, Root, Nodes
  <2>3. DataChildren(q)' = DataChildren(q)
    BY <2>2 DEF DataChildren
  <2>4. Running(q)' = Running(q)
    BY <2>3 DEF Running
  <2>5. \A c : Addressed(c)' = Addressed(c)
    BY DEF Addressed
  <2>6. Partitioned(q)' <=> Partitioned(q)
    BY <2>3, <2>5 DEF Partitioned
  <2>7. MetaChild(q)' = MetaChild(q) /\ AttrChild(q)' = AttrChild(q)
    BY DEF MetaChild, AttrChild
  <2>8. /\ AllDeleted(ChildrenOf(q))' <=> AllDeleted(ChildrenOf(q))
        /\ AllDeleted(ChildrenOf(q) \ DataChildren(q))' <=> AllDeleted(ChildrenOf(q) \ DataChildren(q))
        /\ AllDeleted(ChildrenOf(q) \ {AttrChild(q)})' <=> AllDeleted(ChildrenOf(q) \ {AttrChild(q)})
    BY <2>2, <2>3, <2>7 DEF AllDeleted
  <2>9. MessageOK(node[q])' /\ (Fresh(node[q])' <=> Fresh(node[q]))
    BY <2>1 DEF NodeOK, MessageOK, NoData, Messages, ObjectsOf, DirEnt, Attr, Meta, DataHandles,
                Types, Fresh
  <2> QED BY <2>1, <2>2, <2>3, <2>4, <2>6, <2>7, <2>8, <2>9 DEF NodeOK
<1> QED BY <1>1, <1>2 DEF IInv

\* With the types of the other variables.
TreeInv == IInv /\ processed \in [ObjectsOf(op) -> Nat] /\ responded \in BOOLEAN

LEMMA InitTreeInv == Init => TreeInv
<1>1. Init => processed \in [ObjectsOf(op) -> Nat]
  <2>1. 0 \in Nat
    OBVIOUS
  <2> QED BY <2>1, Zenon DEF Init
<1>2. Init => responded \in BOOLEAN
  BY Zenon DEF Init
<1> QED BY <1>1, <1>2, InitIInv DEF TreeInv

LEMMA NextTreeInv == TreeInv /\ [Next]_vars => TreeInv'
<1> SUFFICES ASSUME TreeInv, [Next]_vars PROVE TreeInv'
  OBVIOUS
<1> USE DEF TreeInv
<1>1. ObjectsOf(op)' = ObjectsOf(op)
  BY DEF Next, vars, Receive, ReceiveDirEnt, ReceiveMetadata, ReceiveObject, ReceiveSetAttr,
         DiskResponse, ChildResponse, ClientResponse, Done, ObjectsOf, DataHandles, Meta, DirEnt, Attr
<1>2. ASSUME NEW p \in Nodes, Receive(p) PROVE TreeInv'
  <2>1. op' = op /\ processed' = processed /\ responded' = responded
    BY <1>2 DEF Receive, ReceiveDirEnt, ReceiveMetadata, ReceiveObject, ReceiveSetAttr
  <2>2. IInv'
    BY <1>2, <2>1, DirEntReceived, MetadataReceived, ObjectReceived, SetAttrReceived DEF Receive
  <2> QED BY <1>1, <2>1, <2>2
<1>3. ASSUME NEW p \in Nodes, DiskResponse(p) PROVE TreeInv'
  <2>1. /\ op' = op /\ responded' = responded
        /\ processed' = [processed EXCEPT ![node[p].handle] = @ + 1]
    BY <1>3 DEF DiskResponse
  <2>2. IInv'
    BY <1>3, <2>1, DiskResponded
  <2>3. processed' \in [ObjectsOf(op) -> Nat]
    <3> DEFINE h == node[p].handle
    <3>1. processed \in [ObjectsOf(op) -> Nat] /\ h \in ObjectsOf(op)
      BY DEF IInv, NodeOK, MessageOK, Messages
    <3>2. processed' = [processed EXCEPT ![h] = @ + 1]
      BY <2>1
    <3> HIDE DEF TreeInv, h
    <3>3. processed[h] + 1 \in Nat
      BY <3>1
    <3> QED BY <3>1, <3>2, <3>3
  <2> QED BY <1>1, <2>1, <2>2, <2>3
<1>4. ASSUME NEW p \in Nodes, NEW c \in Nodes, ChildResponse(p, c) PROVE TreeInv'
  <2>1. op' = op /\ processed' = processed /\ responded' = responded
    BY <1>4 DEF ChildResponse
  <2>2. IInv'
    BY <1>4, <2>1, ChildResponded
  <2> QED BY <1>1, <2>1, <2>2
<1>5. CASE ClientResponse
  <2>1. op' = op /\ processed' = processed /\ responded' = TRUE
    BY <1>5 DEF ClientResponse
  <2>2. IInv'
    BY <1>5, <2>1, ClientResponded
  <2> QED BY <1>1, <2>1, <2>2
<1>6. CASE UNCHANGED vars
  <2>1. op' = op /\ node' = node /\ processed' = processed /\ responded' = responded
    BY <1>6 DEF vars
  <2>2. IInv'
    BY <2>1, NothingChanges
  <2> QED BY <1>1, <2>1, <2>2
<1> QED BY <1>2, <1>3, <1>4, <1>5, <1>6 DEF Next, Done

LEMMA TreeInvImplies == TreeInv => TypeOK /\ HandlesPartitioned /\ OutstandingIsExact
<1> SUFFICES ASSUME TreeInv PROVE TypeOK /\ HandlesPartitioned /\ OutstandingIsExact
  OBVIOUS
<1>1. \A p \in Nodes : NodeOK(p) /\ MessageOK(node[p]) /\ node[p] \in Messages(op)
  BY DEF TreeInv, IInv, NodeOK, MessageOK
<1>2. TypeOK
  BY <1>1 DEF TreeInv, TypeOK, Messages, Types
<1>3. HandlesPartitioned
  <2>1. ASSUME NEW p \in Nodes, HasSent(p) PROVE Partitioned(p)
    <3>1. DataChildren(p) # {} /\ ChildrenOf(p) # {}
      BY <2>1 DEF HasSent, DataChildren
    <3>2. node[p].state \notin {"INIT", "SEND_META"}
      BY <1>1, <3>1 DEF NodeOK
    <3> QED BY <1>1, <3>2 DEF NodeOK
  <2> QED BY <2>1 DEF HandlesPartitioned, Partitioned
<1>4. OutstandingIsExact
  <2>1. ASSUME NEW p \in Nodes, node[p].state = "WAIT_FOR_RESPONSE"
        PROVE  node[p].outstanding = (IF node[p].disk THEN 1 ELSE 0)
                               + Cardinality({c \in DataChildren(p) : node[c].state # "DELETED"})
    BY <1>1, <2>1 DEF NodeOK, Running
  <2>2. ASSUME NEW p \in Nodes, node[p].state \in {"FINISH", "DELETED"}
        PROVE  ~node[p].disk /\ \A c \in ChildrenOf(p) : node[c].state = "DELETED"
    BY <1>1, <2>2 DEF NodeOK, AllDeleted
  <2> QED BY <2>1, <2>2 DEF OutstandingIsExact
<1> QED BY <1>2, <1>3, <1>4
-----------------------------------------------------------------------------
(* Each object is processed once, and the client sees one operation.       *)

\* The objects processed so far.
Processed == {o \in ObjectsOf(op) : processed[o] > 0}

\* The node's own object has been processed: a disk request is made in the
\* step that receives a node, but for the directory entry's, which is last.
HandleDone(p) == IF node[p].type = "DIR_ENT" THEN node[p].state \in {"FINISH", "DELETED"}
                                             ELSE node[p].state # "INIT" /\ ~node[p].disk

\* Where the nodes of each type are, and what they are addressed to.
Kind(p) ==
  /\ node[p].type = "DATA" => node[p].handle \in DataHandles
  /\ node[p].type = "METADATA" => node[p].handle = Meta /\ p \in {Root, MetaChild(Root)}
  /\ node[p].type = "SET_ATTR" => node[p].handle = Attr /\ p = AttrChild(Root)
  /\ node[p].type = "DIR_ENT" => node[p].handle = DirEnt /\ p = Root
  /\ p = MetaChild(Root) => node[p].type = "METADATA"
  /\ p = AttrChild(Root) => node[p].type = "SET_ATTR"
  /\ node[p].handle \notin ToSet(node[p].data)

\* Which states the machine of a node of each type passes.
Course(p) ==
  /\ node[p].state = "SEND_META" => node[p].type = "DIR_ENT"
  /\ node[p].state \in {"SET_ATTR", "CREATE_DIR_ENT"} => node[p].type = "DIR_ENT" /\ op = "create"
  /\ node[p].state = "REMOVE_DIRENT" => node[p].type = "DIR_ENT" /\ op = "remove"
  /\ node[p].state = "CREATE_META" => node[p].type = "METADATA" /\ op # "get_attr"
  /\ node[p].state = "WRITE_ATTR" => node[p].type = "SET_ATTR"
  /\ node[p].state = "WAIT_FOR_RESPONSE" /\ node[p].type = "DIR_ENT" => ~node[p].disk
  /\ node[p].state \in {"CREATE_DIR_ENT", "REMOVE_DIRENT"} => node[p].disk
  /\ node[p].type = "DIR_ENT" /\ node[p].state # "INIT" => MetaChild(p) \in Nodes
  /\ node[p].type = "DIR_ENT" /\ op = "create"
       /\ node[p].state \notin {"INIT", "SEND_META", "WAIT_FOR_RESPONSE"} => AttrChild(p) \in Nodes

\* The objects a node is to process or to have processed by others.
Claim(p) == {node[p].handle} \cup
            (IF node[p].state \in {"INIT", "SEND_META"} THEN ToSet(node[p].data) ELSE {})

RootOK ==
  /\ node[Root].type = (IF op = "get_attr" THEN "METADATA" ELSE "DIR_ENT")
  /\ ToSet(node[Root].data) = DataHandles

Progress ==
  /\ RootOK
  /\ \A p \in Nodes : Kind(p)
  /\ \A p \in Nodes : Course(p)
  /\ \A p \in Nodes : node[p].state \in {"FINISH", "DELETED"} => ToSet(node[p].data) \subseteq Processed
  /\ Processed = {node[p].handle : p \in {q \in Nodes : HandleDone(q)}}
  /\ \A p, q \in Nodes : p # q => Claim(p) \cap Claim(q) = {}
  /\ ProcessedOnce

OpInv == TreeInv /\ Progress
-----------------------------------------------------------------------------
LEMMA InitProgress == Init => Progress
<1> SUFFICES ASSUME Init PROVE Progress
  OBVIOUS
<1> DEFINE all == [i \in DataHandles |-> i]
<1>1. /\ Nodes = {Root} /\ node[Root] = RootMessage(op)
      /\ \A o \in ObjectsOf(op) : processed[o] = 0
  BY DEF Init, Nodes
<1>2. RootMessage(op) = IF op = "get_attr" THEN Message("METADATA", Meta, all)
                                           ELSE Message("DIR_ENT", DirEnt, all)
  BY DEF RootMessage
<1>3. ToSet(all) = DataHandles
  BY DEF ToSet
<1>4. Meta \notin DataHandles /\ DirEnt \notin DataHandles
  BY TreeAssumption DEF Meta, DirEnt, DataHandles
<1> HIDE DEF all
<1>5. /\ node[Root].type = (IF op = "get_attr" THEN "METADATA" ELSE "DIR_ENT")
      /\ node[Root].handle = (IF op = "get_attr" THEN Meta ELSE DirEnt)
      /\ node[Root].data = all /\ node[Root].state = "INIT"
  BY <1>1, <1>2, MessageFields DEF Fresh
<1>6. RootOK
  BY <1>3, <1>5 DEF RootOK
<1>7. Root # MetaChild(Root) /\ Root # AttrChild(Root)
  BY DEF Root, MetaChild, AttrChild
<1>8. Kind(Root)
  BY <1>3, <1>4, <1>5, <1>7 DEF Kind
<1>9. Course(Root)
  BY <1>5 DEF Course
<1>10. Processed = {}
  BY <1>1 DEF Processed
<1>11. {node[p].handle : p \in {q \in Nodes : HandleDone(q)}} = {}
  BY <1>1, <1>5 DEF HandleDone
<1> QED BY <1>1, <1>5, <1>6, <1>8, <1>9, <1>10, <1>11 DEF Progress, ProcessedOnce
-----------------------------------------------------------------------------
\* What a step must show of the node it changes and of those it adds: then
\* Progress holds of all the others too.
LEMMA StepProgress ==
  ASSUME OpInv, TreeInv', op' = op,
         NEW p \in Nodes, NEW m, NEW gone \in SUBSET ChildrenOf(p), NEW sent,
         NEW done \in SUBSET {node[p].handle},
         Stepped(p, m, gone, sent), DOMAIN sent \cap Nodes = {},
         \A c \in gone : node[c].state = "FINISH",
         m.type = node[p].type, m.data = node[p].data, m.handle = node[p].handle,
         \A c \in DOMAIN sent : Fresh(sent[c]) /\ Kind(c)',
         Course(p)',
         Processed' = Processed \cup done,
         HandleDone(p)' <=> HandleDone(p) \/ done # {},
         Claim(p)' \subseteq Claim(p),
         \A c \in DOMAIN sent : Held(sent[c]) \cap Claim(p)' = {},
         \A c \in DOMAIN sent : \A q \in Nodes \ {p} : Held(sent[c]) \cap Claim(q) = {},
         \A c, d \in DOMAIN sent : c # d => Held(sent[c]) \cap Held(sent[d]) = {},
         \A o \in ObjectsOf(op) : processed'[o] <= 1
  PROVE  OpInv'
<1>1. /\ Nodes' = Nodes \cup DOMAIN sent /\ node'[p] = m
      /\ \A q \in Nodes \ ({p} \cup gone) : node'[q] = node[q]
      /\ \A c \in gone : node'[c] = [node[c] EXCEPT !.state = "DELETED"]
      /\ \A c \in DOMAIN sent : node'[c] = sent[c]
      /\ p \notin gone /\ gone \subseteq Nodes
  BY DEF Stepped
<1>2. Progress /\ TreeInv /\ IInv /\ \A q \in Nodes : NodeOK(q) /\ node[q] \in Messages(op)
  BY DEF OpInv, TreeInv, IInv, NodeOK, MessageOK
<1>3. Root' = Root /\ MetaChild(Root)' = MetaChild(Root) /\ AttrChild(Root)' = AttrChild(Root)
      /\ DirEnt' = DirEnt /\ Meta' = Meta /\ Attr' = Attr /\ DataHandles' = DataHandles
  BY DEF Root, MetaChild, AttrChild, DirEnt, Meta, Attr, DataHandles
<1>4. ASSUME NEW q \in Nodes
      PROVE  /\ node'[q].type = node[q].type /\ node'[q].data = node[q].data
             /\ node'[q].handle = node[q].handle
  <2>1. CASE q \in gone
    <3>1. node[q] \in Messages(op)
      BY <1>2
    <3>2. node'[q] = [node[q] EXCEPT !.state = "DELETED"]
      BY <1>1, <2>1
    <3> QED BY ONLY <3>1, <3>2, DeletedMessage
  <2>2. CASE q \notin gone
    BY <1>1, <2>2
  <2> QED BY <2>1, <2>2
<1>5. ASSUME NEW q \in Nodes \ {p}
      PROVE  /\ node'[q].disk = node[q].disk
             /\ node'[q].state = IF q \in gone THEN "DELETED" ELSE node[q].state
             /\ q \in gone => node[q].state = "FINISH"
  <2>1. CASE q \in gone
    <3>1. node[q] \in Messages(op) /\ node[q].state = "FINISH"
      BY <1>2, <2>1
    <3>2. node'[q] = [node[q] EXCEPT !.state = "DELETED"]
      BY <1>1, <2>1
    <3>3. node'[q].state = "DELETED" /\ node'[q].disk = node[q].disk
      BY ONLY <3>1, <3>2, DeletedMessage
    <3> QED BY <2>1, <3>1, <3>3
  <2>2. CASE q \notin gone
    BY <1>1, <2>2
  <2> QED BY <2>1, <2>2
<1>6. RootOK'
  <2>1. Root \in Nodes
    BY <1>2 DEF IInv
  <2> QED BY <1>2, <1>3, <1>4, <2>1 DEF Progress, RootOK
<1>7. \A q \in Nodes' : Kind(q)'
  <2>1. ASSUME NEW q \in Nodes PROVE Kind(q)'
    <3>1. Kind(q)
      BY <1>2 DEF Progress
    <3> QED BY <1>3, <1>4, <3>1 DEF Kind
  <2> QED BY <1>1, <2>1
<1>8. \A q \in Nodes' : Course(q)'
  <2>1. ASSUME NEW q \in Nodes \ {p} PROVE Course(q)'
    <3>1. Course(q) /\ MetaChild(q)' = MetaChild(q) /\ AttrChild(q)' = AttrChild(q)
      BY <1>2 DEF Progress, MetaChild, AttrChild
    <3>2. CASE q \in gone
      BY <1>1, <1>4, <1>5, <3>1, <3>2 DEF Course
    <3>3. CASE q \notin gone
      <4>1. node'[q] = node[q]
        BY <1>1, <3>3
      <4> QED BY <1>1, <3>1, <4>1 DEF Course
    <3> QED BY <3>2, <3>3
  <2>2. ASSUME NEW c \in DOMAIN sent PROVE Course(c)'
    <3>1. node'[c].state = "INIT"
      BY <1>1, <2>2 DEF Fresh
    <3> QED BY <3>1 DEF Course
  <2> QED BY <1>1, <2>1, <2>2
<1>9. \A q \in Nodes : q # p => (HandleDone(q)' <=> HandleDone(q))
  BY <1>4, <1>5 DEF HandleDone
<1>10. Processed' = {node'[q].handle : q \in {r \in Nodes' : HandleDone(r)'}}
  <2>1. \A c \in DOMAIN sent : ~HandleDone(c)'
    BY <1>1 DEF HandleDone, Fresh
  <2>2. Processed = {node[q].handle : q \in {r \in Nodes : HandleDone(r)}}
    BY <1>2 DEF Progress
  <2>3. ASSUME NEW o PROVE o \in Processed' <=> \E q \in Nodes' : HandleDone(q)' /\ o = node'[q].handle
    <3>1. o \in Processed <=> \E q \in Nodes : HandleDone(q) /\ o = node[q].handle
      BY <2>2
    <3>2. o \in Processed' <=> o \in Processed \/ (done # {} /\ o = node[p].handle)
      OBVIOUS
    <3>3. ASSUME o \in Processed' PROVE \E q \in Nodes' : HandleDone(q)' /\ o = node'[q].handle
      <4>1. CASE done # {} /\ o = node[p].handle
        BY <1>1, <1>4, <4>1
      <4>2. CASE o \in Processed
        <5>1. PICK q \in Nodes : HandleDone(q) /\ o = node[q].handle
          BY <3>1, <4>2
        <5> QED BY <1>1, <1>4, <1>9, <5>1
      <4> QED BY <3>2, <3>3, <4>1, <4>2
    <3>4. ASSUME NEW q \in Nodes', HandleDone(q)', o = node'[q].handle PROVE o \in Processed'
      <4>1. q \in Nodes
        BY <1>1, <2>1, <3>4
      <4> QED BY <1>4, <1>9, <3>1, <3>2, <3>4, <4>1
    <3> QED BY <3>3, <3>4
  <2> HIDE DEF Processed
  <2> QED BY <2>3
<1>11. \A q \in Nodes' : node'[q].state \in {"FINISH", "DELETED"} => ToSet(node'[q].data) \subseteq Processed'
  <2>1. ASSUME NEW q \in Nodes, q # p, node'[q].state \in {"FINISH", "DELETED"}
        PROVE  ToSet(node'[q].data) \subseteq Processed' /\ node'[q].handle \in Processed'
    <3>1. node[q].state \in {"FINISH", "DELETED"} /\ node'[q].handle = node[q].handle
          /\ node'[q].data = node[q].data
      BY <1>4, <1>5, <2>1
    <3>2. ToSet(node[q].data) \subseteq Processed
      BY <1>2, <3>1 DEF Progress
    <3>3. HandleDone(q)
      BY <1>2, <3>1 DEF HandleDone, NodeOK
    <3>4. node[q].handle \in Processed
      BY <1>2, <3>3 DEF Progress
    <3> QED BY <3>1, <3>2, <3>4
  <2>2. ASSUME node'[p].state \in {"FINISH", "DELETED"}
        PROVE  ToSet(node'[p].data) \subseteq Processed'
    <3>1. Partitioned(p)' /\ AllDeleted(ChildrenOf(p))'
      BY <1>1, <2>2 DEF TreeInv, IInv, NodeOK
    <3>2. ASSUME NEW c \in DataChildren(p)' PROVE Addressed(c)' \subseteq Processed'
      <4>1. c \in Nodes' /\ node'[c].state = "DELETED" /\ c # Root /\ Front(c) = p
        BY <3>1 DEF DataChildren, ChildrenOf, AllDeleted, Root
      <4>2. c # p
        <5>1. c \in Path
          BY <4>1 DEF TreeInv, IInv, Path
        <5> QED BY <4>1, <5>1, PathOfChild
      <4>3. c \in Nodes
        BY <1>1, <4>1 DEF Fresh
      <4> QED BY <2>1, <4>1, <4>2, <4>3 DEF Addressed
    <3>3. ToSet(node'[p].data) = UNION {Addressed(c)' : c \in DataChildren(p)'}
      BY <3>1 DEF Partitioned
    <3> QED BY <3>2, <3>3
  <2>3. ASSUME NEW c \in DOMAIN sent PROVE node'[c].state = "INIT"
    BY <1>1 DEF Fresh
  <2> QED BY <1>1, <2>1, <2>2, <2>3
<1>12. \A q, r \in Nodes' : q # r => Claim(q)' \cap Claim(r)' = {}
  <2>1. \A q \in Nodes \ {p} : Claim(q)' = Claim(q)
    BY <1>4, <1>5 DEF Claim
  <2>2. \A c \in DOMAIN sent : Claim(c)' = Held(sent[c])
    BY <1>1 DEF Claim, Held, Fresh
  <2>3. \A q, r \in Nodes : q # r => Claim(q) \cap Claim(r) = {}
    BY <1>2 DEF Progress
  <2>4. \A q \in Nodes : Claim(q)' \subseteq Claim(q)
    BY <2>1
  <2>5. ASSUME NEW q \in Nodes', NEW r \in Nodes', q # r PROVE Claim(q)' \cap Claim(r)' = {}
    <3>1. CASE q \in Nodes /\ r \in Nodes
      BY <2>3, <2>4, <2>5, <3>1
    <3>2. ASSUME NEW c \in DOMAIN sent, NEW s \in Nodes PROVE Claim(c)' \cap Claim(s)' = {}
      BY <2>1, <2>2
    <3>3. CASE q \in DOMAIN sent /\ r \in DOMAIN sent
      BY <2>2, <2>5, <3>3
    <3> QED BY <1>1, <3>1, <3>2, <3>3
  <2> QED BY <2>5
<1>13. ProcessedOnce'
  BY DEF ProcessedOnce, ObjectsOf, DataHandles, Meta, DirEnt, Attr
<1> QED BY <1>6, <1>7, <1>8, <1>10, <1>11, <1>12, <1>13 DEF OpInv, Progress
-----------------------------------------------------------------------------
LEMMA NothingProcessed ==
  ASSUME OpInv, op' = op, processed' = processed
  PROVE  Processed' = Processed \cup {} /\ \A o \in ObjectsOf(op) : processed'[o] <= 1
<1>1. ObjectsOf(op)' = ObjectsOf(op)
  BY DEF ObjectsOf, DataHandles, Meta, DirEnt, Attr
<1> QED BY <1>1 DEF OpInv, Progress, Processed, ProcessedOnce

\* A step that answers, or goes on, without sending a request.
LEMMA QuietProgress ==
  ASSUME OpInv, TreeInv', op' = op,
         NEW p \in Nodes, NEW m, NEW gone \in SUBSET ChildrenOf(p),
         NEW done \in SUBSET {node[p].handle},
         node' = NodesAfter(p, m, gone, << >>),
         \A c \in gone : node[c].state = "FINISH",
         m.type = node[p].type, m.data = node[p].data, m.handle = node[p].handle,
         m.state \notin {"INIT", "SEND_META"},
         Course(p)',
         Processed' = Processed \cup done,
         HandleDone(p)' <=> HandleDone(p) \/ done # {},
         \A o \in ObjectsOf(op) : processed'[o] <= 1
  PROVE  OpInv'
<1>1. PICK s : s = << >> /\ DOMAIN s = {}
  OBVIOUS
<1>2. DOMAIN s \subseteq {Append(p, i) : i \in Int} /\ DOMAIN s \cap Nodes = {}
  BY <1>1
<1>3. IInv
  BY DEF OpInv, TreeInv
<1>4. Stepped(p, m, gone, s)
  BY <1>1, <1>2, <1>3, NodesAfterIs
<1>5. Claim(p)' \subseteq Claim(p)
  BY <1>4 DEF Claim, Stepped
<1>6. /\ \A c \in DOMAIN s : Fresh(s[c]) /\ Kind(c)'
      /\ \A c \in DOMAIN s : Held(s[c]) \cap Claim(p)' = {}
      /\ \A c \in DOMAIN s : \A q \in Nodes \ {p} : Held(s[c]) \cap Claim(q) = {}
      /\ \A c, d \in DOMAIN s : c # d => Held(s[c]) \cap Held(s[d]) = {}
  BY <1>1
<1> QED BY <1>2, <1>4, <1>5, <1>6, StepProgress

\* A node's data requests share out what only the node had claimed.
LEMMA DataProgress ==
  ASSUME OpInv, TreeInv', op' = op, processed' = processed,
         NEW p \in Nodes, NEW m, NEW gone \in SUBSET ChildrenOf(p), NEW sent,
         Stepped(p, m, gone, sent), DOMAIN sent \cap Nodes = {},
         SharesOut(p, node[p].data, sent),
         \A c \in gone : node[c].state = "FINISH",
         m.type = node[p].type, m.data = node[p].data, m.handle = node[p].handle,
         node[p].state \in {"INIT", "SEND_META"}, m.state = "WAIT_FOR_RESPONSE",
         Course(p)', ~HandleDone(p), ~HandleDone(p)'
  PROVE  OpInv'
<1>1. /\ Progress /\ IInv /\ p \in Path /\ node'[p] = m
      /\ \A c \in DOMAIN sent : node'[c] = sent[c]
      /\ ToSet(node[p].data) \subseteq DataHandles
  <2>1. IInv /\ Progress
    BY DEF OpInv, TreeInv
  <2>2. node[p].data \in Seq(DataHandles)
    BY <2>1 DEF IInv, NodeOK, MessageOK, Messages
  <2> QED BY <2>1, <2>2 DEF Stepped, IInv, ToSet
<1>2. Claim(p) = {node[p].handle} \cup ToSet(node[p].data) /\ Claim(p)' = {node[p].handle}
  BY <1>1 DEF Claim
<1>3. Kind(p) /\ \A q \in Nodes \ {p} : Claim(p) \cap Claim(q) = {}
  BY <1>1 DEF Progress
<1>4. node[p].handle \notin ToSet(node[p].data)
  BY <1>3 DEF Kind
<1>5. \A c \in DOMAIN sent : Held(sent[c]) \subseteq ToSet(node[p].data)
  BY DEF SharesOut
<1>6. /\ \A c, d \in DOMAIN sent : c # d => Held(sent[c]) \cap Held(sent[d]) = {}
      /\ \A c \in DOMAIN sent : Fresh(sent[c])
  BY DEF SharesOut
<1>7. \A c \in DOMAIN sent : Held(sent[c]) \cap Claim(p)' = {}
  BY <1>2, <1>4, <1>5
<1>8. \A c \in DOMAIN sent : \A q \in Nodes \ {p} : Held(sent[c]) \cap Claim(q) = {}
  BY <1>2, <1>3, <1>5
<1>9. ASSUME NEW c \in DOMAIN sent PROVE Kind(c)'
  <2>1. /\ sent[c].type = "DATA" /\ sent[c].handle \notin ToSet(sent[c].data)
        /\ sent[c].handle \in DataHandles
    BY <1>1, <1>5, <1>9 DEF SharesOut, Held
  <2>2. c # MetaChild(Root) /\ c # AttrChild(Root)
    <3>1. PICK i \in Int : c = Append(p, i)
      BY <1>9 DEF SharesOut
    <3>2. c \in Path /\ Front(c) = p
      BY <1>1, <3>1, ChildPath
    <3>3. Root \in Path /\ Front(MetaChild(Root)) = Root /\ Front(AttrChild(Root)) = Root
      <4>1. Root \in Path /\ 0 \in Int /\ -1 \in Int
        BY DEF Root, Path
      <4> QED BY <4>1, ChildPath DEF MetaChild, AttrChild
    <3>4. c # MetaChild(p) /\ c # AttrChild(p)
      BY <1>9 DEF SharesOut
    <3> QED BY <3>2, <3>3, <3>4
  <2> QED BY <1>1, <1>9, <2>1, <2>2 DEF Kind, Root, MetaChild, AttrChild, DataHandles
<1>10. Processed' = Processed \cup {} /\ \A o \in ObjectsOf(op) : processed'[o] <= 1
  BY NothingProcessed
<1>11. Claim(p)' \subseteq Claim(p) /\ \A c \in DOMAIN sent : Fresh(sent[c]) /\ Kind(c)'
  BY <1>2, <1>6, <1>9
<1>12. PICK done \in SUBSET {node[p].handle} : done = {}
  OBVIOUS
<1>13. Processed' = Processed \cup done /\ (HandleDone(p)' <=> HandleDone(p) \/ done # {})
  BY <1>10, <1>12
<1> QED BY <1>6, <1>7, <1>8, <1>10, <1>11, <1>13, StepProgress

\* The directory server asks for an object that nobody else deals with.
LEMMA OneProgress ==
  ASSUME OpInv, TreeInv', op' = op, processed' = processed,
         NEW p \in Nodes, p = Root,
         NEW m, NEW gone \in SUBSET ChildrenOf(p), NEW sent, NEW c, c \notin Nodes,
         NEW handle \in {Meta, Attr},
         Stepped(p, m, gone, sent), DOMAIN sent = {c},
         Fresh(sent[c]), sent[c].handle = handle, sent[c].data = << >>,
         \/ handle = Meta /\ sent[c].type = "METADATA" /\ c = MetaChild(Root)
         \/ handle = Attr /\ sent[c].type = "SET_ATTR" /\ c = AttrChild(Root),
         \A d \in gone : node[d].state = "FINISH", node[p].type = "DIR_ENT",
         m.type = node[p].type, m.data = node[p].data, m.handle = node[p].handle,
         m.state \in {"INIT", "SEND_META"} => node[p].state \in {"INIT", "SEND_META"},
         Course(p)', ~HandleDone(p), ~HandleDone(p)'
  PROVE  OpInv'
<1>1. /\ Progress /\ IInv /\ node'[p] = m /\ node'[c] = sent[c]
      /\ \A q \in Nodes : Kind(q) /\ node[q].type \in Types /\ ToSet(node[q].data) \subseteq DataHandles
  <2>1. IInv /\ Progress
    BY DEF OpInv, TreeInv
  <2>2. \A q \in Nodes : node[q] \in Messages(op)
    BY <2>1 DEF IInv, NodeOK, MessageOK
  <2>3. \A q \in Nodes : node[q].type \in Types /\ node[q].data \in Seq(DataHandles)
    BY <2>2 DEF Messages
  <2>4. \A q \in Nodes : ToSet(node[q].data) \subseteq DataHandles
    BY <2>3 DEF ToSet
  <2> QED BY <2>1, <2>3, <2>4 DEF Stepped, IInv, Progress
<1>2. Meta # Attr /\ DirEnt \notin {Meta, Attr} /\ Meta \notin DataHandles /\ Attr \notin DataHandles
  BY TreeAssumption DEF Meta, Attr, DirEnt, DataHandles
<1>3. MetaChild(Root) # AttrChild(Root)
  <2>1. Root \in Path /\ 0 \in Int /\ -1 \in Int
    BY DEF Root, Path
  <2>2. Last(Append(Root, 0)) = 0 /\ Last(Append(Root, -1)) = -1
    BY ONLY <2>1, ChildPath
  <2> QED BY <2>2 DEF MetaChild, AttrChild
<1>4. ASSUME NEW q \in Nodes PROVE handle \notin Claim(q)
  <2>1. q # c /\ Kind(q) /\ node[q].type \in Types /\ ToSet(node[q].data) \subseteq DataHandles
    BY <1>1, <1>4
  <2>2. handle \notin ToSet(node[q].data)
    BY <1>2, <2>1
  <2>3. handle # node[q].handle
    BY <1>2, <2>1 DEF Kind, Types
  <2> QED BY <2>2, <2>3 DEF Claim
<1>5. Held(sent[c]) = {handle}
  BY EmptyData DEF Held
<1>6. Claim(p)' \subseteq Claim(p)
  BY <1>1 DEF Claim
<1>7. Kind(c)'
  <2>1. handle \notin ToSet(sent[c].data)
    BY EmptyData
  <2>2. Root # MetaChild(Root) /\ Root # AttrChild(Root)
    BY DEF Root, MetaChild, AttrChild
  <2>3. Root' = Root /\ MetaChild(Root)' = MetaChild(Root) /\ AttrChild(Root)' = AttrChild(Root)
        /\ Meta' = Meta /\ Attr' = Attr
    BY DEF Root, MetaChild, AttrChild, Meta, Attr
  <2> QED BY <1>1, <1>2, <1>3, <2>1, <2>2, <2>3 DEF Kind
<1>8. Processed' = Processed \cup {} /\ \A o \in ObjectsOf(op) : processed'[o] <= 1
  BY NothingProcessed
<1>9. DOMAIN sent \cap Nodes = {}
  OBVIOUS
<1> QED BY <1>4, <1>5, <1>6, <1>7, <1>8, <1>9, StepProgress
-----------------------------------------------------------------------------
\* What OpInv says of one node.
LEMMA NodeFacts ==
  ASSUME OpInv, NEW p \in Nodes
  PROVE  /\ IInv /\ Progress /\ NodeOK(p) /\ Kind(p) /\ Course(p) /\ p \in Path
         /\ node[p] \in Messages(op) /\ Root \in Nodes /\ node[p].disk \in BOOLEAN
         /\ processed \in [ObjectsOf(op) -> Nat]
<1>1. IInv /\ Progress /\ NodeOK(p) /\ p \in Path /\ Root \in Nodes
  BY DEF OpInv, TreeInv, IInv
<1>2. node[p] \in Messages(op)
  BY <1>1 DEF NodeOK, MessageOK
<1>3. node[p].disk \in BOOLEAN
  BY <1>2 DEF Messages
<1> QED BY <1>1, <1>2, <1>3 DEF OpInv, TreeInv, Progress

LEMMA DirEntProgress ==
  ASSUME OpInv, TreeInv', op' = op, NEW p \in Nodes, ReceiveDirEnt(p)
  PROVE  OpInv'
<1> DEFINE m == [node[p] EXCEPT !.state = "SEND_META"]
           c == MetaChild(p)
           sent == [d \in {c} |-> Message("METADATA", Meta, << >>)]
<1>1. /\ node[p].state = "INIT" /\ node[p].type = "DIR_ENT" /\ node' = NodesAfter(p, m, {}, sent)
      /\ processed' = processed /\ ChildrenOf(p) = {}
      /\ IInv /\ Kind(p) /\ node[p] \in Messages(op)
  BY NodeFacts DEF ReceiveDirEnt, NodeOK
<1>2. /\ m.type = node[p].type /\ m.data = node[p].data /\ m.handle = node[p].handle
      /\ m.state = "SEND_META"
  <2>1. "SEND_META" \in States
    BY DEF States
  <2> QED BY <1>1, <2>1, StateSet
<1>3. DOMAIN sent = {c} /\ sent[c] = Message("METADATA", Meta, << >>)
  OBVIOUS
<1>4. Fresh(sent[c]) /\ sent[c].handle = Meta /\ sent[c].data = << >> /\ sent[c].type = "METADATA"
  BY <1>3, MessageFields
<1> HIDE DEF m, sent
<1>5. DOMAIN sent \subseteq {Append(p, i) : i \in Int} /\ DOMAIN sent \cap Nodes = {}
  <2>1. DOMAIN sent \subseteq {Append(p, i) : i \in Int}
    BY <1>3 DEF MetaChild
  <2> QED BY <1>1, <2>1, NewPaths
<1>6. {} \in SUBSET ChildrenOf(p)
  OBVIOUS
<1>7. Stepped(p, m, {}, sent)
  BY <1>1, <1>5, <1>6, NodesAfterIs
<1>8. p = Root /\ c = MetaChild(Root)
  BY <1>1 DEF Kind
<1>9. ~HandleDone(p) /\ ~HandleDone(p)' /\ Course(p)'
  BY <1>1, <1>2, <1>3, <1>7 DEF HandleDone, Course, Stepped, MetaChild
<1>10. c \notin Nodes /\ Meta \in {Meta, Attr}
  BY <1>3, <1>5
<1> HIDE DEF c
<1> QED BY <1>1, <1>2, <1>3, <1>4, <1>6, <1>7, <1>8, <1>9, <1>10, OneProgress

LEMMA MetadataProgress ==
  ASSUME OpInv, TreeInv', op' = op, NEW p \in Nodes, ReceiveMetadata(p)
  PROVE  OpInv'
<1> DEFINE d == [node[p] EXCEPT !.state = "CREATE_META"]
           m == WithDiskRequest(d)
<1>1. /\ node[p].state = "INIT" /\ node[p].type = "METADATA" /\ op # "get_attr"
      /\ node' = [node EXCEPT ![p] = m] /\ processed' = processed
      /\ IInv /\ node[p] \in Messages(op)
  BY NodeFacts DEF ReceiveMetadata
<1>2. /\ m.type = node[p].type /\ m.data = node[p].data /\ m.handle = node[p].handle
      /\ m.state = "CREATE_META" /\ m.disk
  <2>1. "CREATE_META" \in States
    BY DEF States
  <2>2. /\ d \in Messages(op) /\ d.type = node[p].type /\ d.data = node[p].data
        /\ d.handle = node[p].handle /\ d.state = "CREATE_META"
    BY <1>1, <2>1, StateSet
  <2> HIDE DEF d
  <2> QED BY <2>2, Requested
<1> HIDE DEF m, d
<1>3. node' = NodesAfter(p, m, {}, << >>)
  BY <1>1, PlainStep
<1>4. node'[p] = m
  BY <1>1 DEF Nodes
<1>5. ~HandleDone(p) /\ ~HandleDone(p)' /\ Course(p)'
  BY <1>1, <1>2, <1>4 DEF HandleDone, Course
<1> QED BY <1>1, <1>2, <1>3, <1>5, NothingProcessed, QuietProgress

LEMMA SetAttrProgress ==
  ASSUME OpInv, TreeInv', op' = op, NEW p \in Nodes, ReceiveSetAttr(p)
  PROVE  OpInv'
<1> DEFINE m == [node[p] EXCEPT !.state = "WRITE_ATTR", !.disk = TRUE]
<1>1. /\ node[p].state = "INIT" /\ node[p].type = "SET_ATTR"
      /\ node' = [node EXCEPT ![p] = m] /\ processed' = processed
      /\ IInv /\ node[p] \in Messages(op)
  BY NodeFacts DEF ReceiveSetAttr, Nodes
<1>2. /\ m.type = node[p].type /\ m.data = node[p].data /\ m.handle = node[p].handle
      /\ m.state = "WRITE_ATTR" /\ m.disk
  BY <1>1 DEF Messages, States
<1> HIDE DEF m
<1>3. node' = NodesAfter(p, m, {}, << >>)
  BY <1>1, PlainStep
<1>4. node'[p] = m
  BY <1>1 DEF Nodes
<1>5. ~HandleDone(p) /\ ~HandleDone(p)' /\ Course(p)'
  BY <1>1, <1>2, <1>4 DEF HandleDone, Course
<1> QED BY <1>1, <1>2, <1>3, <1>5, NothingProcessed, QuietProgress

LEMMA ObjectProgress ==
  ASSUME OpInv, TreeInv', op' = op, NEW p \in Nodes, ReceiveObject(p)
  PROVE  OpInv'
<1> DEFINE d == WithDiskRequest(node[p])
           k == Rounds(Len(d.data))
           m == [d EXCEPT !.state = "WAIT_FOR_RESPONSE", !.outstanding = @ + k]
           sent == CollectiveRequests(p, d.data)
<1>1. /\ node[p].state = "INIT" /\ node' = NodesAfter(p, m, {}, sent) /\ processed' = processed
      /\ node[p].type # "DIR_ENT" /\ ChildrenOf(p) = {} /\ MessageOK(node[p])
      /\ IInv /\ node[p] \in Messages(op) /\ p \in Path
  <2>1. node[p].type # "DIR_ENT"
    BY DEF ReceiveObject
  <2> QED BY <2>1, NodeFacts DEF ReceiveObject, SentAndWaiting, NodeOK
<1>2. /\ d.type = node[p].type /\ d.data = node[p].data /\ d.handle = node[p].handle
      /\ d \in Messages(op) /\ d.disk
  BY <1>1, Requested
<1> HIDE DEF d
<1>3. SharesOut(p, node[p].data, sent)
  BY <1>1, <1>2, RequestsShareOut DEF MessageOK, Messages
<1>4. k \in Nat
  BY <1>2, <1>3 DEF SharesOut
<1> HIDE DEF k, sent
<1>5. /\ m.type = node[p].type /\ m.data = node[p].data /\ m.handle = node[p].handle
      /\ m.state = "WAIT_FOR_RESPONSE" /\ m.disk
  <2>1. d \in Messages(op) /\ k \in Nat
    BY <1>2, <1>4
  <2>2. /\ m.type = d.type /\ m.data = d.data /\ m.handle = d.handle
        /\ m.state = "WAIT_FOR_RESPONSE" /\ m.disk = d.disk
    BY ONLY <2>1, Waiting
  <2> QED BY <1>2, <2>2
<1> HIDE DEF m
<1>6. {} \in SUBSET ChildrenOf(p) /\ \A c \in {} : node[c].state = "FINISH"
  OBVIOUS
<1>7. DOMAIN sent \subseteq {Append(p, i) : i \in Int} /\ DOMAIN sent \cap Nodes = {}
  <2>1. DOMAIN sent \subseteq {Append(p, i) : i \in Int} /\ DOMAIN sent \cap ChildrenOf(p) = {}
    BY <1>1, <1>3 DEF SharesOut
  <2> QED BY <1>1, <2>1, NewPaths
<1>8. Stepped(p, m, {}, sent)
  BY <1>1, <1>6, <1>7, NodesAfterIs
<1>9. ~HandleDone(p) /\ ~HandleDone(p)' /\ Course(p)'
  BY <1>1, <1>5, <1>8 DEF HandleDone, Course, Stepped
<1> QED BY <1>1, <1>3, <1>5, <1>6, <1>7, <1>8, <1>9, DataProgress

\* The disk answers for an object nobody else has processed, or will.
LEMMA DiskAnswersOnce ==
  ASSUME OpInv, TreeInv', op' = op, NEW p \in Nodes, DiskResponse(p)
  PROVE  /\ node[p].handle \in ObjectsOf(op) \ Processed
         /\ Processed' = Processed \cup {node[p].handle}
         /\ \A o \in ObjectsOf(op) : processed'[o] <= 1
<1> DEFINE h == node[p].handle
<1>1. /\ Progress /\ NodeOK(p) /\ node[p].disk /\ processed' = [processed EXCEPT ![h] = @ + 1]
      /\ processed \in [ObjectsOf(op) -> Nat] /\ node[p] \in Messages(op)
  BY NodeFacts DEF DiskResponse
<1>2. h \in ObjectsOf(op)
  BY <1>1 DEF Messages
<1>3. ~HandleDone(p)
  BY <1>1 DEF HandleDone, NodeOK
<1>4. h \notin Processed
  <2>1. ASSUME NEW q \in Nodes, HandleDone(q), h = node[q].handle PROVE FALSE
    <3>1. h \in Claim(p) /\ h \in Claim(q)
      BY <2>1 DEF Claim
    <3>2. p # q
      BY <1>3, <2>1
    <3> QED BY <1>1, <3>1, <3>2 DEF Progress
  <2> QED BY <1>1, <2>1 DEF Progress
<1> HIDE DEF h
<1>5. ObjectsOf(op)' = ObjectsOf(op)
  BY DEF ObjectsOf, DataHandles, Meta, DirEnt, Attr
<1>6. processed[h] = 0 /\ processed'[h] = 1 /\ \A o \in ObjectsOf(op) \ {h} : processed'[o] = processed[o]
  BY <1>1, <1>2, <1>4 DEF Processed
<1>7. Processed' = Processed \cup {h}
  BY <1>2, <1>5, <1>6 DEF Processed
<1>8. \A o \in ObjectsOf(op) : processed'[o] <= 1
  BY <1>1, <1>6 DEF Progress, ProcessedOnce
<1> QED BY <1>2, <1>4, <1>7, <1>8 DEF h

LEMMA DiskProgress ==
  ASSUME OpInv, TreeInv', op' = op, NEW p \in Nodes, DiskResponse(p)
  PROVE  OpInv'
<1> DEFINE m == [node[p] EXCEPT !.disk = FALSE]
<1>1. /\ node[p].disk
      /\ node' = IF m.state = "WAIT_FOR_RESPONSE"
                 THEN ResponseProcessed(p, m, {})
                 ELSE NodesAfter(p, [m EXCEPT !.state = "FINISH"], {}, << >>)
      /\ IInv /\ NodeOK(p) /\ Course(p) /\ Kind(p) /\ node[p] \in Messages(op)
  BY NodeFacts DEF DiskResponse
<1>2. /\ m \in Messages(op) /\ m.type = node[p].type /\ m.data = node[p].data
      /\ m.handle = node[p].handle /\ m.state = node[p].state /\ ~m.disk
      /\ m.outstanding = node[p].outstanding
  BY <1>1, DiskAnswered
<1> HIDE DEF m
<1>3. {} \in SUBSET ChildrenOf(p) /\ {node[p].handle} \in SUBSET {node[p].handle}
      /\ \A c \in {} : node[c].state = "FINISH"
  OBVIOUS
<1>4. ASSUME NEW r, r.type = node[p].type, r.data = node[p].data, r.handle = node[p].handle, ~r.disk,
             \/ r.state = "WAIT_FOR_RESPONSE" /\ node[p].type # "DIR_ENT"
             \/ r.state = "FINISH",
             node' = NodesAfter(p, r, {}, << >>)
      PROVE  OpInv'
  <2>1. node'[p] = r /\ Nodes' = Nodes
    BY <1>4 DEF NodesAfter, Nodes
  <2>2. HandleDone(p)'
    BY <1>4, <2>1 DEF HandleDone
  <2>3. node[p].type = "DIR_ENT" => node[p].state \in {"CREATE_DIR_ENT", "REMOVE_DIRENT"}
    BY <1>1 DEF NodeOK, Course, Messages, States, Fresh
  <2>4. Course(p)'
    BY <1>1, <1>4, <2>1, <2>3 DEF Course, MetaChild, AttrChild
  <2>5. Processed' = Processed \cup {node[p].handle} /\ \A o \in ObjectsOf(op) : processed'[o] <= 1
    BY DiskAnswersOnce
  <2>6. HandleDone(p)' <=> HandleDone(p) \/ {node[p].handle} # {}
    BY <2>2
  <2>7. r.state \notin {"INIT", "SEND_META"}
    BY <1>4
  <2> QED BY <1>3, <1>4, <2>4, <2>5, <2>6, <2>7, QuietProgress
<1>5. CASE node[p].state = "WAIT_FOR_RESPONSE"
  <2> DEFINE n == [m EXCEPT !.outstanding = @ - 1]
             r == [n EXCEPT !.state = "FINISH"]
  <2>1. node[p].type # "DIR_ENT"
    BY <1>1, <1>5 DEF Course
  <2>2. node' = ResponseProcessed(p, m, {})
    BY <1>1, <1>2, <1>5
  <2>3. /\ n.type = m.type /\ n.data = m.data /\ n.handle = m.handle /\ n.disk = m.disk
        /\ n.state = m.state
    BY <1>2 DEF Messages
  <2>4. /\ r.type = m.type /\ r.data = m.data /\ r.handle = m.handle /\ r.disk = m.disk
        /\ r.state = "FINISH"
    BY <1>2 DEF Messages
  <2>5. \/ node' = NodesAfter(p, n, {}, << >>)
        \/ node' = NodesAfter(p, r, {}, << >>)
    BY <1>2, <2>1, <2>2 DEF ResponseProcessed
  <2> HIDE DEF r, n
  <2> QED BY <1>2, <1>4, <1>5, <2>1, <2>3, <2>4, <2>5
<1>6. CASE node[p].state # "WAIT_FOR_RESPONSE"
  <2> DEFINE r == [m EXCEPT !.state = "FINISH"]
  <2>1. node' = NodesAfter(p, r, {}, << >>)
    BY <1>1, <1>2, <1>6
  <2>2. /\ r.type = m.type /\ r.data = m.data /\ r.handle = m.handle /\ r.disk = m.disk
        /\ r.state = "FINISH"
    BY <1>2 DEF Messages
  <2> HIDE DEF r
  <2> QED BY <1>2, <1>4, <2>1, <2>2
<1> QED BY <1>5, <1>6

LEMMA ChildProgress ==
  ASSUME OpInv, TreeInv', op' = op, NEW p \in Nodes, NEW c \in Nodes, ChildResponse(p, c)
  PROVE  OpInv'
<1>1. /\ c \in ChildrenOf(p) /\ node[c].state = "FINISH" /\ processed' = processed
      /\ {c} \in SUBSET ChildrenOf(p) /\ \A d \in {c} : node[d].state = "FINISH"
      /\ IInv /\ NodeOK(p) /\ Course(p) /\ Kind(p) /\ node[p] \in Messages(op) /\ p \in Path
      /\ MessageOK(node[p])
  BY NodeFacts DEF ChildResponse, NodeOK
<1>2. ASSUME NEW r, r.type = node[p].type, r.data = node[p].data, r.handle = node[p].handle,
             r.state \notin {"INIT", "SEND_META"}, node' = NodesAfter(p, r, {c}, << >>),
             Course(p)', HandleDone(p)' <=> HandleDone(p)
      PROVE  OpInv'
  <2>1. PICK done \in SUBSET {node[p].handle} : done = {}
    OBVIOUS
  <2>2. Processed' = Processed \cup done /\ (HandleDone(p)' <=> HandleDone(p) \/ done # {})
        /\ \A o \in ObjectsOf(op) : processed'[o] <= 1
    BY <1>1, <1>2, <2>1, NothingProcessed
  <2> QED BY <1>1, <1>2, <2>2, QuietProgress
<1>3. CASE node[p].state = "SEND_META" /\ node' = SentAndWaiting(p, node[p], {c})
  <2> DEFINE k == Rounds(Len(node[p].data))
             m == [node[p] EXCEPT !.state = "WAIT_FOR_RESPONSE", !.outstanding = @ + k]
             sent == CollectiveRequests(p, node[p].data)
  <2>1. node' = NodesAfter(p, m, {c}, sent)
    BY <1>3 DEF SentAndWaiting
  <2>2. SharesOut(p, node[p].data, sent)
    BY <1>1, RequestsShareOut DEF MessageOK, Messages
  <2>3. k \in Nat
    BY <2>2 DEF SharesOut
  <2> HIDE DEF k, sent
  <2>4. ~node[p].disk /\ ChildrenOf(p) = {MetaChild(p)} /\ node[p].type = "DIR_ENT"
    BY <1>1, <1>3 DEF NodeOK, Course
  <2>5. /\ m.type = node[p].type /\ m.data = node[p].data /\ m.handle = node[p].handle
        /\ m.state = "WAIT_FOR_RESPONSE" /\ ~m.disk
    BY <1>1, <2>3, <2>4, Waiting
  <2> HIDE DEF m
  <2>6. DOMAIN sent \subseteq {Append(p, i) : i \in Int} /\ DOMAIN sent \cap Nodes = {}
    <3>1. DOMAIN sent \subseteq {Append(p, i) : i \in Int} /\ DOMAIN sent \cap ChildrenOf(p) = {}
      BY <2>2, <2>4 DEF SharesOut
    <3> QED BY <1>1, <3>1, NewPaths
  <2>7. Stepped(p, m, {c}, sent)
    BY <1>1, <2>1, <2>6, NodesAfterIs
  <2>8. ~HandleDone(p) /\ ~HandleDone(p)' /\ Course(p)'
    BY <1>1, <1>3, <2>4, <2>5, <2>7 DEF HandleDone, Course, Stepped, MetaChild
  <2> QED BY <1>1, <1>3, <2>2, <2>5, <2>6, <2>7, <2>8, DataProgress
<1>4. CASE node[p].state = "WAIT_FOR_RESPONSE" /\ node' = ResponseProcessed(p, node[p], {c})
  <2> DEFINE n == [node[p] EXCEPT !.outstanding = @ - 1]
  <2>1. /\ n.type = node[p].type /\ n.data = node[p].data /\ n.handle = node[p].handle
        /\ n.disk = node[p].disk /\ n.state = node[p].state
    BY <1>1 DEF Messages
  <2>2. ASSUME NEW s \in States
        PROVE  LET r == [n EXCEPT !.state = s]
               IN  /\ r.type = node[p].type /\ r.data = node[p].data /\ r.handle = node[p].handle
                   /\ r.disk = node[p].disk /\ r.state = s
    BY <1>1 DEF Messages
  <2>3. CASE ~AllIn(node[p])
    <3>1. node' = NodesAfter(p, n, {c}, << >>)
      BY <1>4, <2>3 DEF ResponseProcessed
    <3> HIDE DEF n
    <3>2. node'[p] = n /\ Nodes \subseteq Nodes'
      BY <3>1 DEF NodesAfter, Nodes
    <3>3. Course(p)' /\ (HandleDone(p)' <=> HandleDone(p))
      BY <1>1, <1>4, <2>1, <3>2 DEF Course, HandleDone, MetaChild, AttrChild
    <3> QED BY <1>2, <1>4, <2>1, <3>1, <3>3
  <2>4. CASE AllIn(node[p]) /\ node[p].type # "DIR_ENT"
    <3> DEFINE r == [n EXCEPT !.state = "FINISH"]
    <3>1. node' = NodesAfter(p, r, {c}, << >>)
      BY <1>4, <2>4 DEF ResponseProcessed
    <3>2. /\ r.type = node[p].type /\ r.data = node[p].data /\ r.handle = node[p].handle
          /\ r.disk = node[p].disk /\ r.state = "FINISH"
      BY <2>2 DEF States
    <3> HIDE DEF r, n
    <3>3. node'[p] = r /\ Nodes \subseteq Nodes'
      BY <3>1 DEF NodesAfter, Nodes
    <3>4. Course(p)' /\ (HandleDone(p)' <=> HandleDone(p))
      BY <1>1, <1>4, <2>4, <3>2, <3>3 DEF Course, HandleDone
    <3> QED BY <1>2, <3>1, <3>2, <3>4
  <2>5. CASE AllIn(node[p]) /\ node[p].type = "DIR_ENT" /\ op = "remove"
    <3> DEFINE r == [n EXCEPT !.state = "REMOVE_DIRENT", !.disk = TRUE]
    <3>1. node' = NodesAfter(p, r, {c}, << >>)
      BY <1>4, <2>5 DEF ResponseProcessed
    <3>2. /\ r.type = node[p].type /\ r.data = node[p].data /\ r.handle = node[p].handle
          /\ r.disk = TRUE /\ r.state = "REMOVE_DIRENT"
      BY <1>1 DEF Messages
    <3> HIDE DEF r, n
    <3>3. node'[p] = r /\ Nodes \subseteq Nodes'
      BY <3>1 DEF NodesAfter, Nodes
    <3>4. Course(p)' /\ (HandleDone(p)' <=> HandleDone(p))
      BY <1>1, <1>4, <2>5, <3>2, <3>3 DEF Course, HandleDone, MetaChild
    <3> QED BY <1>2, <3>1, <3>2, <3>4
  <2>6. CASE AllIn(node[p]) /\ node[p].type = "DIR_ENT" /\ op = "create"
    <3> DEFINE r == [n EXCEPT !.state = "SET_ATTR"]
               a == AttrChild(p)
               sent == [d \in {a} |-> Message("SET_ATTR", Attr, << >>)]
    <3>1. node' = NodesAfter(p, r, {c}, sent)
      BY <1>4, <2>6 DEF ResponseProcessed
    <3>2. /\ r.type = node[p].type /\ r.data = node[p].data /\ r.handle = node[p].handle
          /\ r.disk = node[p].disk /\ r.state = "SET_ATTR"
      BY <2>2 DEF States
    <3>3. DOMAIN sent = {a} /\ sent[a] = Message("SET_ATTR", Attr, << >>)
      OBVIOUS
    <3>4. Fresh(sent[a]) /\ sent[a].handle = Attr /\ sent[a].data = << >> /\ sent[a].type = "SET_ATTR"
      BY <3>3, MessageFields
    <3> HIDE DEF r, n, sent
    <3>5. DOMAIN sent \subseteq {Append(p, i) : i \in Int} /\ DOMAIN sent \cap Nodes = {}
      <4>1. DOMAIN sent \subseteq {Append(p, i) : i \in Int}
        BY <3>3 DEF AttrChild
      <4>2. AttrChild(p) \notin ChildrenOf(p)
        BY <1>1, <1>4 DEF NodeOK
      <4>3. DOMAIN sent \cap ChildrenOf(p) = {}
        BY <3>3, <4>2
      <4> QED BY <1>1, <4>1, <4>3, NewPaths
    <3>6. Stepped(p, r, {c}, sent)
      BY <1>1, <3>1, <3>5, NodesAfterIs
    <3>7. p = Root /\ a = AttrChild(Root)
      BY <1>1, <2>6 DEF Kind
    <3>8. ~HandleDone(p) /\ ~HandleDone(p)' /\ Course(p)'
      BY <1>1, <1>4, <2>6, <3>2, <3>3, <3>6 DEF HandleDone, Course, Stepped, MetaChild, AttrChild
    <3>9. a \notin Nodes /\ Attr \in {Meta, Attr}
      BY <3>3, <3>5
    <3> HIDE DEF a
    <3> QED BY <1>1, <2>6, <3>2, <3>3, <3>4, <3>6, <3>7, <3>8, <3>9, OneProgress
  <2>7. op \in {"create", "remove"} \/ node[p].type # "DIR_ENT"
    BY <1>1, TreeAssumption DEF IInv, MessageOK
  <2> QED BY <2>3, <2>4, <2>5, <2>6, <2>7
<1>5. CASE /\ node[p].state = "SET_ATTR"
           /\ node' = NodesAfter(p, [node[p] EXCEPT !.state = "CREATE_DIR_ENT", !.disk = TRUE], {c}, << >>)
  <2> DEFINE r == [node[p] EXCEPT !.state = "CREATE_DIR_ENT", !.disk = TRUE]
  <2>1. node' = NodesAfter(p, r, {c}, << >>)
    BY <1>5
  <2>2. /\ r.type = node[p].type /\ r.data = node[p].data /\ r.handle = node[p].handle
        /\ r.state = "CREATE_DIR_ENT" /\ r.disk
    BY <1>1 DEF Messages
  <2> HIDE DEF r
  <2>3. node'[p] = r /\ Nodes \subseteq Nodes'
    BY <2>1 DEF NodesAfter, Nodes
  <2>4. node[p].type = "DIR_ENT" /\ op = "create" /\ AttrChild(p) \in Nodes
    BY <1>1, <1>5 DEF Course, NodeOK, AllDeleted
  <2>5. Course(p)' /\ (HandleDone(p)' <=> HandleDone(p))
    BY <1>1, <1>5, <2>2, <2>3, <2>4 DEF Course, HandleDone, MetaChild, AttrChild
  <2> QED BY <1>2, <2>1, <2>2, <2>5
<1> QED BY <1>3, <1>4, <1>5 DEF ChildResponse

LEMMA ClientProgress ==
  ASSUME OpInv, TreeInv', op' = op, ClientResponse
  PROVE  OpInv'
<1>1. PICK p \in Nodes : p = Root
  BY DEF OpInv, TreeInv, IInv
<1> DEFINE r == [node[p] EXCEPT !.state = "DELETED"]
<1>2. /\ node[p].state = "FINISH" /\ node' = [node EXCEPT ![p] = r] /\ processed' = processed
      /\ Course(p) /\ NodeOK(p) /\ node[p] \in Messages(op)
  BY <1>1, NodeFacts DEF ClientResponse
<1>3. /\ r.type = node[p].type /\ r.data = node[p].data /\ r.handle = node[p].handle
      /\ r.state = "DELETED" /\ r.disk = node[p].disk
  BY <1>2, DeletedMessage
<1> HIDE DEF r
<1>4. node' = NodesAfter(p, r, {}, << >>)
  BY <1>2, PlainStep
<1>5. node'[p] = r /\ Nodes' = Nodes
  BY <1>2 DEF Nodes
<1>6. Course(p)' /\ (HandleDone(p)' <=> HandleDone(p))
  BY <1>2, <1>3, <1>5 DEF Course, HandleDone, MetaChild, AttrChild
<1>7. PICK done \in SUBSET {node[p].handle} : done = {}
  OBVIOUS
<1>8. Processed' = Processed \cup done /\ (HandleDone(p)' <=> HandleDone(p) \/ done # {})
      /\ \A o \in ObjectsOf(op) : processed'[o] <= 1
  BY <1>2, <1>6, <1>7, NothingProcessed
<1>9. PICK gone \in SUBSET ChildrenOf(p) : gone = {}
  OBVIOUS
<1> QED BY <1>3, <1>4, <1>6, <1>8, <1>9, QuietProgress

LEMMA NothingProgresses ==
  ASSUME OpInv, TreeInv', UNCHANGED <<op, node, processed>>
  PROVE  OpInv'
<1>1. Nodes' = Nodes /\ Processed' = Processed /\ ObjectsOf(op)' = ObjectsOf(op)
  BY DEF Nodes, Processed, ObjectsOf, DataHandles, Meta, DirEnt, Attr
<1>2. RootOK' <=> RootOK
  BY DEF RootOK, Root, DataHandles
<1>3. \A q \in Nodes : /\ (Kind(q)' <=> Kind(q)) /\ (HandleDone(q)' <=> HandleDone(q))
                       /\ Claim(q)' = Claim(q)
  BY DEF Kind, HandleDone, Claim, Root, MetaChild, AttrChild, DataHandles, DirEnt, Meta, Attr
<1>4. \A q \in Nodes : Course(q)' <=> Course(q)
  BY <1>1 DEF Course, MetaChild, AttrChild
<1>5. ProcessedOnce' <=> ProcessedOnce
  BY <1>1 DEF ProcessedOnce
<1>6. \A q \in Nodes : node'[q] = node[q]
  OBVIOUS
<1> HIDE DEF Processed, Nodes
<1> QED BY <1>1, <1>2, <1>3, <1>4, <1>5, <1>6 DEF OpInv, Progress

LEMMA InitOpInv == Init => OpInv
BY InitTreeInv, InitProgress DEF OpInv

LEMMA NextOpInv == OpInv /\ [Next]_vars => OpInv'
<1> SUFFICES ASSUME OpInv, [Next]_vars PROVE OpInv'
  OBVIOUS
<1>1. TreeInv'
  BY NextTreeInv DEF OpInv
<1>2. op' = op
  BY DEF Next, vars, Receive, ReceiveDirEnt, ReceiveMetadata, ReceiveObject, ReceiveSetAttr,
         DiskResponse, ChildResponse, ClientResponse, Done
<1>3. ASSUME NEW p \in Nodes, Receive(p) PROVE OpInv'
  BY <1>1, <1>2, <1>3, DirEntProgress, MetadataProgress, ObjectProgress, SetAttrProgress DEF Receive
<1>4. ASSUME NEW p \in Nodes, DiskResponse(p) PROVE OpInv'
  BY <1>1, <1>2, <1>4, DiskProgress
<1>5. ASSUME NEW p \in Nodes, NEW c \in Nodes, ChildResponse(p, c) PROVE OpInv'
  BY <1>1, <1>2, <1>5, ChildProgress
<1>6. CASE ClientResponse
  BY <1>1, <1>2, <1>6, ClientProgress
<1>7. CASE UNCHANGED vars
  BY <1>1, <1>7, NothingProgresses DEF vars
<1> QED BY <1>3, <1>4, <1>5, <1>6, <1>7 DEF Next, Done

\* For any number of data objects and any order of the answers of disks and
\* servers, a collective operation splits its objects without loss or overlap,
\* the counter in each request is the number of answers still to come, and no
\* object is processed by two servers.
THEOREM TreeStaysConsistent == Spec => []TreeConsistent
<1>1. OpInv => TreeConsistent
  BY TreeInvImplies DEF OpInv, Progress, TreeConsistent
<1> QED BY <1>1, InitOpInv, NextOpInv, PTL DEF Spec
-----------------------------------------------------------------------------
\* When the requests of the directory server are answered, all that is left to
\* do is the directory entry.
LEMMA OthersFirst ==
  ASSUME OpInv, NEW p \in Nodes, p = Root, node[p].type = "DIR_ENT",
         Partitioned(p), AllDeleted(ChildrenOf(p)),
         MetaChild(p) \in Nodes, op = "create" => AttrChild(p) \in Nodes
  PROVE  ObjectsOf(op) \ {DirEnt} \subseteq Processed
<1>1. Progress /\ p \in Path /\ \A q \in Nodes : Kind(q) /\ NodeOK(q)
  BY NodeFacts
<1>2. ASSUME NEW c \in ChildrenOf(p)
      PROVE  node[c].handle \in Processed /\ ToSet(node[c].data) \subseteq Processed
  <2>1. c \in Nodes /\ node[c].state = "DELETED"
    BY <1>2 DEF AllDeleted, ChildrenOf
  <2>2. HandleDone(c)
    BY <1>1, <2>1 DEF HandleDone, NodeOK
  <2> QED BY <1>1, <2>1, <2>2 DEF Progress
<1>3. DataHandles \subseteq Processed
  <2>1. DataHandles = UNION {Addressed(c) : c \in DataChildren(p)}
    BY <1>1 DEF Progress, RootOK, Partitioned
  <2> QED BY <1>2, <2>1 DEF Addressed, DataChildren
<1>4. /\ 0 \in Int /\ -1 \in Int
      /\ MetaChild(p) \in ChildrenOf(p)
      /\ op = "create" => AttrChild(p) \in ChildrenOf(p)
  <2>1. 0 \in Int /\ -1 \in Int
    OBVIOUS
  <2> QED BY <1>1, <2>1, ChildPath DEF MetaChild, AttrChild, ChildrenOf
<1>5. Meta \in Processed
  <2>1. node[MetaChild(p)].handle = Meta
    BY <1>1 DEF Kind
  <2> QED BY <1>2, <1>4, <2>1
<1>6. op = "create" => Attr \in Processed
  <2>1. op = "create" => node[AttrChild(p)].handle = Attr
    BY <1>1 DEF Kind
  <2> QED BY <1>2, <1>4, <2>1
<1> QED BY <1>3, <1>5, <1>6 DEF ObjectsOf

LEMMA DiskStep ==
  ASSUME OpInv, TreeInv', op' = op, responded' = responded, NEW p \in Nodes, DiskResponse(p)
  PROVE  \E h \in ObjectsOf(op) : Op!Process(h)
<1>0. PICK h : h = node[p].handle
  OBVIOUS
<1>1. h \in ObjectsOf(op) \ Processed /\ Processed' = Processed \cup {h}
  BY <1>0, DiskAnswersOnce
<1>2. /\ ObjectsOf(op)' = ObjectsOf(op)
      /\ ({DirEnt} \cap ObjectsOf(op))' = {DirEnt} \cap ObjectsOf(op)
  BY DEF ObjectsOf, DataHandles, Meta, DirEnt, Attr
<1>3. ASSUME h = DirEnt PROVE ObjectsOf(op) \ {DirEnt} \subseteq Processed
  <2>1. /\ Kind(p) /\ Course(p) /\ NodeOK(p) /\ node[p] \in Messages(op) /\ node[p].disk
        /\ op \in Operations
    BY NodeFacts DEF DiskResponse, IInv
  <2>2. node[p].type = "DIR_ENT" /\ p = Root
    <3>1. DirEnt \notin DataHandles /\ DirEnt # Meta /\ DirEnt # Attr
      BY TreeAssumption DEF DirEnt, DataHandles, Meta, Attr
    <3>2. node[p].type \in Types
      BY <2>1 DEF Messages
    <3> QED BY <1>0, <1>3, <2>1, <3>1, <3>2 DEF Kind, Types
  <2>3. node[p].state \in {"CREATE_DIR_ENT", "REMOVE_DIRENT"}
    BY <2>1, <2>2 DEF NodeOK, Course, Messages, States, Fresh
  <2>4. Partitioned(p) /\ AllDeleted(ChildrenOf(p))
    BY <2>1, <2>3 DEF NodeOK
  <2>5. MetaChild(p) \in Nodes /\ (op = "create" => AttrChild(p) \in Nodes)
    BY <2>1, <2>2, <2>3 DEF Course
  <2> QED BY <2>2, <2>4, <2>5, OthersFirst
<1>4. h \in {DirEnt} \cap ObjectsOf(op) => ObjectsOf(op) \ ({DirEnt} \cap ObjectsOf(op)) \subseteq Processed
  BY <1>3
<1>5. Op!Process(h)
  BY <1>1, <1>2, <1>4 DEF Op!Process, Processed
<1> QED BY <1>1, <1>5

LEMMA ClientStep ==
  ASSUME OpInv, op' = op, ClientResponse
  PROVE  Op!Respond
<1>1. PICK p \in Nodes : p = Root
  BY DEF OpInv, TreeInv, IInv
<1>2. /\ node[p].state = "FINISH" /\ ~responded /\ responded' = TRUE /\ processed' = processed
      /\ Kind(p) /\ Course(p) /\ NodeOK(p) /\ Progress /\ op \in Operations
  BY <1>1, NodeFacts DEF ClientResponse, IInv
<1>3. Partitioned(p) /\ AllDeleted(ChildrenOf(p)) /\ HandleDone(p)
  BY <1>2 DEF NodeOK, HandleDone
<1>4. node[p].handle \in Processed /\ DataHandles \subseteq Processed
  BY <1>1, <1>2, <1>3 DEF Progress, RootOK
<1>5. ObjectsOf(op) \subseteq Processed
  <2>1. CASE op = "get_attr"
    <3>1. node[p].handle = Meta
      BY <1>1, <1>2, <2>1 DEF Kind, Progress, RootOK
    <3> QED BY <1>4, <2>1, <3>1 DEF ObjectsOf
  <2>2. CASE op # "get_attr"
    <3>1. node[p].type = "DIR_ENT" /\ node[p].handle = DirEnt
      BY <1>1, <1>2, <2>2 DEF Kind, Progress, RootOK
    <3>2. MetaChild(p) \in Nodes /\ (op = "create" => AttrChild(p) \in Nodes)
      BY <1>2, <3>1 DEF Course
    <3>3. ObjectsOf(op) \ {DirEnt} \subseteq Processed
      BY <1>1, <1>3, <3>1, <3>2, OthersFirst
    <3> QED BY <1>4, <3>1, <3>3
  <2> QED BY <2>1, <2>2
<1>6. Processed = ObjectsOf(op)
  BY <1>5 DEF Processed
<1>7. /\ ObjectsOf(op)' = ObjectsOf(op)
      /\ ({DirEnt} \cap ObjectsOf(op))' = {DirEnt} \cap ObjectsOf(op)
  BY DEF ObjectsOf, DataHandles, Meta, DirEnt, Attr
<1>8. Processed' = Processed
  BY <1>2, <1>7 DEF Processed
<1> QED BY <1>2, <1>6, <1>7, <1>8 DEF Op!Respond, Processed

LEMMA OthersStutter ==
  ASSUME op' = op, processed' = processed, responded' = responded
  PROVE  UNCHANGED Op!vars
BY DEF Op!vars, ObjectsOf, DataHandles, Meta, DirEnt, Attr

LEMMA InitOp == Init => Op!Init
<1> SUFFICES ASSUME Init PROVE Op!Init
  OBVIOUS
<1>1. ObjectsOf(op) \subseteq DataHandles \union {Meta, DirEnt, Attr}
  BY DEF ObjectsOf
<1>2. responded = FALSE /\ {o \in ObjectsOf(op) : processed[o] > 0} = {}
  BY DEF Init
<1> QED BY <1>1, <1>2 DEF Op!Init

LEMMA NextOp == OpInv /\ OpInv' /\ [Next]_vars => [Op!Next]_(Op!vars)
<1> SUFFICES ASSUME OpInv, OpInv', [Next]_vars PROVE [Op!Next]_(Op!vars)
  OBVIOUS
<1>1. TreeInv'
  BY DEF OpInv
<1>2. op' = op
  BY DEF Next, vars, Receive, ReceiveDirEnt, ReceiveMetadata, ReceiveObject, ReceiveSetAttr,
         DiskResponse, ChildResponse, ClientResponse, Done
<1>3. ASSUME NEW p \in Nodes, DiskResponse(p) PROVE Op!Next
  <2>1. responded' = responded
    BY <1>3 DEF DiskResponse
  <2> QED BY <1>1, <1>2, <1>3, <2>1, DiskStep DEF Op!Next
<1>4. CASE ClientResponse
  BY <1>2, <1>4, ClientStep DEF Op!Next
<1>5. ASSUME NEW p \in Nodes, Receive(p) PROVE UNCHANGED Op!vars
  <2>1. processed' = processed /\ responded' = responded
    BY <1>5 DEF Receive, ReceiveDirEnt, ReceiveMetadata, ReceiveObject, ReceiveSetAttr
  <2> QED BY <1>2, <2>1, OthersStutter
<1>6. ASSUME NEW p \in Nodes, NEW c \in Nodes, ChildResponse(p, c) PROVE UNCHANGED Op!vars
  <2>1. processed' = processed /\ responded' = responded
    BY <1>6 DEF ChildResponse
  <2> QED BY <1>2, <2>1, OthersStutter
<1>7. CASE UNCHANGED vars
  <2>1. processed' = processed /\ responded' = responded
    BY <1>7 DEF vars
  <2> QED BY <1>2, <2>1, OthersStutter
<1> QED BY <1>3, <1>4, <1>5, <1>6, <1>7 DEF Next, Done

\* However a collective operation's tree unfolds, its client sees one operation:
\* every object is processed, none a second time, the directory entry after all
\* data and metadata, and the response comes once and last.
THEOREM OneOperationToItsClient == Spec => Op!Init /\ [][Op!Next]_(Op!vars)
<1>1. Spec => []OpInv
  BY InitOpInv, NextOpInv, PTL DEF Spec
<1> QED BY <1>1, InitOp, NextOp, PTL DEF Spec
=============================================================================
