---------------------------- MODULE FileIOProofs ----------------------------
(***************************************************************************)
(* Theorems about FileIO, for any number of servers, buffers and bytes: no *)
(* message is about something that is gone (NothingUsedAfterDelete), every *)
(* byte is in one place (NoByteLost), and the operation is the transfer of *)
(* FileTransfer (TransfersWhatWasAsked).                                   *)
(*                                                                         *)
(* The invariant says, per server, where each message of the protocol is:  *)
(* it counts the events of the calendar and the packets of the network by  *)
(* kind, as sums over these sequences, and relates the counts to the state *)
(* of the request, of the handler and of the two flows.  The module proves *)
(* in this order: facts about sums over sequences; the invariant; what     *)
(* handling an event, a delivery and a packet do to the counts; that every *)
(* action keeps the invariant; the three theorems.                         *)
(***************************************************************************)
EXTENDS FileIO, FiniteSetTheorems, SequenceTheorems, WellFoundedInduction, TLAPS

-----------------------------------------------------------------------------
\* Numbers.
LEMMA LeastNat ==
  ASSUME NEW T \in SUBSET Nat, T # {}
  PROVE  \E x \in T : \A y \in T : x <= y
<1>1. IsWellFoundedOn(OpToRel(<, Nat), Nat)
  BY NatLessThanWellFounded
<1>2. PICK x \in T : \A y \in T : ~(<<y, x>> \in OpToRel(<, Nat))
  BY <1>1, WFMin
<1>3. ASSUME NEW y \in T, ~(x <= y) PROVE FALSE
  <2>1. <<y, x>> \in Nat \X Nat /\ y < x
    BY <1>3
  <2>2. <<y, x>> \in {ss \in Nat \X Nat : ss[1] < ss[2]}
    BY <2>1
  <2>3. <<y, x>> \in OpToRel(<, Nat)
    BY <2>2 DEF OpToRel
  <2> QED BY <1>2, <2>3
<1> QED BY <1>3

LEMMA MaxIs ==
  ASSUME NEW S \in SUBSET Nat, NEW x \in S, \A y \in S : x >= y
  PROVE  Max(S) = x
<1>1. \A z \in S : (\A y \in S : z >= y) => z = x
  OBVIOUS
<1> QED BY <1>1 DEF Max

LEMMA MaxOfSome ==
  ASSUME NEW k \in Nat, NEW S \in SUBSET (1..k), S # {}
  PROVE  Max(S) \in S /\ \A y \in S : Max(S) >= y
<1> DEFINE T == {n \in Nat : \A y \in S : y <= n}
<1>1. k \in T
  OBVIOUS
<1>2. PICK x \in T : \A y \in T : x <= y
  BY <1>1, LeastNat
<1>3. x \in S
  <2>1. ASSUME x \notin S PROVE FALSE
    <3>1. PICK y \in S : TRUE
      OBVIOUS
    <3>2. y <= x /\ y # x /\ y \in Nat /\ x \in Nat
      BY <1>2, <2>1
    <3>3. x - 1 \in Nat
      BY <3>2
    <3>4. \A z \in S : z <= x - 1
      BY <1>2, <2>1
    <3> QED BY <1>2, <3>3, <3>4
  <2> QED BY <2>1
<1>4. \A y \in S : x >= y
  BY <1>2
<1> QED BY <1>3, <1>4, MaxIs

-----------------------------------------------------------------------------
\* Sums over a sequence.  SumOf is a fold, which is a recursive function of the
\* sets of positions; its values are found by induction on the greatest of them.
FoldsTo(h, q, k) ==
  /\ h \in [SUBSET (1..k) -> Nat]
  /\ h = [s \in SUBSET (1..k) |-> IF s = {} THEN 0 ELSE h[s \ {Max(s)}] + q[Max(s)]]

LEMMA FoldStep ==
  ASSUME NEW n \in Nat, NEW q \in [1..n -> Nat], NEW k \in 0..n - 1, NEW h, FoldsTo(h, q, k)
  PROVE  \E g : FoldsTo(g, q, k + 1)
<1> DEFINE g == [s \in SUBSET (1..k + 1) |->
                   IF k + 1 \in s THEN h[s \ {k + 1}] + q[k + 1] ELSE h[s]]
<1>0. k \in Nat
  OBVIOUS
<1>1. \A s \in SUBSET (1..k) : h[s] \in Nat
  BY DEF FoldsTo
<1>2. \A s \in SUBSET (1..k) : h[s] = IF s = {} THEN 0 ELSE h[s \ {Max(s)}] + q[Max(s)]
  BY DEF FoldsTo
<1>3. \A s \in SUBSET (1..k + 1) : s \ {k + 1} \in SUBSET (1..k)
  OBVIOUS
<1>4. q[k + 1] \in Nat
  OBVIOUS
<1>5. g \in [SUBSET (1..k + 1) -> Nat]
  BY <1>1, <1>3, <1>4
<1>6. ASSUME NEW s \in SUBSET (1..k + 1)
      PROVE  g[s] = IF s = {} THEN 0 ELSE g[s \ {Max(s)}] + q[Max(s)]
  <2>1. CASE k + 1 \in s
    <3>1. Max(s) = k + 1
      <4>1. s \in SUBSET Nat /\ \A y \in s : k + 1 >= y
        OBVIOUS
      <4> QED BY <2>1, <4>1, MaxIs
    <3>2. g[s \ {k + 1}] = h[s \ {k + 1}]
      BY <1>3
    <3> QED BY <2>1, <3>1, <3>2
  <2>2. CASE k + 1 \notin s /\ s # {}
    <3>1. s \in SUBSET (1..k)
      BY <2>2
    <3>2. Max(s) \in s
      BY <1>0, <2>2, <3>1, MaxOfSome
    <3>3. g[s \ {Max(s)}] = h[s \ {Max(s)}] /\ g[s] = h[s]
      BY <2>2, <3>1
    <3> QED BY <1>2, <2>2, <3>1, <3>3
  <2>3. CASE s = {}
    <3>1. g[s] = h[s] /\ s \in SUBSET (1..k)
      BY <2>3
    <3> QED BY <1>2, <2>3, <3>1
  <2> QED BY <2>1, <2>2, <2>3
<1> HIDE DEF g
<1>7. g = [s \in SUBSET (1..k + 1) |-> IF s = {} THEN 0 ELSE g[s \ {Max(s)}] + q[Max(s)]]
  <2>1. g = [s \in SUBSET (1..k + 1) |-> g[s]]
    BY <1>5
  <2> QED BY <1>6, <2>1
<1> QED BY <1>5, <1>7 DEF FoldsTo

LEMMA FoldExists ==
  ASSUME NEW n \in Nat, NEW q \in [1..n -> Nat]
  PROVE  \E h : FoldsTo(h, q, n)
<1> DEFINE Bad == {k \in 0..n : ~\E h : FoldsTo(h, q, k)}
<1>1. FoldsTo([s \in SUBSET (1..0) |-> 0], q, 0)
  <2>1. \A s \in SUBSET (1..0) : s = {}
    OBVIOUS
  <2> QED BY <2>1 DEF FoldsTo
<1>2. ASSUME NEW k \in Bad, \A j \in Bad : k <= j PROVE FALSE
  <2>1. k # 0
    BY <1>1
  <2>2. k - 1 \in 0..n - 1 /\ k - 1 \notin Bad
    BY <1>2, <2>1
  <2>3. PICK h : FoldsTo(h, q, k - 1)
    BY <2>2
  <2>4. \E g : FoldsTo(g, q, k - 1 + 1)
    BY <2>2, <2>3, FoldStep
  <2> QED BY <2>4
<1>3. Bad \in SUBSET Nat
  OBVIOUS
<1>4. (~\E h : FoldsTo(h, q, n)) => n \in Bad
  OBVIOUS
<1> HIDE DEF Bad
<1>5. Bad = {}
  BY <1>2, <1>3, LeastNat
<1> QED BY <1>4, <1>5

\* A sequence is summed by whatever adds its elements one by one.
SumsUp(g, q) == /\ g \in [0..Len(q) -> Nat] /\ g[0] = 0
                /\ \A i \in 1..Len(q) : g[i] = g[i - 1] + q[i]

LEMMA SumIs ==
  ASSUME NEW q \in Seq(Nat), NEW g, SumsUp(g, q)
  PROVE  SumOf(q) = g[Len(q)]
<1> DEFINE n == Len(q)
           Rec(h) == h = [s \in SUBSET (1..n) |-> IF s = {} THEN 0 ELSE h[s \ {Max(s)}] + q[Max(s)]]
           iter == CHOOSE h : Rec(h)
<1>1. n \in Nat /\ q \in [1..n -> Nat] /\ DOMAIN q = 1..n
  OBVIOUS
<1>2. SumOf(q) = iter[1..n]
  BY <1>1 DEF SumOf, FoldLeft, MapThenFoldSet
<1>3. PICK h : FoldsTo(h, q, n)
  BY <1>1, FoldExists
<1>4. Rec(h)
  BY <1>3 DEF FoldsTo
<1>5. Rec(iter)
  BY <1>4
<1> HIDE DEF iter
<1>6. /\ iter[{}] = 0
      /\ \A s \in SUBSET (1..n) : s # {} => iter[s] = iter[s \ {Max(s)}] + q[Max(s)]
  <2>1. {} \in SUBSET (1..n)
    OBVIOUS
  <2> QED BY <1>5, <2>1
<1> DEFINE Bad == {k \in 0..n : iter[1..k] # g[k]}
<1>7. ASSUME NEW k \in Bad, \A j \in Bad : k <= j PROVE FALSE
  <2>1. k # 0
    <3>1. 1..0 = {}
      OBVIOUS
    <3> QED BY <1>6, <3>1 DEF SumsUp
  <2>2. k \in 1..n /\ k - 1 \in 0..n /\ k - 1 \notin Bad
    BY <1>1, <1>7, <2>1
  <2>3. iter[1..k - 1] = g[k - 1]
    BY <2>2
  <2>4. Max(1..k) = k
    <3>1. 1..k \in SUBSET Nat /\ k \in 1..k /\ \A y \in 1..k : k >= y
      BY <2>2
    <3> QED BY <3>1, MaxIs
  <2>5. (1..k) \ {k} = 1..k - 1 /\ 1..k \in SUBSET (1..n) /\ 1..k # {}
    BY <1>1, <2>2
  <2>6. iter[1..k] = iter[1..k - 1] + q[k]
    BY <1>6, <2>4, <2>5
  <2>7. g[k] = g[k - 1] + q[k]
    BY <2>2 DEF SumsUp
  <2> QED BY <2>3, <2>6, <2>7
<1>8. Bad \in SUBSET Nat
  BY <1>1
<1>9. Bad = {}
  <2> HIDE DEF Bad
  <2> QED BY <1>7, <1>8, LeastNat
<1>10. iter[1..n] = g[n]
  BY <1>1, <1>9
<1> QED BY <1>2, <1>10

LEMMA SumExists ==
  ASSUME NEW q \in Seq(Nat)
  PROVE  \E g : SumsUp(g, q)
<1> DEFINE n == Len(q)
           Upto(g, k) == /\ g \in [0..k -> Nat] /\ g[0] = 0
                         /\ \A i \in 1..k : g[i] = g[i - 1] + q[i]
           Bad == {k \in 0..n : ~\E g : Upto(g, k)}
<1>1. n \in Nat /\ \A i \in 1..n : q[i] \in Nat
  OBVIOUS
<1>2. Upto([i \in 0..0 |-> 0], 0)
  OBVIOUS
<1>3. ASSUME NEW k \in Bad, \A j \in Bad : k <= j PROVE FALSE
  <2>1. k # 0
    BY <1>2
  <2>2. k \in 0..n
    BY <1>3
  <2>3. k \in 1..n /\ k - 1 \in 0..n /\ ~(k <= k - 1)
    BY <1>1, <2>1, <2>2
  <2>4. k - 1 \notin Bad
    <3> HIDE DEF Bad
    <3> QED BY <1>3, <2>3
  <2>5. PICK g : Upto(g, k - 1)
    BY <2>3, <2>4
  <2> DEFINE f == [i \in 0..k |-> IF i = k THEN g[k - 1] + q[k] ELSE g[i]]
  <2>6. f \in [0..k -> Nat] /\ f[0] = 0
    BY <1>1, <2>3, <2>5
  <2>7. ASSUME NEW i \in 1..k PROVE f[i] = f[i - 1] + q[i]
    BY <2>3, <2>5
  <2>8. Upto(f, k)
    BY <2>6, <2>7
  <2>9. \E g1 : Upto(g1, k)
    <3> HIDE DEF f, Upto
    <3> QED BY <2>8
  <2> QED BY <1>3, <2>9
<1>4. Bad \in SUBSET Nat
  BY <1>1
<1>5. (~\E g : Upto(g, n)) => n \in Bad
  BY <1>1
<1>6. \E g : Upto(g, n)
  <2> HIDE DEF Bad, Upto
  <2> QED BY <1>3, <1>4, <1>5, LeastNat
<1> QED BY <1>6 DEF SumsUp

LEMMA SumEmpty == SumOf(<< >>) = 0
<1> DEFINE g == [i \in 0..0 |-> 0]
<1>1. SumsUp(g, << >>)
  BY DEF SumsUp
<1>2. << >> \in Seq(Nat) /\ Len(<< >>) = 0
  OBVIOUS
<1>3. SumOf(<< >>) = g[0]
  BY <1>1, <1>2, SumIs
<1> QED BY <1>3

LEMMA SumNat ==
  ASSUME NEW q \in Seq(Nat)
  PROVE  SumOf(q) \in Nat
<1>1. PICK g : SumsUp(g, q)
  BY SumExists
<1> QED BY <1>1, SumIs DEF SumsUp

LEMMA SumAppend ==
  ASSUME NEW q \in Seq(Nat), NEW x \in Nat
  PROVE  SumOf(Append(q, x)) = SumOf(q) + x
<1>1. PICK g : SumsUp(g, q)
  BY SumExists
<1> DEFINE n == Len(q)
           r == Append(q, x)
           f == [i \in 0..n + 1 |-> IF i = n + 1 THEN g[n] + x ELSE g[i]]
<1>2. n \in Nat /\ r \in Seq(Nat) /\ Len(r) = n + 1
  OBVIOUS
<1>3. f \in [0..n + 1 -> Nat] /\ f[0] = 0
  BY <1>1, <1>2 DEF SumsUp
<1>4. ASSUME NEW i \in 1..n + 1 PROVE f[i] = f[i - 1] + r[i]
  <2>1. CASE i = n + 1
    BY <1>2, <2>1
  <2>2. CASE i # n + 1
    <3>1. i \in 1..n /\ r[i] = q[i] /\ f[i] = g[i] /\ f[i - 1] = g[i - 1]
      BY <1>2, <2>2
    <3> QED BY <1>1, <3>1 DEF SumsUp
  <2> QED BY <2>1, <2>2
<1>5. SumsUp(f, r)
  BY <1>2, <1>3, <1>4 DEF SumsUp
<1>6. SumOf(r) = f[n + 1] /\ SumOf(q) = g[n]
  BY <1>1, <1>2, <1>5, SumIs
<1> QED BY <1>2, <1>6

SumsTo(g, q, n) == /\ g \in [0..n -> Nat] /\ g[0] = 0
                   /\ \A i \in 1..n : g[i] = g[i - 1] + q[i]
Joins(s, q, m, r, n) == /\ \A i \in 1..m : s[i] = q[i]
                        /\ \A i \in 1..n : s[m + i] = r[i] /\ r[i] \in Nat

LEMMA JoinedSums ==
  ASSUME NEW m \in Nat, NEW n \in Nat, NEW q, NEW r, NEW s, NEW g, NEW h,
         SumsTo(g, q, m), SumsTo(h, r, n), Joins(s, q, m, r, n)
  PROVE  \E f : SumsTo(f, s, m + n) /\ f[m + n] = g[m] + h[n]
<1>0. /\ g \in [0..m -> Nat] /\ h \in [0..n -> Nat] /\ g[0] = 0 /\ h[0] = 0
      /\ \A i \in 1..m : g[i] = g[i - 1] + q[i] /\ s[i] = q[i]
      /\ \A i \in 1..n : h[i] = h[i - 1] + r[i] /\ s[m + i] = r[i] /\ r[i] \in Nat
  BY DEF SumsTo, Joins
<1> DEFINE f == [i \in 0..m + n |-> IF i <= m THEN g[i] ELSE g[m] + h[i - m]]
<1>1. \A j \in 0..m : f[j] = g[j] /\ g[j] \in Nat
  BY <1>0
<1>2. \A j \in 1..n : f[m + j] = g[m] + h[j] /\ h[j] \in Nat
  <2>1. ASSUME NEW j \in 1..n PROVE f[m + j] = g[m] + h[j] /\ h[j] \in Nat
    <3>1. m + j \in 0..m + n /\ ~(m + j <= m) /\ (m + j) - m = j
      OBVIOUS
    <3> QED BY <1>0, <3>1
  <2> QED BY <2>1
<1>4. DOMAIN f = 0..m + n /\ f = [i \in 0..m + n |-> f[i]]
  OBVIOUS
<1> HIDE DEF f
<1>3. \A j \in 0..n : f[m + j] = g[m] + h[j] /\ h[j] \in Nat
  <2>1. f[m + 0] = g[m] + h[0] /\ h[0] \in Nat
    <3>1. m \in 0..m /\ m + 0 = m /\ g[m] \in Nat
      BY <1>0
    <3> QED BY <1>0, <1>1, <3>1
  <2>2. \A j \in 0..n : j = 0 \/ j \in 1..n
    OBVIOUS
  <2> QED BY <1>2, <2>1, <2>2
<1>5. ASSUME NEW i \in 0..m + n PROVE i \in 0..m \/ \E j \in 1..n : i = m + j
  <2>1. CASE i > m
    <3>1. i - m \in 1..n /\ i = m + (i - m)
      BY ONLY <2>1, i \in 0..m + n, m \in Nat, n \in Nat
    <3> QED BY <3>1
  <2> QED BY <2>1
<1>6. f \in [0..m + n -> Nat]
  <2>1. ASSUME NEW i \in 0..m + n PROVE f[i] \in Nat
    <3>1. CASE i \in 0..m
      BY <1>1, <3>1
    <3>2. ASSUME NEW j \in 1..n, i = m + j PROVE f[i] \in Nat
      <4>1. f[m + j] = g[m] + h[j] /\ h[j] \in Nat /\ g[m] \in Nat
        BY <1>1, <1>2
      <4> QED BY <3>2, <4>1
    <3> QED BY <1>5, <3>1, <3>2
  <2> QED BY <1>4, <2>1
<1>7. ASSUME NEW i \in 1..m + n PROVE f[i] = f[i - 1] + s[i]
  <2>1. CASE i \in 0..m
    <3>1. i \in 1..m /\ i - 1 \in 0..m
      BY <2>1
    <3> QED BY <1>0, <1>1, <3>1
  <2>2. ASSUME NEW j \in 1..n, i = m + j PROVE f[i] = f[i - 1] + s[i]
    <3>1. j - 1 \in 0..n /\ j \in 0..n /\ m \in 0..m /\ i - 1 = m + (j - 1)
      BY <2>2
    <3>2. f[i] = g[m] + h[j] /\ f[m + (j - 1)] = g[m] + h[j - 1]
      BY <1>3, <2>2, <3>1
    <3>3. f[i - 1] = g[m] + h[j - 1]
      BY <3>1, <3>2
    <3>4. h[j] = h[j - 1] + r[j] /\ s[i] = r[j] /\ r[j] \in Nat /\ h[j - 1] \in Nat /\ g[m] \in Nat
      BY <1>0, <1>1, <1>3, <2>2, <3>1
    <3> QED BY ONLY <3>2, <3>3, <3>4
  <2> QED BY <1>5, <2>1, <2>2
<1>8. f[0] = 0
  BY <1>0, <1>1
<1>9. f[m + n] = g[m] + h[n]
  BY <1>3
<1> QED BY <1>6, <1>7, <1>8, <1>9 DEF SumsTo

LEMMA SumConcat ==
  ASSUME NEW q \in Seq(Nat), NEW r \in Seq(Nat)
  PROVE  SumOf(q \o r) = SumOf(q) + SumOf(r)
<1>1. PICK g : SumsUp(g, q)
  BY SumExists
<1>2. PICK h : SumsUp(h, r)
  BY SumExists
<1>3. PICK m \in Nat, n \in Nat : m = Len(q) /\ n = Len(r)
  OBVIOUS
<1>4. PICK s : s = q \o r
  OBVIOUS
<1>5. s \in Seq(Nat) /\ Len(s) = m + n /\ Joins(s, q, m, r, n)
  BY <1>3, <1>4 DEF Joins
<1>6. SumsTo(g, q, m) /\ SumsTo(h, r, n)
  BY <1>1, <1>2, <1>3 DEF SumsUp, SumsTo
<1>7. PICK f : SumsTo(f, s, m + n) /\ f[m + n] = g[m] + h[n]
  BY <1>5, <1>6, JoinedSums
<1>8. SumsUp(f, s)
  BY <1>5, <1>7 DEF SumsUp, SumsTo
<1>9. SumOf(s) = f[m + n] /\ SumOf(q) = g[m] /\ SumOf(r) = h[n]
  <2>1. SumOf(q) = g[m]
    BY ONLY <1>1, <1>3, SumIs, q \in Seq(Nat)
  <2>2. SumOf(r) = h[n]
    BY ONLY <1>2, <1>3, SumIs, r \in Seq(Nat)
  <2>3. SumOf(s) = f[m + n]
    <3>1. SumOf(s) = f[Len(s)]
      BY ONLY <1>5, <1>8, SumIs
    <3> QED BY <1>5, <3>1
  <2> QED BY <2>1, <2>2, <2>3
<1> QED BY <1>4, <1>7, <1>9

LEMMA SumOne ==
  ASSUME NEW x \in Nat
  PROVE  SumOf(<<x>>) = x
<1>1. <<x>> = Append(<< >>, x) /\ << >> \in Seq(Nat)
  OBVIOUS
<1>2. SumOf(Append(<< >>, x)) = 0 + x
  BY <1>1, SumAppend, SumEmpty
<1> QED BY <1>1, <1>2

LEMMA SumRemove ==
  ASSUME NEW q \in Seq(Nat), NEW i \in 1..Len(q)
  PROVE  /\ RemoveAt(q, i) \in Seq(Nat)
         /\ SumOf(q) = SumOf(RemoveAt(q, i)) + q[i] /\ SumOf(q) >= q[i]
<1>1. PICK a, b : a = SubSeq(q, 1, i - 1) /\ b = SubSeq(q, i + 1, Len(q))
  OBVIOUS
<1>2. a \in Seq(Nat) /\ b \in Seq(Nat) /\ q[i] \in Nat /\ <<q[i]>> \in Seq(Nat)
  <2>1. 1 \in 1..Len(q) + 1 /\ i - 1 \in 0..Len(q) /\ i + 1 \in 1..Len(q) + 1 /\ Len(q) \in Nat
    OBVIOUS
  <2>2. SubSeq(q, 1, i - 1) \in Seq(Nat) /\ SubSeq(q, i + 1, Len(q)) \in Seq(Nat)
    BY ONLY <2>1, q \in Seq(Nat), SubSeqProperties
  <2>3. q[i] \in Nat
    OBVIOUS
  <2> QED BY ONLY <1>1, <2>2, <2>3
<1>3. SubSeq(q, 1, i) = a \o <<q[i]>>
  BY <1>1, SubSeqRecursiveSecond, 1 \in 1..Len(q), i \in 1..Len(q)
<1>4. SubSeq(q, 1, i) \o b = q
  BY <1>1, ConcatAdjacentSubSeq, SubSeqFull, 1 \in 1..Len(q) + 1, i \in 0..Len(q), Len(q) \in i..Len(q)
<1>5. a \o <<q[i]>> \in Seq(Nat) /\ SumOf(a \o <<q[i]>>) = SumOf(a) + q[i]
  BY <1>2, SumConcat, SumOne, ConcatProperties
<1>6. SumOf(q) = SumOf(a) + q[i] + SumOf(b)
  BY <1>2, <1>3, <1>4, <1>5, SumConcat
<1>7. RemoveAt(q, i) = a \o b /\ a \o b \in Seq(Nat)
  BY <1>1, <1>2, ConcatProperties DEF RemoveAt
<1>8. SumOf(a \o b) = SumOf(a) + SumOf(b) /\ SumOf(a) \in Nat /\ SumOf(b) \in Nat
  BY <1>2, SumConcat, SumNat
<1>9. PICK x \in Nat, y \in Nat, z \in Nat : x = SumOf(a) /\ y = SumOf(b) /\ z = q[i]
  BY ONLY <1>2, <1>8
<1>10. SumOf(q) = x + z + y /\ SumOf(RemoveAt(q, i)) = x + y
  BY ONLY <1>6, <1>7, <1>8, <1>9
<1>11. SumOf(q) = SumOf(RemoveAt(q, i)) + z /\ SumOf(q) >= z
  BY ONLY <1>10, x \in Nat, y \in Nat, z \in Nat
<1> QED BY ONLY <1>7, <1>9, <1>11

LEMMA SumTail ==
  ASSUME NEW q \in Seq(Nat), q # << >>
  PROVE  Tail(q) \in Seq(Nat) /\ SumOf(q) = q[1] + SumOf(Tail(q)) /\ q[1] \in Nat
<1>1. 1 \in 1..Len(q)
  OBVIOUS
<1>2. RemoveAt(q, 1) = Tail(q)
  <2>1. SubSeq(q, 1, 0) = << >> /\ SubSeq(q, 2, Len(q)) = Tail(q) /\ << >> \o Tail(q) = Tail(q)
    OBVIOUS
  <2> QED BY <2>1 DEF RemoveAt
<1>3. SumOf(q) = SumOf(Tail(q)) + q[1] /\ Tail(q) \in Seq(Nat)
  BY <1>1, <1>2, SumRemove
<1>4. SumOf(Tail(q)) \in Nat
  BY <1>3, SumNat
<1>5. q[1] \in Nat
  BY <1>1
<1> QED BY <1>3, <1>4, <1>5

LEMMA SumZero ==
  ASSUME NEW q \in Seq(Nat)
  PROVE  SumOf(q) = 0 <=> \A i \in 1..Len(q) : q[i] = 0
<1>1. ASSUME SumOf(q) = 0, NEW i \in 1..Len(q) PROVE q[i] = 0
  <2>1. q[i] \in Nat /\ SumOf(q) >= q[i]
    BY SumRemove
  <2> QED BY <1>1, <2>1
<1>2. ASSUME \A i \in 1..Len(q) : q[i] = 0 PROVE SumOf(q) = 0
  <2>1. SumsUp([i \in 0..Len(q) |-> 0], q)
    BY <1>2 DEF SumsUp
  <2>2. SumOf(q) = [i \in 0..Len(q) |-> 0][Len(q)]
    BY <2>1, SumIs
  <2> QED BY <2>2
<1> QED BY <1>1, <1>2

-----------------------------------------------------------------------------
\* What the elements of a sequence weigh together: how many events of a kind are
\* due, and how many bytes are on their way.
Total(q, w) == SumOf([i \in 1..Len(q) |-> w[q[i]]])

LEMMA TotalNat ==
  ASSUME NEW E, NEW w \in [E -> Nat], NEW q \in Seq(E)
  PROVE  /\ [i \in 1..Len(q) |-> w[q[i]]] \in Seq(Nat)
         /\ Len([i \in 1..Len(q) |-> w[q[i]]]) = Len(q)
         /\ Total(q, w) \in Nat
<1>1. PICK n \in Nat : n = Len(q)
  OBVIOUS
<1>2. \A i \in 1..n : w[q[i]] \in Nat
  BY <1>1
<1>3. [i \in 1..n |-> w[q[i]]] \in Seq(Nat) /\ Len([i \in 1..n |-> w[q[i]]]) = n
  BY <1>2
<1> QED BY <1>1, <1>3, SumNat DEF Total

LEMMA TotalEmpty ==
  ASSUME NEW w
  PROVE  Total(<< >>, w) = 0
<1>1. [i \in 1..Len(<< >>) |-> w[<< >>[i]]] = << >>
  OBVIOUS
<1> QED BY <1>1, SumEmpty DEF Total

LEMMA TotalConcat ==
  ASSUME NEW E, NEW w \in [E -> Nat], NEW q \in Seq(E), NEW r \in Seq(E)
  PROVE  /\ q \o r \in Seq(E)
         /\ Total(q \o r, w) = Total(q, w) + Total(r, w)
<1>1. PICK a, b, c : /\ a = [i \in 1..Len(q) |-> w[q[i]]] /\ b = [i \in 1..Len(r) |-> w[r[i]]]
                     /\ c = [i \in 1..Len(q \o r) |-> w[(q \o r)[i]]]
  OBVIOUS
<1>2. a \in Seq(Nat) /\ b \in Seq(Nat) /\ Len(a) = Len(q) /\ Len(b) = Len(r)
  BY <1>1, TotalNat
<1>3. q \o r \in Seq(E) /\ Len(q \o r) = Len(q) + Len(r)
  OBVIOUS
<1>4. c \in Seq(Nat) /\ Len(c) = Len(q) + Len(r)
  BY <1>1, <1>3, TotalNat
<1>5. c = a \o b
  <2>1. /\ a \o b \in Seq(Nat) /\ Len(a \o b) = Len(a) + Len(b)
        /\ \A i \in 1..Len(a) + Len(b) : (a \o b)[i] = IF i <= Len(a) THEN a[i] ELSE b[i - Len(a)]
    BY <1>2, ConcatProperties
  <2>2. \A i \in 1..Len(q) + Len(r) : (q \o r)[i] = IF i <= Len(q) THEN q[i] ELSE r[i - Len(q)]
    BY ConcatProperties
  <2>3. PICK m \in Nat, n \in Nat : m = Len(q) /\ n = Len(r)
    OBVIOUS
  <2>4. ASSUME NEW i \in 1..m + n PROVE c[i] = (a \o b)[i]
    <3>0. c[i] = w[(q \o r)[i]]
      BY <1>1, <1>3, <2>3
    <3>1. CASE i <= m
      <4>1. c[i] = w[q[i]] /\ (a \o b)[i] = a[i] /\ i \in 1..m
        BY <1>2, <2>1, <2>2, <2>3, <3>0, <3>1
      <4> QED BY <1>1, <2>3, <4>1
    <3>2. CASE i > m
      <4>1. PICK j \in 1..n : j = i - m
        BY <3>2
      <4>2. (q \o r)[i] = r[j] /\ (a \o b)[i] = b[j]
        BY ONLY <1>2, <2>1, <2>2, <2>3, <3>2, <4>1, i \in 1..m + n
      <4>3. c[i] = w[r[j]]
        BY ONLY <3>0, <4>2
      <4> QED BY <1>1, <2>3, <4>1, <4>2, <4>3
    <3>3. i <= m \/ i > m
      OBVIOUS
    <3> QED BY <3>1, <3>2, <3>3
  <2>5. Len(c) = m + n /\ Len(a \o b) = m + n
    BY <1>2, <1>4, <2>1, <2>3
  <2> QED BY <1>4, <2>1, <2>4, <2>5, SeqEqual
<1>6. SumOf(c) = SumOf(a) + SumOf(b)
  BY <1>2, <1>5, SumConcat
<1> QED BY <1>1, <1>3, <1>6 DEF Total

LEMMA TotalOne ==
  ASSUME NEW E, NEW w \in [E -> Nat], NEW x \in E
  PROVE  <<x>> \in Seq(E) /\ Total(<<x>>, w) = w[x]
<1>1. [i \in 1..Len(<<x>>) |-> w[<<x>>[i]]] = <<w[x]>> /\ w[x] \in Nat
  OBVIOUS
<1> QED BY <1>1, SumOne DEF Total

LEMMA TotalTail ==
  ASSUME NEW E, NEW w \in [E -> Nat], NEW q \in Seq(E), q # << >>
  PROVE  q[1] \in E /\ Tail(q) \in Seq(E) /\ Total(q, w) = w[q[1]] + Total(Tail(q), w)
<1>1. q[1] \in E /\ Tail(q) \in Seq(E) /\ q = <<q[1]>> \o Tail(q)
  OBVIOUS
<1>2. <<q[1]>> \in Seq(E) /\ Total(<<q[1]>>, w) = w[q[1]]
  BY <1>1, TotalOne
<1>3. Total(<<q[1]>> \o Tail(q), w) = Total(<<q[1]>>, w) + Total(Tail(q), w)
  BY ONLY <1>1, <1>2, TotalConcat, w \in [E -> Nat]
<1> QED BY <1>1, <1>2, <1>3

LEMMA TotalZero ==
  ASSUME NEW E, NEW w \in [E -> Nat], NEW q \in Seq(E)
  PROVE  /\ Total(q, w) = 0 <=> \A i \in 1..Len(q) : w[q[i]] = 0
         /\ \A i \in 1..Len(q) : Total(q, w) >= w[q[i]] /\ w[q[i]] \in Nat
<1>1. PICK a : a = [i \in 1..Len(q) |-> w[q[i]]]
  OBVIOUS
<1>2. a \in Seq(Nat) /\ Len(a) = Len(q) /\ \A i \in 1..Len(q) : a[i] = w[q[i]]
  BY <1>1, TotalNat
<1>3. \A i \in 1..Len(a) : SumOf(a) >= a[i] /\ a[i] \in Nat
  BY <1>2, SumRemove
<1>4. SumOf(a) = 0 <=> \A i \in 1..Len(a) : a[i] = 0
  BY <1>2, SumZero
<1> QED BY <1>1, <1>2, <1>3, <1>4 DEF Total

-----------------------------------------------------------------------------
\* The inductive invariant.  First what a message may be: an event of the
\* calendar, and a packet on the network.
Due(at, type) ==
  \/ at = "client" /\ type \in {"resp", "fin", "comp"}
  \/ at = "cjm" /\ type \in {"start", "req", "self", "ack"}
  \/ at = "sjm" /\ type \in {"start", "resp", "comp", "self", "ack"}
  \/ at = "sched" /\ type \in {"req", "fin", "start", "resp", "comp"}
  \/ at = "server" /\ type \in {"req", "fin"}
\* The events that deliveries cause.
Brought(at, type) ==
  \/ at \in {"cjm", "sjm"} /\ type \in {"self", "ack"}
  \/ at = "sched" /\ type = "req"
  \/ at = "client" /\ type \in {"resp", "comp"}

Places == {"client", "cjm", "sjm", "sched", "server"}
Types == {"resp", "fin", "comp", "start", "req", "self", "ack"}
Events == {e \in [at : Places, type : Types, server : Servers, n : Nat] :
             Due(e.at, e.type) /\ (e.type = "ack" <=> e.n > 0)}
Packets == {p \in [type : {"req", "resp", "comp", "push"}, n : Nat] : p.type = "push" <=> p.n > 0}

\* Events of a kind that are due for a server, and packets of a type in a
\* queue; the bytes of the acknowledgements due, and of the packets.
Is(e, at, type, s) == e.at = at /\ e.type = type /\ e.server = s
AckOf(e, jm, s) == IF Is(e, jm, "ack", s) THEN e.n ELSE 0
Kind(at, type, s) == [e \in Events |-> IF Is(e, at, type, s) THEN 1 ELSE 0]
AckBytes(jm, s) == [e \in Events |-> AckOf(e, jm, s)]
OfType(type) == [p \in Packets |-> IF p.type = type THEN 1 ELSE 0]
PacketBytes == [p \in Packets |-> p.n]

N(at, type, s) == Total(now, Kind(at, type, s))
Sent(q, type) == Total(q, OfType(type))

\* Where the request is, its answer, the start and the finish of the server's
\* flow, and the completion of a write: each in one place at most.
Asking(s) == N("cjm", "req", s) + Sent(down[s], "req") + N("sched", "req", s) + N("server", "req", s)
Answering(s) ==
  N("sched", "resp", s) + N("sjm", "resp", s) + Sent(up[s], "resp") + N("client", "resp", s)
Starting(s) == N("sched", "start", s) + N("sjm", "start", s)
Finishing(s) == N("sched", "fin", s) + N("server", "fin", s)
Completing(s) ==
  N("sched", "comp", s) + N("sjm", "comp", s) + Sent(up[s], "comp") + N("client", "comp", s)
One(c) == IF c THEN 1 ELSE 0

\* The server's handler, and its request object.
RequestOK(s) ==
  /\ plan[s] = Skip => req[s] = "none" /\ srv[s] = "INIT" /\ Asking(s) = 0 /\ Answering(s) = 0
  /\ plan[s] # Skip => /\ Asking(s) = One(srv[s] = "INIT") /\ Asking(s) + Answering(s) <= 1
                       /\ req[s] \in {"live", "deleted"}
  /\ Starting(s) = One(srv[s] # "INIT" /\ plan[s] > 0 /\ sflow[s].st = "none")
  /\ Starting(s) = 1 => Answering(s) = 1 /\ N("client", "resp", s) = 0
  /\ Finishing(s) = One(srv[s] = "RESPONDED" /\ sflow[s].st = "gone")
  /\ srv[s] = "FINISH" => sflow[s].st = "gone"
  /\ Completing(s) = One(mode = "write" /\ srv[s] = "FINISH" /\ req[s] = "live")
  /\ req[s] = "deleted" =>
       IF mode = "read" /\ plan[s] = 0 THEN Answering(s) = 0 /\ srv[s] # "INIT" ELSE srv[s] = "FINISH"
  /\ mode = "read" /\ plan[s] = 0 /\ req[s] = "live" => Asking(s) + Answering(s) = 1
  /\ mode = "read" /\ plan[s] > 0 /\ srv[s] = "FINISH" => req[s] = "deleted"

\* The life of the two flows.
FlowsOK(s) ==
  /\ N("cjm", "self", s) = One(cflow[s].st = "done")
  /\ N("sjm", "self", s) = One(sflow[s].st = "done")
  /\ N("client", "fin", s) <= 1 /\ (N("client", "fin", s) = 1 => cflow[s].st = "gone")
  /\ srv[s] = "INIT" => sflow[s].st = "none"
  /\ plan[s] <= 0 => sflow[s].st = "none" /\ cflow[s].st = "none" /\ N("cjm", "start", s) = 0
  /\ mode = "write" => plan[s] # 0
  /\ mode = "read" /\ plan[s] > 0 =>
       /\ N("cjm", "start", s) = One(cflow[s].st = "none")
       /\ N("cjm", "start", s) = 1 => srv[s] = "INIT" /\ N("sched", "req", s) = 0 /\ N("server", "req", s) = 0
  /\ mode = "write" /\ plan[s] > 0 =>
       Asking(s) + Answering(s) + N("cjm", "start", s) = One(cflow[s].st = "none")

\* A flow's totals: it is done when both have reached what it moves.
FlowOK(f, bytes) ==
  /\ f \in [st : FlowStates, net : Nat, sto : Nat, off : Nat]
  /\ f.st = "none" => f = NoFlow
  /\ f.st \in {"done", "gone"} <=> f.st # "none" /\ f.net = bytes /\ f.sto = bytes

Source(s) == IF mode = "read" THEN sflow[s] ELSE cflow[s]

\* The bytes, and that all buffers are full but the last.
MovedOK(s) ==
  /\ FlowOK(cflow[s], plan[s]) /\ FlowOK(sflow[s], plan[s])
  /\ cflow[s].net = cflow[s].sto
  /\ plan[s] > 0 => Source(s).off <= plan[s]
  /\ mode = "read" =>
       /\ cflow[s].off = 0 /\ InFlight(s, down[s]) = 0 /\ AcksTo(s, "cjm") = 0
       /\ sflow[s].off = SumOf(disk[s]) + sflow[s].sto
       /\ sflow[s].sto = InFlight(s, up[s]) + cflow[s].net
       /\ cflow[s].net = AcksTo(s, "sjm") + sflow[s].net
  /\ mode = "write" =>
       /\ sflow[s].off = sflow[s].net /\ InFlight(s, up[s]) = 0 /\ AcksTo(s, "sjm") = 0
       /\ cflow[s].off = InFlight(s, down[s]) + sflow[s].net
       /\ sflow[s].net = SumOf(disk[s]) + sflow[s].sto
       /\ sflow[s].net = AcksTo(s, "cjm") + cflow[s].net
  /\ Source(s).off - Source(s).net <= NumBuffers * BufferSize
Full(n) == n = BufferSize
BuffersFull(s) ==
  Source(s).off < plan[s] =>
    /\ mode = "read" => \A n \in ToSet(disk[s]) : Full(n)
    /\ \A p \in ToSet(up[s]) \union ToSet(down[s]) : p.type = "push" => Full(p.n)
    /\ \A e \in ToSet(now) : e.server = s /\ e.type = "ack" => Full(e.n)

\* The response to a read is ahead of its data all the way, and ahead of the
\* acknowledgements of these in the calendar.
AckBefore(q, s) ==
  \A i, j \in 1..Len(q) : Is(q[i], "client", "resp", s) /\ Is(q[j], "sjm", "ack", s) => i < j
AnswerFirst(s) ==
  mode = "read" =>
    /\ N("sched", "resp", s) + N("sjm", "resp", s) > 0 => up[s] = << >> /\ cflow[s].net = 0
    /\ Sent(up[s], "resp") > 0 => up[s][1].type = "resp" /\ cflow[s].net = 0
    /\ Asking(s) + Answering(s) = 1 => sflow[s].net = 0
    /\ AckBefore(now, s)

ServerOK(s) ==
  /\ req[s] \in {"none", "live", "deleted"} /\ srv[s] \in {"INIT", "RESPONDED", "FINISH"}
  /\ down[s] \in Seq(Packets) /\ up[s] \in Seq(Packets) /\ disk[s] \in Seq(Nat \ {0})
  /\ bstream[s] \in Nat
  /\ RequestOK(s) /\ FlowsOK(s) /\ MovedOK(s) /\ BuffersFull(s) /\ AnswerFirst(s)
  /\ Sent(down[s], "resp") = 0 /\ Sent(down[s], "comp") = 0 /\ Sent(up[s], "req") = 0

\* What the client still counts.
Waiting == {s \in Servers : Asking(s) + Answering(s) = 1}
Flowing == {s \in WithFlow : cflow[s].st # "gone" \/ N("client", "fin", s) = 1}
Uncompleted == {s \in Servers : mode = "write" /\ req[s] = "live"}
RemainingOK ==
  /\ phase \in {"COUNT", "FINISH"}
  /\ remaining = [resp |-> Cardinality(Waiting), flow |-> Cardinality(Flowing),
                  comp |-> Cardinality(Uncompleted)]
  /\ phase = "FINISH" => IsComplete(remaining)

Typed ==
  /\ mode \in {"read", "write"} /\ plan \in [Servers -> Sizes \union {Skip}]
  /\ now \in Seq(Events) /\ arriving \in BOOLEAN
  /\ DOMAIN req = Servers /\ DOMAIN srv = Servers /\ DOMAIN cflow = Servers
  /\ DOMAIN sflow = Servers /\ DOMAIN down = Servers /\ DOMAIN up = Servers
  /\ DOMAIN disk = Servers /\ DOMAIN bstream = Servers
  /\ arriving => \A e \in ToSet(now) : Brought(e.at, e.type)

Begun == Typed /\ RemainingOK /\ \A s \in Servers : ServerOK(s)
\* The request objects and the states of the handlers, of every server.
Objects == /\ req \in [Servers -> {"none", "live", "deleted"}]
           /\ srv \in [Servers -> {"INIT", "RESPONDED", "FINISH"}]
IInv == Init \/ (Begun /\ Objects)

-----------------------------------------------------------------------------
\* The calendar after an event was handled, and after a delivery.
LEMMA WeightsAre ==
  /\ \A at, type, s : Kind(at, type, s) \in [Events -> Nat]
  /\ \A jm, s : AckBytes(jm, s) \in [Events -> Nat]
  /\ \A type : OfType(type) \in [Packets -> Nat]
  /\ PacketBytes \in [Packets -> Nat]
  /\ \A at, type, s : \A e \in Events : Kind(at, type, s)[e] = One(Is(e, at, type, s))
  /\ \A jm, s : \A e \in Events : AckBytes(jm, s)[e] = AckOf(e, jm, s)
<1>1. \A e \in Events : e.n \in Nat
  BY DEF Events
<1>2. \A p \in Packets : p.n \in Nat
  BY DEF Packets
<1> QED BY <1>1, <1>2 DEF Kind, AckBytes, OfType, PacketBytes, One, Is, AckOf

LEMMA AcksAre ==
  ASSUME NEW q \in Seq(Events), NEW s, NEW jm
  PROVE  SumOf([i \in 1..Len(q) |-> IF q[i].at = jm /\ q[i].type = "ack" /\ q[i].server = s
                                    THEN q[i].n ELSE 0]) = Total(q, AckBytes(jm, s))
<1>1. ASSUME NEW i \in 1..Len(q)
      PROVE  AckBytes(jm, s)[q[i]] = IF q[i].at = jm /\ q[i].type = "ack" /\ q[i].server = s
                                     THEN q[i].n ELSE 0
  BY WeightsAre DEF AckOf, Is
<1> QED BY <1>1 DEF Total

LEMMA InFlightIs ==
  ASSUME NEW s, NEW q \in Seq(Packets)
  PROVE  InFlight(s, q) = Total(q, PacketBytes) /\ InFlight(s, q) \in Nat
<1>1. \A i \in 1..Len(q) : PacketBytes[q[i]] = q[i].n
  BY DEF PacketBytes
<1>2. Total(q, PacketBytes) = InFlight(s, q)
  BY <1>1 DEF Total, InFlight
<1> QED BY <1>2, WeightsAre, TotalNat

LEMMA SetOfSeq ==
  ASSUME NEW E, NEW q \in Seq(E), NEW r \in Seq(E)
  PROVE  /\ ToSet(q) \subseteq E
         /\ \A x : x \in ToSet(q) <=> \E i \in 1..Len(q) : x = q[i]
         /\ ToSet(q \o r) = ToSet(q) \cup ToSet(r)
         /\ q # << >> => q[1] \in ToSet(q) /\ ToSet(Tail(q)) \subseteq ToSet(q)
         /\ q = << >> <=> ToSet(q) = {}
<1>1. /\ \A i \in 1..Len(q) : q[i] \in E
      /\ \A x : x \in ToSet(q) <=> \E i \in 1..Len(q) : x = q[i]
  BY DEF ToSet
<1>2. ToSet(q \o r) = ToSet(q) \cup ToSet(r)
  <2>1. PICK m \in Nat, n \in Nat : m = Len(q) /\ n = Len(r)
    OBVIOUS
  <2>2. q \o r \in Seq(E) /\ Len(q \o r) = m + n
        /\ \A i \in 1..m + n : (q \o r)[i] = IF i <= m THEN q[i] ELSE r[i - m]
    BY <2>1, ConcatProperties
  <2>3. ToSet(q \o r) = {(q \o r)[i] : i \in 1..m + n}
    <3>1. DOMAIN (q \o r) = 1..m + n
      BY <2>2, LenProperties
    <3> QED BY <3>1 DEF ToSet
  <2>4. ToSet(q) = {q[i] : i \in 1..m} /\ ToSet(r) = {r[i] : i \in 1..n}
    BY <2>1 DEF ToSet
  <2>5. \A i \in 1..m : i \in 1..m + n /\ (q \o r)[i] = q[i]
    BY <2>2
  <2>6. ASSUME NEW i \in 1..n PROVE m + i \in 1..m + n /\ (q \o r)[m + i] = r[i]
    <3>1. m + i \in 1..m + n /\ ~(m + i <= m) /\ (m + i) - m = i
      OBVIOUS
    <3> QED BY <2>2, <3>1
  <2>7. ASSUME NEW i \in 1..m + n PROVE i \in 1..m \/ \E j \in 1..n : i = m + j
    <3>1. i > m => i - m \in 1..n /\ i = m + (i - m)
      OBVIOUS
    <3>2. i <= m => i \in 1..m
      OBVIOUS
    <3>3. i <= m \/ i > m
      OBVIOUS
    <3> QED BY <3>1, <3>2, <3>3
  <2>8. ASSUME NEW x \in ToSet(q \o r) PROVE x \in ToSet(q) \cup ToSet(r)
    <3>1. PICK i \in 1..m + n : x = (q \o r)[i]
      BY <2>3
    <3>2. CASE i \in 1..m
      BY <2>4, <2>5, <3>1, <3>2
    <3>3. ASSUME NEW j \in 1..n, i = m + j PROVE x \in ToSet(r)
      BY <2>4, <2>6, <3>1, <3>3
    <3> QED BY <2>7, <3>2, <3>3
  <2>9. ASSUME NEW x \in ToSet(q) \cup ToSet(r) PROVE x \in ToSet(q \o r)
    <3>1. CASE x \in ToSet(q)
      <4>1. PICK i \in 1..m : x = q[i]
        BY <2>4, <3>1
      <4> QED BY <2>3, <2>5, <4>1
    <3>2. CASE x \in ToSet(r)
      <4>1. PICK i \in 1..n : x = r[i]
        BY <2>4, <3>2
      <4>2. m + i \in 1..m + n /\ (q \o r)[m + i] = x
        BY <2>6, <4>1
      <4> QED BY <2>3, <4>2
    <3> QED BY <3>1, <3>2
  <2> QED BY <2>8, <2>9
<1>3. ASSUME q # << >> PROVE q[1] \in ToSet(q) /\ ToSet(Tail(q)) \subseteq ToSet(q)
  <2>1. 1 \in 1..Len(q)
    BY <1>3
  <2>2. DOMAIN Tail(q) = 1..Len(q) - 1 /\ \A i \in 1..Len(q) - 1 : Tail(q)[i] = q[i + 1] /\ i + 1 \in 1..Len(q)
    BY <1>3
  <2> QED BY <2>1, <2>2 DEF ToSet
<1>4. q = << >> <=> ToSet(q) = {}
  <2>1. q # << >> => ToSet(q) # {}
    BY <1>3
  <2>2. ToSet(<< >>) = {}
    BY DEF ToSet
  <2> QED BY <2>1, <2>2
<1> QED BY <1>1, <1>2, <1>3, <1>4

\* What events weigh that are scheduled one or two at a time.
LEMMA OneEvent ==
  ASSUME NEW e \in Events
  PROVE  /\ <<e>> \in Seq(Events) /\ ToSet(<<e>>) = {e}
         /\ \A at, type, s : Total(<<e>>, Kind(at, type, s)) = One(Is(e, at, type, s))
         /\ \A jm, s : Total(<<e>>, AckBytes(jm, s)) = AckOf(e, jm, s)
<1>1. <<e>> \in Seq(Events) /\ ToSet(<<e>>) = {e}
  BY DEF ToSet
<1> QED BY <1>1, WeightsAre, TotalOne

LEMMA EventsJoined ==
  ASSUME NEW q \in Seq(Events), NEW r \in Seq(Events)
  PROVE  /\ q \o r \in Seq(Events) /\ ToSet(q \o r) = ToSet(q) \cup ToSet(r)
         /\ \A at, type, s : Total(q \o r, Kind(at, type, s)) = Total(q, Kind(at, type, s)) + Total(r, Kind(at, type, s))
         /\ \A jm, s : Total(q \o r, AckBytes(jm, s)) = Total(q, AckBytes(jm, s)) + Total(r, AckBytes(jm, s))
<1>1. \A w \in [Events -> Nat] : Total(q \o r, w) = Total(q, w) + Total(r, w)
  BY TotalConcat
<1>2. q \o r \in Seq(Events) /\ ToSet(q \o r) = ToSet(q) \cup ToSet(r)
  BY SetOfSeq, ConcatProperties
<1> QED BY <1>1, <1>2, WeightsAre

LEMMA TwoEvents ==
  ASSUME NEW e \in Events, NEW f \in Events
  PROVE  /\ <<e>> \o <<f>> \in Seq(Events) /\ ToSet(<<e>> \o <<f>>) = {e, f}
         /\ \A at, type, s : Total(<<e>> \o <<f>>, Kind(at, type, s))
                               = One(Is(e, at, type, s)) + One(Is(f, at, type, s))
         /\ \A jm, s : Total(<<e>> \o <<f>>, AckBytes(jm, s)) = AckOf(e, jm, s) + AckOf(f, jm, s)
<1>1. <<e>> \in Seq(Events) /\ <<f>> \in Seq(Events)
  OBVIOUS
<1>2. PICK q, r : q = <<e>> /\ r = <<f>>
  OBVIOUS
<1>3. /\ ToSet(q) = {e} /\ \A at, type, s : Total(q, Kind(at, type, s)) = One(Is(e, at, type, s))
      /\ \A jm, s : Total(q, AckBytes(jm, s)) = AckOf(e, jm, s)
  BY ONLY <1>2, OneEvent, e \in Events
<1>4. /\ ToSet(r) = {f} /\ \A at, type, s : Total(r, Kind(at, type, s)) = One(Is(f, at, type, s))
      /\ \A jm, s : Total(r, AckBytes(jm, s)) = AckOf(f, jm, s)
  BY ONLY <1>2, OneEvent, f \in Events
<1>5. /\ q \o r \in Seq(Events) /\ ToSet(q \o r) = {e, f}
      /\ \A at, type, s : Total(q \o r, Kind(at, type, s)) = One(Is(e, at, type, s)) + One(Is(f, at, type, s))
      /\ \A jm, s : Total(q \o r, AckBytes(jm, s)) = AckOf(e, jm, s) + AckOf(f, jm, s)
  <2>1. q \in Seq(Events) /\ r \in Seq(Events)
    BY <1>1, <1>2
  <2> QED BY ONLY <1>3, <1>4, <2>1, EventsJoined
<1> QED BY <1>2, <1>5

LEMMA NoEvents ==
  /\ << >> \in Seq(Events) /\ ToSet(<< >>) = {}
  /\ \A at, type, s : Total(<< >>, Kind(at, type, s)) = 0
  /\ \A jm, s : Total(<< >>, AckBytes(jm, s)) = 0
<1>1. << >> \in Seq(Events) /\ ToSet(<< >>) = {}
  BY DEF ToSet
<1> QED BY <1>1, TotalEmpty


LEMMA OrderKept ==
  ASSUME NEW q \in Seq(Events), NEW r \in Seq(Events), NEW s, AckBefore(q, s)
  PROVE  /\ q # << >> => AckBefore(Tail(q), s)
         /\ (\A e \in ToSet(r) : ~Is(e, "client", "resp", s)) => AckBefore(q \o r, s)
         /\ (\A e \in ToSet(q) \cup ToSet(r) : ~Is(e, "sjm", "ack", s)) => AckBefore(q \o r, s)
<1>1. ASSUME q # << >> PROVE AckBefore(Tail(q), s)
  <2>1. /\ Len(Tail(q)) = Len(q) - 1
        /\ \A i \in 1..Len(q) - 1 : Tail(q)[i] = q[i + 1] /\ i + 1 \in 1..Len(q)
    BY <1>1
  <2>2. ASSUME NEW i \in 1..Len(Tail(q)), NEW j \in 1..Len(Tail(q)),
               Is(Tail(q)[i], "client", "resp", s), Is(Tail(q)[j], "sjm", "ack", s)
        PROVE  i < j
    <3>1. Is(q[i + 1], "client", "resp", s) /\ Is(q[j + 1], "sjm", "ack", s)
      BY <2>1, <2>2
    <3>2. i + 1 < j + 1
      BY <2>1, <3>1 DEF AckBefore
    <3> QED BY <3>2, <2>1
  <2> QED BY <2>2 DEF AckBefore
<1>2. PICK m \in Nat, n \in Nat : m = Len(q) /\ n = Len(r)
  OBVIOUS
<1>3. /\ Len(q \o r) = m + n
      /\ \A i \in 1..m + n : (q \o r)[i] = IF i <= m THEN q[i] ELSE r[i - m]
  BY <1>2, ConcatProperties
<1>4. /\ \A i \in 1..m : q[i] \in ToSet(q)
      /\ \A i \in 1..n : r[i] \in ToSet(r)
  BY <1>2, SetOfSeq
<1>5. ASSUME NEW i \in 1..m + n, i > m PROVE (q \o r)[i] \in ToSet(r)
  <2>1. PICK j \in 1..n : j = i - m
    BY <1>5
  <2>2. (q \o r)[i] = r[j]
    BY <1>3, <1>5, <2>1
  <2> QED BY <1>4, <2>2
<1>6. ASSUME \A e \in ToSet(r) : ~Is(e, "client", "resp", s) PROVE AckBefore(q \o r, s)
  <2>1. ASSUME NEW i \in 1..m + n, NEW j \in 1..m + n,
               Is((q \o r)[i], "client", "resp", s), Is((q \o r)[j], "sjm", "ack", s)
        PROVE  i < j
    <3>1. i <= m
      <4>1. ~(i > m)
        BY <1>5, <1>6, <2>1
      <4> QED BY <4>1
    <3>2. CASE j <= m
      <4>1. i \in 1..m /\ j \in 1..m /\ (q \o r)[i] = q[i] /\ (q \o r)[j] = q[j]
        BY <1>3, <3>1, <3>2
      <4> QED BY <1>2, <2>1, <4>1 DEF AckBefore
    <3>3. j > m => i < j
      BY <3>1
    <3>4. j <= m \/ j > m
      OBVIOUS
    <3> QED BY <3>2, <3>3, <3>4
  <2> QED BY <1>3, <2>1 DEF AckBefore
<1>7. ASSUME \A e \in ToSet(q) \cup ToSet(r) : ~Is(e, "sjm", "ack", s) PROVE AckBefore(q \o r, s)
  <2>1. ASSUME NEW i \in 1..m + n PROVE (q \o r)[i] \in ToSet(q) \cup ToSet(r)
    <3>1. CASE i <= m
      <4>1. i \in 1..m /\ (q \o r)[i] = q[i]
        BY <1>3, <3>1
      <4> QED BY <1>4, <4>1
    <3>2. i > m => (q \o r)[i] \in ToSet(r)
      BY <1>5
    <3>3. i <= m \/ i > m
      OBVIOUS
    <3> QED BY <3>1, <3>2, <3>3
  <2> QED BY <1>3, <1>7, <2>1 DEF AckBefore
<1> QED BY <1>1, <1>6, <1>7

\* Which events there are, from how many there are.
LEMMA Counted0 ==
  ASSUME now \in Seq(Events)
  PROVE  /\ \A at, type, s : N(at, type, s) \in Nat
         /\ \A at, type, s : N(at, type, s) = 0 <=> \A e \in ToSet(now) : ~Is(e, at, type, s)
         /\ \A s, jm : AcksTo(s, jm) \in Nat
         /\ \A s, jm : AcksTo(s, jm) = 0 <=> \A e \in ToSet(now) : ~Is(e, jm, "ack", s)
         /\ \A s, jm : \A e \in ToSet(now) : AcksTo(s, jm) >= AckOf(e, jm, s)
         /\ ToSet(now) \subseteq Events
<1>1. ToSet(now) \subseteq Events /\ \A x : x \in ToSet(now) <=> \E i \in 1..Len(now) : x = now[i]
  BY SetOfSeq
<1>2. \A w \in [Events -> Nat] : /\ Total(now, w) \in Nat
                                 /\ Total(now, w) = 0 <=> \A e \in ToSet(now) : w[e] = 0
                                 /\ \A e \in ToSet(now) : Total(now, w) >= w[e]
  <2>1. ASSUME NEW w \in [Events -> Nat]
        PROVE  /\ Total(now, w) \in Nat
               /\ Total(now, w) = 0 <=> \A i \in 1..Len(now) : w[now[i]] = 0
               /\ \A i \in 1..Len(now) : Total(now, w) >= w[now[i]]
    BY TotalZero, TotalNat
  <2> QED BY <1>1, <2>1
<1>3. ASSUME NEW at, NEW type, NEW s
      PROVE  /\ N(at, type, s) \in Nat
             /\ N(at, type, s) = 0 <=> \A e \in ToSet(now) : ~Is(e, at, type, s)
  <2>1. \A e \in ToSet(now) : Kind(at, type, s)[e] = One(Is(e, at, type, s))
    BY <1>1, WeightsAre
  <2> QED BY <1>2, <2>1, WeightsAre DEF N, One
<1>4. ASSUME NEW s, NEW jm
      PROVE  /\ AcksTo(s, jm) \in Nat
             /\ AcksTo(s, jm) = 0 <=> \A e \in ToSet(now) : ~Is(e, jm, "ack", s)
             /\ \A e \in ToSet(now) : AcksTo(s, jm) >= AckOf(e, jm, s)
  <2>1. \A e \in ToSet(now) : AckBytes(jm, s)[e] = AckOf(e, jm, s)
    BY <1>1, WeightsAre
  <2>2. \A e \in ToSet(now) : AckOf(e, jm, s) = 0 <=> ~Is(e, jm, "ack", s)
    BY <1>1 DEF Events, AckOf, Is
  <2>3. AcksTo(s, jm) = Total(now, AckBytes(jm, s))
    BY AcksAre DEF AcksTo
  <2> QED BY <1>2, <2>1, <2>2, <2>3, WeightsAre
<1> QED BY <1>1, <1>3, <1>4

LEMMA Handled ==
  ASSUME now \in Seq(Events), NEW at, NEW type, NEW s, NEW out \in Seq(Events),
         Handle(at, type, s, out)
  PROVE  /\ now' \in Seq(Events) /\ arriving' = FALSE
         /\ now[1] \in ToSet(now) /\ now[1] \in Events /\ Is(now[1], at, type, s)
         /\ \A a, t, u : N(a, t, u)' = N(a, t, u) - One(Is(now[1], a, t, u)) + Total(out, Kind(a, t, u))
         /\ \A jm, u : AcksTo(u, jm)' = AcksTo(u, jm) - AckOf(now[1], jm, u) + Total(out, AckBytes(jm, u))
         /\ ToSet(now') \subseteq ToSet(now) \cup ToSet(out)
         /\ \A u : AckBefore(now, u) /\ (\A e \in ToSet(out) : ~Is(e, "client", "resp", u))
                     => AckBefore(now, u)'
<1>1. now # << >> /\ now' = Tail(now) \o out /\ arriving' = FALSE /\ Is(now[1], at, type, s)
  BY DEF Handle, Is
<1>2. now[1] \in Events /\ Tail(now) \in Seq(Events) /\ now[1] \in ToSet(now)
      /\ ToSet(Tail(now)) \subseteq ToSet(now)
  BY <1>1, SetOfSeq
<1>3. PICK q \in Seq(Events) : q = Tail(now)
  BY <1>2
<1>4. /\ now' \in Seq(Events) /\ ToSet(now') = ToSet(q) \cup ToSet(out)
      /\ \A a, t, u : Total(now', Kind(a, t, u)) = Total(q, Kind(a, t, u)) + Total(out, Kind(a, t, u))
      /\ \A jm, u : Total(now', AckBytes(jm, u)) = Total(q, AckBytes(jm, u)) + Total(out, AckBytes(jm, u))
  <2>1. now' = q \o out
    BY <1>1, <1>3
  <2> QED BY <2>1, EventsJoined
<1>5. \A w \in [Events -> Nat] : Total(now, w) = w[now[1]] + Total(q, w) /\ w[now[1]] \in Nat
                                 /\ Total(q, w) \in Nat /\ Total(out, w) \in Nat
  BY <1>1, <1>2, <1>3, TotalTail, TotalNat
<1>6. ASSUME NEW a, NEW t, NEW u
      PROVE  N(a, t, u)' = N(a, t, u) - One(Is(now[1], a, t, u)) + Total(out, Kind(a, t, u))
  <2>1. PICK w \in [Events -> Nat] : w = Kind(a, t, u)
    BY WeightsAre
  <2>2. w[now[1]] = One(Is(now[1], a, t, u))
    BY <1>2, <2>1, WeightsAre
  <2>3. Total(now', w) = Total(q, w) + Total(out, w)
    BY <1>4, <2>1
  <2>4. N(a, t, u) = Total(now, w) /\ N(a, t, u)' = Total(now', w)
    BY <2>1 DEF N
  <2> QED BY <1>5, <2>1, <2>2, <2>3, <2>4
<1>7. ASSUME NEW jm, NEW u
      PROVE  AcksTo(u, jm)' = AcksTo(u, jm) - AckOf(now[1], jm, u) + Total(out, AckBytes(jm, u))
  <2>1. PICK w \in [Events -> Nat] : w = AckBytes(jm, u)
    BY WeightsAre
  <2>2. w[now[1]] = AckOf(now[1], jm, u)
    BY <1>2, <2>1, WeightsAre
  <2>3. Total(now', w) = Total(q, w) + Total(out, w)
    BY <1>4, <2>1
  <2>4. AcksTo(u, jm) = Total(now, w) /\ AcksTo(u, jm)' = Total(now', w)
    BY <1>4, <2>1, AcksAre DEF AcksTo
  <2> QED BY <1>5, <2>1, <2>2, <2>3, <2>4
<1>8. ASSUME NEW u, AckBefore(now, u), \A e \in ToSet(out) : ~Is(e, "client", "resp", u)
      PROVE  AckBefore(now, u)'
  <2>1. AckBefore(q, u)
    BY <1>1, <1>3, <1>8, OrderKept
  <2>2. AckBefore(q \o out, u)
    BY <1>8, <2>1, OrderKept
  <2> QED BY <1>1, <1>3, <2>2 DEF AckBefore
<1> QED BY <1>1, <1>2, <1>3, <1>4, <1>6, <1>7, <1>8

LEMMA Delivered ==
  ASSUME Typed, NEW out \in Seq(Events), Deliver(out)
  PROVE  /\ now' \in Seq(Events) /\ arriving' = TRUE
         /\ \A e \in ToSet(now) : Brought(e.at, e.type)
         /\ \A a, t, u : N(a, t, u)' = N(a, t, u) + Total(out, Kind(a, t, u))
         /\ \A jm, u : AcksTo(u, jm)' = AcksTo(u, jm) + Total(out, AckBytes(jm, u))
         /\ ToSet(now') = ToSet(now) \cup ToSet(out)
         /\ \A u : AckBefore(now, u) /\ (\A e \in ToSet(out) : ~Is(e, "client", "resp", u))
                     => AckBefore(now, u)'
         /\ \A u : AckBefore(now, u) /\ (\A e \in ToSet(now) \cup ToSet(out) : ~Is(e, "sjm", "ack", u))
                     => AckBefore(now, u)'
<1>1. now \in Seq(Events) /\ now' = now \o out /\ arriving' = TRUE
  BY DEF Deliver, Typed
<1>2. \A e \in ToSet(now) : Brought(e.at, e.type)
  <2>1. CASE arriving
    BY <2>1 DEF Typed
  <2>2. CASE now = << >>
    BY <2>2, NoEvents
  <2> QED BY <2>1, <2>2 DEF Deliver
<1>3. /\ now' \in Seq(Events) /\ ToSet(now') = ToSet(now) \cup ToSet(out)
      /\ \A a, t, u : Total(now', Kind(a, t, u)) = Total(now, Kind(a, t, u)) + Total(out, Kind(a, t, u))
      /\ \A jm, u : Total(now', AckBytes(jm, u)) = Total(now, AckBytes(jm, u)) + Total(out, AckBytes(jm, u))
  BY <1>1, EventsJoined
<1>4. ASSUME NEW jm, NEW u PROVE AcksTo(u, jm)' = AcksTo(u, jm) + Total(out, AckBytes(jm, u))
  <2>1. AcksTo(u, jm) = Total(now, AckBytes(jm, u)) /\ AcksTo(u, jm)' = Total(now', AckBytes(jm, u))
    BY <1>1, <1>3, AcksAre DEF AcksTo
  <2> QED BY <1>3, <2>1
<1>5. ASSUME NEW u, AckBefore(now, u),
             \/ \A e \in ToSet(out) : ~Is(e, "client", "resp", u)
             \/ \A e \in ToSet(now) \cup ToSet(out) : ~Is(e, "sjm", "ack", u)
      PROVE  AckBefore(now, u)'
  <2>1. AckBefore(now \o out, u)
    BY <1>1, <1>5, OrderKept
  <2> QED BY <1>1, <2>1 DEF AckBefore
<1> QED BY <1>1, <1>2, <1>3, <1>4, <1>5 DEF N

-----------------------------------------------------------------------------
\* Queues of packets.
LEMMA PacketTotals ==
  ASSUME NEW q \in Seq(Packets)
  PROVE  /\ \A type : Sent(q, type) = Total(q, OfType(type)) /\ OfType(type) \in [Packets -> Nat]
         /\ \A s : InFlight(s, q) = Total(q, PacketBytes)
         /\ PacketBytes \in [Packets -> Nat]
BY InFlightIs, WeightsAre DEF Sent

LEMMA PacketWeights ==
  ASSUME NEW p \in Packets
  PROVE  /\ \A type : OfType(type)[p] = One(p.type = type)
         /\ PacketBytes[p] = p.n /\ p.n \in Nat
BY DEF OfType, PacketBytes, One, Packets

LEMMA PacketAppended ==
  ASSUME NEW q \in Seq(Packets), NEW p \in Packets, NEW s
  PROVE  /\ Append(q, p) \in Seq(Packets) /\ Append(q, p) # << >>
         /\ ToSet(Append(q, p)) = ToSet(q) \cup {p}
         /\ \A type : Sent(Append(q, p), type) = Sent(q, type) + One(p.type = type)
         /\ InFlight(s, Append(q, p)) = InFlight(s, q) + p.n
         /\ Append(q, p)[1] = IF q = << >> THEN p ELSE q[1]
<1>0. <<p>> \in Seq(Packets)
  OBVIOUS
<1>1. PICK r \in Seq(Packets) : r = <<p>>
  BY <1>0
<1>2. /\ Append(q, p) = q \o r /\ Append(q, p) \in Seq(Packets) /\ Append(q, p) # << >>
      /\ Append(q, p)[1] = IF q = << >> THEN p ELSE q[1]
  BY <1>1, AppendProperties, AppendIsConcat
<1>3. ToSet(r) = {p}
  BY <1>1 DEF ToSet
<1>4. ToSet(q \o r) = ToSet(q) \cup {p}
  BY <1>3, SetOfSeq
<1>5. ASSUME NEW w \in [Packets -> Nat] PROVE Total(q \o r, w) = Total(q, w) + w[p]
  <2>1. Total(r, w) = w[p]
    BY <1>1, TotalOne
  <2> QED BY <2>1, TotalConcat
<1>6. ASSUME NEW type PROVE Sent(Append(q, p), type) = Sent(q, type) + One(p.type = type)
  <2>1. Sent(Append(q, p), type) = Total(q \o r, OfType(type)) /\ Sent(q, type) = Total(q, OfType(type))
    BY <1>2 DEF Sent
  <2> QED BY <1>5, <2>1, WeightsAre, PacketWeights
<1>7. InFlight(s, Append(q, p)) = InFlight(s, q) + p.n
  <2>1. InFlight(s, Append(q, p)) = Total(q \o r, PacketBytes) /\ InFlight(s, q) = Total(q, PacketBytes)
    BY <1>2, InFlightIs
  <2> QED BY <1>5, <2>1, WeightsAre, PacketWeights
<1> QED BY <1>2, <1>4, <1>6, <1>7

LEMMA PacketTaken ==
  ASSUME NEW q \in Seq(Packets), q # << >>, NEW s
  PROVE  /\ q[1] \in Packets /\ q[1] \in ToSet(q)
         /\ Tail(q) \in Seq(Packets) /\ ToSet(Tail(q)) \subseteq ToSet(q)
         /\ \A type : Sent(Tail(q), type) = Sent(q, type) - One(q[1].type = type)
         /\ InFlight(s, Tail(q)) = InFlight(s, q) - q[1].n
<1>0. q[1] \in Packets /\ Tail(q) \in Seq(Packets)
  OBVIOUS
<1>1. PICK p \in Packets, r \in Seq(Packets) : p = q[1] /\ r = Tail(q)
  BY <1>0
<1>2. p \in ToSet(q) /\ ToSet(r) \subseteq ToSet(q)
  BY <1>1, SetOfSeq
<1>3. \A w \in [Packets -> Nat] : Total(q, w) = w[p] + Total(r, w) /\ Total(r, w) \in Nat /\ w[p] \in Nat
  BY <1>1, TotalTail, TotalNat
<1>4. \A type : Sent(r, type) = Sent(q, type) - One(p.type = type)
  <2>1. ASSUME NEW type PROVE Sent(r, type) = Sent(q, type) - One(p.type = type)
    <3>1. Sent(r, type) = Total(r, OfType(type)) /\ Sent(q, type) = Total(q, OfType(type))
          /\ OfType(type)[p] = One(p.type = type) /\ OfType(type) \in [Packets -> Nat]
      BY WeightsAre, PacketWeights DEF Sent
    <3> QED BY <1>3, <3>1
  <2> QED BY <2>1
<1>5. InFlight(s, r) = InFlight(s, q) - p.n
  <2>1. InFlight(s, r) = Total(r, PacketBytes) /\ InFlight(s, q) = Total(q, PacketBytes)
        /\ PacketBytes[p] = p.n /\ PacketBytes \in [Packets -> Nat]
    BY PacketTotals, PacketWeights
  <2> QED BY <1>3, <2>1
<1> QED BY <1>1, <1>2, <1>4, <1>5

LEMMA PacketsIn ==
  ASSUME NEW q \in Seq(Packets), NEW s
  PROVE  /\ \A type : Sent(q, type) \in Nat
         /\ \A type : Sent(q, type) = 0 <=> \A p \in ToSet(q) : p.type # type
         /\ InFlight(s, q) \in Nat
         /\ InFlight(s, q) = 0 <=> \A p \in ToSet(q) : p.type # "push"
         /\ q = << >> <=> ToSet(q) = {}
         /\ ToSet(q) \subseteq Packets
<1>1. ToSet(q) \subseteq Packets /\ (q = << >> <=> ToSet(q) = {})
      /\ \A x : x \in ToSet(q) <=> \E i \in 1..Len(q) : x = q[i]
  BY SetOfSeq
<1>2. ASSUME NEW w \in [Packets -> Nat]
      PROVE  Total(q, w) \in Nat /\ (Total(q, w) = 0 <=> \A p \in ToSet(q) : w[p] = 0)
  <2>1. Total(q, w) \in Nat /\ (Total(q, w) = 0 <=> \A i \in 1..Len(q) : w[q[i]] = 0)
    BY TotalZero, TotalNat
  <2> QED BY <1>1, <2>1
<1>3. ASSUME NEW type
      PROVE  Sent(q, type) \in Nat /\ (Sent(q, type) = 0 <=> \A p \in ToSet(q) : p.type # type)
  <2>1. \A p \in ToSet(q) : OfType(type)[p] = One(p.type = type)
    BY <1>1, PacketWeights
  <2>2. Sent(q, type) = Total(q, OfType(type)) /\ OfType(type) \in [Packets -> Nat]
    BY WeightsAre DEF Sent
  <2>3. Sent(q, type) \in Nat /\ (Sent(q, type) = 0 <=> \A p \in ToSet(q) : OfType(type)[p] = 0)
    BY <1>2, <2>2
  <2> QED BY ONLY <2>1, <2>3 DEF One
<1>4. InFlight(s, q) = 0 <=> \A p \in ToSet(q) : p.type # "push"
  <2>1. \A p \in ToSet(q) : PacketBytes[p] = 0 <=> p.type # "push"
    BY <1>1, PacketWeights DEF Packets
  <2> QED BY <1>2, <2>1, PacketTotals
<1> QED BY <1>1, <1>3, <1>4, InFlightIs

LEMMA PushesAre ==
  ASSUME NEW c \in Seq(Nat \ {0}), NEW q \in Seq(Packets), NEW s
  PROVE  /\ q \o Pushes(c) \in Seq(Packets)
         /\ \A p \in ToSet(q \o Pushes(c)) : p \in ToSet(q) \/ (p.type = "push" /\ p.n \in ToSet(c))
         /\ \A type : type # "push" => Sent(q \o Pushes(c), type) = Sent(q, type)
         /\ InFlight(s, q \o Pushes(c)) = InFlight(s, q) + SumOf(c)
<1>1. PICK n \in Nat : n = Len(c)
  OBVIOUS
<1>2. \A i \in 1..n : c[i] \in Nat \ {0} /\ c[i] \in ToSet(c)
  BY <1>1, SetOfSeq
<1>3. PICK r : r = Pushes(c)
  OBVIOUS
<1>4. r = [i \in 1..n |-> Packet("push", c[i])]
  BY <1>1, <1>3 DEF Pushes
<1>5. \A i \in 1..n : Packet("push", c[i]) \in Packets /\ Packet("push", c[i]).type = "push"
                      /\ Packet("push", c[i]).n = c[i]
  BY <1>2 DEF Packet, Packets
<1>6. r \in Seq(Packets) /\ Len(r) = n /\ \A i \in 1..n : r[i].type = "push" /\ r[i].n = c[i]
  BY <1>4, <1>5
<1>7. \A x \in ToSet(r) : x.type = "push" /\ x.n \in ToSet(c)
  <2>1. ASSUME NEW x \in ToSet(r) PROVE x.type = "push" /\ x.n \in ToSet(c)
    <3>1. PICK i \in 1..n : x = r[i]
      <4>1. \A y : y \in ToSet(r) <=> \E i \in 1..Len(r) : y = r[i]
        BY <1>6, SetOfSeq
      <4> QED BY ONLY <1>6, <4>1, x \in ToSet(r)
    <3> QED BY ONLY <1>2, <1>6, <3>1, i \in 1..n
  <2> QED BY ONLY <2>1
<1>8. q \o r \in Seq(Packets) /\ ToSet(q \o r) = ToSet(q) \cup ToSet(r)
  BY <1>6, SetOfSeq, ConcatProperties
<1>9. \A w \in [Packets -> Nat] : Total(q \o r, w) = Total(q, w) + Total(r, w) /\ Total(q, w) \in Nat
  BY <1>6, TotalConcat, TotalNat
<1>10. ASSUME NEW type, type # "push" PROVE Sent(q \o r, type) = Sent(q, type)
  <2>1. Sent(r, type) = 0
    <3>1. \A t : Sent(r, t) = 0 <=> \A p \in ToSet(r) : p.type # t
      BY <1>6, PacketsIn
    <3>2. \A p \in ToSet(r) : p.type # type
      BY ONLY <1>7, <1>10
    <3> QED BY ONLY <3>1, <3>2
  <2>2. /\ Sent(q \o r, type) = Total(q \o r, OfType(type)) /\ Sent(q, type) = Total(q, OfType(type))
        /\ Sent(r, type) = Total(r, OfType(type)) /\ OfType(type) \in [Packets -> Nat]
    BY WeightsAre DEF Sent
  <2>3. Sent(q \o r, type) = Sent(q, type) + Sent(r, type) /\ Sent(q, type) \in Nat
    BY ONLY <1>9, <2>2
  <2> QED BY ONLY <2>1, <2>3
<1>11. InFlight(s, r) = SumOf(c)
  <2>1. [i \in 1..Len(r) |-> r[i].n] = c
    BY <1>1, <1>2, <1>6
  <2> QED BY <2>1 DEF InFlight
<1>12. InFlight(s, q \o r) = InFlight(s, q) + SumOf(c)
  <2>1. /\ InFlight(s, q \o r) = Total(q \o r, PacketBytes) /\ InFlight(s, q) = Total(q, PacketBytes)
        /\ InFlight(s, r) = Total(r, PacketBytes) /\ PacketBytes \in [Packets -> Nat]
    BY <1>6, <1>8, PacketTotals
  <2> QED BY ONLY <1>9, <1>11, <2>1
<1>13. ASSUME NEW p \in ToSet(q \o r) PROVE p \in ToSet(q) \/ (p.type = "push" /\ p.n \in ToSet(c))
  <2>1. p \in ToSet(q) \/ p \in ToSet(r)
    BY ONLY <1>8, p \in ToSet(q \o r)
  <2> QED BY ONLY <1>7, <2>1
<1>14. \A p \in ToSet(q \o r) : p \in ToSet(q) \/ (p.type = "push" /\ p.n \in ToSet(c))
  BY ONLY <1>13
<1>15. \A type : type # "push" => Sent(q \o r, type) = Sent(q, type)
  BY ONLY <1>10
<1> QED BY ONLY <1>3, <1>8, <1>12, <1>14, <1>15

-----------------------------------------------------------------------------
\* The buffers a flow sends next.
LEMMA DivBounds ==
  ASSUME NEW n \in Nat, NEW b \in Nat \ {0}
  PROVE  n \div b \in Nat /\ (n \div b) * b <= n /\ n < (n \div b) * b + b
OBVIOUS

LEMMA MulGrows ==
  ASSUME NEW a \in Nat, NEW b \in Nat, NEW c \in Nat, a <= b
  PROVE  a * c <= b * c /\ a * c \in Nat /\ b * c \in Nat
OBVIOUS

LEMMA MulStep ==
  ASSUME NEW i \in Nat \ {0}, NEW b \in Nat
  PROVE  i * b = (i - 1) * b + b /\ (i - 1) * b \in Nat
OBVIOUS

LEMMA MinIs ==
  ASSUME NEW a \in Nat, NEW b \in Nat
  PROVE  Min({a, b}) = IF a <= b THEN a ELSE b
<1> DEFINE m == IF a <= b THEN a ELSE b
<1>1. m \in {a, b} /\ \A y \in {a, b} : m <= y
  OBVIOUS
<1>2. \A x \in {a, b} : (\A y \in {a, b} : x <= y) => x = m
  OBVIOUS
<1> QED BY <1>1, <1>2 DEF Min

LEMMA ChunksAre ==
  ASSUME NEW s \in Servers, plan[s] \in Nat, NEW off \in Nat, off <= plan[s], NEW k \in Nat
  PROVE  /\ NextChunks(s, off, k) \in Seq(Nat \ {0})
         /\ SumOf(NextChunks(s, off, k)) \in Nat
         /\ SumOf(NextChunks(s, off, k)) <= k * BufferSize
         /\ off + SumOf(NextChunks(s, off, k)) <= plan[s]
         /\ off + SumOf(NextChunks(s, off, k)) < plan[s]
              => \A n \in ToSet(NextChunks(s, off, k)) : n = BufferSize
<1>1. PICK m \in Nat, B \in Nat \ {0} : m = plan[s] - off /\ B = BufferSize
  BY BufferAssumption
<1>2. PICK b \in Nat : b = BuffersFor(m) /\ b * B <= m + B - 1
  <2>1. m + B - 1 \in Nat
    OBVIOUS
  <2> QED BY <1>1, <2>1, DivBounds DEF BuffersFor
<1>3. PICK L \in Nat : L = Min({k, b}) /\ L <= k /\ L <= b
  BY MinIs
<1>4. ASSUME NEW i \in 1..L
      PROVE  i * B = (i - 1) * B + B /\ (i - 1) * B \in Nat /\ (i - 1) * B < m
  <2>1. i * B = (i - 1) * B + B /\ (i - 1) * B \in Nat
    BY MulStep
  <2>2. i * B <= b * B
    BY <1>3, MulGrows
  <2>3. PICK x \in Nat, y \in Nat : x = (i - 1) * B /\ y = b * B /\ i * B = x + B
    BY <2>1, MulGrows
  <2>4. x < m
    BY <1>2, <2>2, <2>3
  <2> QED BY <2>1, <2>3, <2>4
<1> DEFINE c == [i \in 1..L |-> Chunk(s, off + (i - 1) * BufferSize)]
<1>5. NextChunks(s, off, k) = c
  BY <1>1, <1>2, <1>3 DEF NextChunks
<1>6. ASSUME NEW i \in 1..L
      PROVE  c[i] = (IF m - (i - 1) * B < B THEN m - (i - 1) * B ELSE B) /\ c[i] \in Nat \ {0}
  <2>1. PICK x \in Nat : x = (i - 1) * B /\ x < m
    BY <1>4
  <2>2. c[i] = IF plan[s] - (off + x) < B THEN plan[s] - (off + x) ELSE B
    BY <1>1, <2>1 DEF Chunk
  <2>3. plan[s] - (off + x) = m - x
    BY <1>1
  <2> QED BY <2>1, <2>2, <2>3
<1>7. c \in Seq(Nat \ {0}) /\ c \in Seq(Nat) /\ Len(c) = L
  <2>1. c \in [1..L -> Nat \ {0}]
    <3>1. DOMAIN c = 1..L /\ c = [i \in 1..L |-> c[i]]
      OBVIOUS
    <3> HIDE DEF c
    <3> QED BY <1>6, <3>1
  <2>2. \A S : c \in [1..L -> S] => c \in Seq(S) /\ Len(c) = L
    <3> HIDE DEF c
    <3> QED BY SeqDef, LenProperties
  <2>3. c \in [1..L -> Nat]
    <3> HIDE DEF c
    <3> QED BY <2>1
  <2> QED BY <2>1, <2>2, <2>3
<1> HIDE DEF c
<1> DEFINE g == [j \in 0..L |-> IF j * B <= m THEN j * B ELSE m]
<1>8. \A j \in 0..L : j * B \in Nat
  BY MulGrows
<1>9. ASSUME NEW i \in 1..L PROVE g[i] = g[i - 1] + c[i]
  <2>1. PICK x \in Nat : x = (i - 1) * B /\ x < m /\ i * B = x + B
    BY <1>4
  <2>2. g[i] = (IF x + B <= m THEN x + B ELSE m) /\ g[i - 1] = x
    BY <2>1
  <2>3. c[i] = IF m - x < B THEN m - x ELSE B
    BY <1>6, <2>1
  <2>4. \A v, w \in Nat : v < m => (IF v + B <= m THEN v + B ELSE m) = v + (IF m - v < B THEN m - v ELSE B)
    BY ONLY m \in Nat, B \in Nat
  <2> QED BY ONLY <2>1, <2>2, <2>3, <2>4
<1>10. SumsUp(g, c)
  <2>1. g \in [0..L -> Nat] /\ g[0] = 0
    BY <1>8
  <2> QED BY <1>7, <1>9, <2>1 DEF SumsUp
<1>11. SumOf(c) = IF L * B <= m THEN L * B ELSE m
  <2>1. SumOf(c) = g[L]
    BY <1>7, <1>10, SumIs
  <2> QED BY <2>1
<1>12. L * B <= k * B /\ L * B \in Nat
  BY <1>3, MulGrows
<1>13. ASSUME SumOf(c) < m, NEW i \in 1..L PROVE c[i] = B
  <2>1. PICK x \in Nat : x = (i - 1) * B /\ i * B = x + B
    BY <1>4
  <2>2. i * B <= L * B
    BY MulGrows
  <2>3. L * B < m
    BY <1>11, <1>13
  <2>4. PICK y \in Nat : y = L * B
    BY <1>12
  <2>5. x + B < m
    BY <2>1, <2>2, <2>3, <2>4
  <2> QED BY <1>6, <2>1, <2>5
<1>14. SumOf(c) < m => \A n \in ToSet(c) : n = B
  BY <1>7, <1>13, SetOfSeq
<1>15. PICK y \in Nat, z \in Nat : y = L * B /\ z = k * B /\ y <= z
  BY <1>12, MulGrows
<1>16. SumOf(c) \in Nat /\ SumOf(c) <= z /\ SumOf(c) <= m
  BY <1>11, <1>15
<1> QED BY <1>1, <1>5, <1>7, <1>14, <1>15, <1>16

-----------------------------------------------------------------------------
\* What a step for one server leaves alone: the others.
Local(s) ==
  /\ mode' = mode /\ plan' = plan
  /\ DOMAIN req' = Servers /\ DOMAIN srv' = Servers /\ DOMAIN cflow' = Servers
  /\ DOMAIN sflow' = Servers /\ DOMAIN down' = Servers /\ DOMAIN up' = Servers
  /\ DOMAIN disk' = Servers /\ DOMAIN bstream' = Servers
  /\ \A u \in Servers \ {s} :
       /\ req'[u] = req[u] /\ srv'[u] = srv[u] /\ cflow'[u] = cflow[u] /\ sflow'[u] = sflow[u]
       /\ down'[u] = down[u] /\ up'[u] = up[u] /\ disk'[u] = disk[u] /\ bstream'[u] = bstream[u]

SameEvents(u) ==
  /\ \A a, t : N(a, t, u)' = N(a, t, u)
  /\ \A jm : AcksTo(u, jm)' = AcksTo(u, jm)
  /\ AckBefore(now, u) => AckBefore(now, u)'
  /\ \A e \in ToSet(now') : e.server = u => e \in ToSet(now)

LEMMA NoneOf ==
  ASSUME NEW out \in Seq(Events), NEW u, \A e \in ToSet(out) : e.server # u
  PROVE  /\ \A a, t : Total(out, Kind(a, t, u)) = 0
         /\ \A jm : Total(out, AckBytes(jm, u)) = 0
         /\ \A e \in ToSet(out) : ~Is(e, "client", "resp", u)
<1>1. ToSet(out) \subseteq Events /\ \A i \in 1..Len(out) : out[i] \in ToSet(out)
  BY SetOfSeq
<1>2. ASSUME NEW a, NEW t PROVE Total(out, Kind(a, t, u)) = 0
  <2>1. PICK w \in [Events -> Nat] : w = Kind(a, t, u)
    BY WeightsAre
  <2>2. \A i \in 1..Len(out) : w[out[i]] = 0
    BY <1>1, <2>1, WeightsAre DEF One, Is
  <2> QED BY <2>1, <2>2, TotalZero
<1>3. ASSUME NEW jm PROVE Total(out, AckBytes(jm, u)) = 0
  <2>1. PICK w \in [Events -> Nat] : w = AckBytes(jm, u)
    BY WeightsAre
  <2>2. \A i \in 1..Len(out) : w[out[i]] = 0
    BY <1>1, <2>1, WeightsAre DEF AckOf, Is
  <2> QED BY <2>1, <2>2, TotalZero
<1> QED BY <1>2, <1>3 DEF Is

LEMMA HandledElsewhere ==
  ASSUME now \in Seq(Events), NEW at, NEW type, NEW s, NEW out \in Seq(Events),
         Handle(at, type, s, out), \A e \in ToSet(out) : e.server = s
  PROVE  \A u \in Servers \ {s} : SameEvents(u)
<1> SUFFICES ASSUME NEW u \in Servers \ {s} PROVE SameEvents(u)
  OBVIOUS
<1>1. /\ \A a, t : Total(out, Kind(a, t, u)) = 0
      /\ \A jm : Total(out, AckBytes(jm, u)) = 0
      /\ \A e \in ToSet(out) : ~Is(e, "client", "resp", u)
  BY NoneOf
<1>2. /\ \A a, t : One(Is(now[1], a, t, u)) = 0
      /\ \A jm : AckOf(now[1], jm, u) = 0
  BY Handled DEF Is, One, AckOf
<1>7. \A a, t, v : N(a, t, v)' = N(a, t, v) - One(Is(now[1], a, t, v)) + Total(out, Kind(a, t, v))
  BY Handled
<1>8. \A jm, v : AcksTo(v, jm)' = AcksTo(v, jm) - AckOf(now[1], jm, v) + Total(out, AckBytes(jm, v))
  BY Handled
<1>3. ASSUME NEW a, NEW t PROVE N(a, t, u)' = N(a, t, u)
  <2>1. N(a, t, u)' = N(a, t, u) - One(Is(now[1], a, t, u)) + Total(out, Kind(a, t, u))
    BY ONLY <1>7
  <2>2. N(a, t, u) \in Nat /\ One(Is(now[1], a, t, u)) = 0 /\ Total(out, Kind(a, t, u)) = 0
    BY <1>1, <1>2, Counted0
  <2> QED BY ONLY <2>1, <2>2
<1>4. ASSUME NEW jm PROVE AcksTo(u, jm)' = AcksTo(u, jm)
  <2>1. AcksTo(u, jm)' = AcksTo(u, jm) - AckOf(now[1], jm, u) + Total(out, AckBytes(jm, u))
    BY ONLY <1>8
  <2>2. AcksTo(u, jm) \in Nat /\ AckOf(now[1], jm, u) = 0 /\ Total(out, AckBytes(jm, u)) = 0
    BY <1>1, <1>2, Counted0
  <2> QED BY ONLY <2>1, <2>2
<1>5. \A e \in ToSet(now') : e.server = u => e \in ToSet(now)
  BY Handled
<1>6. AckBefore(now, u) => AckBefore(now, u)'
  BY <1>1, Handled
<1> QED BY <1>3, <1>4, <1>5, <1>6 DEF SameEvents

LEMMA DeliveredElsewhere ==
  ASSUME Typed, NEW s, NEW out \in Seq(Events), Deliver(out), \A e \in ToSet(out) : e.server = s
  PROVE  \A u \in Servers \ {s} : SameEvents(u)
<1> SUFFICES ASSUME NEW u \in Servers \ {s} PROVE SameEvents(u)
  OBVIOUS
<1>1. /\ \A a, t : Total(out, Kind(a, t, u)) = 0
      /\ \A jm : Total(out, AckBytes(jm, u)) = 0
      /\ \A e \in ToSet(out) : ~Is(e, "client", "resp", u)
  BY NoneOf
<1>0. now \in Seq(Events)
  BY DEF Typed
<1>7. \A a, t, v : N(a, t, v)' = N(a, t, v) + Total(out, Kind(a, t, v))
  BY Delivered
<1>3. ASSUME NEW a, NEW t PROVE N(a, t, u)' = N(a, t, u)
  <2>1. N(a, t, u)' = N(a, t, u) + Total(out, Kind(a, t, u))
    BY ONLY <1>7
  <2>2. N(a, t, u) \in Nat /\ Total(out, Kind(a, t, u)) = 0
    BY <1>0, <1>1, Counted0
  <2> QED BY ONLY <2>1, <2>2
<1>4. ASSUME NEW jm PROVE AcksTo(u, jm)' = AcksTo(u, jm)
  <2>1. AcksTo(u, jm)' = AcksTo(u, jm) + Total(out, AckBytes(jm, u))
    BY Delivered
  <2>2. AcksTo(u, jm) \in Nat /\ Total(out, AckBytes(jm, u)) = 0
    BY <1>0, <1>1, Counted0
  <2> QED BY ONLY <2>1, <2>2
<1>5. \A e \in ToSet(now') : e.server = u => e \in ToSet(now)
  BY Delivered
<1>6. AckBefore(now, u) => AckBefore(now, u)'
  BY <1>1, Delivered
<1> QED BY <1>3, <1>4, <1>5, <1>6 DEF SameEvents

LEMMA OthersKept ==
  ASSUME NEW s \in Servers, Local(s), NEW u \in Servers \ {s}, SameEvents(u), ServerOK(u)
  PROVE  /\ ServerOK(u)'
         /\ Asking(u)' = Asking(u) /\ Answering(u)' = Answering(u)
<1>1. /\ mode' = mode /\ plan' = plan
      /\ req'[u] = req[u] /\ srv'[u] = srv[u] /\ cflow'[u] = cflow[u] /\ sflow'[u] = sflow[u]
      /\ down'[u] = down[u] /\ up'[u] = up[u] /\ disk'[u] = disk[u] /\ bstream'[u] = bstream[u]
  BY DEF Local
<1>2. /\ \A a, t : N(a, t, u)' = N(a, t, u)
      /\ \A jm : AcksTo(u, jm)' = AcksTo(u, jm)
  BY DEF SameEvents
<1>3. Asking(u)' = Asking(u) /\ Answering(u)' = Answering(u) /\ Starting(u)' = Starting(u)
      /\ Finishing(u)' = Finishing(u) /\ Completing(u)' = Completing(u)
  BY <1>1, <1>2 DEF Asking, Answering, Starting, Finishing, Completing
<1>4. RequestOK(u)'
  BY <1>1, <1>2, <1>3 DEF ServerOK, RequestOK
<1>5. FlowsOK(u)'
  BY <1>1, <1>2, <1>3 DEF ServerOK, FlowsOK
<1>6. Source(u)' = Source(u)
  BY <1>1 DEF Source
<1>7. MovedOK(u)'
  BY <1>1, <1>2, <1>6 DEF ServerOK, MovedOK
<1>8. BuffersFull(u)'
  BY <1>1, <1>6 DEF ServerOK, BuffersFull, SameEvents
<1>9. AnswerFirst(u)'
  BY <1>1, <1>2, <1>3 DEF ServerOK, AnswerFirst, SameEvents
<1> QED BY <1>1, <1>3, <1>4, <1>5, <1>7, <1>8, <1>9 DEF ServerOK

\* What a server adds to the client's counts.
Flows(s) == cflow[s].st # "gone" \/ N("client", "fin", s) = 1

LEMMA Dropped ==
  ASSUME NEW S \in SUBSET Servers
  PROVE  /\ Cardinality(S) \in 0..NumServers
         /\ S = {} <=> Cardinality(S) = 0
         /\ \A s \in S : Cardinality(S \ {s}) = Cardinality(S) - 1 /\ Cardinality(S) >= 1
<1>1. IsFiniteSet(Servers) /\ Cardinality(Servers) = NumServers
  BY NumServersAssumption, FS_Interval DEF Servers
<1>2. IsFiniteSet(S) /\ Cardinality(S) <= NumServers /\ Cardinality(S) \in Nat
  BY <1>1, FS_Subset, FS_CardinalityType
<1>3. S = {} <=> Cardinality(S) = 0
  BY <1>2, FS_EmptySet
<1>4. ASSUME NEW s \in S PROVE Cardinality(S \ {s}) = Cardinality(S) - 1 /\ Cardinality(S) >= 1
  <2>1. Cardinality(S \ {s}) = Cardinality(S) - 1
    BY <1>2, FS_RemoveElement
  <2> QED BY <1>2, <1>3, <2>1
<1> QED BY <1>2, <1>3, <1>4, NumServersAssumption

\* A step for one server: what is left to show.
LEMMA StepKeeps ==
  ASSUME Begun, NEW s \in Servers, Local(s), \A u \in Servers \ {s} : SameEvents(u),
         ServerOK(s)'
  PROVE  /\ \A u \in Servers : ServerOK(u)'
         /\ Waiting' = (Waiting \ {s}) \cup {u \in {s} : Asking(u)' + Answering(u)' = 1}
         /\ Flowing' = (Flowing \ {s}) \cup {u \in {s} : plan[u] > 0 /\ Flows(u)'}
         /\ Uncompleted' = (Uncompleted \ {s}) \cup {u \in {s} : mode = "write" /\ req'[u] = "live"}
<1>1. mode' = mode /\ plan' = plan
      /\ \A u \in Servers \ {s} : req'[u] = req[u] /\ cflow'[u] = cflow[u]
  BY DEF Local
<1>2. ASSUME NEW u \in Servers \ {s}
      PROVE  /\ ServerOK(u)' /\ Asking(u)' = Asking(u) /\ Answering(u)' = Answering(u)
             /\ N("client", "fin", u)' = N("client", "fin", u)
  BY <1>2, OthersKept DEF Begun, SameEvents
<1>3. Waiting' = (Waiting \ {s}) \cup {u \in {s} : Asking(u)' + Answering(u)' = 1}
  BY <1>2 DEF Waiting
<1>4. Flowing' = (Flowing \ {s}) \cup {u \in {s} : plan[u] > 0 /\ Flows(u)'}
  BY <1>1, <1>2 DEF Flowing, Flows, WithFlow
<1>5. Uncompleted' = (Uncompleted \ {s}) \cup {u \in {s} : mode = "write" /\ req'[u] = "live"}
  BY <1>1 DEF Uncompleted
<1> QED BY <1>2, <1>3, <1>4, <1>5

\* Of the steps that leave the client's counts alone.
LEMMA CountsKept ==
  ASSUME Begun, NEW s \in Servers, Local(s), \A u \in Servers \ {s} : SameEvents(u),
         Typed', ServerOK(s)', phase' = phase, remaining' = remaining,
         Asking(s)' + Answering(s)' = Asking(s) + Answering(s),
         plan[s] > 0 => (Flows(s)' <=> Flows(s)),
         mode = "write" => (req'[s] = "live" <=> req[s] = "live")
  PROVE  Begun'
<1>1. Waiting' = Waiting
  BY StepKeeps DEF Waiting
<1>2. Flowing' = Flowing
  BY StepKeeps DEF Flowing, Flows, WithFlow
<1>3. Uncompleted' = Uncompleted
  BY StepKeeps DEF Uncompleted
<1>4. RemainingOK'
  BY <1>1, <1>2, <1>3 DEF Begun, RemainingOK
<1> QED BY <1>4, StepKeeps DEF Begun

\* The numbers an invariant speaks of.
LEMMA CountsNat ==
  ASSUME now \in Seq(Events), NEW s, down[s] \in Seq(Packets), up[s] \in Seq(Packets)
  PROVE  /\ \A a, t : N(a, t, s) \in Nat
         /\ \A t : Sent(down[s], t) \in Nat /\ Sent(up[s], t) \in Nat
         /\ Asking(s) \in Nat /\ Answering(s) \in Nat /\ Starting(s) \in Nat
         /\ Finishing(s) \in Nat /\ Completing(s) \in Nat
         /\ InFlight(s, down[s]) \in Nat /\ InFlight(s, up[s]) \in Nat
         /\ \A jm : AcksTo(s, jm) \in Nat
<1>1. \A a, t : N(a, t, s) \in Nat
  BY Counted0
<1>2. \A t : Sent(down[s], t) \in Nat /\ Sent(up[s], t) \in Nat
  BY PacketsIn
<1>3. \A w, x, y, z \in Nat : w + x + y + z \in Nat /\ w + x \in Nat
  OBVIOUS
<1>4. Asking(s) \in Nat /\ Answering(s) \in Nat /\ Completing(s) \in Nat
  BY ONLY <1>1, <1>2, <1>3 DEF Asking, Answering, Completing
<1>5. Starting(s) \in Nat /\ Finishing(s) \in Nat
  BY ONLY <1>1, <1>3 DEF Starting, Finishing
<1> QED BY <1>1, <1>2, <1>4, <1>5, PacketsIn, Counted0

-----------------------------------------------------------------------------
\* The events a step leaves behind for server s: none, one or two.
LEMMA EventIs ==
  ASSUME NEW at, NEW type, NEW s \in Servers, NEW n \in Nat,
         Due(at, type), type = "ack" <=> n > 0
  PROVE  /\ Ev(at, type, s, n) \in Events
         /\ Ev(at, type, s, n).at = at /\ Ev(at, type, s, n).type = type
         /\ Ev(at, type, s, n).server = s /\ Ev(at, type, s, n).n = n
         /\ \A a, t : One(Is(Ev(at, type, s, n), a, t, s)) = One(a = at /\ t = type)
         /\ \A jm : AckOf(Ev(at, type, s, n), jm, s) = IF jm = at /\ type = "ack" THEN n ELSE 0
<1>1. PICK e : e = [at |-> at, type |-> type, server |-> s, n |-> n]
  OBVIOUS
<1>2. at \in Places /\ type \in Types
  BY DEF Due, Places, Types
<1>3. e \in [at : Places, type : Types, server : Servers, n : Nat] /\ Ev(at, type, s, n) = e
      /\ e.at = at /\ e.type = type /\ e.server = s /\ e.n = n
  BY <1>1, <1>2 DEF Ev
<1>4. e \in Events
  BY <1>3 DEF Events
<1> QED BY <1>3, <1>4 DEF Is, One, AckOf

\* A step leaves events of some kinds for s, acknowledgements of n bytes.
Leaves(out, s, kinds, n) ==
  /\ out \in Seq(Events)
  /\ \A e \in ToSet(out) : e.server = s /\ <<e.at, e.type>> \in kinds /\ (e.type = "ack" => e.n = n)
  /\ \A a, t : Total(out, Kind(a, t, s)) = One(<<a, t>> \in kinds)
  /\ \A jm : Total(out, AckBytes(jm, s)) = IF <<jm, "ack">> \in kinds THEN n ELSE 0

LEMMA NoneLeft ==
  ASSUME NEW s
  PROVE  Leaves(<< >>, s, {}, 0)
BY NoEvents DEF Leaves, One

LEMMA SomeLeft ==
  ASSUME NEW at, NEW type, NEW s \in Servers, NEW n \in Nat, Due(at, type), type = "ack" <=> n > 0
  PROVE  Leaves(<<Ev(at, type, s, n)>>, s, {<<at, type>>}, n)
<1>1. PICK e \in Events :
        /\ e = Ev(at, type, s, n)
        /\ e.at = at /\ e.type = type /\ e.server = s /\ e.n = n
        /\ \A a, t : One(Is(e, a, t, s)) = One(a = at /\ t = type)
        /\ \A jm : AckOf(e, jm, s) = IF jm = at /\ type = "ack" THEN n ELSE 0
  BY EventIs
<1>2. PICK out : out = <<e>>
  OBVIOUS
<1>3. /\ out \in Seq(Events) /\ ToSet(out) = {e}
      /\ \A a, t, u : Total(out, Kind(a, t, u)) = One(Is(e, a, t, u))
      /\ \A jm, u : Total(out, AckBytes(jm, u)) = AckOf(e, jm, u)
  BY ONLY e \in Events, <1>2, OneEvent
<1>4. \A a, t : a = at /\ t = type <=> <<a, t>> \in {<<at, type>>}
  OBVIOUS
<1>5. \A jm : jm = at /\ type = "ack" <=> <<jm, "ack">> \in {<<at, type>>}
  OBVIOUS
<1>6. \A a, t : Total(out, Kind(a, t, s)) = One(<<a, t>> \in {<<at, type>>})
  BY ONLY <1>1, <1>3, <1>4 DEF One
<1>7. \A jm : Total(out, AckBytes(jm, s)) = IF <<jm, "ack">> \in {<<at, type>>} THEN n ELSE 0
  BY ONLY <1>1, <1>3, <1>5
<1>8. \A x \in ToSet(out) : x.server = s /\ <<x.at, x.type>> \in {<<at, type>>} /\ (x.type = "ack" => x.n = n)
  BY <1>1, <1>3
<1>9. Leaves(out, s, {<<at, type>>}, n)
  BY <1>3, <1>6, <1>7, <1>8 DEF Leaves
<1> QED BY ONLY <1>1, <1>2, <1>9

LEMMA OneLeft ==
  ASSUME NEW at, NEW type, NEW s \in Servers, Due(at, type), type # "ack"
  PROVE  Leaves(<<Ev(at, type, s, 0)>>, s, {<<at, type>>}, 0)
BY SomeLeft

LEMMA TwoLeft ==
  ASSUME NEW at, NEW type, NEW s \in Servers, NEW n \in Nat, Due(at, type), type = "ack" <=> n > 0,
         NEW at2, NEW type2, Due(at2, type2), type2 # "ack", type # type2
  PROVE  Leaves(<<Ev(at, type, s, n)>> \o <<Ev(at2, type2, s, 0)>>, s, {<<at, type>>, <<at2, type2>>}, n)
<1>1. PICK e \in Events :
        /\ e = Ev(at, type, s, n)
        /\ e.at = at /\ e.type = type /\ e.server = s /\ e.n = n
        /\ \A a, t : One(Is(e, a, t, s)) = One(a = at /\ t = type)
        /\ \A jm : AckOf(e, jm, s) = IF jm = at /\ type = "ack" THEN n ELSE 0
  BY EventIs
<1>2. PICK f \in Events :
        /\ f = Ev(at2, type2, s, 0)
        /\ f.at = at2 /\ f.type = type2 /\ f.server = s /\ f.n = 0
        /\ \A a, t : One(Is(f, a, t, s)) = One(a = at2 /\ t = type2)
        /\ \A jm : AckOf(f, jm, s) = IF jm = at2 /\ type2 = "ack" THEN 0 ELSE 0
  BY EventIs
<1>3. PICK out : out = <<e>> \o <<f>>
  OBVIOUS
<1>4. /\ out \in Seq(Events) /\ ToSet(out) = {e, f}
      /\ \A a, t, u : Total(out, Kind(a, t, u)) = One(Is(e, a, t, u)) + One(Is(f, a, t, u))
      /\ \A jm, u : Total(out, AckBytes(jm, u)) = AckOf(e, jm, u) + AckOf(f, jm, u)
  <2>1. /\ <<e>> \o <<f>> \in Seq(Events) /\ ToSet(<<e>> \o <<f>>) = {e, f}
        /\ \A a, t, u : Total(<<e>> \o <<f>>, Kind(a, t, u)) = One(Is(e, a, t, u)) + One(Is(f, a, t, u))
        /\ \A jm, u : Total(<<e>> \o <<f>>, AckBytes(jm, u)) = AckOf(e, jm, u) + AckOf(f, jm, u)
    BY ONLY e \in Events, f \in Events, TwoEvents
  <2> QED BY ONLY <1>3, <2>1
<1> DEFINE K == {<<at, type>>, <<at2, type2>>}
<1>5. ASSUME NEW a, NEW t PROVE Total(out, Kind(a, t, s)) = One(<<a, t>> \in K)
  <2>1. Total(out, Kind(a, t, s)) = One(Is(e, a, t, s)) + One(Is(f, a, t, s))
    BY ONLY <1>4
  <2>2. <<a, t>> \in K <=> (a = at /\ t = type) \/ (a = at2 /\ t = type2)
    OBVIOUS
  <2> HIDE DEF K
  <2>3. PICK x \in Nat, y \in Nat : /\ x = One(Is(e, a, t, s)) /\ x = One(a = at /\ t = type)
                                   /\ y = One(Is(f, a, t, s)) /\ y = One(a = at2 /\ t = type2)
    BY ONLY <1>1, <1>2 DEF One
  <2>4. ~((a = at /\ t = type) /\ (a = at2 /\ t = type2))
    OBVIOUS
  <2>5. x + y = One(<<a, t>> \in K)
    <3>1. CASE a = at /\ t = type
      <4>1. x = 1 /\ y = 0 /\ One(<<a, t>> \in K) = 1
        BY ONLY <2>2, <2>3, <2>4, <3>1 DEF One
      <4> QED BY ONLY <4>1
    <3>2. CASE a = at2 /\ t = type2
      <4>1. x = 0 /\ y = 1 /\ One(<<a, t>> \in K) = 1
        BY ONLY <2>2, <2>3, <2>4, <3>2 DEF One
      <4> QED BY ONLY <4>1
    <3>3. CASE ~(a = at /\ t = type) /\ ~(a = at2 /\ t = type2)
      <4>1. x = 0 /\ y = 0 /\ One(<<a, t>> \in K) = 0
        BY ONLY <2>2, <2>3, <3>3 DEF One
      <4> QED BY ONLY <4>1
    <3> QED BY <3>1, <3>2, <3>3
  <2> QED BY ONLY <2>1, <2>3, <2>5
<1>6. ASSUME NEW jm PROVE Total(out, AckBytes(jm, s)) = IF <<jm, "ack">> \in K THEN n ELSE 0
  <2>1. Total(out, AckBytes(jm, s)) = AckOf(e, jm, s) + AckOf(f, jm, s)
    BY ONLY <1>4
  <2>2. <<jm, "ack">> \in K <=> jm = at /\ type = "ack"
    OBVIOUS
  <2> HIDE DEF K
  <2>3. AckOf(e, jm, s) = (IF jm = at /\ type = "ack" THEN n ELSE 0) /\ AckOf(f, jm, s) = 0
    BY ONLY <1>1, <1>2
  <2>4. PICK x \in Nat : x = IF jm = at /\ type = "ack" THEN n ELSE 0
    OBVIOUS
  <2>5. Total(out, AckBytes(jm, s)) = x
    BY ONLY <2>1, <2>3, <2>4, x \in Nat
  <2> QED BY ONLY <2>2, <2>4, <2>5
<1>7. \A x \in ToSet(out) : x.server = s /\ <<x.at, x.type>> \in K /\ (x.type = "ack" => x.n = n)
  BY <1>1, <1>2, <1>4
<1>8. Leaves(out, s, K, n)
  <2> HIDE DEF K
  <2> QED BY <1>4, <1>5, <1>6, <1>7 DEF Leaves
<1> QED BY <1>1, <1>2, <1>3, <1>8

-----------------------------------------------------------------------------
\* The handling of an event of server s.
\* The events of s after one of them is handled.
Took(at, type, s, kinds, n) ==
  /\ now[1] \in ToSet(now) /\ now[1] \in Events /\ Is(now[1], at, type, s)
  /\ N(at, type, s) \in Nat \ {0} /\ N(at, type, s)' = N(at, type, s) - 1
  /\ \A a, t : <<a, t>> \in kinds => N(a, t, s)' = N(a, t, s) + 1
  /\ \A a, t : <<a, t>> # <<at, type>> /\ <<a, t>> \notin kinds => N(a, t, s)' = N(a, t, s)
  /\ \A jm : AcksTo(s, jm)' = AcksTo(s, jm) - (IF jm = at /\ type = "ack" THEN now[1].n ELSE 0)
                              + (IF <<jm, "ack">> \in kinds THEN n ELSE 0)
  /\ \A e \in ToSet(now') : e \in ToSet(now) \/ (<<e.at, e.type>> \in kinds /\ (e.type = "ack" => e.n = n))
  /\ AckBefore(now, s) /\ <<"client", "resp">> \notin kinds => AckBefore(now, s)'
  /\ \A u \in Servers \ {s} : SameEvents(u)
  /\ Local(s) => Typed'

LEMMA AfterHandle ==
  ASSUME Begun, NEW at, NEW type, NEW s \in Servers, NEW out, NEW kinds, NEW n \in Nat,
         Handle(at, type, s, out), Leaves(out, s, kinds, n), <<at, type>> \notin kinds
  PROVE  Took(at, type, s, kinds, n)
<1>1. now \in Seq(Events)
  BY DEF Begun, Typed
<1>2. /\ out \in Seq(Events)
      /\ \A e \in ToSet(out) : e.server = s /\ <<e.at, e.type>> \in kinds /\ (e.type = "ack" => e.n = n)
      /\ \A a, t : Total(out, Kind(a, t, s)) = One(<<a, t>> \in kinds)
      /\ \A jm : Total(out, AckBytes(jm, s)) = IF <<jm, "ack">> \in kinds THEN n ELSE 0
  BY DEF Leaves
<1>3. /\ now[1] \in ToSet(now) /\ now[1] \in Events /\ Is(now[1], at, type, s)
      /\ now' \in Seq(Events) /\ arriving' = FALSE
      /\ ToSet(now') \subseteq ToSet(now) \cup ToSet(out)
  BY <1>1, <1>2, Handled
<1>4. \A a, t, u : N(a, t, u)' = N(a, t, u) - One(Is(now[1], a, t, u)) + Total(out, Kind(a, t, u))
  BY <1>1, <1>2, Handled
<1>5. \A jm, u : AcksTo(u, jm)' = AcksTo(u, jm) - AckOf(now[1], jm, u) + Total(out, AckBytes(jm, u))
  BY <1>1, <1>2, Handled
<1>6. ASSUME AckBefore(now, s), <<"client", "resp">> \notin kinds PROVE AckBefore(now, s)'
  <2>1. \A e \in ToSet(out) : ~Is(e, "client", "resp", s)
    BY <1>2, <1>6 DEF Is
  <2> QED BY <1>1, <1>2, <1>6, <2>1, Handled
<1>7. \A u \in Servers \ {s} : SameEvents(u)
  BY <1>1, <1>2, HandledElsewhere
<1>8. N(at, type, s) \in Nat \ {0} /\ \A a, t : N(a, t, s) \in Nat
  BY <1>1, <1>3, Counted0
<1>9. ASSUME NEW a, NEW t
      PROVE  N(a, t, s)' = N(a, t, s) - One(<<a, t>> = <<at, type>>) + One(<<a, t>> \in kinds)
  <2>1. N(a, t, s)' = N(a, t, s) - One(Is(now[1], a, t, s)) + Total(out, Kind(a, t, s))
    BY ONLY <1>4
  <2>2. Is(now[1], a, t, s) <=> <<a, t>> = <<at, type>>
    BY <1>3 DEF Is
  <2> QED BY ONLY <1>2, <2>1, <2>2 DEF One
<1>10. ASSUME NEW a, NEW t
       PROVE  /\ <<a, t>> \in kinds => N(a, t, s)' = N(a, t, s) + 1
              /\ <<a, t>> # <<at, type>> /\ <<a, t>> \notin kinds => N(a, t, s)' = N(a, t, s)
  <2>1. <<a, t>> \in kinds => <<a, t>> # <<at, type>>
    OBVIOUS
  <2> QED BY ONLY <1>8, <1>9, <2>1 DEF One
<1>11. N(at, type, s)' = N(at, type, s) - 1
  BY ONLY <1>8, <1>9, <<at, type>> \notin kinds DEF One
<1>12. ASSUME NEW jm
       PROVE  AcksTo(s, jm)' = AcksTo(s, jm) - (IF jm = at /\ type = "ack" THEN now[1].n ELSE 0)
                               + (IF <<jm, "ack">> \in kinds THEN n ELSE 0)
  <2>1. AcksTo(s, jm)' = AcksTo(s, jm) - AckOf(now[1], jm, s) + Total(out, AckBytes(jm, s))
    BY ONLY <1>5
  <2>2. AckOf(now[1], jm, s) = IF jm = at /\ type = "ack" THEN now[1].n ELSE 0
    BY <1>3 DEF Is, AckOf
  <2> QED BY ONLY <1>2, <2>1, <2>2
<1>13. ASSUME Local(s) PROVE Typed'
  BY <1>3, <1>13 DEF Begun, Typed, Local
<1>14. \A e \in ToSet(now') : e \in ToSet(now) \/ (<<e.at, e.type>> \in kinds /\ (e.type = "ack" => e.n = n))
  BY ONLY <1>2, <1>3
<1> QED BY ONLY <1>3, <1>6, <1>7, <1>8, <1>10, <1>11, <1>12, <1>13, <1>14 DEF Took

\* Facts about one server that hold before a step.
LEMMA Before ==
  ASSUME Begun, NEW s \in Servers
  PROVE  /\ ServerOK(s) /\ RequestOK(s) /\ FlowsOK(s) /\ MovedOK(s) /\ BuffersFull(s) /\ AnswerFirst(s)
         /\ now \in Seq(Events) /\ mode \in {"read", "write"} /\ plan[s] \in Nat \cup {Skip}
         /\ down[s] \in Seq(Packets) /\ up[s] \in Seq(Packets) /\ disk[s] \in Seq(Nat \ {0})
         /\ BufferSize \in Nat \ {0} /\ NumBuffers \in Nat \ {0} /\ WriteAt \in Nat
BY SizesAssumption, BufferAssumption DEF Begun, Typed, ServerOK

Flow == [st : FlowStates, net : Nat, sto : Nat, off : Nat]
LEMMA FlowsTyped ==
  ASSUME Begun, NEW s \in Servers
  PROVE  /\ cflow[s] \in Flow /\ cflow[s].net \in Nat /\ cflow[s].sto \in Nat /\ cflow[s].off \in Nat
         /\ sflow[s] \in Flow /\ sflow[s].net \in Nat /\ sflow[s].sto \in Nat /\ sflow[s].off \in Nat
         /\ cflow[s].st = "none" => cflow[s].net = 0 /\ cflow[s].sto = 0 /\ cflow[s].off = 0
         /\ sflow[s].st = "none" => sflow[s].net = 0 /\ sflow[s].sto = 0 /\ sflow[s].off = 0
         /\ cflow[s].st \in {"done", "gone"} <=>
              cflow[s].st # "none" /\ cflow[s].net = plan[s] /\ cflow[s].sto = plan[s]
         /\ sflow[s].st \in {"done", "gone"} <=>
              sflow[s].st # "none" /\ sflow[s].net = plan[s] /\ sflow[s].sto = plan[s]
         /\ SumOf(disk[s]) \in Nat
<1>1. FlowOK(cflow[s], plan[s]) /\ FlowOK(sflow[s], plan[s])
  BY Before DEF MovedOK
<1>2. cflow[s] \in Flow /\ sflow[s] \in Flow
  BY <1>1 DEF FlowOK, Flow
<1>3. /\ cflow[s].net \in Nat /\ cflow[s].sto \in Nat /\ cflow[s].off \in Nat
      /\ sflow[s].net \in Nat /\ sflow[s].sto \in Nat /\ sflow[s].off \in Nat
  BY ONLY <1>2 DEF Flow
<1>4. SumOf(disk[s]) \in Nat
  <2>1. disk[s] \in Seq(Nat)
    BY Before
  <2> QED BY <2>1, SumNat
<1> QED BY ONLY <1>1, <1>2, <1>3, <1>4 DEF FlowOK, NoFlow

LEMMA Chains ==
  ASSUME Begun, NEW s \in Servers
  PROVE  /\ Asking(s) \in Nat
         /\ N("cjm", "req", s) \in 0..Asking(s) /\ Sent(down[s], "req") \in 0..Asking(s)
         /\ N("sched", "req", s) \in 0..Asking(s) /\ N("server", "req", s) \in 0..Asking(s)
         /\ Answering(s) \in Nat
         /\ N("sched", "resp", s) \in 0..Answering(s) /\ N("sjm", "resp", s) \in 0..Answering(s)
         /\ Sent(up[s], "resp") \in 0..Answering(s) /\ N("client", "resp", s) \in 0..Answering(s)
         /\ Starting(s) \in Nat
         /\ N("sched", "start", s) \in 0..Starting(s) /\ N("sjm", "start", s) \in 0..Starting(s)
         /\ Finishing(s) \in Nat
         /\ N("sched", "fin", s) \in 0..Finishing(s) /\ N("server", "fin", s) \in 0..Finishing(s)
         /\ Completing(s) \in Nat
         /\ N("sched", "comp", s) \in 0..Completing(s) /\ N("sjm", "comp", s) \in 0..Completing(s)
         /\ Sent(up[s], "comp") \in 0..Completing(s) /\ N("client", "comp", s) \in 0..Completing(s)
<1>1. \A a, t : N(a, t, s) \in Nat
  BY Before, Counted0
<1>2. \A t : Sent(down[s], t) \in Nat /\ Sent(up[s], t) \in Nat
  BY Before, PacketsIn
<1>3. \A w, x, y, z \in Nat : /\ w + x + y + z \in Nat /\ w \in 0..w + x + y + z
                              /\ x \in 0..w + x + y + z /\ y \in 0..w + x + y + z /\ z \in 0..w + x + y + z
  OBVIOUS
<1>4. \A w, x \in Nat : w + x \in Nat /\ w \in 0..w + x /\ x \in 0..w + x
  OBVIOUS
<1>5. /\ Asking(s) \in Nat
      /\ N("cjm", "req", s) \in 0..Asking(s) /\ Sent(down[s], "req") \in 0..Asking(s)
      /\ N("sched", "req", s) \in 0..Asking(s) /\ N("server", "req", s) \in 0..Asking(s)
  BY ONLY <1>1, <1>2, <1>3 DEF Asking
<1>6. /\ Answering(s) \in Nat
      /\ N("sched", "resp", s) \in 0..Answering(s) /\ N("sjm", "resp", s) \in 0..Answering(s)
      /\ Sent(up[s], "resp") \in 0..Answering(s) /\ N("client", "resp", s) \in 0..Answering(s)
  BY ONLY <1>1, <1>2, <1>3 DEF Answering
<1>7. /\ Completing(s) \in Nat
      /\ N("sched", "comp", s) \in 0..Completing(s) /\ N("sjm", "comp", s) \in 0..Completing(s)
      /\ Sent(up[s], "comp") \in 0..Completing(s) /\ N("client", "comp", s) \in 0..Completing(s)
  BY ONLY <1>1, <1>2, <1>3 DEF Completing
<1>8. /\ Starting(s) \in Nat
      /\ N("sched", "start", s) \in 0..Starting(s) /\ N("sjm", "start", s) \in 0..Starting(s)
  BY ONLY <1>1, <1>4 DEF Starting
<1>9. /\ Finishing(s) \in Nat
      /\ N("sched", "fin", s) \in 0..Finishing(s) /\ N("server", "fin", s) \in 0..Finishing(s)
  BY ONLY <1>1, <1>4 DEF Finishing
<1> QED BY <1>5, <1>6, <1>7, <1>8, <1>9

LEMMA OneAtMost ==
  ASSUME Begun, NEW s \in Servers
  PROVE  /\ Asking(s) \in {0, 1} /\ Answering(s) \in {0, 1} /\ (Asking(s) = 1 => Answering(s) = 0)
         /\ Starting(s) \in {0, 1} /\ Finishing(s) \in {0, 1} /\ Completing(s) \in {0, 1}
<1>1. RequestOK(s)
  BY Before
<1>2. Starting(s) \in {0, 1} /\ Finishing(s) \in {0, 1} /\ Completing(s) \in {0, 1}
  BY ONLY <1>1 DEF RequestOK, One
<1>3. PICK x \in Nat, y \in Nat : x = Asking(s) /\ y = Answering(s)
  BY Chains
<1>4. (plan[s] = Skip => x = 0 /\ y = 0) /\ (plan[s] # Skip => x + y <= 1)
  BY ONLY <1>1, <1>3 DEF RequestOK
<1>5. x + y <= 1
  BY ONLY <1>4
<1> QED BY ONLY <1>2, <1>3, <1>5

LEMMA JoinNothing ==
  ASSUME NEW E, NEW q \in Seq(E)
  PROVE  << >> \o q = q /\ q \o << >> = q
BY ConcatEmptySeq

-----------------------------------------------------------------------------
\* Every step keeps the invariant: the server's handler.
LEMMA ServerRequestKeeps ==
  ASSUME Begun, NEW s \in Servers, ServerRequest(s)
  PROVE  Begun'
<1>1. /\ srv[s] = "INIT" /\ Handle("server", "req", s, FirstAnswer(s))
      /\ srv' = [srv EXCEPT ![s] = "RESPONDED"]
      /\ UNCHANGED <<mode, plan, phase, remaining, req, cflow, sflow, down, up, disk, bstream>>
  BY DEF ServerRequest, client, flows
<1>2. PICK kinds : /\ kinds = IF plan[s] > 0 THEN {<<"sched", "start">>, <<"sched", "resp">>}
                              ELSE {<<"sched", "resp">>}
                   /\ Leaves(FirstAnswer(s), s, kinds, 0)
  <2>0. Due("sched", "resp") /\ Due("sched", "start")
    BY DEF Due
  <2>1. CASE plan[s] > 0
    <3>1. FirstAnswer(s) = <<Ev("sched", "start", s, 0)>> \o <<Ev("sched", "resp", s, 0)>>
      BY <2>1 DEF FirstAnswer
    <3>2. Leaves(<<Ev("sched", "start", s, 0)>> \o <<Ev("sched", "resp", s, 0)>>, s,
                 {<<"sched", "start">>, <<"sched", "resp">>}, 0)
      BY <2>0, TwoLeft
    <3> QED BY <2>1, <3>1, <3>2
  <2>2. CASE ~(plan[s] > 0)
    <3>3. Leaves(<<Ev("sched", "resp", s, 0)>>, s, {<<"sched", "resp">>}, 0)
      BY <2>0, OneLeft
    <3>1. PICK r \in Seq(Events) : r = <<Ev("sched", "resp", s, 0)>>
      BY <3>3 DEF Leaves
    <3>2. FirstAnswer(s) = << >> \o r
      BY <2>2, <3>1 DEF FirstAnswer
    <3>4. FirstAnswer(s) = <<Ev("sched", "resp", s, 0)>>
      BY <3>1, <3>2, JoinNothing
    <3> QED BY <2>2, <3>3, <3>4
  <2> QED BY <2>1, <2>2
<1>3. /\ RequestOK(s) /\ FlowsOK(s) /\ MovedOK(s) /\ BuffersFull(s) /\ AnswerFirst(s) /\ ServerOK(s)
      /\ mode \in {"read", "write"} /\ plan[s] \in Nat \cup {Skip} /\ Local(s)
      /\ srv'[s] = "RESPONDED"
      /\ up[s] \in Seq(Packets) /\ down[s] \in Seq(Packets)
  BY <1>1, Before DEF Begun, Typed, Local
<1>4. /\ \A a, t : N(a, t, s) \in Nat
      /\ \A t : Sent(down[s], t) \in Nat /\ Sent(up[s], t) \in Nat
      /\ InFlight(s, up[s]) \in Nat /\ \A jm : AcksTo(s, jm) \in Nat
  BY <1>3, Before, CountsNat
<1>5. Took("server", "req", s, kinds, 0)
  BY <1>1, <1>2, AfterHandle
<1>6. /\ N("server", "req", s) \in Nat \ {0} /\ N("server", "req", s)' = N("server", "req", s) - 1
      /\ \A a, t : <<a, t>> \in kinds => N(a, t, s)' = N(a, t, s) + 1
      /\ \A a, t : <<a, t>> # <<"server", "req">> /\ <<a, t>> \notin kinds => N(a, t, s)' = N(a, t, s)
      /\ \A jm : AcksTo(s, jm)' = AcksTo(s, jm)
      /\ \A e \in ToSet(now') : e \in ToSet(now) \/ e.type # "ack"
      /\ AckBefore(now, s) => AckBefore(now, s)'
      /\ \A u \in Servers \ {s} : SameEvents(u)
      /\ Typed'
  <2>1. <<"client", "resp">> \notin kinds /\ \A a : <<a, "ack">> \notin kinds
    BY ONLY <1>2
  <2>2. \A jm : AcksTo(s, jm)' = AcksTo(s, jm)
    <3> SUFFICES ASSUME NEW jm PROVE AcksTo(s, jm)' = AcksTo(s, jm)
      OBVIOUS
    <3>1. AcksTo(s, jm)' = AcksTo(s, jm) - (IF jm = "server" /\ "req" = "ack" THEN now[1].n ELSE 0)
                           + (IF <<jm, "ack">> \in kinds THEN 0 ELSE 0)
      BY ONLY <1>5 DEF Took
    <3> QED BY ONLY <1>4, <3>1
  <2>3. \A e \in ToSet(now') : e \in ToSet(now) \/ e.type # "ack"
    BY ONLY <1>5, <2>1 DEF Took
  <2> QED BY ONLY <1>3, <1>5, <2>1, <2>2, <2>3 DEF Took
<1>7. /\ N("cjm", "req", s)' = N("cjm", "req", s) /\ N("sched", "req", s)' = N("sched", "req", s)
      /\ N("sched", "resp", s)' = N("sched", "resp", s) + 1 /\ N("sjm", "resp", s)' = N("sjm", "resp", s)
      /\ N("client", "resp", s)' = N("client", "resp", s)
      /\ N("sched", "start", s)' = N("sched", "start", s) + (IF plan[s] > 0 THEN 1 ELSE 0)
      /\ N("sjm", "start", s)' = N("sjm", "start", s) /\ N("cjm", "start", s)' = N("cjm", "start", s)
      /\ N("sched", "fin", s)' = N("sched", "fin", s) /\ N("server", "fin", s)' = N("server", "fin", s)
      /\ N("client", "fin", s)' = N("client", "fin", s)
      /\ N("sched", "comp", s)' = N("sched", "comp", s) /\ N("sjm", "comp", s)' = N("sjm", "comp", s)
      /\ N("client", "comp", s)' = N("client", "comp", s)
      /\ N("cjm", "self", s)' = N("cjm", "self", s) /\ N("sjm", "self", s)' = N("sjm", "self", s)
  <2>1. CASE plan[s] > 0
    BY ONLY <1>2, <1>6, <2>1
  <2>2. CASE ~(plan[s] > 0)
    <3>1. N("sched", "start", s)' = N("sched", "start", s) + (IF plan[s] > 0 THEN 1 ELSE 0)
      <4>1. N("sched", "start", s)' = N("sched", "start", s) /\ N("sched", "start", s) \in Nat
        BY ONLY <1>2, <1>4, <1>6, <2>2
      <4> QED BY ONLY <2>2, <4>1
    <3> QED BY ONLY <1>2, <1>6, <2>2, <3>1
  <2> QED BY <2>1, <2>2
<1>8. /\ Asking(s) = 1 /\ Asking(s)' = 0 /\ Answering(s) = 0 /\ Answering(s)' = 1 /\ plan[s] # Skip
      /\ \A t : Sent(down[s], t)' = Sent(down[s], t) /\ Sent(up[s], t)' = Sent(up[s], t)
  <2>1. \A t : Sent(down[s], t)' = Sent(down[s], t) /\ Sent(up[s], t)' = Sent(up[s], t)
    BY <1>1
  <2>2. Asking(s) >= 1 /\ Asking(s) \in Nat /\ Answering(s) \in Nat
    <3>1. Asking(s) \in Nat /\ Answering(s) \in Nat
      BY Before, CountsNat
    <3>2. Asking(s) >= 1
      BY ONLY <1>4, <1>6 DEF Asking
    <3> QED BY <3>1, <3>2
  <2>3. plan[s] # Skip /\ Asking(s) = 1 /\ Answering(s) = 0
    BY <1>1, <1>3, <2>2 DEF RequestOK, One
  <2>4. Asking(s)' = Asking(s) - 1
    BY ONLY <1>4, <1>6, <1>7, <2>1 DEF Asking
  <2>5. Answering(s)' = Answering(s) + 1
    BY ONLY <1>4, <1>7, <2>1 DEF Answering
  <2> QED BY ONLY <2>1, <2>3, <2>4, <2>5
<1>9. sflow[s].st = "none" /\ sflow[s] = NoFlow /\ cflow' = cflow /\ sflow' = sflow /\ plan' = plan /\ mode' = mode
  BY <1>1, <1>3 DEF FlowsOK, MovedOK, FlowOK
<1>20. /\ Starting(s) = 0 /\ Finishing(s) = 0 /\ Completing(s) = 0
       /\ N("client", "resp", s) = 0 /\ Sent(up[s], "resp") = 0 /\ Sent(up[s], "comp") = 0
       /\ N("sched", "start", s) = 0 /\ N("sjm", "start", s) = 0
  <2>1. Starting(s) = 0 /\ Finishing(s) = 0 /\ Completing(s) = 0
    BY ONLY <1>1, <1>3 DEF RequestOK, One
  <2> QED BY <1>8, <2>1, Chains
<1>10. RequestOK(s)'
  <2>1. Starting(s)' = One(plan[s] > 0)
    <3>1. N("sched", "start", s)' = One(plan[s] > 0) /\ N("sjm", "start", s)' = 0
      BY ONLY <1>7, <1>20 DEF One
    <3>2. PICK x \in Nat : x = One(plan[s] > 0)
      BY DEF One
    <3> QED BY ONLY <3>1, <3>2 DEF Starting
  <2>2. Finishing(s) = 0 /\ Finishing(s)' = 0 /\ Completing(s) = 0 /\ Completing(s)' = 0
    <3>1. Finishing(s) = 0 /\ Completing(s) = 0
      BY ONLY <1>20
    <3>2. Finishing(s)' = Finishing(s)
      BY ONLY <1>7 DEF Finishing
    <3>3. Completing(s)' = Completing(s)
      BY ONLY <1>7, <1>8 DEF Completing
    <3> QED BY ONLY <3>1, <3>2, <3>3
  <2>3. N("client", "resp", s) = 0 /\ N("client", "resp", s)' = 0
    BY ONLY <1>7, <1>20
  <2> QED BY ONLY <1>1, <1>3, <1>8, <1>9, <2>1, <2>2, <2>3 DEF RequestOK, One
<1>11. FlowsOK(s)'
  <2>1. Asking(s)' + Answering(s)' = Asking(s) + Answering(s)
    BY ONLY <1>8
  <2>2. N("cjm", "start", s) = 1 /\ mode = "read" /\ plan[s] > 0 => N("server", "req", s) = 0
    BY ONLY <1>3 DEF FlowsOK
  <2> QED BY ONLY <1>1, <1>3, <1>6, <1>7, <1>8, <1>9, <2>1, <2>2 DEF FlowsOK, One
<1>12. MovedOK(s)'
  BY ONLY <1>1, <1>3, <1>6 DEF MovedOK, Source
<1>13. BuffersFull(s)'
  BY ONLY <1>1, <1>3, <1>6 DEF BuffersFull, Source
<1>14. AnswerFirst(s)'
  <2>1. CASE mode = "read"
    <3>1. InFlight(s, up[s]) = 0 /\ cflow[s].net = 0
      <4>1. cflow[s].net \in Nat /\ InFlight(s, up[s]) \in Nat /\ sflow[s].sto = 0
            /\ sflow[s].sto = InFlight(s, up[s]) + cflow[s].net
        BY <1>3, <1>4, <1>9, <2>1, FlowsTyped DEF MovedOK
      <4> QED BY ONLY <4>1
    <3>2. Sent(up[s], "resp") = 0 /\ Sent(up[s], "comp") = 0 /\ Sent(up[s], "req") = 0
      BY ONLY <1>3, <1>20 DEF ServerOK
    <3>3. up[s] = << >>
      BY <1>3, <3>1, <3>2, PacketsIn DEF Packets
    <3> QED BY ONLY <1>1, <1>3, <1>6, <1>8, <1>9, <3>1, <3>2, <3>3 DEF AnswerFirst, NoFlow
  <2>2. CASE mode # "read"
    BY <1>1, <2>2 DEF AnswerFirst
  <2> QED BY <2>1, <2>2
<1>15. ServerOK(s)'
  BY ONLY <1>1, <1>3, <1>8, <1>10, <1>11, <1>12, <1>13, <1>14 DEF ServerOK
<1>16. Flows(s)' <=> Flows(s)
  BY ONLY <1>1, <1>7 DEF Flows
<1> QED BY ONLY Begun, s \in Servers, <1>1, <1>3, <1>6, <1>8, <1>15, <1>16, CountsKept

-----------------------------------------------------------------------------
\* The events of s after a delivery that brings it some.
Came(s, kinds, n) ==
  /\ \A a, t : ~Brought(a, t) => N(a, t, s) = 0
  /\ \A a, t : <<a, t>> \in kinds => N(a, t, s)' = N(a, t, s) + 1
  /\ \A a, t : <<a, t>> \notin kinds => N(a, t, s)' = N(a, t, s)
  /\ \A jm : AcksTo(s, jm)' = AcksTo(s, jm) + (IF <<jm, "ack">> \in kinds THEN n ELSE 0)
  /\ \A e \in ToSet(now') : e \in ToSet(now) \/ (<<e.at, e.type>> \in kinds /\ (e.type = "ack" => e.n = n))
  /\ AckBefore(now, s) /\ (<<"client", "resp">> \notin kinds
                           \/ (AcksTo(s, "sjm") = 0 /\ <<"sjm", "ack">> \notin kinds)) => AckBefore(now, s)'
  /\ \A u \in Servers \ {s} : SameEvents(u)
  /\ Local(s) => Typed'

LEMMA AfterDelivery ==
  ASSUME Begun, NEW s \in Servers, NEW out, NEW kinds, NEW n \in Nat,
         Deliver(out), Leaves(out, s, kinds, n), \A a, t : <<a, t>> \in kinds => Brought(a, t)
  PROVE  Came(s, kinds, n)
<1>1. now \in Seq(Events) /\ Typed
  BY DEF Begun, Typed
<1>2. /\ out \in Seq(Events)
      /\ \A e \in ToSet(out) : e.server = s /\ <<e.at, e.type>> \in kinds /\ (e.type = "ack" => e.n = n)
      /\ \A a, t : Total(out, Kind(a, t, s)) = One(<<a, t>> \in kinds)
      /\ \A jm : Total(out, AckBytes(jm, s)) = IF <<jm, "ack">> \in kinds THEN n ELSE 0
  BY DEF Leaves
<1>3. /\ now' \in Seq(Events) /\ arriving' = TRUE
      /\ \A e \in ToSet(now) : Brought(e.at, e.type)
      /\ ToSet(now') = ToSet(now) \cup ToSet(out)
  BY <1>1, <1>2, Delivered
<1>4. \A a, t, u : N(a, t, u)' = N(a, t, u) + Total(out, Kind(a, t, u))
  BY <1>1, <1>2, Delivered
<1>5. \A jm, u : AcksTo(u, jm)' = AcksTo(u, jm) + Total(out, AckBytes(jm, u))
  BY <1>1, <1>2, Delivered
<1>6. ASSUME AckBefore(now, s), \/ <<"client", "resp">> \notin kinds
                                \/ AcksTo(s, "sjm") = 0 /\ <<"sjm", "ack">> \notin kinds
      PROVE  AckBefore(now, s)'
  <2>1. CASE <<"client", "resp">> \notin kinds
    <3>1. \A e \in ToSet(out) : ~Is(e, "client", "resp", s)
      BY <1>2, <2>1 DEF Is
    <3> QED BY <1>1, <1>2, <1>6, <3>1, Delivered
  <2>2. CASE AcksTo(s, "sjm") = 0 /\ <<"sjm", "ack">> \notin kinds
    <3>1. \A e \in ToSet(out) : ~Is(e, "sjm", "ack", s)
      BY <1>2, <2>2 DEF Is
    <3>2. \A e \in ToSet(now) : ~Is(e, "sjm", "ack", s)
      BY <1>1, <2>2, Counted0
    <3> QED BY <1>1, <1>2, <1>6, <3>1, <3>2, Delivered
  <2> QED BY <1>6, <2>1, <2>2
<1>7. \A u \in Servers \ {s} : SameEvents(u)
  BY <1>1, <1>2, DeliveredElsewhere
<1>8. \A a, t : N(a, t, s) \in Nat
  BY <1>1, Counted0
<1>9. ASSUME NEW a, NEW t
      PROVE  /\ <<a, t>> \in kinds => N(a, t, s)' = N(a, t, s) + 1
             /\ <<a, t>> \notin kinds => N(a, t, s)' = N(a, t, s)
  <2>1. N(a, t, s)' = N(a, t, s) + Total(out, Kind(a, t, s))
    BY ONLY <1>4
  <2> QED BY ONLY <1>2, <1>8, <2>1 DEF One
<1>10. ASSUME NEW jm
       PROVE  AcksTo(s, jm)' = AcksTo(s, jm) + (IF <<jm, "ack">> \in kinds THEN n ELSE 0)
  BY ONLY <1>2, <1>5
<1>11. ASSUME NEW a, NEW t, ~Brought(a, t) PROVE N(a, t, s) = 0
  <2>1. \A e \in ToSet(now) : ~Is(e, a, t, s)
    BY <1>3, <1>11 DEF Is
  <2> QED BY <1>1, <2>1, Counted0
<1>12. ASSUME Local(s) PROVE Typed'
  <2>1. \A e \in ToSet(now') : Brought(e.at, e.type)
    BY ONLY <1>2, <1>3, \A a, t : <<a, t>> \in kinds => Brought(a, t)
  <2> QED BY <1>3, <1>12, <2>1 DEF Begun, Typed, Local
<1>13. \A e \in ToSet(now') : e \in ToSet(now) \/ (<<e.at, e.type>> \in kinds /\ (e.type = "ack" => e.n = n))
  BY ONLY <1>2, <1>3
<1> QED BY ONLY <1>6, <1>7, <1>9, <1>10, <1>11, <1>12, <1>13 DEF Came

\* Of the steps that only pass a message on.
LEMMA PassedOn ==
  ASSUME Begun, NEW s \in Servers, Local(s), \A u \in Servers \ {s} : SameEvents(u), Typed',
         UNCHANGED <<mode, plan, phase, remaining, req, srv, cflow, sflow, disk, bstream>>,
         Asking(s)' = Asking(s), Answering(s)' = Answering(s), Starting(s)' = Starting(s),
         Finishing(s)' = Finishing(s), Completing(s)' = Completing(s),
         N("cjm", "self", s)' = N("cjm", "self", s), N("sjm", "self", s)' = N("sjm", "self", s),
         N("client", "fin", s)' = N("client", "fin", s), N("cjm", "start", s)' = N("cjm", "start", s),
         \A jm : AcksTo(s, jm)' = AcksTo(s, jm),
         Starting(s) = 1 => N("client", "resp", s)' = 0,
         N("cjm", "start", s) = 1 /\ mode = "read" /\ plan[s] > 0 =>
           N("sched", "req", s)' = 0 /\ N("server", "req", s)' = 0,
         down'[s] \in Seq(Packets), up'[s] \in Seq(Packets),
         InFlight(s, down'[s]) = InFlight(s, down[s]), InFlight(s, up'[s]) = InFlight(s, up[s]),
         Sent(down'[s], "resp") = 0, Sent(down'[s], "comp") = 0, Sent(up'[s], "req") = 0,
         \A p \in ToSet(up'[s]) \cup ToSet(down'[s]) : p.type = "push" => p \in ToSet(up[s]) \cup ToSet(down[s]),
         \A e \in ToSet(now') : e \in ToSet(now) \/ e.type # "ack",
         AnswerFirst(s)'
  PROVE  Begun'
<1>1. ServerOK(s)
  BY Before
<1>2. RequestOK(s)'
  BY <1>1 DEF ServerOK, RequestOK
<1>3. FlowsOK(s)'
  BY <1>1 DEF ServerOK, FlowsOK
<1>4. MovedOK(s)'
  BY <1>1 DEF ServerOK, MovedOK, Source
<1>5. BuffersFull(s)'
  BY <1>1 DEF ServerOK, BuffersFull, Source
<1>6. ServerOK(s)'
  BY <1>1, <1>2, <1>3, <1>4, <1>5 DEF ServerOK
<1> QED BY <1>6, CountsKept DEF Flows

LEMMA SchedulerPassKeeps ==
  ASSUME Begun, NEW s \in Servers, SchedulerPass(s)
  PROVE  Begun'
<1> DEFINE Ways == {<<"server", "req">>, <<"server", "fin">>, <<"sjm", "start">>,
                    <<"sjm", "resp">>, <<"sjm", "comp">>}
<1>1. /\ UNCHANGED <<mode, plan, phase, remaining, req, srv, cflow, sflow, disk, bstream, down, up>>
      /\ \E to, type : <<to, type>> \in Ways /\ Handle("sched", type, s, <<Ev(to, type, s, 0)>>)
  BY DEF SchedulerPass, client, flows
<1>2. PICK to, type : <<to, type>> \in Ways /\ Handle("sched", type, s, <<Ev(to, type, s, 0)>>)
  BY <1>1
<1>3. Due(to, type) /\ type # "ack" /\ to # "sched" /\ to # "client" /\ to # "cjm"
      /\ type # "self" /\ <<"sched", type>> \notin {<<to, type>>}
  BY <1>2 DEF Due
<1>4. Leaves(<<Ev(to, type, s, 0)>>, s, {<<to, type>>}, 0)
  BY <1>3, OneLeft
<1>5. Took("sched", type, s, {<<to, type>>}, 0)
  BY <1>2, <1>3, <1>4, AfterHandle
<1>6. /\ Local(s) /\ ServerOK(s) /\ AnswerFirst(s)
      /\ up[s] \in Seq(Packets) /\ down[s] \in Seq(Packets)
      /\ \A a, t : N(a, t, s) \in Nat
      /\ \A t : Sent(down[s], t) \in Nat /\ Sent(up[s], t) \in Nat
      /\ \A jm : AcksTo(s, jm) \in Nat
  BY <1>1, Before, CountsNat DEF Begun, Typed, Local
<1>7. /\ Typed' /\ \A u \in Servers \ {s} : SameEvents(u)
      /\ AckBefore(now, s) => AckBefore(now, s)'
      /\ \A e \in ToSet(now') : e \in ToSet(now) \/ e.type # "ack"
      /\ N("sched", type, s) \in Nat \ {0} /\ N("sched", type, s)' = N("sched", type, s) - 1
      /\ N(to, type, s)' = N(to, type, s) + 1
      /\ \A a, t : t # type \/ a \notin {"sched", to} => N(a, t, s)' = N(a, t, s)
  BY ONLY <1>3, <1>5, <1>6 DEF Took
<1>8. ASSUME NEW jm PROVE AcksTo(s, jm)' = AcksTo(s, jm)
  <2>1. AcksTo(s, jm)' = AcksTo(s, jm) - (IF jm = "sched" /\ type = "ack" THEN now[1].n ELSE 0)
                         + (IF <<jm, "ack">> \in {<<to, type>>} THEN 0 ELSE 0)
    BY ONLY <1>5 DEF Took
  <2> QED BY ONLY <1>3, <1>6, <2>1
<1>9. ASSUME NEW a, NEW t, <<a, t>> \in Ways
      PROVE  N("sched", t, s)' + N(a, t, s)' = N("sched", t, s) + N(a, t, s)
  <2>1. CASE t = type
    <3>1. a = to
      BY ONLY <1>2, <1>9, <2>1
    <3> QED BY ONLY <1>6, <1>7, <2>1, <3>1
  <2>2. CASE t # type
    BY ONLY <1>7, <2>2
  <2> QED BY <2>1, <2>2
<1>10. /\ N("sched", "req", s)' + N("server", "req", s)' = N("sched", "req", s) + N("server", "req", s)
       /\ N("sched", "fin", s)' + N("server", "fin", s)' = N("sched", "fin", s) + N("server", "fin", s)
       /\ N("sched", "start", s)' + N("sjm", "start", s)' = N("sched", "start", s) + N("sjm", "start", s)
       /\ N("sched", "resp", s)' + N("sjm", "resp", s)' = N("sched", "resp", s) + N("sjm", "resp", s)
       /\ N("sched", "comp", s)' + N("sjm", "comp", s)' = N("sched", "comp", s) + N("sjm", "comp", s)
  BY <1>9
<1>11. \A a, t : a \in {"client", "cjm"} \/ t = "self" => N(a, t, s)' = N(a, t, s)
  BY ONLY <1>3, <1>7
<1>12. \A a, t : N(a, t, s)' \in Int
  <2>1. ASSUME NEW a, NEW t PROVE N(a, t, s)' \in Int
    <3>1. CASE a = "sched" /\ t = type
      BY ONLY <1>6, <1>7, <3>1
    <3>2. CASE a = to /\ t = type
      BY ONLY <1>6, <1>7, <3>2
    <3> QED BY ONLY <1>6, <1>7, <3>1, <3>2
  <2> QED BY <2>1
<1>13. \A t : Sent(down[s], t)' = Sent(down[s], t) /\ Sent(up[s], t)' = Sent(up[s], t)
  BY <1>1
<1>14. Asking(s)' = Asking(s)
  <2>1. PICK w \in Nat, x \in Nat, y \in Nat, z \in Nat, m \in Int, n \in Int :
          /\ w = N("cjm", "req", s) /\ x = Sent(down[s], "req")
          /\ y = N("sched", "req", s) /\ z = N("server", "req", s)
          /\ m = N("sched", "req", s)' /\ n = N("server", "req", s)'
    BY ONLY <1>6, <1>12
  <2>2. Asking(s) = w + x + y + z
    BY ONLY <2>1 DEF Asking
  <2>3. Asking(s)' = w + x + m + n
    BY ONLY <1>11, <1>13, <2>1 DEF Asking
  <2>4. m + n = y + z
    BY ONLY <1>10, <2>1
  <2> QED BY ONLY <2>2, <2>3, <2>4, w \in Nat, x \in Nat, y \in Nat, z \in Nat, m \in Int, n \in Int
<1>15. Answering(s)' = Answering(s) /\ Completing(s)' = Completing(s)
  <2>1. \A w, x, y, z \in Nat, m, n \in Int : m + n = w + x => m + n + y + z = w + x + y + z
    OBVIOUS
  <2>2. Answering(s)' = Answering(s)
    BY ONLY <1>6, <1>10, <1>11, <1>12, <1>13, <2>1 DEF Answering
  <2>3. Completing(s)' = Completing(s)
    BY ONLY <1>6, <1>10, <1>11, <1>12, <1>13, <2>1 DEF Completing
  <2> QED BY <2>2, <2>3
<1>16. Starting(s)' = Starting(s) /\ Finishing(s)' = Finishing(s)
  BY ONLY <1>10 DEF Starting, Finishing
<1>17. Starting(s) = 1 => N("client", "resp", s)' = 0
  BY <1>6, <1>11 DEF ServerOK, RequestOK
<1>18. N("cjm", "start", s) = 1 /\ mode = "read" /\ plan[s] > 0 =>
         N("sched", "req", s)' = 0 /\ N("server", "req", s)' = 0
  <2>1. N("cjm", "start", s) = 1 /\ mode = "read" /\ plan[s] > 0 => N("sched", "req", s) = 0 /\ N("server", "req", s) = 0
    BY ONLY <1>6 DEF ServerOK, FlowsOK
  <2>2. N("sched", "req", s) = 0 => type # "req"
    BY ONLY <1>7
  <2>3. type # "req" => N("sched", "req", s)' = N("sched", "req", s) /\ N("server", "req", s)' = N("server", "req", s)
    BY ONLY <1>7
  <2> QED BY ONLY <2>1, <2>2, <2>3
<1>19. AnswerFirst(s)'
  <2>1. N("sched", "resp", s)' + N("sjm", "resp", s)' > 0 => N("sched", "resp", s) + N("sjm", "resp", s) > 0
    BY ONLY <1>10
  <2> QED BY ONLY <1>1, <1>6, <1>7, <1>13, <1>14, <1>15, <2>1 DEF AnswerFirst
<1> HIDE DEF Ways
<1>20. /\ N("cjm", "self", s)' = N("cjm", "self", s) /\ N("sjm", "self", s)' = N("sjm", "self", s)
       /\ N("client", "fin", s)' = N("client", "fin", s) /\ N("cjm", "start", s)' = N("cjm", "start", s)
  BY ONLY <1>11
<1>21. /\ down' = down /\ up' = up /\ Sent(down[s], "resp") = 0 /\ Sent(down[s], "comp") = 0 /\ Sent(up[s], "req") = 0
       /\ UNCHANGED <<mode, plan, phase, remaining, req, srv, cflow, sflow, disk, bstream>>
  BY <1>1, <1>6 DEF ServerOK
<1> QED BY <1>6, <1>7, <1>8, <1>14, <1>15, <1>16, <1>17, <1>18, <1>19, <1>20, <1>21, PassedOn

\* A packet goes out: a request, a response or a completion.
LEMMA SentPacket ==
  ASSUME NEW type \in {"req", "resp", "comp"}, NEW q \in Seq(Packets), NEW s
  PROVE  /\ Append(q, Packet(type, 0)) \in Seq(Packets) /\ Append(q, Packet(type, 0)) # << >>
         /\ Sent(Append(q, Packet(type, 0)), type) = Sent(q, type) + 1
         /\ \A t : t # type => Sent(Append(q, Packet(type, 0)), t) = Sent(q, t)
         /\ InFlight(s, Append(q, Packet(type, 0))) = InFlight(s, q)
         /\ \A p \in ToSet(Append(q, Packet(type, 0))) : p.type = "push" => p \in ToSet(q)
         /\ Append(q, Packet(type, 0))[1].type = IF q = << >> THEN type ELSE q[1].type
<1>1. PICK p \in Packets : p = Packet(type, 0) /\ p.type = type /\ p.n = 0
  <2>1. PICK p : p = [type |-> type, n |-> 0]
    OBVIOUS
  <2>2. type \in {"req", "resp", "comp", "push"} /\ type # "push"
    OBVIOUS
  <2>3. p \in [type : {"req", "resp", "comp", "push"}, n : Nat] /\ p.type = type /\ p.n = 0
    BY <2>1, <2>2
  <2>4. p \in Packets
    BY <2>2, <2>3 DEF Packets
  <2> QED BY <2>1, <2>3, <2>4 DEF Packet
<1>2. /\ Append(q, p) \in Seq(Packets) /\ Append(q, p) # << >>
      /\ ToSet(Append(q, p)) = ToSet(q) \cup {p}
      /\ \A t : Sent(Append(q, p), t) = Sent(q, t) + One(p.type = t)
      /\ InFlight(s, Append(q, p)) = InFlight(s, q) + p.n
      /\ Append(q, p)[1] = IF q = << >> THEN p ELSE q[1]
  BY PacketAppended
<1>3. InFlight(s, q) \in Nat /\ \A t : Sent(q, t) \in Nat
  BY PacketsIn
<1>4. InFlight(s, Append(q, p)) = InFlight(s, q)
  BY ONLY <1>1, <1>2, <1>3
<1>5. ASSUME NEW t PROVE Sent(Append(q, p), t) = Sent(q, t) + (IF t = type THEN 1 ELSE 0)
  BY ONLY <1>1, <1>2 DEF One
<1>6. ASSUME NEW t, t # type PROVE Sent(Append(q, p), t) = Sent(q, t)
  BY ONLY <1>3, <1>5, <1>6
<1>7. Sent(Append(q, p), type) = Sent(q, type) + 1
  BY ONLY <1>5
<1>8. Append(q, p)[1].type = IF q = << >> THEN type ELSE q[1].type
  BY ONLY <1>1, <1>2
<1>9. \A x \in ToSet(Append(q, p)) : x.type = "push" => x \in ToSet(q)
  BY ONLY <1>1, <1>2
<1> QED BY ONLY <1>1, <1>2, <1>4, <1>6, <1>7, <1>8, <1>9

LEMMA SendRequestKeeps ==
  ASSUME Begun, NEW s \in Servers, SendRequest(s)
  PROVE  Begun'
<1>1. /\ Handle("cjm", "req", s, << >>) /\ down' = [down EXCEPT ![s] = Append(@, Packet("req", 0))]
      /\ UNCHANGED <<mode, plan, phase, remaining, req, srv, cflow, sflow, disk, bstream, up>>
  BY DEF SendRequest, client, flows
<1>2. Took("cjm", "req", s, {}, 0)
  BY <1>1, NoneLeft, AfterHandle
<1>3. /\ Local(s) /\ ServerOK(s) /\ AnswerFirst(s)
      /\ up[s] \in Seq(Packets) /\ down[s] \in Seq(Packets)
      /\ \A a, t : N(a, t, s) \in Nat
      /\ \A t : Sent(down[s], t) \in Nat /\ Sent(up[s], t) \in Nat
      /\ \A jm : AcksTo(s, jm) \in Nat
      /\ down'[s] = Append(down[s], Packet("req", 0)) /\ up' = up
  BY <1>1, Before, CountsNat DEF Begun, Typed, Local
<1>4. /\ Typed' /\ \A u \in Servers \ {s} : SameEvents(u)
      /\ AckBefore(now, s) => AckBefore(now, s)'
      /\ \A e \in ToSet(now') : e \in ToSet(now)
      /\ N("cjm", "req", s) \in Nat \ {0} /\ N("cjm", "req", s)' = N("cjm", "req", s) - 1
      /\ \A a, t : <<a, t>> # <<"cjm", "req">> => N(a, t, s)' = N(a, t, s)
  BY ONLY <1>2, <1>3 DEF Took
<1>5. ASSUME NEW jm PROVE AcksTo(s, jm)' = AcksTo(s, jm)
  <2>1. AcksTo(s, jm)' = AcksTo(s, jm) - (IF jm = "cjm" /\ "req" = "ack" THEN now[1].n ELSE 0)
                         + (IF <<jm, "ack">> \in {} THEN 0 ELSE 0)
    BY ONLY <1>2 DEF Took
  <2> QED BY ONLY <1>3, <2>1
<1>6. /\ down'[s] \in Seq(Packets) /\ Sent(down'[s], "req") = Sent(down[s], "req") + 1
      /\ Sent(down'[s], "resp") = Sent(down[s], "resp") /\ Sent(down'[s], "comp") = Sent(down[s], "comp")
      /\ InFlight(s, down'[s]) = InFlight(s, down[s])
      /\ \A p \in ToSet(down'[s]) : p.type = "push" => p \in ToSet(down[s])
  <2>1. PICK q \in Seq(Packets) : q = down[s]
    BY <1>3
  <2>2. /\ Append(q, Packet("req", 0)) \in Seq(Packets)
        /\ Sent(Append(q, Packet("req", 0)), "req") = Sent(q, "req") + 1
        /\ \A t : t # "req" => Sent(Append(q, Packet("req", 0)), t) = Sent(q, t)
        /\ InFlight(s, Append(q, Packet("req", 0))) = InFlight(s, q)
        /\ \A p \in ToSet(Append(q, Packet("req", 0))) : p.type = "push" => p \in ToSet(q)
    BY SentPacket
  <2> QED BY ONLY <1>3, <2>1, <2>2
<1>7. \A a, t : a # "cjm" \/ t # "req" => N(a, t, s)' = N(a, t, s)
  BY ONLY <1>4
<1>8. \A t : Sent(up[s], t)' = Sent(up[s], t)
  BY <1>3
<1>9. Asking(s)' = Asking(s)
  <2>1. Asking(s)' = N("cjm", "req", s) - 1 + (Sent(down[s], "req") + 1) + N("sched", "req", s) + N("server", "req", s)
    BY ONLY <1>4, <1>6, <1>7 DEF Asking
  <2> QED BY ONLY <1>3, <1>4, <2>1 DEF Asking
<1>10. /\ Answering(s)' = Answering(s) /\ Starting(s)' = Starting(s)
       /\ Finishing(s)' = Finishing(s) /\ Completing(s)' = Completing(s)
  BY ONLY <1>7, <1>8 DEF Answering, Starting, Finishing, Completing
<1>11. Starting(s) = 1 => N("client", "resp", s)' = 0
  BY <1>3, <1>7 DEF ServerOK, RequestOK
<1>12. N("cjm", "start", s) = 1 /\ mode = "read" /\ plan[s] > 0 =>
         N("sched", "req", s)' = 0 /\ N("server", "req", s)' = 0
  BY <1>3, <1>7 DEF ServerOK, FlowsOK
<1>13. AnswerFirst(s)'
  BY ONLY <1>1, <1>3, <1>4, <1>7, <1>8, <1>9, <1>10 DEF AnswerFirst
<1>14. /\ N("cjm", "self", s)' = N("cjm", "self", s) /\ N("sjm", "self", s)' = N("sjm", "self", s)
       /\ N("client", "fin", s)' = N("client", "fin", s) /\ N("cjm", "start", s)' = N("cjm", "start", s)
  BY ONLY <1>7
<1>15. /\ Sent(down'[s], "resp") = 0 /\ Sent(down'[s], "comp") = 0 /\ Sent(up'[s], "req") = 0
       /\ UNCHANGED <<mode, plan, phase, remaining, req, srv, cflow, sflow, disk, bstream>>
       /\ InFlight(s, up'[s]) = InFlight(s, up[s])
  BY <1>1, <1>3, <1>6 DEF ServerOK
<1> QED BY <1>3, <1>4, <1>5, <1>6, <1>9, <1>10, <1>11, <1>12, <1>13, <1>14, <1>15, PassedOn

LEMMA SendResponseKeeps ==
  ASSUME Begun, NEW s \in Servers, SendResponse(s)
  PROVE  Begun'
<1>1. PICK type \in {"resp", "comp"} :
        /\ Handle("sjm", type, s, << >>) /\ up' = [up EXCEPT ![s] = Append(@, Packet(type, 0))]
        /\ UNCHANGED <<mode, plan, phase, remaining, req, srv, cflow, sflow, disk, bstream, down>>
  BY DEF SendResponse, client, flows
<1>2. Took("sjm", type, s, {}, 0)
  BY <1>1, NoneLeft, AfterHandle
<1>3. /\ Local(s) /\ ServerOK(s) /\ AnswerFirst(s) /\ RequestOK(s) /\ FlowsOK(s) /\ MovedOK(s)
      /\ up[s] \in Seq(Packets) /\ down[s] \in Seq(Packets)
      /\ \A a, t : N(a, t, s) \in Nat
      /\ \A t : Sent(down[s], t) \in Nat /\ Sent(up[s], t) \in Nat
      /\ \A jm : AcksTo(s, jm) \in Nat
      /\ up'[s] = Append(up[s], Packet(type, 0)) /\ down' = down
  BY <1>1, Before, CountsNat DEF Begun, Typed, Local
<1>4. /\ Typed' /\ \A u \in Servers \ {s} : SameEvents(u)
      /\ AckBefore(now, s) => AckBefore(now, s)'
      /\ \A e \in ToSet(now') : e \in ToSet(now)
      /\ N("sjm", type, s) \in Nat \ {0} /\ N("sjm", type, s)' = N("sjm", type, s) - 1
      /\ \A a, t : <<a, t>> # <<"sjm", type>> => N(a, t, s)' = N(a, t, s)
  BY ONLY <1>2, <1>3 DEF Took
<1>5. ASSUME NEW jm PROVE AcksTo(s, jm)' = AcksTo(s, jm)
  <2>1. AcksTo(s, jm)' = AcksTo(s, jm) - (IF jm = "sjm" /\ type = "ack" THEN now[1].n ELSE 0)
                         + (IF <<jm, "ack">> \in {} THEN 0 ELSE 0)
    BY ONLY <1>2 DEF Took
  <2>2. type # "ack"
    OBVIOUS
  <2> QED BY ONLY <1>3, <2>1, <2>2
<1>6. /\ up'[s] \in Seq(Packets) /\ Sent(up'[s], type) = Sent(up[s], type) + 1
      /\ \A t : t # type => Sent(up'[s], t) = Sent(up[s], t)
      /\ InFlight(s, up'[s]) = InFlight(s, up[s])
      /\ \A p \in ToSet(up'[s]) : p.type = "push" => p \in ToSet(up[s])
      /\ up'[s][1].type = IF up[s] = << >> THEN type ELSE up[s][1].type
  <2>1. PICK q \in Seq(Packets) : q = up[s]
    BY <1>3
  <2>2. type \in {"req", "resp", "comp"}
    OBVIOUS
  <2>3. /\ Append(q, Packet(type, 0)) \in Seq(Packets)
        /\ Sent(Append(q, Packet(type, 0)), type) = Sent(q, type) + 1
        /\ \A t : t # type => Sent(Append(q, Packet(type, 0)), t) = Sent(q, t)
        /\ InFlight(s, Append(q, Packet(type, 0))) = InFlight(s, q)
        /\ \A p \in ToSet(Append(q, Packet(type, 0))) : p.type = "push" => p \in ToSet(q)
        /\ Append(q, Packet(type, 0))[1].type = IF q = << >> THEN type ELSE q[1].type
    BY <2>2, SentPacket
  <2> QED BY ONLY <1>3, <2>1, <2>3
<1>7. \A a, t : a # "sjm" \/ t # type => N(a, t, s)' = N(a, t, s)
  BY ONLY <1>4
<1>8. \A t : Sent(down[s], t)' = Sent(down[s], t)
  BY <1>3
<1>9. Answering(s)' = Answering(s) /\ Completing(s)' = Completing(s)
  <2>0. \A w, x, y, z \in Nat : w + (x - 1) + (y + 1) + z = w + x + y + z
    OBVIOUS
  <2>1. CASE type = "resp"
    <3>1. Answering(s)' = N("sched", "resp", s) + (N("sjm", "resp", s) - 1) + (Sent(up[s], "resp") + 1) + N("client", "resp", s)
      BY ONLY <1>4, <1>6, <1>7, <2>1 DEF Answering
    <3>2. Completing(s)' = Completing(s)
      BY ONLY <1>6, <1>7, <2>1 DEF Completing
    <3> QED BY ONLY <1>3, <2>0, <3>1, <3>2 DEF Answering
  <2>2. CASE type = "comp"
    <3>1. Completing(s)' = N("sched", "comp", s) + (N("sjm", "comp", s) - 1) + (Sent(up[s], "comp") + 1) + N("client", "comp", s)
      BY ONLY <1>4, <1>6, <1>7, <2>2 DEF Completing
    <3>2. Answering(s)' = Answering(s)
      BY ONLY <1>6, <1>7, <2>2 DEF Answering
    <3> QED BY ONLY <1>3, <2>0, <3>1, <3>2 DEF Completing
  <2> QED BY <1>1, <2>1, <2>2
<1>10. Asking(s)' = Asking(s) /\ Starting(s)' = Starting(s) /\ Finishing(s)' = Finishing(s)
  BY ONLY type \in {"resp", "comp"}, <1>7, <1>8 DEF Asking, Starting, Finishing
<1>11. Starting(s) = 1 => N("client", "resp", s)' = 0
  BY <1>3, <1>7 DEF RequestOK
<1>12. N("cjm", "start", s) = 1 /\ mode = "read" /\ plan[s] > 0 =>
         N("sched", "req", s)' = 0 /\ N("server", "req", s)' = 0
  BY <1>3, <1>7 DEF FlowsOK
<1>13. AnswerFirst(s)'
  <2>1. CASE mode = "read"
    <3>1. Completing(s) = 0
      BY ONLY <1>3, <2>1 DEF RequestOK, One
    <3>2. type = "resp"
      BY <1>4, <3>1, Chains
    <3>3. up[s] = << >> /\ cflow[s].net = 0
      <4>1. N("sched", "resp", s) + N("sjm", "resp", s) > 0
        BY ONLY <1>3, <1>4, <3>2
      <4> QED BY ONLY <1>3, <2>1, <4>1 DEF AnswerFirst
    <3>4. N("sched", "resp", s)' + N("sjm", "resp", s)' > 0 => N("sched", "resp", s) + N("sjm", "resp", s) > 0
      BY ONLY <1>3, <1>4, <3>2
    <3>5. Answering(s)' + Asking(s)' = Answering(s) + Asking(s) /\ cflow' = cflow /\ sflow' = sflow /\ mode' = mode
      BY ONLY <1>1, <1>9, <1>10
    <3>6. N("sched", "resp", s) + N("sjm", "resp", s) - 1 >= 1 => FALSE
      <4>1. Answering(s) <= 1
        BY OneAtMost
      <4> QED BY ONLY <1>3, <4>1 DEF Answering
    <3>7. ~(N("sched", "resp", s)' + N("sjm", "resp", s)' > 0)
      BY ONLY <1>3, <1>4, <1>7, <3>2, <3>6
    <3> QED BY ONLY <1>3, <1>4, <1>6, <1>9, <1>10, <3>2, <3>3, <3>5, <3>7 DEF AnswerFirst
  <2>2. CASE mode # "read"
    BY <1>1, <2>2 DEF AnswerFirst
  <2> QED BY <2>1, <2>2
<1>14. /\ N("cjm", "self", s)' = N("cjm", "self", s) /\ N("sjm", "self", s)' = N("sjm", "self", s)
       /\ N("client", "fin", s)' = N("client", "fin", s) /\ N("cjm", "start", s)' = N("cjm", "start", s)
  BY ONLY type \in {"resp", "comp"}, <1>7
<1>15. /\ Sent(down'[s], "resp") = 0 /\ Sent(down'[s], "comp") = 0 /\ Sent(up'[s], "req") = 0
       /\ UNCHANGED <<mode, plan, phase, remaining, req, srv, cflow, sflow, disk, bstream>>
       /\ InFlight(s, down'[s]) = InFlight(s, down[s]) /\ down'[s] \in Seq(Packets)
  BY <1>1, <1>3, <1>6 DEF ServerOK
<1> QED BY <1>3, <1>4, <1>5, <1>6, <1>9, <1>10, <1>11, <1>12, <1>13, <1>14, <1>15, PassedOn

\* A packet arrives: a message, or data.
Taken(q, type, s) ==
  /\ Tail(q) \in Seq(Packets) /\ q[1].n \in Nat /\ q[1] \in ToSet(q)
  /\ Sent(q, type) \in Nat \ {0} /\ Sent(Tail(q), type) = Sent(q, type) - 1
  /\ \A t : t # type => Sent(Tail(q), t) = Sent(q, t)
  /\ InFlight(s, q) \in Nat /\ InFlight(s, Tail(q)) \in Nat
  /\ InFlight(s, Tail(q)) = InFlight(s, q) - q[1].n
  /\ type # "push" => q[1].n = 0
  /\ type = "push" => q[1].n > 0
  /\ \A p \in ToSet(Tail(q)) : p \in ToSet(q)

LEMMA TakenPacket ==
  ASSUME NEW q \in Seq(Packets), q # << >>, NEW type, q[1].type = type, NEW s
  PROVE  Taken(q, type, s)
<1>1. PICK p \in Packets, r \in Seq(Packets) : p = q[1] /\ r = Tail(q)
  BY PacketTaken
<1>2. /\ p \in ToSet(q) /\ ToSet(r) \subseteq ToSet(q)
      /\ \A t : Sent(r, t) = Sent(q, t) - One(p.type = t)
      /\ InFlight(s, r) = InFlight(s, q) - p.n
  BY <1>1, PacketTaken
<1>3. /\ \A t : Sent(q, t) \in Nat
      /\ Sent(q, type) # 0
      /\ InFlight(s, q) \in Nat /\ InFlight(s, r) \in Nat
  BY <1>1, <1>2, PacketsIn
<1>4. p.type = type /\ p.n \in Nat /\ (type # "push" => p.n = 0) /\ (type = "push" => p.n > 0)
  BY <1>1 DEF Packets
<1>5. Sent(r, type) = Sent(q, type) - 1
  BY ONLY <1>2, <1>4 DEF One
<1>6. ASSUME NEW t, t # type PROVE Sent(r, t) = Sent(q, t)
  <2>1. Sent(r, t) = Sent(q, t) - 0
    BY ONLY <1>2, <1>4, <1>6 DEF One
  <2> QED BY ONLY <1>3, <2>1
<1> QED BY ONLY <1>1, <1>2, <1>3, <1>4, <1>5, <1>6 DEF Taken

LEMMA RequestArrivesKeeps ==
  ASSUME Begun, NEW s \in Servers, down[s] # << >>, down' = [down EXCEPT ![s] = Tail(@)],
         down[s][1].type = "req", Deliver(<<Ev("sched", "req", s, 0)>>),
         UNCHANGED <<mode, plan, phase, remaining, req, srv, cflow, sflow, disk, bstream, up>>
  PROVE  Begun'
<1>2. Came(s, {<<"sched", "req">>}, 0)
  <2>1. Due("sched", "req") /\ Brought("sched", "req")
    BY DEF Due, Brought
  <2>2. Leaves(<<Ev("sched", "req", s, 0)>>, s, {<<"sched", "req">>}, 0)
    BY <2>1, OneLeft
  <2>3. \A a, t : <<a, t>> \in {<<"sched", "req">>} => Brought(a, t)
    BY ONLY <2>1
  <2> QED BY <2>2, <2>3, AfterDelivery
<1>3. /\ Local(s) /\ ServerOK(s) /\ AnswerFirst(s) /\ RequestOK(s) /\ FlowsOK(s)
      /\ up[s] \in Seq(Packets) /\ down[s] \in Seq(Packets)
      /\ \A a, t : N(a, t, s) \in Nat
      /\ \A t : Sent(down[s], t) \in Nat /\ Sent(up[s], t) \in Nat
      /\ \A jm : AcksTo(s, jm) \in Nat
      /\ down'[s] = Tail(down[s]) /\ up' = up
  BY Before, CountsNat DEF Begun, Typed, Local
<1>4. /\ Typed' /\ \A u \in Servers \ {s} : SameEvents(u)
      /\ AckBefore(now, s) => AckBefore(now, s)'
      /\ \A e \in ToSet(now') : e \in ToSet(now) \/ e.type # "ack"
      /\ N("sched", "req", s)' = N("sched", "req", s) + 1
      /\ \A a, t : a # "sched" \/ t # "req" => N(a, t, s)' = N(a, t, s)
      /\ N("cjm", "start", s) = 0
  <2>1. ~Brought("cjm", "start")
    BY DEF Brought
  <2> QED BY ONLY <1>2, <1>3, <2>1 DEF Came
<1>5. ASSUME NEW jm PROVE AcksTo(s, jm)' = AcksTo(s, jm)
  <2>1. AcksTo(s, jm)' = AcksTo(s, jm) + (IF <<jm, "ack">> \in {<<"sched", "req">>} THEN 0 ELSE 0)
    BY ONLY <1>2 DEF Came
  <2> QED BY ONLY <1>3, <2>1
<1>6. /\ down'[s] \in Seq(Packets) /\ Sent(down'[s], "req") = Sent(down[s], "req") - 1
      /\ \A t : t # "req" => Sent(down'[s], t) = Sent(down[s], t)
      /\ InFlight(s, down'[s]) = InFlight(s, down[s])
      /\ \A p \in ToSet(down'[s]) : p \in ToSet(down[s])
  <2>1. Taken(down[s], "req", s)
    BY <1>3, TakenPacket
  <2>2. InFlight(s, Tail(down[s])) = InFlight(s, down[s])
    BY ONLY <2>1 DEF Taken
  <2> QED BY ONLY <1>3, <2>1, <2>2 DEF Taken
<1>8. \A t : Sent(up[s], t)' = Sent(up[s], t)
  BY <1>3
<1>9. Asking(s)' = Asking(s)
  <2>0. \A w, x, y, z \in Nat : w + (x - 1) + (y + 1) + z = w + x + y + z
    OBVIOUS
  <2>1. Asking(s)' = N("cjm", "req", s) + (Sent(down[s], "req") - 1) + (N("sched", "req", s) + 1) + N("server", "req", s)
    BY ONLY <1>4, <1>6 DEF Asking
  <2> QED BY ONLY <1>3, <2>0, <2>1 DEF Asking
<1>10. /\ Answering(s)' = Answering(s) /\ Starting(s)' = Starting(s)
       /\ Finishing(s)' = Finishing(s) /\ Completing(s)' = Completing(s)
  BY ONLY <1>4, <1>8 DEF Answering, Starting, Finishing, Completing
<1>11. Starting(s) = 1 => N("client", "resp", s)' = 0
  BY <1>3, <1>4 DEF RequestOK
<1>13. AnswerFirst(s)'
  <2>1. UNCHANGED <<mode, cflow, sflow, up>>
    OBVIOUS
  <2> QED BY ONLY <1>3, <1>4, <1>8, <1>9, <1>10, <2>1 DEF AnswerFirst
<1>14. /\ N("cjm", "self", s)' = N("cjm", "self", s) /\ N("sjm", "self", s)' = N("sjm", "self", s)
       /\ N("client", "fin", s)' = N("client", "fin", s) /\ N("cjm", "start", s)' = N("cjm", "start", s)
  BY ONLY <1>4
<1>15. /\ Sent(down'[s], "resp") = 0 /\ Sent(down'[s], "comp") = 0 /\ Sent(up'[s], "req") = 0
       /\ UNCHANGED <<mode, plan, phase, remaining, req, srv, cflow, sflow, disk, bstream>>
       /\ InFlight(s, up'[s]) = InFlight(s, up[s])
  BY <1>3, <1>6 DEF ServerOK
<1>16. N("cjm", "start", s) # 1 /\ up'[s] \in Seq(Packets)
       /\ \A p \in ToSet(up'[s]) \cup ToSet(down'[s]) : p \in ToSet(up[s]) \cup ToSet(down[s])
  BY ONLY <1>3, <1>4, <1>6
<1> QED BY <1>3, <1>4, <1>5, <1>6, <1>9, <1>10, <1>11, <1>13, <1>14, <1>15, <1>16, PassedOn

LEMMA ResponseArrivesKeeps ==
  ASSUME Begun, NEW s \in Servers, up[s] # << >>, up' = [up EXCEPT ![s] = Tail(@)],
         NEW type \in {"resp", "comp"}, up[s][1].type = type, Deliver(<<Ev("client", type, s, 0)>>),
         UNCHANGED <<mode, plan, phase, remaining, req, srv, cflow, sflow, disk, bstream, down>>
  PROVE  Begun'
<1>1. type # "ack" /\ type # "push" /\ type # "req"
  OBVIOUS
<1>2. Came(s, {<<"client", type>>}, 0)
  <2>1. Due("client", type) /\ Brought("client", type)
    BY DEF Due, Brought
  <2>2. Leaves(<<Ev("client", type, s, 0)>>, s, {<<"client", type>>}, 0)
    BY <1>1, <2>1, OneLeft
  <2>3. \A a, t : <<a, t>> \in {<<"client", type>>} => Brought(a, t)
    BY ONLY <2>1
  <2> QED BY <2>2, <2>3, AfterDelivery
<1>3. /\ Local(s) /\ ServerOK(s) /\ AnswerFirst(s) /\ RequestOK(s) /\ FlowsOK(s) /\ MovedOK(s)
      /\ up[s] \in Seq(Packets) /\ down[s] \in Seq(Packets)
      /\ \A a, t : N(a, t, s) \in Nat
      /\ \A t : Sent(down[s], t) \in Nat /\ Sent(up[s], t) \in Nat
      /\ \A jm : AcksTo(s, jm) \in Nat
      /\ up'[s] = Tail(up[s]) /\ down' = down
  BY Before, CountsNat DEF Begun, Typed, Local
<1>4. Taken(up[s], type, s)
  BY <1>3, TakenPacket
<1>5. /\ up'[s] \in Seq(Packets) /\ Sent(up'[s], type) = Sent(up[s], type) - 1
      /\ Sent(up[s], type) \in Nat \ {0}
      /\ \A t : t # type => Sent(up'[s], t) = Sent(up[s], t)
      /\ InFlight(s, up'[s]) = InFlight(s, up[s])
      /\ \A p \in ToSet(up'[s]) : p \in ToSet(up[s])
  <2>1. InFlight(s, Tail(up[s])) = InFlight(s, up[s])
    BY ONLY <1>1, <1>4 DEF Taken
  <2> QED BY ONLY <1>3, <1>4, <2>1 DEF Taken
<1>6. mode = "read" => type = "resp" /\ cflow[s].net = 0 /\ AcksTo(s, "sjm") = 0
  <2>1. ASSUME mode = "read" PROVE type = "resp" /\ cflow[s].net = 0 /\ AcksTo(s, "sjm") = 0
    <3>1. Completing(s) = 0
      BY ONLY <1>3, <2>1 DEF RequestOK, One
    <3>2. type = "resp"
      BY <1>5, <3>1, Chains
    <3>3. cflow[s].net = 0
      BY ONLY <1>3, <1>5, <2>1, <3>2 DEF AnswerFirst
    <3>4. PICK x \in Nat, y \in Nat : x = AcksTo(s, "sjm") /\ y = sflow[s].net /\ cflow[s].net = x + y
      BY <1>3, <2>1, FlowsTyped DEF MovedOK
    <3> QED BY ONLY <3>2, <3>3, <3>4
  <2> QED BY <2>1
<1>7. /\ Typed' /\ \A u \in Servers \ {s} : SameEvents(u)
      /\ \A e \in ToSet(now') : e \in ToSet(now) \/ e.type # "ack"
      /\ N("client", type, s)' = N("client", type, s) + 1
      /\ \A a, t : a # "client" \/ t # type => N(a, t, s)' = N(a, t, s)
      /\ N("sched", "start", s) = 0 /\ N("sjm", "start", s) = 0 /\ N("cjm", "start", s) = 0
  <2>1. ~Brought("cjm", "start") /\ ~Brought("sched", "start") /\ ~Brought("sjm", "start")
    BY DEF Brought
  <2> QED BY ONLY <1>1, <1>2, <1>3, <2>1 DEF Came
<1>8. ASSUME NEW jm PROVE AcksTo(s, jm)' = AcksTo(s, jm)
  <2>1. AcksTo(s, jm)' = AcksTo(s, jm) + (IF <<jm, "ack">> \in {<<"client", type>>} THEN 0 ELSE 0)
    BY ONLY <1>2 DEF Came
  <2> QED BY ONLY <1>3, <2>1
<1>9. Answering(s)' = Answering(s) /\ Completing(s)' = Completing(s)
  <2>0. \A w, x, y, z \in Nat : w + x + (y - 1) + (z + 1) = w + x + y + z
    OBVIOUS
  <2>1. CASE type = "resp"
    <3>1. Answering(s)' = N("sched", "resp", s) + N("sjm", "resp", s) + (Sent(up[s], "resp") - 1) + (N("client", "resp", s) + 1)
      BY ONLY <1>5, <1>7, <2>1 DEF Answering
    <3>2. Completing(s)' = Completing(s)
      BY ONLY <1>5, <1>7, <2>1 DEF Completing
    <3> QED BY ONLY <1>3, <2>0, <3>1, <3>2 DEF Answering
  <2>2. CASE type = "comp"
    <3>1. Completing(s)' = N("sched", "comp", s) + N("sjm", "comp", s) + (Sent(up[s], "comp") - 1) + (N("client", "comp", s) + 1)
      BY ONLY <1>5, <1>7, <2>2 DEF Completing
    <3>2. Answering(s)' = Answering(s)
      BY ONLY <1>5, <1>7, <2>2 DEF Answering
    <3> QED BY ONLY <1>3, <2>0, <3>1, <3>2 DEF Completing
  <2> QED BY <2>1, <2>2
<1>10. Asking(s)' = Asking(s) /\ Starting(s)' = Starting(s) /\ Finishing(s)' = Finishing(s) /\ Starting(s) # 1
  <2>1. \A t : Sent(down[s], t)' = Sent(down[s], t)
    BY <1>3
  <2>2. Asking(s)' = Asking(s) /\ Starting(s)' = Starting(s) /\ Finishing(s)' = Finishing(s)
    BY ONLY type \in {"resp", "comp"}, <1>7, <2>1 DEF Asking, Starting, Finishing
  <2> QED BY ONLY <1>7, <2>2 DEF Starting
<1>11. AnswerFirst(s)'
  <2>1. CASE mode = "read"
    <3>1. Sent(up[s], "resp") = 1 /\ N("sched", "resp", s) = 0 /\ N("sjm", "resp", s) = 0
      <4>1. Answering(s) \in {0, 1}
        BY OneAtMost
      <4> QED BY ONLY <1>3, <1>5, <1>6, <2>1, <4>1 DEF Answering
    <3>2. /\ N("sched", "resp", s)' = 0 /\ N("sjm", "resp", s)' = 0 /\ Sent(up'[s], "resp") = 0
          /\ AckBefore(now, s)'
      <4>1. AckBefore(now, s)
        BY ONLY <1>3, <2>1 DEF AnswerFirst
      <4>2. <<"sjm", "ack">> \notin {<<"client", type>>}
        OBVIOUS
      <4>3. AckBefore(now, s)'
        BY ONLY <1>2, <1>6, <2>1, <4>1, <4>2 DEF Came
      <4> QED BY ONLY <1>5, <1>6, <1>7, <2>1, <3>1, <4>3
    <3>3. cflow' = cflow /\ sflow' = sflow
      OBVIOUS
    <3> QED BY ONLY <1>3, <1>9, <1>10, <2>1, <3>2, <3>3 DEF AnswerFirst
  <2>2. CASE mode # "read"
    BY <2>2 DEF AnswerFirst
  <2> QED BY <2>1, <2>2
<1>14. /\ N("cjm", "self", s)' = N("cjm", "self", s) /\ N("sjm", "self", s)' = N("sjm", "self", s)
       /\ N("client", "fin", s)' = N("client", "fin", s) /\ N("cjm", "start", s)' = N("cjm", "start", s)
  BY ONLY type \in {"resp", "comp"}, <1>7
<1>15. /\ Sent(down'[s], "resp") = 0 /\ Sent(down'[s], "comp") = 0 /\ Sent(up'[s], "req") = 0
       /\ UNCHANGED <<mode, plan, phase, remaining, req, srv, cflow, sflow, disk, bstream>>
       /\ InFlight(s, down'[s]) = InFlight(s, down[s])
  BY <1>1, <1>3, <1>5 DEF ServerOK
<1>16. N("cjm", "start", s) # 1 /\ down'[s] \in Seq(Packets)
       /\ \A p \in ToSet(up'[s]) \cup ToSet(down'[s]) : p \in ToSet(up[s]) \cup ToSet(down[s])
  BY ONLY <1>3, <1>5, <1>7
<1> QED BY <1>3, <1>5, <1>7, <1>8, <1>9, <1>10, <1>11, <1>14, <1>15, <1>16, PassedOn

\* What is known of one server before a step.
LEMMA Known ==
  ASSUME Begun, NEW s \in Servers
  PROVE  /\ ServerOK(s) /\ RequestOK(s) /\ FlowsOK(s) /\ MovedOK(s) /\ BuffersFull(s) /\ AnswerFirst(s)
         /\ mode \in {"read", "write"} /\ plan[s] \in Nat \cup {Skip} /\ now \in Seq(Events)
         /\ down[s] \in Seq(Packets) /\ up[s] \in Seq(Packets) /\ disk[s] \in Seq(Nat \ {0})
         /\ \A a, t : N(a, t, s) \in Nat
         /\ \A t : Sent(down[s], t) \in Nat /\ Sent(up[s], t) \in Nat
         /\ InFlight(s, down[s]) \in Nat /\ InFlight(s, up[s]) \in Nat /\ SumOf(disk[s]) \in Nat
         /\ \A jm : AcksTo(s, jm) \in Nat
         /\ req[s] \in {"none", "live", "deleted"} /\ srv[s] \in {"INIT", "RESPONDED", "FINISH"}
  BY Before, CountsNat, FlowsTyped DEF ServerOK

\* Of the steps that count: the counts are those of the servers again.
LEMMA CountedKeeps ==
  ASSUME Begun, NEW s \in Servers, Local(s), \A u \in Servers \ {s} : SameEvents(u),
         Typed', ServerOK(s)', NEW r, Counted(r),
         r.resp = Cardinality(Waiting'), r.flow = Cardinality(Flowing'), r.comp = Cardinality(Uncompleted'),
         r = [resp |-> r.resp, flow |-> r.flow, comp |-> r.comp]
  PROVE  Begun'
<1>1. \A u \in Servers : ServerOK(u)'
  BY StepKeeps
<1>2. RemainingOK'
  <2>1. /\ remaining' = r /\ phase' \in {"COUNT", "FINISH"}
        /\ phase' = "FINISH" => IsComplete(r)
    BY DEF Counted
  <2>2. r = [resp |-> Cardinality(Waiting'), flow |-> Cardinality(Flowing'), comp |-> Cardinality(Uncompleted')]
    OBVIOUS
  <2> QED BY <2>1, <2>2 DEF RemainingOK
<1> QED BY <1>1, <1>2 DEF Begun

\* The parts of a server that a step leaves alone leave its invariant alone.
LEMMA SameMoves ==
  ASSUME Begun, NEW s \in Servers,
         UNCHANGED <<mode, plan, cflow, sflow, disk, down, up, bstream>>,
         \A jm : AcksTo(s, jm)' = AcksTo(s, jm),
         \A e \in ToSet(now') : e \in ToSet(now) \/ e.type # "ack"
  PROVE  /\ MovedOK(s)' /\ BuffersFull(s)'
         /\ \A t : Sent(down[s], t)' = Sent(down[s], t) /\ Sent(up[s], t)' = Sent(up[s], t)
<1>1. MovedOK(s) /\ BuffersFull(s)
  BY Before
<1>2. MovedOK(s)'
  BY <1>1 DEF MovedOK, Source
<1>3. BuffersFull(s)'
  BY <1>1 DEF BuffersFull, Source
<1> QED BY <1>2, <1>3

LEMMA ClientCompletionKeeps ==
  ASSUME Begun, NEW s \in Servers, ClientCompletion(s)
  PROVE  Begun'
<1>1. /\ Handle("client", "comp", s, << >>) /\ Counted([remaining EXCEPT !.comp = @ - 1])
      /\ req' = [req EXCEPT ![s] = "deleted"]
      /\ UNCHANGED <<mode, plan, srv, cflow, sflow, down, up, disk, bstream>>
  BY DEF ClientCompletion, flows
<1>2. Took("client", "comp", s, {}, 0)
  BY <1>1, NoneLeft, AfterHandle
<1>3. /\ ServerOK(s) /\ RequestOK(s) /\ FlowsOK(s) /\ MovedOK(s) /\ BuffersFull(s) /\ AnswerFirst(s)
      /\ mode \in {"read", "write"} /\ plan[s] \in Nat \cup {Skip}
      /\ \A a, t : N(a, t, s) \in Nat
      /\ \A t : Sent(down[s], t) \in Nat /\ Sent(up[s], t) \in Nat
      /\ \A jm : AcksTo(s, jm) \in Nat
      /\ Local(s) /\ req'[s] = "deleted"
  BY <1>1, Known DEF Begun, Typed, Local
<1>4. /\ Typed' /\ \A u \in Servers \ {s} : SameEvents(u)
      /\ \A e \in ToSet(now') : e \in ToSet(now)
      /\ N("client", "comp", s) \in Nat \ {0} /\ N("client", "comp", s)' = N("client", "comp", s) - 1
      /\ \A a, t : a # "client" \/ t # "comp" => N(a, t, s)' = N(a, t, s)
  BY ONLY <1>2, <1>3 DEF Took
<1>5. ASSUME NEW jm PROVE AcksTo(s, jm)' = AcksTo(s, jm)
  <2>1. AcksTo(s, jm)' = AcksTo(s, jm) - (IF jm = "client" /\ "comp" = "ack" THEN now[1].n ELSE 0)
                         + (IF <<jm, "ack">> \in {} THEN 0 ELSE 0)
    BY ONLY <1>2 DEF Took
  <2> QED BY ONLY <1>3, <2>1
<1>6. /\ MovedOK(s)' /\ BuffersFull(s)'
      /\ \A t : Sent(down[s], t)' = Sent(down[s], t) /\ Sent(up[s], t)' = Sent(up[s], t)
  BY <1>1, <1>4, <1>5, SameMoves
<1>7. /\ Asking(s)' = Asking(s) /\ Answering(s)' = Answering(s)
      /\ Starting(s)' = Starting(s) /\ Finishing(s)' = Finishing(s)
  BY ONLY <1>4, <1>6 DEF Asking, Answering, Starting, Finishing
<1>8. /\ Completing(s) = 1 /\ Completing(s)' = 0
      /\ mode = "write" /\ srv[s] = "FINISH" /\ req[s] = "live" /\ plan[s] # Skip
  <2>1. Completing(s) = 1
    BY <1>4, Chains, OneAtMost
  <2>2. Completing(s)' = Completing(s) - 1
    BY ONLY <1>3, <1>4, <1>6 DEF Completing
  <2> QED BY ONLY <1>3, <2>1, <2>2 DEF RequestOK, One
<1>9. RequestOK(s)'
  <2>1. /\ mode' = mode /\ plan' = plan /\ srv' = srv /\ sflow' = sflow /\ cflow' = cflow
        /\ N("client", "resp", s)' = N("client", "resp", s)
    BY ONLY <1>1, <1>4
  <2> QED BY ONLY <1>3, <1>7, <1>8, <2>1 DEF RequestOK, One
<1>10. FlowsOK(s)'
  BY ONLY <1>1, <1>3, <1>4, <1>7 DEF FlowsOK
<1>11. AnswerFirst(s)'
  BY ONLY <1>1, <1>8 DEF AnswerFirst
<1>12. ServerOK(s)'
  <2>1. Sent(down[s], "resp")' = 0 /\ Sent(down[s], "comp")' = 0 /\ Sent(up[s], "req")' = 0
    BY ONLY <1>3, <1>6 DEF ServerOK
  <2> QED BY ONLY <1>1, <1>3, <1>6, <1>9, <1>10, <1>11, <2>1 DEF ServerOK
<1>13. Waiting' = Waiting /\ Flowing' = Flowing /\ Uncompleted' = Uncompleted \ {s} /\ s \in Uncompleted
  <2>1. /\ Waiting' = (Waiting \ {s}) \cup {u \in {s} : Asking(u)' + Answering(u)' = 1}
        /\ Flowing' = (Flowing \ {s}) \cup {u \in {s} : plan[u] > 0 /\ Flows(u)'}
        /\ Uncompleted' = (Uncompleted \ {s}) \cup {u \in {s} : mode = "write" /\ req'[u] = "live"}
    BY <1>3, <1>4, <1>12, StepKeeps
  <2>2. Flows(s)' <=> Flows(s)
    BY ONLY <1>1, <1>4 DEF Flows
  <2>3. Waiting' = Waiting
    BY ONLY s \in Servers, <1>7, <2>1 DEF Waiting
  <2>4. Flowing' = Flowing
    BY ONLY s \in Servers, <2>1, <2>2 DEF Flowing, Flows, WithFlow
  <2>5. s \in Uncompleted
    BY <1>8 DEF Uncompleted
  <2> QED BY ONLY <1>3, <2>1, <2>3, <2>4, <2>5
<1>14. PICK r : r = [remaining EXCEPT !.comp = @ - 1]
  OBVIOUS
<1>15. /\ r.resp = Cardinality(Waiting') /\ r.flow = Cardinality(Flowing')
       /\ r.comp = Cardinality(Uncompleted') /\ r = [resp |-> r.resp, flow |-> r.flow, comp |-> r.comp]
  <2>1. remaining = [resp |-> Cardinality(Waiting), flow |-> Cardinality(Flowing), comp |-> Cardinality(Uncompleted)]
    BY DEF Begun, RemainingOK
  <2>2. r = [resp |-> Cardinality(Waiting), flow |-> Cardinality(Flowing), comp |-> Cardinality(Uncompleted) - 1]
    BY ONLY <1>14, <2>1
  <2>3. Cardinality(Uncompleted') = Cardinality(Uncompleted) - 1
    <3>1. Uncompleted \in SUBSET Servers
      BY DEF Uncompleted
    <3> QED BY <1>13, <3>1, Dropped
  <2> QED BY ONLY <1>13, <2>2, <2>3
<1> QED BY <1>1, <1>3, <1>4, <1>12, <1>14, <1>15, CountedKeeps

LEMMA ClientFlowFinishKeeps ==
  ASSUME Begun, NEW s \in Servers, ClientFlowFinish(s)
  PROVE  Begun'
<1>1. /\ Handle("client", "fin", s, << >>) /\ Counted([remaining EXCEPT !.flow = @ - 1])
      /\ UNCHANGED <<mode, plan, req, srv, cflow, sflow, down, up, disk, bstream>>
  BY DEF ClientFlowFinish, flows
<1>2. Took("client", "fin", s, {}, 0)
  BY <1>1, NoneLeft, AfterHandle
<1>3. /\ ServerOK(s) /\ RequestOK(s) /\ FlowsOK(s) /\ MovedOK(s) /\ BuffersFull(s) /\ AnswerFirst(s)
      /\ mode \in {"read", "write"} /\ plan[s] \in Nat \cup {Skip}
      /\ \A a, t : N(a, t, s) \in Nat
      /\ \A t : Sent(down[s], t) \in Nat /\ Sent(up[s], t) \in Nat
      /\ \A jm : AcksTo(s, jm) \in Nat
      /\ Local(s)
  BY <1>1, Known DEF Begun, Typed, Local
<1>4. /\ Typed' /\ \A u \in Servers \ {s} : SameEvents(u)
      /\ \A e \in ToSet(now') : e \in ToSet(now)
      /\ AckBefore(now, s) => AckBefore(now, s)'
      /\ N("client", "fin", s) \in Nat \ {0} /\ N("client", "fin", s)' = N("client", "fin", s) - 1
      /\ \A a, t : a # "client" \/ t # "fin" => N(a, t, s)' = N(a, t, s)
  BY ONLY <1>2, <1>3 DEF Took
<1>5. ASSUME NEW jm PROVE AcksTo(s, jm)' = AcksTo(s, jm)
  <2>1. AcksTo(s, jm)' = AcksTo(s, jm) - (IF jm = "client" /\ "fin" = "ack" THEN now[1].n ELSE 0)
                         + (IF <<jm, "ack">> \in {} THEN 0 ELSE 0)
    BY ONLY <1>2 DEF Took
  <2> QED BY ONLY <1>3, <2>1
<1>6. /\ MovedOK(s)' /\ BuffersFull(s)'
      /\ \A t : Sent(down[s], t)' = Sent(down[s], t) /\ Sent(up[s], t)' = Sent(up[s], t)
  BY <1>1, <1>4, <1>5, SameMoves
<1>7. /\ Asking(s)' = Asking(s) /\ Answering(s)' = Answering(s) /\ Completing(s)' = Completing(s)
      /\ Starting(s)' = Starting(s) /\ Finishing(s)' = Finishing(s)
  BY ONLY <1>4, <1>6 DEF Asking, Answering, Starting, Finishing, Completing
<1>8. /\ N("client", "fin", s) = 1 /\ N("client", "fin", s)' = 0
      /\ cflow[s].st = "gone" /\ plan[s] > 0 /\ plan[s] \in Nat
  <2>1. N("client", "fin", s) = 1 /\ N("client", "fin", s)' = 0
    BY ONLY <1>3, <1>4 DEF FlowsOK
  <2>2. cflow[s].st = "gone"
    BY ONLY <1>3, <2>1 DEF FlowsOK
  <2>3. ~(plan[s] <= 0)
    BY ONLY <1>3, <2>2 DEF FlowsOK
  <2> QED BY ONLY <1>3, <2>1, <2>2, <2>3 DEF Skip
<1>9. RequestOK(s)'
  <2>1. /\ mode' = mode /\ plan' = plan /\ srv' = srv /\ sflow' = sflow /\ cflow' = cflow /\ req' = req
        /\ N("client", "resp", s)' = N("client", "resp", s)
    BY ONLY <1>1, <1>4
  <2> QED BY ONLY <1>3, <1>7, <2>1 DEF RequestOK
<1>10. FlowsOK(s)'
  BY ONLY <1>1, <1>3, <1>4, <1>7, <1>8 DEF FlowsOK
<1>11. AnswerFirst(s)'
  BY ONLY <1>1, <1>3, <1>4, <1>6, <1>7 DEF AnswerFirst
<1>12. ServerOK(s)'
  <2>1. Sent(down[s], "resp")' = 0 /\ Sent(down[s], "comp")' = 0 /\ Sent(up[s], "req")' = 0
    BY ONLY <1>3, <1>6 DEF ServerOK
  <2> QED BY ONLY <1>1, <1>3, <1>6, <1>9, <1>10, <1>11, <2>1 DEF ServerOK
<1>13. Waiting' = Waiting /\ Flowing' = Flowing \ {s} /\ Uncompleted' = Uncompleted /\ s \in Flowing
  <2>1. /\ Waiting' = (Waiting \ {s}) \cup {u \in {s} : Asking(u)' + Answering(u)' = 1}
        /\ Flowing' = (Flowing \ {s}) \cup {u \in {s} : plan[u] > 0 /\ Flows(u)'}
        /\ Uncompleted' = (Uncompleted \ {s}) \cup {u \in {s} : mode = "write" /\ req'[u] = "live"}
    BY <1>3, <1>4, <1>12, StepKeeps
  <2>2. ~(Flows(s)')
    BY ONLY <1>1, <1>8 DEF Flows
  <2>3. Waiting' = Waiting
    BY ONLY s \in Servers, <1>7, <2>1 DEF Waiting
  <2>4. Flowing' = Flowing \ {s}
    BY ONLY s \in Servers, <2>1, <2>2
  <2>5. s \in Flowing
    BY <1>8 DEF Flowing, WithFlow
  <2>6. Uncompleted' = Uncompleted
    BY ONLY <1>1 DEF Uncompleted
  <2> QED BY ONLY <2>3, <2>4, <2>5, <2>6
<1>14. PICK r : r = [remaining EXCEPT !.flow = @ - 1]
  OBVIOUS
<1>15. /\ r.resp = Cardinality(Waiting') /\ r.flow = Cardinality(Flowing')
       /\ r.comp = Cardinality(Uncompleted') /\ r = [resp |-> r.resp, flow |-> r.flow, comp |-> r.comp]
  <2>1. remaining = [resp |-> Cardinality(Waiting), flow |-> Cardinality(Flowing), comp |-> Cardinality(Uncompleted)]
    BY DEF Begun, RemainingOK
  <2>2. r = [resp |-> Cardinality(Waiting), flow |-> Cardinality(Flowing) - 1, comp |-> Cardinality(Uncompleted)]
    BY ONLY <1>14, <2>1
  <2>3. Cardinality(Flowing') = Cardinality(Flowing) - 1
    <3>1. Flowing \in SUBSET Servers
      BY DEF Flowing, WithFlow
    <3> QED BY <1>13, <3>1, Dropped
  <2> QED BY ONLY <1>13, <2>2, <2>3
<1> QED BY <1>1, <1>3, <1>4, <1>12, <1>14, <1>15, CountedKeeps

LEMMA ServerFlowFinishKeeps ==
  ASSUME Begun, NEW s \in Servers, ServerFlowFinish(s)
  PROVE  Begun'
<1>1. /\ srv[s] = "RESPONDED"
      /\ Handle("server", "fin", s, IF mode = "write" THEN <<Ev("sched", "comp", s, 0)>> ELSE << >>)
      /\ srv' = [srv EXCEPT ![s] = "FINISH"]
      /\ req' = IF mode = "read" THEN [req EXCEPT ![s] = "deleted"] ELSE req
      /\ UNCHANGED <<mode, plan, phase, remaining, cflow, sflow, down, up, disk, bstream>>
  BY DEF ServerFlowFinish, ReadFinished, client, flows
<1>3. /\ ServerOK(s) /\ RequestOK(s) /\ FlowsOK(s) /\ MovedOK(s) /\ BuffersFull(s) /\ AnswerFirst(s)
      /\ mode \in {"read", "write"} /\ plan[s] \in Nat \cup {Skip}
      /\ \A a, t : N(a, t, s) \in Nat
      /\ \A t : Sent(down[s], t) \in Nat /\ Sent(up[s], t) \in Nat
      /\ \A jm : AcksTo(s, jm) \in Nat
      /\ Local(s) /\ srv'[s] = "FINISH"
      /\ req'[s] = IF mode = "read" THEN "deleted" ELSE req[s]
  <2>1. DOMAIN req = Servers /\ DOMAIN srv = Servers /\ DOMAIN cflow = Servers /\ DOMAIN sflow = Servers
        /\ DOMAIN down = Servers /\ DOMAIN up = Servers /\ DOMAIN disk = Servers /\ DOMAIN bstream = Servers
    BY DEF Begun, Typed
  <2>2. DOMAIN req' = Servers /\ (\A u \in Servers \ {s} : req'[u] = req[u])
        /\ req'[s] = IF mode = "read" THEN "deleted" ELSE req[s]
    <3>1. CASE mode = "read"
      BY <1>1, <2>1, <3>1
    <3>2. CASE mode # "read"
      BY <1>1, <2>1, <3>2
    <3> QED BY <3>1, <3>2
  <2>3. Local(s) /\ srv'[s] = "FINISH"
    BY ONLY s \in Servers, <1>1, <2>1, <2>2 DEF Local
  <2> QED BY <2>2, <2>3, Known
<1>2. PICK kinds : /\ kinds = (IF mode = "write" THEN {<<"sched", "comp">>} ELSE {})
                   /\ Took("server", "fin", s, kinds, 0)
  <2>0. Due("sched", "comp")
    BY DEF Due
  <2>1. CASE mode = "write"
    <3>1. Leaves(<<Ev("sched", "comp", s, 0)>>, s, {<<"sched", "comp">>}, 0)
      BY <2>0, OneLeft
    <3>2. Handle("server", "fin", s, <<Ev("sched", "comp", s, 0)>>)
      BY <1>1, <2>1
    <3>3. <<"server", "fin">> \notin {<<"sched", "comp">>}
      OBVIOUS
    <3>4. Took("server", "fin", s, {<<"sched", "comp">>}, 0)
      BY <3>1, <3>2, <3>3, AfterHandle
    <3> QED BY <2>1, <3>4
  <2>2. CASE mode # "write"
    <3>1. Handle("server", "fin", s, << >>)
      BY <1>1, <2>2
    <3>2. Took("server", "fin", s, {}, 0)
      BY <3>1, NoneLeft, AfterHandle
    <3> QED BY <2>2, <3>2
  <2> QED BY <2>1, <2>2
<1>4. /\ Typed' /\ \A u \in Servers \ {s} : SameEvents(u)
      /\ \A e \in ToSet(now') : e \in ToSet(now) \/ e.type # "ack"
      /\ AckBefore(now, s) => AckBefore(now, s)'
      /\ N("server", "fin", s) \in Nat \ {0} /\ N("server", "fin", s)' = N("server", "fin", s) - 1
      /\ N("sched", "comp", s)' = N("sched", "comp", s) + (IF mode = "write" THEN 1 ELSE 0)
      /\ \A a, t : t # "fin" /\ t # "comp" => N(a, t, s)' = N(a, t, s)
      /\ \A a, t : a # "server" /\ a # "sched" => N(a, t, s)' = N(a, t, s)
      /\ N("sched", "fin", s)' = N("sched", "fin", s)
  <2>1. <<"client", "resp">> \notin kinds
    BY ONLY <1>2
  <2>2. N("sched", "comp", s)' = N("sched", "comp", s) + (IF mode = "write" THEN 1 ELSE 0)
    <3>1. CASE mode = "write"
      BY ONLY <1>2, <3>1 DEF Took
    <3>2. CASE mode # "write"
      <4>1. N("sched", "comp", s)' = N("sched", "comp", s) /\ N("sched", "comp", s) \in Nat
        BY ONLY <1>2, <1>3, <3>2 DEF Took
      <4> QED BY ONLY <3>2, <4>1
    <3> QED BY <3>1, <3>2
  <2>3. \A a, t : <<a, t>> \in kinds => a = "sched" /\ t = "comp"
    BY ONLY <1>2
  <2>4. \A e \in ToSet(now') : e \in ToSet(now) \/ e.type # "ack"
    BY ONLY <1>2, <2>3 DEF Took
  <2>5. \A a, t : (a # "server" \/ t # "fin") /\ (a # "sched" \/ t # "comp") => N(a, t, s)' = N(a, t, s)
    BY ONLY <1>2, <2>3 DEF Took
  <2>6. /\ Typed' /\ \A u \in Servers \ {s} : SameEvents(u)
        /\ AckBefore(now, s) => AckBefore(now, s)'
        /\ N("server", "fin", s) \in Nat \ {0} /\ N("server", "fin", s)' = N("server", "fin", s) - 1
    BY ONLY <1>2, <1>3, <2>1 DEF Took
  <2> QED BY ONLY <2>2, <2>4, <2>5, <2>6
<1>5. ASSUME NEW jm PROVE AcksTo(s, jm)' = AcksTo(s, jm)
  <2>1. AcksTo(s, jm)' = AcksTo(s, jm) - (IF jm = "server" /\ "fin" = "ack" THEN now[1].n ELSE 0)
                         + (IF <<jm, "ack">> \in kinds THEN 0 ELSE 0)
    BY ONLY <1>2 DEF Took
  <2> QED BY ONLY <1>3, <2>1
<1>6. /\ MovedOK(s)' /\ BuffersFull(s)'
      /\ \A t : Sent(down[s], t)' = Sent(down[s], t) /\ Sent(up[s], t)' = Sent(up[s], t)
  BY <1>1, <1>4, <1>5, SameMoves
<1>7. /\ Asking(s)' = Asking(s) /\ Answering(s)' = Answering(s) /\ Starting(s)' = Starting(s)
  BY ONLY <1>4, <1>6 DEF Asking, Answering, Starting
<1>8. /\ Finishing(s) = 1 /\ Finishing(s)' = 0 /\ sflow[s].st = "gone" /\ plan[s] # Skip
      /\ plan[s] > 0 /\ (mode = "write" => req[s] = "live")
  <2>1. Finishing(s) = 1
    BY <1>4, Chains, OneAtMost
  <2>2. Finishing(s)' = Finishing(s) - 1
    BY ONLY <1>3, <1>4 DEF Finishing
  <2>3. sflow[s].st = "gone"
    BY ONLY <1>3, <2>1 DEF RequestOK, One
  <2>4. ~(plan[s] <= 0)
    BY ONLY <1>3, <2>3 DEF FlowsOK
  <2>5. plan[s] # Skip /\ plan[s] > 0
    BY ONLY <1>3, <2>4 DEF Skip
  <2>6. mode = "write" => req[s] = "live"
    BY ONLY <1>1, <1>3, <2>5 DEF RequestOK
  <2> QED BY ONLY <2>1, <2>2, <2>3, <2>5, <2>6
<1>9. RequestOK(s)'
  <2>1. /\ mode' = mode /\ plan' = plan /\ sflow' = sflow
        /\ N("client", "resp", s)' = N("client", "resp", s)
    BY ONLY <1>1, <1>4
  <2>2. Completing(s)' = One(mode = "write" /\ req'[s] = "live")
    <3>1. CASE mode = "write"
      <4>1. Completing(s) = 0
        BY ONLY <1>1, <1>3 DEF RequestOK, One
      <4>2. Completing(s)' = Completing(s) + 1
        BY ONLY <1>3, <1>4, <1>6, <3>1 DEF Completing
      <4>3. req'[s] = "live"
        BY ONLY <1>3, <1>8, <3>1
      <4> QED BY ONLY <3>1, <4>1, <4>2, <4>3 DEF One
    <3>2. CASE mode # "write"
      <4>1. Completing(s) = 0
        BY ONLY <1>3, <3>2 DEF RequestOK, One
      <4>2. Completing(s)' = Completing(s)
        BY ONLY <1>3, <1>4, <1>6, <3>2 DEF Completing
      <4> QED BY ONLY <3>2, <4>1, <4>2 DEF One
    <3> QED BY <3>1, <3>2
  <2>3. ~(mode = "read" /\ plan[s] = 0)
    BY ONLY <1>3, <1>8
  <2> QED BY ONLY <1>1, <1>3, <1>7, <1>8, <2>1, <2>2, <2>3 DEF RequestOK, One
<1>10. FlowsOK(s)'
  <2>1. /\ N("cjm", "self", s)' = N("cjm", "self", s) /\ N("sjm", "self", s)' = N("sjm", "self", s)
        /\ N("client", "fin", s)' = N("client", "fin", s) /\ N("cjm", "start", s)' = N("cjm", "start", s)
    BY ONLY <1>4
  <2>2. mode = "read" => N("cjm", "start", s) # 1
    BY ONLY <1>1, <1>3, <1>8 DEF FlowsOK
  <2> QED BY ONLY <1>1, <1>3, <1>7, <1>8, <2>1, <2>2 DEF FlowsOK
<1>11. AnswerFirst(s)'
  <2>1. N("sched", "resp", s)' = N("sched", "resp", s) /\ N("sjm", "resp", s)' = N("sjm", "resp", s)
    BY ONLY <1>4
  <2> QED BY ONLY <1>1, <1>3, <1>4, <1>6, <1>7, <2>1 DEF AnswerFirst
<1>12. ServerOK(s)'
  <2>1. Sent(down[s], "resp")' = 0 /\ Sent(down[s], "comp")' = 0 /\ Sent(up[s], "req")' = 0
    BY ONLY <1>3, <1>6 DEF ServerOK
  <2> QED BY ONLY <1>1, <1>3, <1>6, <1>9, <1>10, <1>11, <2>1 DEF ServerOK
<1>13. Flows(s)' <=> Flows(s)
  BY ONLY <1>1, <1>4 DEF Flows
<1>14. /\ mode = "write" => (req'[s] = "live" <=> req[s] = "live")
       /\ Asking(s)' + Answering(s)' = Asking(s) + Answering(s)
       /\ phase' = phase /\ remaining' = remaining
  BY ONLY <1>1, <1>3, <1>7
<1> QED BY <1>3, <1>4, <1>12, <1>13, <1>14, CountsKept

LEMMA ClientResponseKeeps ==
  ASSUME Begun, NEW s \in Servers, ClientResponse(s)
  PROVE  Begun'
<1> DEFINE r == [remaining EXCEPT !.resp = @ - 1]
<1>1. /\ Handle("client", "resp", s, IF mode = "write" THEN <<Ev("cjm", "start", s, 0)>> ELSE << >>)
      /\ mode = "write" => remaining' = r /\ phase' = phase
      /\ mode # "write" => Counted(r)
      /\ req' = IF mode = "read" /\ plan[s] = 0 THEN [req EXCEPT ![s] = "deleted"] ELSE req
      /\ UNCHANGED <<mode, plan, srv, cflow, sflow, down, up, disk, bstream>>
  BY DEF ClientResponse, AutoCleanup, flows
<1>3. /\ ServerOK(s) /\ RequestOK(s) /\ FlowsOK(s) /\ MovedOK(s) /\ BuffersFull(s) /\ AnswerFirst(s)
      /\ mode \in {"read", "write"} /\ plan[s] \in Nat \cup {Skip}
      /\ \A a, t : N(a, t, s) \in Nat
      /\ \A t : Sent(down[s], t) \in Nat /\ Sent(up[s], t) \in Nat
      /\ \A jm : AcksTo(s, jm) \in Nat
      /\ Local(s)
      /\ req'[s] = IF mode = "read" /\ plan[s] = 0 THEN "deleted" ELSE req[s]
  <2>1. DOMAIN req = Servers /\ DOMAIN srv = Servers /\ DOMAIN cflow = Servers /\ DOMAIN sflow = Servers
        /\ DOMAIN down = Servers /\ DOMAIN up = Servers /\ DOMAIN disk = Servers /\ DOMAIN bstream = Servers
    BY DEF Begun, Typed
  <2>2. DOMAIN req' = Servers /\ (\A u \in Servers \ {s} : req'[u] = req[u])
        /\ req'[s] = IF mode = "read" /\ plan[s] = 0 THEN "deleted" ELSE req[s]
    <3>1. CASE mode = "read" /\ plan[s] = 0
      BY <1>1, <2>1, <3>1
    <3>2. CASE ~(mode = "read" /\ plan[s] = 0)
      BY <1>1, <2>1, <3>2
    <3> QED BY <3>1, <3>2
  <2>3. Local(s)
    BY ONLY s \in Servers, <1>1, <2>1, <2>2 DEF Local
  <2> QED BY <2>2, <2>3, Known
<1>2. PICK kinds : /\ kinds = (IF mode = "write" THEN {<<"cjm", "start">>} ELSE {})
                   /\ Took("client", "resp", s, kinds, 0)
  <2>0. Due("cjm", "start")
    BY DEF Due
  <2>1. CASE mode = "write"
    <3>1. Leaves(<<Ev("cjm", "start", s, 0)>>, s, {<<"cjm", "start">>}, 0)
      BY <2>0, OneLeft
    <3>2. Handle("client", "resp", s, <<Ev("cjm", "start", s, 0)>>)
      BY <1>1, <2>1
    <3>3. <<"client", "resp">> \notin {<<"cjm", "start">>}
      OBVIOUS
    <3>4. Took("client", "resp", s, {<<"cjm", "start">>}, 0)
      BY <3>1, <3>2, <3>3, AfterHandle
    <3> QED BY <2>1, <3>4
  <2>2. CASE mode # "write"
    <3>1. Handle("client", "resp", s, << >>)
      BY <1>1, <2>2
    <3>2. Took("client", "resp", s, {}, 0)
      BY <3>1, NoneLeft, AfterHandle
    <3> QED BY <2>2, <3>2
  <2> QED BY <2>1, <2>2
<1>4. /\ Typed' /\ \A u \in Servers \ {s} : SameEvents(u)
      /\ \A e \in ToSet(now') : e \in ToSet(now) \/ e.type # "ack"
      /\ AckBefore(now, s) => AckBefore(now, s)'
      /\ N("client", "resp", s) \in Nat \ {0} /\ N("client", "resp", s)' = N("client", "resp", s) - 1
      /\ N("cjm", "start", s)' = N("cjm", "start", s) + (IF mode = "write" THEN 1 ELSE 0)
      /\ \A a, t : (a # "client" \/ t # "resp") /\ (a # "cjm" \/ t # "start") => N(a, t, s)' = N(a, t, s)
  <2>1. <<"client", "resp">> \notin kinds
    BY ONLY <1>2
  <2>2. N("cjm", "start", s)' = N("cjm", "start", s) + (IF mode = "write" THEN 1 ELSE 0)
    <3>1. CASE mode = "write"
      BY ONLY <1>2, <3>1 DEF Took
    <3>2. CASE mode # "write"
      <4>1. N("cjm", "start", s)' = N("cjm", "start", s) /\ N("cjm", "start", s) \in Nat
        BY ONLY <1>2, <1>3, <3>2 DEF Took
      <4> QED BY ONLY <3>2, <4>1
    <3> QED BY <3>1, <3>2
  <2>3. \A a, t : <<a, t>> \in kinds => a = "cjm" /\ t = "start"
    BY ONLY <1>2
  <2>4. \A e \in ToSet(now') : e \in ToSet(now) \/ e.type # "ack"
    BY ONLY <1>2, <2>3 DEF Took
  <2>5. \A a, t : (a # "client" \/ t # "resp") /\ (a # "cjm" \/ t # "start") => N(a, t, s)' = N(a, t, s)
    BY ONLY <1>2, <2>3 DEF Took
  <2>6. /\ Typed' /\ \A u \in Servers \ {s} : SameEvents(u)
        /\ AckBefore(now, s) => AckBefore(now, s)'
        /\ N("client", "resp", s) \in Nat \ {0} /\ N("client", "resp", s)' = N("client", "resp", s) - 1
    BY ONLY <1>2, <1>3, <2>1 DEF Took
  <2> QED BY ONLY <2>2, <2>4, <2>5, <2>6
<1>5. ASSUME NEW jm PROVE AcksTo(s, jm)' = AcksTo(s, jm)
  <2>1. AcksTo(s, jm)' = AcksTo(s, jm) - (IF jm = "client" /\ "resp" = "ack" THEN now[1].n ELSE 0)
                         + (IF <<jm, "ack">> \in kinds THEN 0 ELSE 0)
    BY ONLY <1>2 DEF Took
  <2> QED BY ONLY <1>3, <2>1
<1>6. /\ MovedOK(s)' /\ BuffersFull(s)'
      /\ \A t : Sent(down[s], t)' = Sent(down[s], t) /\ Sent(up[s], t)' = Sent(up[s], t)
  BY <1>1, <1>4, <1>5, SameMoves
<1>7. /\ Asking(s)' = Asking(s) /\ Starting(s)' = Starting(s)
      /\ Finishing(s)' = Finishing(s) /\ Completing(s)' = Completing(s)
  BY ONLY <1>4, <1>6 DEF Asking, Starting, Finishing, Completing
<1>8. /\ Answering(s) = 1 /\ Answering(s)' = 0 /\ Asking(s) = 0 /\ plan[s] # Skip /\ srv[s] # "INIT"
      /\ Starting(s) = 0
      /\ N("sched", "resp", s) = 0 /\ N("sjm", "resp", s) = 0 /\ Sent(up[s], "resp") = 0
  <2>1. Answering(s) = 1 /\ N("client", "resp", s) = 1
    BY <1>4, Chains, OneAtMost
  <2>2. Answering(s)' = Answering(s) - 1
    BY ONLY <1>3, <1>4, <1>6 DEF Answering
  <2>3. N("sched", "resp", s) = 0 /\ N("sjm", "resp", s) = 0 /\ Sent(up[s], "resp") = 0
    BY ONLY <1>3, <2>1 DEF Answering
  <2>4. Asking(s) \in {0, 1} /\ (Asking(s) = 1 => Answering(s) = 0) /\ Starting(s) \in {0, 1}
    BY OneAtMost
  <2>5. Asking(s) = 0
    BY ONLY <2>1, <2>4
  <2>6. plan[s] # Skip
    BY ONLY <1>3, <2>1 DEF RequestOK
  <2>7. srv[s] # "INIT"
    BY ONLY <1>3, <2>5, <2>6 DEF RequestOK, One
  <2>8. Starting(s) # 1
    BY ONLY <1>3, <2>1 DEF RequestOK
  <2> QED BY ONLY <2>1, <2>2, <2>3, <2>4, <2>5, <2>6, <2>7, <2>8
<1>9. RequestOK(s)'
  <2>1. mode' = mode /\ plan' = plan /\ srv' = srv /\ sflow' = sflow
    BY ONLY <1>1
  <2>2. CASE mode = "read" /\ plan[s] = 0
    <3>1. req'[s] = "deleted"
      BY ONLY <1>3, <2>2
    <3> QED BY ONLY <1>3, <1>7, <1>8, <2>1, <2>2, <3>1 DEF RequestOK, One
  <2>3. CASE ~(mode = "read" /\ plan[s] = 0)
    <3>1. req'[s] = req[s]
      BY ONLY <1>3, <2>3
    <3> QED BY ONLY <1>3, <1>7, <1>8, <2>1, <2>3, <3>1 DEF RequestOK, One
  <2> QED BY <2>2, <2>3
<1>10. FlowsOK(s)'
  <2>1. /\ N("cjm", "self", s)' = N("cjm", "self", s) /\ N("sjm", "self", s)' = N("sjm", "self", s)
        /\ N("client", "fin", s)' = N("client", "fin", s)
        /\ N("sched", "req", s)' = N("sched", "req", s) /\ N("server", "req", s)' = N("server", "req", s)
    BY ONLY <1>4
  <2>2. CASE mode = "read"
    <3>1. N("cjm", "start", s)' = N("cjm", "start", s)
      BY ONLY <1>3, <1>4, <2>2
    <3> QED BY ONLY <1>1, <1>3, <2>1, <2>2, <3>1 DEF FlowsOK
  <2>3. CASE mode = "write"
    <3>1. plan[s] > 0 /\ ~(plan[s] <= 0)
      BY ONLY <1>3, <1>8, <2>3 DEF FlowsOK, Skip
    <3>2. Asking(s)' + Answering(s)' + N("cjm", "start", s)' = Asking(s) + Answering(s) + N("cjm", "start", s)
      BY ONLY <1>3, <1>4, <1>7, <1>8, <2>3
    <3> QED BY ONLY <1>1, <1>3, <2>1, <2>3, <3>1, <3>2 DEF FlowsOK
  <2> QED BY <1>3, <2>2, <2>3
<1>11. AnswerFirst(s)'
  <2>1. N("sched", "resp", s)' = 0 /\ N("sjm", "resp", s)' = 0 /\ Sent(up'[s], "resp") = 0
        /\ Asking(s)' = 0 /\ Answering(s)' = 0 /\ mode' = mode
    BY ONLY <1>1, <1>4, <1>6, <1>7, <1>8
  <2> QED BY ONLY <1>3, <1>4, <2>1 DEF AnswerFirst
<1>12. ServerOK(s)'
  <2>1. Sent(down[s], "resp")' = 0 /\ Sent(down[s], "comp")' = 0 /\ Sent(up[s], "req")' = 0
    BY ONLY <1>3, <1>6 DEF ServerOK
  <2>2. req'[s] \in {"none", "live", "deleted"}
    BY ONLY <1>3 DEF ServerOK
  <2> QED BY ONLY <1>1, <1>3, <1>6, <1>9, <1>10, <1>11, <2>1, <2>2 DEF ServerOK
<1>13. Waiting' = Waiting \ {s} /\ Flowing' = Flowing /\ Uncompleted' = Uncompleted /\ s \in Waiting
  <2>1. /\ Waiting' = (Waiting \ {s}) \cup {u \in {s} : Asking(u)' + Answering(u)' = 1}
        /\ Flowing' = (Flowing \ {s}) \cup {u \in {s} : plan[u] > 0 /\ Flows(u)'}
    BY <1>3, <1>4, <1>12, StepKeeps
  <2>2. Flows(s)' <=> Flows(s)
    BY ONLY <1>1, <1>4 DEF Flows
  <2>3. Waiting' = Waiting \ {s}
    <3>1. ~(Asking(s)' + Answering(s)' = 1)
      BY ONLY <1>7, <1>8
    <3> QED BY ONLY <2>1, <3>1
  <2>4. Flowing' = Flowing
    BY ONLY s \in Servers, <2>1, <2>2 DEF Flowing, Flows, WithFlow
  <2>5. s \in Waiting
    BY <1>8 DEF Waiting
  <2>6. Uncompleted' = Uncompleted
    BY ONLY <1>1, <1>3 DEF Uncompleted
  <2> QED BY ONLY <2>3, <2>4, <2>5, <2>6
<1>15. /\ r.resp = Cardinality(Waiting') /\ r.flow = Cardinality(Flowing')
       /\ r.comp = Cardinality(Uncompleted') /\ r = [resp |-> r.resp, flow |-> r.flow, comp |-> r.comp]
       /\ remaining.resp # 0
  <2>1. remaining = [resp |-> Cardinality(Waiting), flow |-> Cardinality(Flowing), comp |-> Cardinality(Uncompleted)]
    BY DEF Begun, RemainingOK
  <2>2. r = [resp |-> Cardinality(Waiting) - 1, flow |-> Cardinality(Flowing), comp |-> Cardinality(Uncompleted)]
    BY ONLY <2>1
  <2>3. Cardinality(Waiting') = Cardinality(Waiting) - 1 /\ Cardinality(Waiting) # 0
    <3>1. Waiting \in SUBSET Servers
      BY DEF Waiting
    <3> QED BY <1>13, <3>1, Dropped
  <2> QED BY ONLY <1>13, <2>1, <2>2, <2>3
<1> HIDE DEF r
<1>16. Begun'
  <2>1. CASE mode # "write"
    BY <1>1, <1>3, <1>4, <1>12, <1>15, <2>1, CountedKeeps
  <2>2. CASE mode = "write"
    <3>1. \A u \in Servers : ServerOK(u)'
      BY <1>3, <1>4, <1>12, StepKeeps
    <3>2. phase = "COUNT"
      BY <1>15 DEF Begun, RemainingOK, IsComplete
    <3>3. RemainingOK'
      <4>1. remaining' = [resp |-> Cardinality(Waiting'), flow |-> Cardinality(Flowing'), comp |-> Cardinality(Uncompleted')]
        BY <1>1, <1>15, <2>2
      <4>2. phase' = "COUNT"
        BY <1>1, <2>2, <3>2
      <4> QED BY <4>1, <4>2 DEF RemainingOK
    <3> QED BY <1>4, <3>1, <3>3 DEF Begun
  <2> QED BY <2>1, <2>2
<1> QED BY <1>16

-----------------------------------------------------------------------------
\* The ends of the flows.
LEMMA EndClientFlowKeeps ==
  ASSUME Begun, NEW s \in Servers, EndClientFlow(s)
  PROVE  Begun'
<1>1. /\ Handle("cjm", "self", s, <<Ev("client", "fin", s, 0)>>)
      /\ cflow' = [cflow EXCEPT ![s].st = "gone"]
      /\ UNCHANGED <<mode, plan, phase, remaining, req, srv, sflow, down, up, disk, bstream>>
  BY DEF EndClientFlow, client
<1>2. Took("cjm", "self", s, {<<"client", "fin">>}, 0)
  <2>1. Due("client", "fin")
    BY DEF Due
  <2>2. Leaves(<<Ev("client", "fin", s, 0)>>, s, {<<"client", "fin">>}, 0)
    BY <2>1, OneLeft
  <2>3. <<"cjm", "self">> \notin {<<"client", "fin">>}
    OBVIOUS
  <2> QED BY <1>1, <2>2, <2>3, AfterHandle
<1>3. /\ ServerOK(s) /\ RequestOK(s) /\ FlowsOK(s) /\ MovedOK(s) /\ BuffersFull(s) /\ AnswerFirst(s)
      /\ mode \in {"read", "write"} /\ plan[s] \in Nat \cup {Skip}
      /\ \A a, t : N(a, t, s) \in Nat
      /\ \A jm : AcksTo(s, jm) \in Nat
      /\ Local(s)
  BY <1>1, Known DEF Begun, Typed, Local
<1>4. /\ Typed' /\ \A u \in Servers \ {s} : SameEvents(u)
      /\ \A e \in ToSet(now') : e \in ToSet(now) \/ e.type # "ack"
      /\ AckBefore(now, s) => AckBefore(now, s)'
      /\ N("cjm", "self", s) \in Nat \ {0} /\ N("cjm", "self", s)' = N("cjm", "self", s) - 1
      /\ N("client", "fin", s)' = N("client", "fin", s) + 1
      /\ \A a, t : t # "self" /\ t # "fin" => N(a, t, s)' = N(a, t, s)
      /\ \A a, t : a # "cjm" /\ a # "client" => N(a, t, s)' = N(a, t, s)
  BY ONLY <1>2, <1>3 DEF Took
<1>5. ASSUME NEW jm PROVE AcksTo(s, jm)' = AcksTo(s, jm)
  <2>1. AcksTo(s, jm)' = AcksTo(s, jm) - (IF jm = "cjm" /\ "self" = "ack" THEN now[1].n ELSE 0)
                         + (IF <<jm, "ack">> \in {<<"client", "fin">>} THEN 0 ELSE 0)
    BY ONLY <1>2 DEF Took
  <2> QED BY ONLY <1>3, <2>1
<1>6. /\ cflow[s] \in Flow /\ cflow[s].st = "done" /\ N("cjm", "self", s)' = 0
      /\ N("client", "fin", s)' = 1
  <2>1. cflow[s].st = "done" /\ N("cjm", "self", s) = 1
    BY ONLY <1>3, <1>4 DEF FlowsOK, One
  <2>2. N("client", "fin", s) = 0
    BY ONLY <1>3, <2>1 DEF FlowsOK
  <2> QED BY <1>4, <2>1, <2>2, FlowsTyped
<1>7. cflow'[s] \in Flow /\ cflow'[s].st = "gone"
      /\ cflow'[s].net = cflow[s].net /\ cflow'[s].sto = cflow[s].sto /\ cflow'[s].off = cflow[s].off
  <2>1. s \in DOMAIN cflow
    BY DEF Begun, Typed
  <2>2. "gone" \in FlowStates
    BY DEF FlowStates
  <2>3. cflow'[s] = [cflow[s] EXCEPT !.st = "gone"]
    BY <1>1, <2>1
  <2> QED BY ONLY <1>6, <2>2, <2>3 DEF Flow
<1>8. /\ Asking(s)' = Asking(s) /\ Answering(s)' = Answering(s) /\ Completing(s)' = Completing(s)
      /\ Starting(s)' = Starting(s) /\ Finishing(s)' = Finishing(s)
  <2>1. \A t : Sent(down[s], t)' = Sent(down[s], t) /\ Sent(up[s], t)' = Sent(up[s], t)
    BY <1>1
  <2> QED BY ONLY <1>4, <2>1 DEF Asking, Answering, Starting, Finishing, Completing
<1>9. RequestOK(s)'
  <2>1. /\ mode' = mode /\ plan' = plan /\ srv' = srv /\ sflow' = sflow /\ req' = req
        /\ N("client", "resp", s)' = N("client", "resp", s)
    BY ONLY <1>1, <1>4
  <2> QED BY ONLY <1>3, <1>8, <2>1 DEF RequestOK
<1>10. FlowsOK(s)'
  <2>1. /\ N("sjm", "self", s)' = N("sjm", "self", s) /\ N("cjm", "start", s)' = N("cjm", "start", s)
        /\ N("sched", "req", s)' = N("sched", "req", s) /\ N("server", "req", s)' = N("server", "req", s)
    BY ONLY <1>4
  <2>2. ~(plan[s] <= 0)
    BY ONLY <1>3, <1>6 DEF FlowsOK
  <2> QED BY ONLY <1>1, <1>3, <1>6, <1>7, <1>8, <2>1, <2>2 DEF FlowsOK, One
<1>11. MovedOK(s)'
  <2>1. FlowOK(cflow[s], plan[s])'
    <3>1. cflow[s].net = plan[s] /\ cflow[s].sto = plan[s]
      BY ONLY <1>3, <1>6 DEF MovedOK, FlowOK
    <3> QED BY ONLY <1>1, <1>7, <3>1 DEF FlowOK, Flow
  <2> QED BY ONLY <1>1, <1>3, <1>5, <1>7, <2>1 DEF MovedOK, Source
<1>12. BuffersFull(s)'
  BY ONLY <1>1, <1>3, <1>4, <1>7 DEF BuffersFull, Source
<1>13. AnswerFirst(s)'
  <2>1. /\ N("sched", "resp", s)' = N("sched", "resp", s) /\ N("sjm", "resp", s)' = N("sjm", "resp", s)
    BY ONLY <1>4
  <2> QED BY ONLY <1>1, <1>3, <1>4, <1>7, <1>8, <2>1 DEF AnswerFirst
<1>14. ServerOK(s)'
  BY ONLY <1>1, <1>3, <1>9, <1>10, <1>11, <1>12, <1>13 DEF ServerOK
<1>15. Flows(s)' <=> Flows(s)
  BY ONLY <1>6, <1>7 DEF Flows
<1>16. /\ mode = "write" => (req'[s] = "live" <=> req[s] = "live")
       /\ Asking(s)' + Answering(s)' = Asking(s) + Answering(s)
       /\ phase' = phase /\ remaining' = remaining
  BY ONLY <1>1, <1>8
<1> QED BY <1>3, <1>4, <1>14, <1>15, <1>16, CountsKept

LEMMA EndServerFlowKeeps ==
  ASSUME Begun, NEW s \in Servers, EndServerFlow(s)
  PROVE  Begun'
<1>1. /\ Handle("sjm", "self", s, <<Ev("sched", "fin", s, 0)>>)
      /\ sflow' = [sflow EXCEPT ![s].st = "gone"]
      /\ UNCHANGED <<mode, plan, phase, remaining, req, srv, cflow, down, up, disk, bstream>>
  BY DEF EndServerFlow, client
<1>2. Took("sjm", "self", s, {<<"sched", "fin">>}, 0)
  <2>1. Due("sched", "fin")
    BY DEF Due
  <2>2. Leaves(<<Ev("sched", "fin", s, 0)>>, s, {<<"sched", "fin">>}, 0)
    BY <2>1, OneLeft
  <2>3. <<"sjm", "self">> \notin {<<"sched", "fin">>}
    OBVIOUS
  <2> QED BY <1>1, <2>2, <2>3, AfterHandle
<1>3. /\ ServerOK(s) /\ RequestOK(s) /\ FlowsOK(s) /\ MovedOK(s) /\ BuffersFull(s) /\ AnswerFirst(s)
      /\ mode \in {"read", "write"} /\ plan[s] \in Nat \cup {Skip}
      /\ \A a, t : N(a, t, s) \in Nat
      /\ \A jm : AcksTo(s, jm) \in Nat
      /\ srv[s] \in {"INIT", "RESPONDED", "FINISH"}
      /\ Local(s)
  BY <1>1, Known DEF Begun, Typed, Local
<1>4. /\ Typed' /\ \A u \in Servers \ {s} : SameEvents(u)
      /\ \A e \in ToSet(now') : e \in ToSet(now) \/ e.type # "ack"
      /\ AckBefore(now, s) => AckBefore(now, s)'
      /\ N("sjm", "self", s) \in Nat \ {0} /\ N("sjm", "self", s)' = N("sjm", "self", s) - 1
      /\ N("sched", "fin", s)' = N("sched", "fin", s) + 1
      /\ \A a, t : t # "self" /\ t # "fin" => N(a, t, s)' = N(a, t, s)
      /\ \A a, t : a # "sjm" /\ a # "sched" => N(a, t, s)' = N(a, t, s)
  BY ONLY <1>2, <1>3 DEF Took
<1>5. ASSUME NEW jm PROVE AcksTo(s, jm)' = AcksTo(s, jm)
  <2>1. AcksTo(s, jm)' = AcksTo(s, jm) - (IF jm = "sjm" /\ "self" = "ack" THEN now[1].n ELSE 0)
                         + (IF <<jm, "ack">> \in {<<"sched", "fin">>} THEN 0 ELSE 0)
    BY ONLY <1>2 DEF Took
  <2> QED BY ONLY <1>3, <2>1
<1>6. /\ sflow[s] \in Flow /\ sflow[s].st = "done" /\ N("sjm", "self", s)' = 0 /\ srv[s] = "RESPONDED"
  <2>1. sflow[s].st = "done" /\ N("sjm", "self", s) = 1
    BY ONLY <1>3, <1>4 DEF FlowsOK, One
  <2>2. srv[s] # "INIT"
    BY ONLY <1>3, <2>1 DEF FlowsOK
  <2>3. srv[s] # "FINISH"
    BY ONLY <1>3, <2>1 DEF RequestOK
  <2> QED BY <1>3, <1>4, <2>1, <2>2, <2>3, FlowsTyped
<1>7. sflow'[s] \in Flow /\ sflow'[s].st = "gone"
      /\ sflow'[s].net = sflow[s].net /\ sflow'[s].sto = sflow[s].sto /\ sflow'[s].off = sflow[s].off
  <2>1. s \in DOMAIN sflow
    BY DEF Begun, Typed
  <2>2. "gone" \in FlowStates
    BY DEF FlowStates
  <2>3. sflow'[s] = [sflow[s] EXCEPT !.st = "gone"]
    BY <1>1, <2>1
  <2> QED BY ONLY <1>6, <2>2, <2>3 DEF Flow
<1>8. /\ Asking(s)' = Asking(s) /\ Answering(s)' = Answering(s) /\ Completing(s)' = Completing(s)
      /\ Starting(s)' = Starting(s) /\ Finishing(s)' = 1
  <2>1. \A t : Sent(down[s], t)' = Sent(down[s], t) /\ Sent(up[s], t)' = Sent(up[s], t)
    BY <1>1
  <2>2. /\ Asking(s)' = Asking(s) /\ Answering(s)' = Answering(s) /\ Completing(s)' = Completing(s)
        /\ Starting(s)' = Starting(s)
    BY ONLY <1>4, <2>1 DEF Asking, Answering, Starting, Completing
  <2>3. Finishing(s) = 0
    BY ONLY <1>3, <1>6 DEF RequestOK, One
  <2>4. Finishing(s)' = Finishing(s) + 1
    BY ONLY <1>3, <1>4 DEF Finishing
  <2> QED BY ONLY <2>2, <2>3, <2>4
<1>9. RequestOK(s)'
  <2>1. /\ mode' = mode /\ plan' = plan /\ srv' = srv /\ req' = req
        /\ N("client", "resp", s)' = N("client", "resp", s)
    BY ONLY <1>1, <1>4
  <2> QED BY ONLY <1>3, <1>6, <1>7, <1>8, <2>1 DEF RequestOK, One
<1>10. FlowsOK(s)'
  <2>1. /\ N("cjm", "self", s)' = N("cjm", "self", s) /\ N("cjm", "start", s)' = N("cjm", "start", s)
        /\ N("client", "fin", s)' = N("client", "fin", s)
        /\ N("sched", "req", s)' = N("sched", "req", s) /\ N("server", "req", s)' = N("server", "req", s)
    BY ONLY <1>4
  <2>2. ~(plan[s] <= 0)
    BY ONLY <1>3, <1>6 DEF FlowsOK
  <2> QED BY ONLY <1>1, <1>3, <1>6, <1>7, <1>8, <2>1, <2>2 DEF FlowsOK, One
<1>11. MovedOK(s)'
  <2>1. FlowOK(sflow[s], plan[s])'
    <3>1. sflow[s].net = plan[s] /\ sflow[s].sto = plan[s]
      BY ONLY <1>3, <1>6 DEF MovedOK, FlowOK
    <3> QED BY ONLY <1>1, <1>7, <3>1 DEF FlowOK, Flow
  <2> QED BY ONLY <1>1, <1>3, <1>5, <1>7, <2>1 DEF MovedOK, Source
<1>12. BuffersFull(s)'
  BY ONLY <1>1, <1>3, <1>4, <1>7 DEF BuffersFull, Source
<1>13. AnswerFirst(s)'
  <2>1. /\ N("sched", "resp", s)' = N("sched", "resp", s) /\ N("sjm", "resp", s)' = N("sjm", "resp", s)
    BY ONLY <1>4
  <2> QED BY ONLY <1>1, <1>3, <1>4, <1>7, <1>8, <2>1 DEF AnswerFirst
<1>14. ServerOK(s)'
  BY ONLY <1>1, <1>3, <1>9, <1>10, <1>11, <1>12, <1>13 DEF ServerOK
<1>15. Flows(s)' <=> Flows(s)
  BY ONLY <1>1, <1>4 DEF Flows
<1>16. /\ mode = "write" => (req'[s] = "live" <=> req[s] = "live")
       /\ Asking(s)' + Answering(s)' = Asking(s) + Answering(s)
       /\ phase' = phase /\ remaining' = remaining
  BY ONLY <1>1, <1>8
<1> QED BY <1>3, <1>4, <1>14, <1>15, <1>16, CountsKept

-----------------------------------------------------------------------------
\* The starts of the flows.
LEMMA FlowStarted ==
  ASSUME NEW n \in Nat, NEW f, f = [NoFlow EXCEPT !.st = "active", !.off = n]
  PROVE  f \in Flow /\ f.st = "active" /\ f.net = 0 /\ f.sto = 0 /\ f.off = n
BY DEF NoFlow, Flow, FlowStates

\* The buffers sent first, or none.
LEMMA FirstChunks ==
  ASSUME NEW s \in Servers, plan[s] \in Nat, NumBuffers \in Nat \ {0}, BufferSize \in Nat \ {0}, NEW source \in BOOLEAN,
         NEW chunks, chunks = IF source THEN NextChunks(s, 0, NumBuffers) ELSE << >>
  PROVE  /\ chunks \in Seq(Nat \ {0}) /\ SumOf(chunks) \in Nat
         /\ SumOf(chunks) <= NumBuffers * BufferSize /\ SumOf(chunks) <= plan[s]
         /\ SumOf(chunks) < plan[s] => \A n \in ToSet(chunks) : n = BufferSize
         /\ ~source => SumOf(chunks) = 0 /\ chunks = << >>
<1>0. NumBuffers * BufferSize \in Nat
  BY MulGrows
<1>1. CASE source
  <2>1. PICK c : c = NextChunks(s, 0, NumBuffers)
    OBVIOUS
  <2>2. /\ c \in Seq(Nat \ {0}) /\ SumOf(c) \in Nat /\ SumOf(c) <= NumBuffers * BufferSize
        /\ 0 + SumOf(c) <= plan[s] /\ (0 + SumOf(c) < plan[s] => \A n \in ToSet(c) : n = BufferSize)
    BY <2>1, ChunksAre
  <2>3. PICK x \in Nat : x = SumOf(c)
    BY <2>2
  <2> QED BY <1>1, <2>1, <2>2, <2>3
<1>2. CASE ~source
  <2>1. chunks = << >> /\ chunks \in Seq(Nat \ {0}) /\ ToSet(chunks) = {}
    BY <1>2 DEF ToSet
  <2> QED BY <1>0, <1>2, <2>1, SumEmpty
<1> QED BY <1>1, <1>2

LEMMA StartClientFlowKeeps ==
  ASSUME Begun, NEW s \in Servers, StartClientFlow(s)
  PROVE  Begun'
<1>1. PICK chunks :
        /\ chunks = (IF mode = "write" THEN NextChunks(s, 0, NumBuffers) ELSE << >>)
        /\ Handle("cjm", "start", s, << >>)
        /\ cflow' = [cflow EXCEPT ![s] = [NoFlow EXCEPT !.st = "active", !.off = SumOf(chunks)]]
        /\ down' = [down EXCEPT ![s] = @ \o Pushes(chunks)]
        /\ UNCHANGED <<mode, plan, phase, remaining, req, srv, sflow, up, disk, bstream>>
  BY DEF StartClientFlow, client
<1>2. Took("cjm", "start", s, {}, 0)
  BY <1>1, NoneLeft, AfterHandle
<1>3. /\ ServerOK(s) /\ RequestOK(s) /\ FlowsOK(s) /\ MovedOK(s) /\ BuffersFull(s) /\ AnswerFirst(s)
      /\ mode \in {"read", "write"} /\ plan[s] \in Nat \cup {Skip}
      /\ \A a, t : N(a, t, s) \in Nat
      /\ down[s] \in Seq(Packets) /\ InFlight(s, down[s]) \in Nat
      /\ \A jm : AcksTo(s, jm) \in Nat
      /\ down'[s] = down[s] \o Pushes(chunks) /\ Local(s)
      /\ cflow'[s] = [NoFlow EXCEPT !.st = "active", !.off = SumOf(chunks)]
  BY <1>1, Known DEF Begun, Typed, Local
<1>4. /\ Typed' /\ \A u \in Servers \ {s} : SameEvents(u)
      /\ \A e \in ToSet(now') : e \in ToSet(now)
      /\ AckBefore(now, s) => AckBefore(now, s)'
      /\ N("cjm", "start", s) \in Nat \ {0} /\ N("cjm", "start", s)' = N("cjm", "start", s) - 1
      /\ \A a, t : a # "cjm" \/ t # "start" => N(a, t, s)' = N(a, t, s)
  BY ONLY <1>2, <1>3 DEF Took
<1>5. ASSUME NEW jm PROVE AcksTo(s, jm)' = AcksTo(s, jm)
  <2>1. AcksTo(s, jm)' = AcksTo(s, jm) - (IF jm = "cjm" /\ "start" = "ack" THEN now[1].n ELSE 0)
                         + (IF <<jm, "ack">> \in {} THEN 0 ELSE 0)
    BY ONLY <1>2 DEF Took
  <2> QED BY ONLY <1>3, <2>1
<1>6. /\ plan[s] > 0 /\ plan[s] \in Nat /\ cflow[s] = NoFlow /\ cflow[s].st = "none"
      /\ N("cjm", "start", s) = 1
      /\ Asking(s) \in Nat /\ Answering(s) \in Nat
  <2>1. ~(plan[s] <= 0)
    BY ONLY <1>3, <1>4 DEF FlowsOK
  <2>2. plan[s] > 0 /\ plan[s] \in Nat
    BY ONLY <1>3, <2>1 DEF Skip
  <2>3. Asking(s) \in Nat /\ Answering(s) \in Nat
    BY Chains
  <2>4. cflow[s].st = "none" /\ N("cjm", "start", s) = 1
    <3>1. CASE mode = "read"
      BY ONLY <1>3, <1>4, <2>2, <3>1 DEF FlowsOK, One
    <3>2. CASE mode = "write"
      BY ONLY <1>3, <1>4, <2>2, <2>3, <3>2 DEF FlowsOK, One
    <3> QED BY <1>3, <3>1, <3>2
  <2>5. cflow[s] = NoFlow
    BY ONLY <1>3, <2>4 DEF MovedOK, FlowOK
  <2> QED BY ONLY <2>2, <2>3, <2>4, <2>5
<1>7. /\ chunks \in Seq(Nat \ {0}) /\ SumOf(chunks) \in Nat
      /\ SumOf(chunks) <= NumBuffers * BufferSize /\ SumOf(chunks) <= plan[s]
      /\ SumOf(chunks) < plan[s] => \A n \in ToSet(chunks) : n = BufferSize
      /\ mode = "read" => SumOf(chunks) = 0 /\ chunks = << >>
  BY <1>1, <1>6, Before, FirstChunks
<1>8. /\ cflow'[s] \in Flow /\ cflow'[s].st = "active"
      /\ cflow'[s].net = 0 /\ cflow'[s].sto = 0 /\ cflow'[s].off = SumOf(chunks)
  <2>0. PICK x \in Nat : x = SumOf(chunks)
    BY <1>7
  <2>1. PICK f : f = [NoFlow EXCEPT !.st = "active", !.off = x]
    OBVIOUS
  <2>2. f \in Flow /\ f.st = "active" /\ f.net = 0 /\ f.sto = 0 /\ f.off = x
    BY <2>1, FlowStarted
  <2>3. cflow'[s] = f
    BY ONLY <1>3, <2>0, <2>1
  <2> QED BY ONLY <2>0, <2>2, <2>3
<1>9. /\ down'[s] \in Seq(Packets)
      /\ \A p \in ToSet(down'[s]) : p \in ToSet(down[s]) \/ (p.type = "push" /\ p.n \in ToSet(chunks))
      /\ \A t : t # "push" => Sent(down[s], t)' = Sent(down[s], t)
      /\ InFlight(s, down'[s]) = InFlight(s, down[s]) + SumOf(chunks)
  BY <1>3, <1>7, PushesAre
<1>10. /\ Asking(s)' = Asking(s) /\ Answering(s)' = Answering(s) /\ Completing(s)' = Completing(s)
       /\ Starting(s)' = Starting(s) /\ Finishing(s)' = Finishing(s)
  <2>1. \A t : Sent(up[s], t)' = Sent(up[s], t)
    BY <1>1
  <2>2. Sent(down[s], "req")' = Sent(down[s], "req")
    BY <1>9
  <2> QED BY ONLY <1>4, <2>1, <2>2 DEF Asking, Answering, Starting, Finishing, Completing
<1>11. RequestOK(s)'
  <2>1. /\ mode' = mode /\ plan' = plan /\ srv' = srv /\ sflow' = sflow /\ req' = req
        /\ N("client", "resp", s)' = N("client", "resp", s)
    BY ONLY <1>1, <1>4
  <2> QED BY ONLY <1>3, <1>10, <2>1 DEF RequestOK
<1>12. FlowsOK(s)'
  <2>1. /\ N("cjm", "self", s)' = N("cjm", "self", s) /\ N("sjm", "self", s)' = N("sjm", "self", s)
        /\ N("client", "fin", s)' = N("client", "fin", s)
        /\ N("cjm", "start", s)' = 0
    BY ONLY <1>4, <1>6
  <2>2. N("cjm", "self", s) = 0 /\ N("client", "fin", s) = 0
    BY ONLY <1>3, <1>6 DEF FlowsOK, One
  <2>3. mode = "write" => Asking(s) = 0 /\ Answering(s) = 0
    BY ONLY <1>3, <1>6 DEF FlowsOK, One
  <2>4. ~(plan[s] <= 0)
    BY ONLY <1>6
  <2> QED BY ONLY <1>1, <1>3, <1>6, <1>8, <1>10, <2>1, <2>2, <2>3, <2>4 DEF FlowsOK, One
<1>13. MovedOK(s)'
  <2>1. FlowOK(cflow[s], plan[s])' /\ FlowOK(sflow[s], plan[s])'
    <3>1. FlowOK(cflow[s], plan[s])'
      BY ONLY <1>1, <1>6, <1>8 DEF FlowOK, Flow
    <3> QED BY ONLY <1>1, <1>3, <3>1 DEF MovedOK
  <2>2. CASE mode = "read"
    <3>1. InFlight(s, down'[s]) = 0 /\ cflow'[s].off = 0
      BY ONLY <1>3, <1>7, <1>8, <1>9, <2>2 DEF MovedOK
    <3>2. cflow[s].net = 0 /\ cflow'[s].net = 0 /\ cflow'[s].sto = 0
      BY ONLY <1>6, <1>8 DEF NoFlow
    <3> QED BY ONLY <1>1, <1>3, <1>5, <2>1, <2>2, <3>1, <3>2 DEF MovedOK, Source
  <2>3. CASE mode = "write"
    <3>1. PICK x \in Nat : x = SumOf(chunks)
      BY <1>7
    <3>2. sflow[s].net \in Nat
      BY FlowsTyped
    <3>3. sflow[s].net = 0 /\ InFlight(s, down[s]) = 0 /\ cflow[s].net = 0
      <4>1. PICK y \in Nat, z \in Nat : y = InFlight(s, down[s]) /\ z = sflow[s].net
        BY <1>3, <3>2
      <4>2. cflow[s].off = y + z
        BY ONLY <1>3, <2>3, <4>1 DEF MovedOK
      <4>3. cflow[s].off = 0 /\ cflow[s].net = 0
        BY ONLY <1>6 DEF NoFlow
      <4> QED BY ONLY <4>1, <4>2, <4>3
    <3>4. InFlight(s, down'[s]) = x
      BY ONLY <1>9, <3>1, <3>3
    <3>5. cflow'[s].off = x /\ cflow'[s].net = 0 /\ cflow'[s].sto = 0 /\ x <= plan[s]
      BY ONLY <1>7, <1>8, <3>1
    <3>6. PICK w \in Nat : w = NumBuffers * BufferSize
      BY Before, MulGrows
    <3>7. x - 0 <= w
      BY ONLY <1>7, <3>1, <3>6
    <3> QED BY ONLY <1>1, <1>3, <1>5, <2>1, <2>3, <3>2, <3>3, <3>4, <3>5, <3>6, <3>7 DEF MovedOK, Source
  <2> QED BY <1>3, <2>2, <2>3
<1>14. BuffersFull(s)'
  <2>1. CASE mode = "read"
    <3>1. chunks = << >> /\ ToSet(chunks) = {}
      BY <1>7, <2>1 DEF ToSet
    <3> QED BY ONLY <1>1, <1>3, <1>4, <1>9, <2>1, <3>1 DEF BuffersFull, Source
  <2>2. CASE mode = "write"
    <3>1. cflow[s].off < plan[s]
      BY ONLY <1>6 DEF NoFlow
    <3> QED BY ONLY <1>1, <1>3, <1>4, <1>7, <1>8, <1>9, <2>2, <3>1 DEF BuffersFull, Source, Full
  <2> QED BY <1>3, <2>1, <2>2
<1>15. AnswerFirst(s)'
  <2>1. /\ N("sched", "resp", s)' = N("sched", "resp", s) /\ N("sjm", "resp", s)' = N("sjm", "resp", s)
        /\ cflow'[s].net = cflow[s].net
    BY ONLY <1>4, <1>6, <1>8 DEF NoFlow
  <2>2. up' = up /\ sflow' = sflow /\ mode' = mode
    BY ONLY <1>1
  <2> QED BY ONLY <1>3, <1>4, <1>10, <2>1, <2>2 DEF AnswerFirst
<1>16. ServerOK(s)'
  <2>1. Sent(down[s], "resp")' = 0 /\ Sent(down[s], "comp")' = 0
    BY ONLY <1>3, <1>9 DEF ServerOK
  <2> QED BY ONLY <1>1, <1>3, <1>9, <1>11, <1>12, <1>13, <1>14, <1>15, <2>1 DEF ServerOK
<1>17. Flows(s)' <=> Flows(s)
  BY ONLY <1>6, <1>8 DEF Flows
<1>18. /\ mode = "write" => (req'[s] = "live" <=> req[s] = "live")
       /\ Asking(s)' + Answering(s)' = Asking(s) + Answering(s)
       /\ phase' = phase /\ remaining' = remaining
  BY ONLY <1>1, <1>10
<1> QED BY <1>3, <1>4, <1>16, <1>17, <1>18, CountsKept

\* What a disk is given to do next.
LEMMA DiskQueued ==
  ASSUME NEW q \in Seq(Nat \ {0}), NEW c \in Seq(Nat \ {0})
  PROVE  /\ q \o c \in Seq(Nat \ {0}) /\ SumOf(q \o c) = SumOf(q) + SumOf(c)
         /\ \A n \in ToSet(q \o c) : n \in ToSet(q) \/ n \in ToSet(c)
<1>1. q \in Seq(Nat) /\ c \in Seq(Nat)
  OBVIOUS
<1>2. SumOf(q \o c) = SumOf(q) + SumOf(c)
  BY <1>1, SumConcat
<1>3. q \o c \in Seq(Nat \ {0})
  OBVIOUS
<1>4. ASSUME NEW n \in ToSet(q \o c) PROVE n \in ToSet(q) \/ n \in ToSet(c)
  BY <1>3 DEF ToSet
<1> QED BY <1>2, <1>3, <1>4

LEMMA StartServerFlowKeeps ==
  ASSUME Begun, NEW s \in Servers, StartServerFlow(s)
  PROVE  Begun'
<1>1. PICK chunks :
        /\ chunks = (IF mode = "read" THEN NextChunks(s, 0, NumBuffers) ELSE << >>)
        /\ Handle("sjm", "start", s, << >>)
        /\ sflow' = [sflow EXCEPT ![s] = [NoFlow EXCEPT !.st = "active", !.off = SumOf(chunks)]]
        /\ disk' = [disk EXCEPT ![s] = @ \o chunks]
        /\ UNCHANGED <<mode, plan, phase, remaining, req, srv, cflow, down, up, bstream>>
  BY DEF StartServerFlow, client
<1>2. Took("sjm", "start", s, {}, 0)
  BY <1>1, NoneLeft, AfterHandle
<1>3. /\ ServerOK(s) /\ RequestOK(s) /\ FlowsOK(s) /\ MovedOK(s) /\ BuffersFull(s) /\ AnswerFirst(s)
      /\ mode \in {"read", "write"} /\ plan[s] \in Nat \cup {Skip}
      /\ \A a, t : N(a, t, s) \in Nat
      /\ disk[s] \in Seq(Nat \ {0}) /\ SumOf(disk[s]) \in Nat
      /\ InFlight(s, up[s]) \in Nat
      /\ \A jm : AcksTo(s, jm) \in Nat
      /\ disk'[s] = disk[s] \o chunks /\ Local(s)
      /\ sflow'[s] = [NoFlow EXCEPT !.st = "active", !.off = SumOf(chunks)]
  BY <1>1, Known DEF Begun, Typed, Local
<1>4. /\ Typed' /\ \A u \in Servers \ {s} : SameEvents(u)
      /\ \A e \in ToSet(now') : e \in ToSet(now)
      /\ AckBefore(now, s) => AckBefore(now, s)'
      /\ N("sjm", "start", s) \in Nat \ {0} /\ N("sjm", "start", s)' = N("sjm", "start", s) - 1
      /\ \A a, t : a # "sjm" \/ t # "start" => N(a, t, s)' = N(a, t, s)
  BY ONLY <1>2, <1>3 DEF Took
<1>5. ASSUME NEW jm PROVE AcksTo(s, jm)' = AcksTo(s, jm)
  <2>1. AcksTo(s, jm)' = AcksTo(s, jm) - (IF jm = "sjm" /\ "start" = "ack" THEN now[1].n ELSE 0)
                         + (IF <<jm, "ack">> \in {} THEN 0 ELSE 0)
    BY ONLY <1>2 DEF Took
  <2> QED BY ONLY <1>3, <2>1
<1>6. /\ plan[s] > 0 /\ plan[s] \in Nat /\ sflow[s] = NoFlow /\ sflow[s].st = "none"
      /\ Starting(s) = 1 /\ Starting(s)' = 0 /\ srv[s] # "INIT"
  <2>1. Starting(s) = 1
    BY <1>4, Chains, OneAtMost
  <2>2. srv[s] # "INIT" /\ plan[s] > 0 /\ sflow[s].st = "none"
    BY ONLY <1>3, <2>1 DEF RequestOK, One
  <2>3. Starting(s)' = Starting(s) - 1
    <3>1. N("sched", "start", s)' = N("sched", "start", s)
      BY ONLY <1>4
    <3>2. PICK x \in Nat, y \in Nat : x = N("sched", "start", s) /\ y = N("sjm", "start", s)
      BY <1>3
    <3>3. Starting(s) = x + y /\ Starting(s)' = x + (y - 1)
      BY ONLY <1>4, <3>1, <3>2 DEF Starting
    <3> QED BY ONLY <3>2, <3>3
  <2>4. sflow[s] = NoFlow
    BY ONLY <1>3, <2>2 DEF MovedOK, FlowOK
  <2> QED BY ONLY <1>3, <2>1, <2>2, <2>3, <2>4 DEF Skip
<1>7. /\ chunks \in Seq(Nat \ {0}) /\ SumOf(chunks) \in Nat
      /\ SumOf(chunks) <= NumBuffers * BufferSize /\ SumOf(chunks) <= plan[s]
      /\ SumOf(chunks) < plan[s] => \A n \in ToSet(chunks) : n = BufferSize
      /\ mode = "write" => SumOf(chunks) = 0 /\ chunks = << >>
  BY <1>1, <1>6, Before, FirstChunks
<1>8. /\ sflow'[s] \in Flow /\ sflow'[s].st = "active"
      /\ sflow'[s].net = 0 /\ sflow'[s].sto = 0 /\ sflow'[s].off = SumOf(chunks)
  <2>0. PICK x \in Nat : x = SumOf(chunks)
    BY <1>7
  <2>1. PICK f : f = [NoFlow EXCEPT !.st = "active", !.off = x]
    OBVIOUS
  <2>2. f \in Flow /\ f.st = "active" /\ f.net = 0 /\ f.sto = 0 /\ f.off = x
    BY <2>1, FlowStarted
  <2>3. sflow'[s] = f
    BY ONLY <1>3, <2>0, <2>1
  <2> QED BY ONLY <2>0, <2>2, <2>3
<1>9. /\ disk'[s] \in Seq(Nat \ {0})
      /\ \A n \in ToSet(disk'[s]) : n \in ToSet(disk[s]) \/ n \in ToSet(chunks)
      /\ SumOf(disk'[s]) = SumOf(disk[s]) + SumOf(chunks)
  BY <1>3, <1>7, DiskQueued
<1>10. /\ Asking(s)' = Asking(s) /\ Answering(s)' = Answering(s) /\ Completing(s)' = Completing(s)
       /\ Finishing(s)' = Finishing(s)
  <2>1. \A t : Sent(up[s], t)' = Sent(up[s], t) /\ Sent(down[s], t)' = Sent(down[s], t)
    BY <1>1
  <2> QED BY ONLY <1>4, <2>1 DEF Asking, Answering, Finishing, Completing
<1>11. RequestOK(s)'
  <2>1. /\ mode' = mode /\ plan' = plan /\ srv' = srv /\ req' = req
        /\ N("client", "resp", s)' = N("client", "resp", s)
    BY ONLY <1>1, <1>4
  <2>2. Finishing(s) = 0 /\ srv[s] # "FINISH"
    BY ONLY <1>3, <1>6 DEF RequestOK, One
  <2> QED BY ONLY <1>3, <1>6, <1>8, <1>10, <2>1, <2>2 DEF RequestOK, One
<1>12. FlowsOK(s)'
  <2>1. /\ N("cjm", "self", s)' = N("cjm", "self", s) /\ N("sjm", "self", s)' = N("sjm", "self", s)
        /\ N("client", "fin", s)' = N("client", "fin", s) /\ N("cjm", "start", s)' = N("cjm", "start", s)
        /\ N("sched", "req", s)' = N("sched", "req", s) /\ N("server", "req", s)' = N("server", "req", s)
    BY ONLY <1>4
  <2>2. N("sjm", "self", s) = 0
    BY ONLY <1>3, <1>6 DEF FlowsOK, One
  <2>4. ~(plan[s] <= 0)
    BY ONLY <1>6
  <2> QED BY ONLY <1>1, <1>3, <1>6, <1>8, <1>10, <2>1, <2>2, <2>4 DEF FlowsOK, One
<1>13. MovedOK(s)'
  <2>1. FlowOK(cflow[s], plan[s])' /\ FlowOK(sflow[s], plan[s])'
    <3>1. FlowOK(sflow[s], plan[s])'
      BY ONLY <1>1, <1>6, <1>8 DEF FlowOK, Flow
    <3> QED BY ONLY <1>1, <1>3, <3>1 DEF MovedOK
  <2>0. sflow[s].net = 0 /\ sflow[s].sto = 0 /\ sflow[s].off = 0
    BY ONLY <1>6 DEF NoFlow
  <2>2. CASE mode = "write"
    <3>1. SumOf(disk'[s]) = SumOf(disk[s]) /\ sflow'[s].off = 0
      BY ONLY <1>3, <1>7, <1>8, <1>9, <2>2
    <3> QED BY ONLY <1>1, <1>3, <1>5, <1>8, <2>0, <2>1, <2>2, <3>1 DEF MovedOK, Source
  <2>3. CASE mode = "read"
    <3>1. PICK x \in Nat, d \in Nat : x = SumOf(chunks) /\ d = SumOf(disk[s])
      BY <1>3, <1>7
    <3>2. d = 0
      <4>1. sflow[s].off = d + sflow[s].sto
        BY ONLY <1>3, <2>3, <3>1 DEF MovedOK
      <4> QED BY ONLY <2>0, <3>1, <4>1
    <3>3. SumOf(disk'[s]) = x
      BY ONLY <1>9, <3>1, <3>2
    <3>5. sflow'[s].off = x /\ sflow'[s].net = 0 /\ sflow'[s].sto = 0 /\ x <= plan[s]
      BY ONLY <1>7, <1>8, <3>1
    <3>6. PICK w \in Nat : w = NumBuffers * BufferSize
      BY Before, MulGrows
    <3>7. x - 0 <= w
      BY ONLY <1>7, <3>1, <3>6
    <3>8. /\ mode' = "read" /\ mode' # "write" /\ plan' = plan /\ cflow' = cflow /\ down' = down /\ up' = up
          /\ Source(s)' = sflow'[s]
      BY ONLY <1>1, <2>3 DEF Source
    <3>9. /\ cflow[s].off = 0 /\ InFlight(s, down[s]) = 0 /\ AcksTo(s, "cjm") = 0 /\ cflow[s].net = cflow[s].sto
          /\ sflow[s].sto = InFlight(s, up[s]) + cflow[s].net
          /\ cflow[s].net = AcksTo(s, "sjm") + sflow[s].net
      BY ONLY <1>3, <2>3 DEF MovedOK
    <3>10. sflow'[s].off = SumOf(disk'[s]) + sflow'[s].sto
      BY ONLY <3>1, <3>3, <3>5
    <3>11. sflow'[s].off - sflow'[s].net <= NumBuffers * BufferSize
      BY ONLY <3>5, <3>6, <3>7
    <3> QED BY ONLY <1>5, <2>0, <2>1, <3>5, <3>8, <3>9, <3>10, <3>11 DEF MovedOK
  <2> QED BY <1>3, <2>2, <2>3
<1>14. BuffersFull(s)'
  <2>1. CASE mode = "write"
    BY ONLY <1>1, <1>3, <1>4, <2>1 DEF BuffersFull, Source
  <2>2. CASE mode = "read"
    <3>1. sflow[s].off < plan[s]
      BY ONLY <1>6 DEF NoFlow
    <3> QED BY ONLY <1>1, <1>3, <1>4, <1>7, <1>8, <1>9, <2>2, <3>1 DEF BuffersFull, Source, Full
  <2> QED BY <1>3, <2>1, <2>2
<1>15. AnswerFirst(s)'
  <2>1. /\ N("sched", "resp", s)' = N("sched", "resp", s) /\ N("sjm", "resp", s)' = N("sjm", "resp", s)
        /\ sflow'[s].net = sflow[s].net
    BY ONLY <1>4, <1>6, <1>8 DEF NoFlow
  <2>2. up' = up /\ cflow' = cflow /\ mode' = mode
    BY ONLY <1>1
  <2> QED BY ONLY <1>3, <1>4, <1>10, <2>1, <2>2 DEF AnswerFirst
<1>16. ServerOK(s)'
  BY ONLY <1>1, <1>3, <1>9, <1>11, <1>12, <1>13, <1>14, <1>15 DEF ServerOK
<1>17. Flows(s)' <=> Flows(s)
  BY ONLY <1>1, <1>4 DEF Flows
<1>18. /\ mode = "write" => (req'[s] = "live" <=> req[s] = "live")
       /\ Asking(s)' + Answering(s)' = Asking(s) + Answering(s)
       /\ phase' = phase /\ remaining' = remaining
  BY ONLY <1>1, <1>10
<1> QED BY <1>3, <1>4, <1>16, <1>17, <1>18, CountsKept

-----------------------------------------------------------------------------
\* What a flow counts.
LEMMA AfterIs ==
  ASSUME NEW s \in Servers, NEW g \in Flow, g.st = "active"
  PROVE  /\ After(g, s) \in Flow /\ FlowOK(After(g, s), plan[s])
         /\ After(g, s).st = IF Completed(g, s) THEN "done" ELSE "active"
         /\ After(g, s).net = g.net /\ After(g, s).sto = g.sto /\ After(g, s).off = g.off
<1>1. "done" \in FlowStates /\ "active" \in FlowStates
  BY DEF FlowStates
<1>2. CASE Completed(g, s)
  <2>1. PICK h : h = [g EXCEPT !.st = "done"]
    OBVIOUS
  <2>2. h \in Flow /\ h.st = "done" /\ h.net = g.net /\ h.sto = g.sto /\ h.off = g.off
    BY ONLY g \in Flow, <1>1, <2>1 DEF Flow
  <2>3. After(g, s) = h
    BY <1>2, <2>1 DEF After
  <2>4. FlowOK(h, plan[s])
    BY ONLY <1>2, <2>2 DEF FlowOK, Flow, Completed
  <2> QED BY ONLY <1>2, <2>2, <2>3, <2>4
<1>3. CASE ~Completed(g, s)
  <2>1. After(g, s) = g
    BY <1>3 DEF After
  <2>2. FlowOK(g, plan[s])
    BY ONLY g \in Flow, g.st = "active", <1>3 DEF FlowOK, Flow, Completed
  <2> QED BY <1>3, <2>1, <2>2
<1> QED BY <1>2, <1>3

LEMMA ProgressIs ==
  ASSUME NEW c \in Flow, NEW m \in Nat
  PROVE  /\ ClientProgress(c, m) \in Flow
         /\ ClientProgress(c, m).st = c.st /\ ClientProgress(c, m).off = c.off
         /\ ClientProgress(c, m).net = c.net + m /\ ClientProgress(c, m).sto = c.sto + m
<1>1. PICK a \in Nat, b \in Nat : a = c.net + m /\ b = c.sto + m
  BY DEF Flow
<1>2. PICK h : h = [c EXCEPT !.net = a, !.sto = b]
  OBVIOUS
<1>3. h \in Flow /\ h.st = c.st /\ h.net = a /\ h.sto = b /\ h.off = c.off
  BY ONLY c \in Flow, a \in Nat, b \in Nat, <1>2 DEF Flow
<1>4. ClientProgress(c, m) = h
  BY <1>1, <1>2 DEF ClientProgress
<1> QED BY ONLY <1>1, <1>3, <1>4

LEMMA AdvanceIs ==
  ASSUME NEW h \in Flow, NEW x \in Nat
  PROVE  LET k == [h EXCEPT !.off = @ + x]
         IN k \in Flow /\ k.st = h.st /\ k.net = h.net /\ k.sto = h.sto /\ k.off = h.off + x
BY DEF Flow


Ending(g, s, jm) == IF Completed(g, s) THEN {<<jm, "self">>} ELSE {}
LEMMA FinishLeaves ==
  ASSUME NEW s \in Servers, NEW g, NEW jm \in {"cjm", "sjm"}
  PROVE  Leaves(FinishOf(g, s, jm), s, Ending(g, s, jm), 0)
<1>1. CASE Completed(g, s)
  <2>1. Due(jm, "self")
    BY DEF Due
  <2>2. Leaves(<<Ev(jm, "self", s, 0)>>, s, {<<jm, "self">>}, 0)
    BY <2>1, OneLeft
  <2> QED BY <1>1, <2>2 DEF FinishOf, Ending
<1>2. CASE ~Completed(g, s)
  BY <1>2, NoneLeft DEF FinishOf, Ending
<1> QED BY <1>1, <1>2

\* The acknowledgement that is handled.
LEMMA AckDue ==
  ASSUME Begun, NEW s \in Servers, NEW jm, now # << >>, Is(now[1], jm, "ack", s)
  PROVE  /\ now[1].n \in Nat \ {0} /\ AcksTo(s, jm) \in Nat /\ AcksTo(s, jm) >= now[1].n
         /\ Source(s).off < plan[s] => now[1].n = BufferSize
<1>1. now \in Seq(Events) /\ BuffersFull(s) /\ 1 \in 1..Len(now)
  BY Before
<1>2. now[1] \in Events /\ now[1] \in ToSet(now)
  BY <1>1 DEF ToSet
<1>3. now[1].n \in Nat \ {0}
  BY ONLY <1>2, Is(now[1], jm, "ack", s) DEF Events, Is
<1>4. AcksTo(s, jm) = Total(now, AckBytes(jm, s))
  BY <1>1, AcksAre DEF AcksTo
<1>5. AckBytes(jm, s) \in [Events -> Nat] /\ AckBytes(jm, s)[now[1]] = now[1].n
  <2>1. AckBytes(jm, s)[now[1]] = AckOf(now[1], jm, s)
    BY <1>2, WeightsAre
  <2> QED BY <2>1, WeightsAre DEF AckOf
<1>6. Total(now, AckBytes(jm, s)) >= AckBytes(jm, s)[now[1]] /\ Total(now, AckBytes(jm, s)) \in Nat
  BY <1>1, <1>5, TotalZero, TotalNat
<1>7. Source(s).off < plan[s] => now[1].n = BufferSize
  BY <1>1, <1>2 DEF BuffersFull, Is, Full
<1> QED BY ONLY <1>3, <1>4, <1>5, <1>6, <1>7

\* A flow that is still to be told of bytes has not yet done, and has begun.
LEMMA ClientStillFlows ==
  ASSUME Begun, NEW s \in Servers, mode = "write", AcksTo(s, "cjm") > 0
  PROVE  cflow[s].st = "active"
<1>1. PICK a \in Nat, b \in Nat, c \in Nat, i \in Nat, d \in Nat :
        /\ a = AcksTo(s, "cjm") /\ b = cflow[s].net /\ c = sflow[s].net
        /\ i = InFlight(s, down[s]) /\ d = cflow[s].off
  BY Known, FlowsTyped
<1>2. d = i + c /\ c = a + b /\ (plan[s] > 0 => d <= plan[s]) /\ a > 0
  <2>1. MovedOK(s)
    BY Known
  <2>2. /\ cflow[s].off = InFlight(s, down[s]) + sflow[s].net
        /\ sflow[s].net = AcksTo(s, "cjm") + cflow[s].net
        /\ plan[s] > 0 => cflow[s].off <= plan[s]
    BY ONLY mode = "write", <2>1 DEF MovedOK, Source
  <2> QED BY ONLY AcksTo(s, "cjm") > 0, <1>1, <2>2
<1>3. cflow[s].st # "none"
  <2>1. cflow[s].st = "none" => cflow[s].off = 0
    BY FlowsTyped
  <2> QED BY ONLY <1>1, <1>2, <2>1
<1>4. plan[s] > 0 /\ plan[s] \in Nat
  BY <1>3, Known DEF FlowsOK, Skip
<1>5. cflow[s].net # plan[s]
  BY ONLY <1>1, <1>2, <1>4
<1>6. cflow[s].st \notin {"done", "gone"} /\ cflow[s].st \in FlowStates
  BY <1>5, FlowsTyped DEF Flow
<1> QED BY ONLY <1>3, <1>6 DEF FlowStates

LEMMA ServerStillFlows ==
  ASSUME Begun, NEW s \in Servers, mode = "read", AcksTo(s, "sjm") > 0
  PROVE  sflow[s].st = "active" /\ cflow[s].net > 0
<1>1. PICK a \in Nat, b \in Nat, c \in Nat, i \in Nat, d \in Nat, e \in Nat, k \in Nat :
        /\ a = AcksTo(s, "sjm") /\ b = sflow[s].net /\ c = cflow[s].net
        /\ i = InFlight(s, up[s]) /\ d = sflow[s].off /\ e = sflow[s].sto /\ k = SumOf(disk[s])
  BY Known, FlowsTyped
<1>2. d = k + e /\ e = i + c /\ c = a + b /\ (plan[s] > 0 => d <= plan[s]) /\ a > 0
  <2>1. MovedOK(s)
    BY Known
  <2>2. /\ sflow[s].off = SumOf(disk[s]) + sflow[s].sto
        /\ sflow[s].sto = InFlight(s, up[s]) + cflow[s].net
        /\ cflow[s].net = AcksTo(s, "sjm") + sflow[s].net
        /\ plan[s] > 0 => sflow[s].off <= plan[s]
    BY ONLY mode = "read", <2>1 DEF MovedOK, Source
  <2> QED BY ONLY AcksTo(s, "sjm") > 0, <1>1, <2>2
<1>3. sflow[s].st # "none"
  <2>1. sflow[s].st = "none" => sflow[s].sto = 0
    BY FlowsTyped
  <2> QED BY ONLY <1>1, <1>2, <2>1
<1>4. plan[s] > 0 /\ plan[s] \in Nat
  BY <1>3, Known DEF FlowsOK, Skip
<1>5. sflow[s].net # plan[s]
  BY ONLY <1>1, <1>2, <1>4
<1>6. sflow[s].st \notin {"done", "gone"} /\ sflow[s].st \in FlowStates
  BY <1>5, FlowsTyped DEF Flow
<1> QED BY ONLY <1>1, <1>2, <1>3, <1>6 DEF FlowStates

LEMMA AckAtClientKeeps ==
  ASSUME Begun, NEW s \in Servers, AckAtClient(s)
  PROVE  Begun'
<1> DEFINE f == ClientProgress(cflow[s], now[1].n)
           chunks == NextChunks(s, f.off, 1)
           g == [f EXCEPT !.off = @ + SumOf(chunks)]
<1>1. /\ Handle("cjm", "ack", s, FinishOf(g, s, "cjm"))
      /\ cflow' = [cflow EXCEPT ![s] = After(g, s)]
      /\ down' = [down EXCEPT ![s] = @ \o Pushes(chunks)]
      /\ UNCHANGED <<mode, plan, phase, remaining, req, srv, sflow, up, disk, bstream>>
  BY DEF AckAtClient, client
<1>2. /\ ServerOK(s) /\ RequestOK(s) /\ FlowsOK(s) /\ MovedOK(s) /\ BuffersFull(s) /\ AnswerFirst(s)
      /\ mode \in {"read", "write"} /\ plan[s] \in Nat \cup {Skip}
      /\ \A a, t : N(a, t, s) \in Nat
      /\ down[s] \in Seq(Packets) /\ InFlight(s, down[s]) \in Nat
      /\ \A jm : AcksTo(s, jm) \in Nat
      /\ down'[s] = down[s] \o Pushes(chunks) /\ Local(s)
      /\ cflow'[s] = After(g, s)
  BY <1>1, Known DEF Begun, Typed, Local
<1>3. PICK n \in Nat \ {0} : n = now[1].n /\ AcksTo(s, "cjm") >= n /\ (Source(s).off < plan[s] => n = BufferSize)
  <2>1. now # << >> /\ Is(now[1], "cjm", "ack", s)
    BY <1>1 DEF Handle, Is
  <2> QED BY <2>1, AckDue
<1>4. mode = "write" /\ cflow[s].st = "active" /\ plan[s] > 0 /\ plan[s] \in Nat
  <2>1. AcksTo(s, "cjm") > 0
    BY <1>2, <1>3
  <2>2. mode = "write"
    BY ONLY <1>2, <2>1 DEF MovedOK
  <2>3. cflow[s].st = "active"
    BY <2>1, <2>2, ClientStillFlows
  <2> QED BY ONLY <1>2, <2>2, <2>3 DEF FlowsOK, Skip
<1>5. PICK net \in Nat, off \in Nat, x \in Nat :
        /\ cflow[s] \in Flow /\ net = cflow[s].net /\ net = cflow[s].sto /\ off = cflow[s].off
        /\ off <= plan[s] /\ f.off = off
        /\ x = SumOf(chunks) /\ chunks \in Seq(Nat \ {0}) /\ x <= BufferSize /\ off + x <= plan[s]
        /\ off + x < plan[s] => \A m \in ToSet(chunks) : m = BufferSize
  <2>1. /\ cflow[s] \in Flow /\ cflow[s].net \in Nat /\ cflow[s].off \in Nat
        /\ cflow[s].net = cflow[s].sto /\ cflow[s].off <= plan[s]
    <3>1. cflow[s].net = cflow[s].sto /\ cflow[s].off <= plan[s]
      BY ONLY <1>2, <1>4 DEF MovedOK, Source
    <3> QED BY <3>1, FlowsTyped
  <2>2. f.off = cflow[s].off
    BY ONLY <2>1 DEF ClientProgress, Flow
  <2>3. PICK off \in Nat : off = cflow[s].off /\ off <= plan[s] /\ chunks = NextChunks(s, off, 1)
    BY <2>1, <2>2
  <2>4. PICK c : c = NextChunks(s, off, 1)
    OBVIOUS
  <2>5. /\ c \in Seq(Nat \ {0}) /\ SumOf(c) \in Nat
        /\ SumOf(c) <= 1 * BufferSize /\ off + SumOf(c) <= plan[s]
        /\ off + SumOf(c) < plan[s] => \A m \in ToSet(c) : m = BufferSize
    BY <1>4, <2>3, <2>4, ChunksAre
  <2>6. SumOf(c) <= BufferSize
    BY <2>5, Before
  <2>7. PICK x \in Nat : x = SumOf(c)
    BY <2>5
  <2>8. chunks = c
    BY <2>3, <2>4
  <2> QED BY ONLY <2>1, <2>2, <2>3, <2>5, <2>6, <2>7, <2>8
<1>6. g \in Flow /\ g.st = "active" /\ g.net = net + n /\ g.sto = net + n /\ g.off = off + x
  <2>1. f \in Flow /\ f.st = "active" /\ f.net = net + n /\ f.sto = net + n /\ f.off = off
    <3>1. PICK m \in Nat, c \in Flow : m = now[1].n /\ c = cflow[s]
      BY <1>3, <1>5
    <3>2. PICK h : h = ClientProgress(c, m)
      OBVIOUS
    <3>3. h \in Flow /\ h.st = c.st /\ h.net = c.net + m /\ h.sto = c.sto + m /\ h.off = c.off
      BY <3>2, ProgressIs
    <3>4. f = h
      BY <3>1, <3>2
    <3> QED BY ONLY <1>3, <1>4, <1>5, <3>1, <3>3, <3>4
  <2>2. PICK h \in Flow, y \in Nat : h = f /\ y = SumOf(chunks) /\ y = x
    BY <1>5, <2>1
  <2>3. PICK k : k = [h EXCEPT !.off = @ + x]
    OBVIOUS
  <2>4. k \in Flow /\ k.st = h.st /\ k.net = h.net /\ k.sto = h.sto /\ k.off = h.off + x
    BY <2>3, AdvanceIs
  <2>5. g = k
    BY <2>2, <2>3
  <2> QED BY ONLY <2>1, <2>2, <2>4, <2>5
<1>7. PICK kinds : kinds = Ending(g, s, "cjm") /\ Took("cjm", "ack", s, kinds, 0)
  <2>1. Leaves(FinishOf(g, s, "cjm"), s, Ending(g, s, "cjm"), 0)
    BY FinishLeaves
  <2>2. <<"cjm", "ack">> \notin Ending(g, s, "cjm")
    BY DEF Ending
  <2> QED BY <1>1, <2>1, <2>2, AfterHandle
<1>8. PICK h : h = g
  OBVIOUS
<1> HIDE DEF f, g
<1> HIDE DEF chunks
<1>9. PICK done \in BOOLEAN : done = Completed(h, s) /\ kinds = IF done THEN {<<"cjm", "self">>} ELSE {}
  BY <1>7, <1>8 DEF Completed, Ending
<1>10. /\ cflow'[s] \in Flow /\ FlowOK(cflow'[s], plan[s])
       /\ cflow'[s].st = IF done THEN "done" ELSE "active"
       /\ cflow'[s].net = net + n /\ cflow'[s].sto = net + n /\ cflow'[s].off = off + x
  BY <1>2, <1>6, <1>8, <1>9, AfterIs
<1>11. /\ Typed' /\ \A u \in Servers \ {s} : SameEvents(u)
       /\ \A e \in ToSet(now') : e \in ToSet(now) \/ e.type # "ack"
       /\ AckBefore(now, s) => AckBefore(now, s)'
       /\ N("cjm", "self", s)' = N("cjm", "self", s) + One(done)
       /\ \A a, t : t # "ack" /\ t # "self" => N(a, t, s)' = N(a, t, s)
       /\ \A a, t : a # "cjm" => N(a, t, s)' = N(a, t, s)
  <2>1. \A a, t : <<a, t>> \in kinds => a = "cjm" /\ t = "self"
    BY ONLY <1>9
  <2>2. N("cjm", "self", s)' = N("cjm", "self", s) + One(done)
    <3>1. CASE done
      BY ONLY <1>7, <1>9, <3>1 DEF Took, One
    <3>2. CASE ~done
      <4>1. N("cjm", "self", s)' = N("cjm", "self", s) /\ N("cjm", "self", s) \in Nat
        BY ONLY <1>2, <1>7, <1>9, <3>2 DEF Took
      <4> QED BY ONLY <3>2, <4>1 DEF One
    <3> QED BY <3>1, <3>2
  <2>3. \A e \in ToSet(now') : e \in ToSet(now) \/ e.type # "ack"
    BY ONLY <1>7, <2>1 DEF Took
  <2>4. /\ \A a, t : t # "ack" /\ t # "self" => N(a, t, s)' = N(a, t, s)
        /\ \A a, t : a # "cjm" => N(a, t, s)' = N(a, t, s)
    BY ONLY <1>7, <2>1 DEF Took
  <2>5. /\ Typed' /\ \A u \in Servers \ {s} : SameEvents(u)
        /\ AckBefore(now, s) => AckBefore(now, s)'
    BY ONLY <1>2, <1>7, <2>1 DEF Took
  <2> QED BY ONLY <2>2, <2>3, <2>4, <2>5
<1>12. AcksTo(s, "cjm")' = AcksTo(s, "cjm") - n /\ AcksTo(s, "sjm")' = AcksTo(s, "sjm")
  <2>1. \A jm : AcksTo(s, jm)' = AcksTo(s, jm) - (IF jm = "cjm" THEN n ELSE 0) + 0
    BY ONLY <1>3, <1>7 DEF Took
  <2> QED BY ONLY n \in Nat \ {0}, <1>2, <2>1
<1>13. /\ down'[s] \in Seq(Packets)
       /\ \A p \in ToSet(down'[s]) : p \in ToSet(down[s]) \/ (p.type = "push" /\ p.n \in ToSet(chunks))
       /\ \A t : t # "push" => Sent(down[s], t)' = Sent(down[s], t)
       /\ InFlight(s, down'[s]) = InFlight(s, down[s]) + x
  BY <1>2, <1>5, PushesAre
<1>14. /\ Asking(s)' = Asking(s) /\ Answering(s)' = Answering(s) /\ Completing(s)' = Completing(s)
       /\ Starting(s)' = Starting(s) /\ Finishing(s)' = Finishing(s)
  <2>1. \A t : Sent(up[s], t)' = Sent(up[s], t)
    BY <1>1
  <2>2. Sent(down[s], "req")' = Sent(down[s], "req")
    BY <1>13
  <2> QED BY ONLY <1>11, <2>1, <2>2 DEF Asking, Answering, Starting, Finishing, Completing
<1>15. RequestOK(s)'
  <2>1. /\ mode' = mode /\ plan' = plan /\ srv' = srv /\ sflow' = sflow /\ req' = req
        /\ N("client", "resp", s)' = N("client", "resp", s)
    BY ONLY <1>1, <1>11
  <2> QED BY ONLY <1>2, <1>14, <2>1 DEF RequestOK
<1>16. FlowsOK(s)'
  <2>1. /\ N("sjm", "self", s)' = N("sjm", "self", s)
        /\ N("client", "fin", s)' = N("client", "fin", s)
        /\ N("cjm", "start", s)' = N("cjm", "start", s)
    BY ONLY <1>11
  <2>2. N("cjm", "self", s)' = One(cflow'[s].st = "done")
    BY ONLY <1>2, <1>4, <1>10, <1>11 DEF FlowsOK, One
  <2>3. N("client", "fin", s) = 0
    BY ONLY <1>2, <1>4 DEF FlowsOK
  <2>4. ~(plan[s] <= 0) /\ cflow'[s].st # "none"
    BY ONLY <1>4, <1>10
  <2> QED BY ONLY <1>1, <1>2, <1>4, <1>14, <2>1, <2>2, <2>3, <2>4 DEF FlowsOK, One
<1>17. MovedOK(s)'
  <2>1. mode' = mode /\ plan' = plan /\ sflow' = sflow /\ disk' = disk /\ up' = up
    BY ONLY <1>1
  <2>2. /\ FlowOK(cflow'[s], plan[s]) /\ FlowOK(sflow[s], plan[s]) /\ cflow'[s].net = cflow'[s].sto
        /\ off + x <= plan[s]
    BY ONLY <1>2, <1>5, <1>10 DEF MovedOK
  <2>3. PICK i \in Nat, a \in Nat, k \in Nat :
           i = InFlight(s, down[s]) /\ a = AcksTo(s, "cjm") /\ k = sflow[s].net /\ off = i + k /\ k = a + net
    <3>1. /\ cflow[s].off = InFlight(s, down[s]) + sflow[s].net
          /\ sflow[s].net = AcksTo(s, "cjm") + cflow[s].net
      BY ONLY <1>2, <1>4 DEF MovedOK
    <3>2. PICK i \in Nat, a \in Nat, k \in Nat :
            i = InFlight(s, down[s]) /\ a = AcksTo(s, "cjm") /\ k = sflow[s].net
      BY <1>2, FlowsTyped
    <3> QED BY ONLY <1>5, <3>1, <3>2
  <2>4. InFlight(s, down'[s]) = i + x /\ AcksTo(s, "cjm")' = a - n
    BY ONLY <1>12, <1>13, <2>3
  <2>5. off + x = (i + x) + k /\ k = (a - n) + (net + n)
    BY ONLY <2>3, n \in Nat \ {0}, net \in Nat, x \in Nat, off \in Nat
  <2>6. PICK w \in Nat, b \in Nat : w = NumBuffers * BufferSize /\ b = BufferSize
    BY Before, MulGrows
  <2>7. (off + x) - (net + n) <= w
    <3>1. off - net <= w
      BY ONLY <1>2, <1>4, <1>5, <2>6 DEF MovedOK, Source
    <3>2. x > 0 => n = b
      <4>1. off < plan[s] => n = b
        BY ONLY <1>3, <1>4, <1>5, <2>6 DEF Source
      <4>2. x > 0 => off < plan[s]
        BY ONLY <1>4, <1>5
      <4> QED BY <4>1, <4>2
    <3>3. x <= b
      BY ONLY <1>5, <2>6
    <3> QED BY ONLY <3>1, <3>2, <3>3, n \in Nat \ {0}, net \in Nat, x \in Nat, off \in Nat, w \in Nat, b \in Nat
  <2>8. /\ mode' = "write" /\ mode' # "read" /\ Source(s)' = cflow'[s]
        /\ sflow[s].off = sflow[s].net /\ InFlight(s, up[s]) = 0 /\ AcksTo(s, "sjm")' = 0
        /\ sflow[s].net = SumOf(disk[s]) + sflow[s].sto
    BY ONLY <1>2, <1>4, <1>12, <2>1 DEF MovedOK, Source
  <2>9. /\ cflow'[s].off = InFlight(s, down'[s]) + sflow[s].net
        /\ sflow[s].net = AcksTo(s, "cjm")' + cflow'[s].net
        /\ cflow'[s].off - cflow'[s].net <= NumBuffers * BufferSize
        /\ cflow'[s].off <= plan[s]
    BY ONLY <1>10, <2>2, <2>3, <2>4, <2>5, <2>6, <2>7
  <2> QED BY ONLY <2>1, <2>2, <2>8, <2>9 DEF MovedOK
<1>18. BuffersFull(s)'
  <2>1. /\ mode' = "write" /\ mode' # "read" /\ Source(s)' = cflow'[s] /\ Source(s) = cflow[s]
        /\ plan' = plan /\ up' = up
    BY ONLY <1>1, <1>4 DEF Source
  <2>2. cflow'[s].off < plan[s] =>
          cflow[s].off < plan[s] /\ \A m \in ToSet(chunks) : m = BufferSize
    BY ONLY <1>4, <1>5, <1>10, x \in Nat, off \in Nat
  <2> QED BY ONLY <1>2, <1>11, <1>13, <2>1, <2>2 DEF BuffersFull, Full
<1>19. AnswerFirst(s)'
  BY ONLY <1>1, <1>4 DEF AnswerFirst
<1>20. ServerOK(s)'
  <2>1. Sent(down[s], "resp")' = 0 /\ Sent(down[s], "comp")' = 0
    BY ONLY <1>2, <1>13 DEF ServerOK
  <2> QED BY ONLY <1>1, <1>2, <1>13, <1>15, <1>16, <1>17, <1>18, <1>19, <2>1 DEF ServerOK
<1>21. Flows(s)' <=> Flows(s)
  BY ONLY <1>4, <1>10 DEF Flows
<1>22. /\ mode = "write" => (req'[s] = "live" <=> req[s] = "live")
       /\ Asking(s)' + Answering(s)' = Asking(s) + Answering(s)
       /\ phase' = phase /\ remaining' = remaining
  BY ONLY <1>1, <1>14
<1> QED BY <1>2, <1>11, <1>20, <1>21, <1>22, CountsKept

LEMMA NetCounted ==
  ASSUME NEW c \in Flow, NEW m \in Nat
  PROVE  LET h == [c EXCEPT !.net = @ + m]
         IN h \in Flow /\ h.st = c.st /\ h.off = c.off /\ h.net = c.net + m /\ h.sto = c.sto
BY DEF Flow

\* The client handles the response to a read before the server handles an
\* acknowledgement of its data.
LEMMA AnsweredBeforeAck ==
  ASSUME Begun, NEW s \in Servers, mode = "read", now # << >>, Is(now[1], "sjm", "ack", s),
         cflow[s].net > 0, sflow[s].st = "active"
  PROVE  Asking(s) = 0 /\ Answering(s) = 0
<1>1. /\ AnswerFirst(s) /\ RequestOK(s) /\ FlowsOK(s)
      /\ up[s] \in Seq(Packets) /\ now \in Seq(Events) /\ plan[s] \in Nat \cup {Skip}
      /\ \A a, t : N(a, t, s) \in Nat
      /\ \A t : Sent(up[s], t) \in Nat
  BY Known
<1>2. N("sched", "resp", s) = 0 /\ N("sjm", "resp", s) = 0 /\ Sent(up[s], "resp") = 0 /\ AckBefore(now, s)
  <2>1. cflow[s].net # 0
    BY FlowsTyped
  <2> QED BY ONLY mode = "read", <1>1, <2>1 DEF AnswerFirst
<1>3. N("client", "resp", s) = 0
  <2>1. 1 \in 1..Len(now)
    BY <1>1
  <2>2. ASSUME NEW i \in 1..Len(now) PROVE ~Is(now[i], "client", "resp", s)
    <3>1. Is(now[i], "client", "resp", s) => i < 1
      BY ONLY <1>2, <2>1, Is(now[1], "sjm", "ack", s), i \in 1..Len(now) DEF AckBefore
    <3> QED BY ONLY <3>1, i \in 1..Len(now)
  <2>3. ASSUME NEW i \in 1..Len(now) PROVE Kind("client", "resp", s)[now[i]] = 0
    <3>1. now[i] \in Events
      BY <1>1
    <3>2. Kind("client", "resp", s)[now[i]] = One(Is(now[i], "client", "resp", s))
      BY <3>1, WeightsAre
    <3> QED BY <2>2, <3>2 DEF One
  <2>4. Kind("client", "resp", s) \in [Events -> Nat]
    BY WeightsAre
  <2> QED BY <1>1, <2>3, <2>4, TotalZero DEF N
<1>4. Answering(s) = 0
  BY ONLY <1>2, <1>3 DEF Answering
<1>5. plan[s] # Skip /\ srv[s] # "INIT"
  BY ONLY <1>1, sflow[s].st = "active" DEF FlowsOK, Skip
<1>6. Asking(s) = 0
  BY ONLY <1>1, <1>5 DEF RequestOK, One
<1> QED BY <1>4, <1>6

LEMMA AckAtServerKeeps ==
  ASSUME Begun, NEW s \in Servers, AckAtServer(s)
  PROVE  Begun'
<1> DEFINE f == [sflow[s] EXCEPT !.net = @ + now[1].n]
           chunks == NextChunks(s, f.off, 1)
           g == [f EXCEPT !.off = @ + SumOf(chunks)]
<1>1. /\ Handle("sjm", "ack", s, FinishOf(g, s, "sjm"))
      /\ sflow' = [sflow EXCEPT ![s] = After(g, s)]
      /\ disk' = [disk EXCEPT ![s] = @ \o chunks]
      /\ UNCHANGED <<mode, plan, phase, remaining, req, srv, cflow, down, up, bstream>>
  BY DEF AckAtServer, Refill, client
<1>2. /\ ServerOK(s) /\ RequestOK(s) /\ FlowsOK(s) /\ MovedOK(s) /\ BuffersFull(s) /\ AnswerFirst(s)
      /\ mode \in {"read", "write"} /\ plan[s] \in Nat \cup {Skip}
      /\ \A a, t : N(a, t, s) \in Nat
      /\ disk[s] \in Seq(Nat \ {0}) /\ SumOf(disk[s]) \in Nat /\ InFlight(s, up[s]) \in Nat
      /\ \A jm : AcksTo(s, jm) \in Nat
      /\ disk'[s] = disk[s] \o chunks /\ Local(s)
      /\ sflow'[s] = After(g, s)
  BY <1>1, Known DEF Begun, Typed, Local
<1>0. now # << >> /\ Is(now[1], "sjm", "ack", s)
  BY <1>1 DEF Handle, Is
<1>3. PICK n \in Nat \ {0} : n = now[1].n /\ AcksTo(s, "sjm") >= n /\ (Source(s).off < plan[s] => n = BufferSize)
  BY <1>0, AckDue
<1>4. /\ mode = "read" /\ sflow[s].st = "active" /\ plan[s] > 0 /\ plan[s] \in Nat
      /\ Asking(s) = 0 /\ Answering(s) = 0
  <2>1. AcksTo(s, "sjm") > 0
    BY <1>2, <1>3
  <2>2. mode = "read"
    BY ONLY <1>2, <2>1 DEF MovedOK
  <2>3. sflow[s].st = "active" /\ cflow[s].net > 0
    BY <2>1, <2>2, ServerStillFlows
  <2>4. Asking(s) = 0 /\ Answering(s) = 0
    BY <1>0, <2>2, <2>3, AnsweredBeforeAck
  <2> QED BY ONLY <1>2, <2>2, <2>3, <2>4 DEF FlowsOK, Skip
<1>5. PICK net \in Nat, sto \in Nat, off \in Nat, x \in Nat :
        /\ sflow[s] \in Flow /\ net = sflow[s].net /\ sto = sflow[s].sto /\ off = sflow[s].off
        /\ off <= plan[s] /\ f.off = off
        /\ x = SumOf(chunks) /\ chunks \in Seq(Nat \ {0}) /\ x <= BufferSize /\ off + x <= plan[s]
        /\ off + x < plan[s] => \A m \in ToSet(chunks) : m = BufferSize
  <2>1. /\ sflow[s] \in Flow /\ sflow[s].net \in Nat /\ sflow[s].sto \in Nat /\ sflow[s].off \in Nat
        /\ sflow[s].off <= plan[s]
    <3>1. sflow[s].off <= plan[s]
      BY ONLY <1>2, <1>4 DEF MovedOK, Source
    <3> QED BY <3>1, FlowsTyped
  <2>2. f.off = sflow[s].off
    BY ONLY <2>1 DEF Flow
  <2>3. PICK off \in Nat : off = sflow[s].off /\ off <= plan[s] /\ chunks = NextChunks(s, off, 1)
    BY <2>1, <2>2
  <2>4. PICK c : c = NextChunks(s, off, 1)
    OBVIOUS
  <2>5. /\ c \in Seq(Nat \ {0}) /\ SumOf(c) \in Nat
        /\ SumOf(c) <= 1 * BufferSize /\ off + SumOf(c) <= plan[s]
        /\ off + SumOf(c) < plan[s] => \A m \in ToSet(c) : m = BufferSize
    BY <1>4, <2>3, <2>4, ChunksAre
  <2>6. SumOf(c) <= BufferSize
    BY <2>5, Before
  <2>7. PICK x \in Nat : x = SumOf(c)
    BY <2>5
  <2>8. chunks = c
    BY <2>3, <2>4
  <2> QED BY ONLY <2>1, <2>2, <2>3, <2>5, <2>6, <2>7, <2>8
<1>6. g \in Flow /\ g.st = "active" /\ g.net = net + n /\ g.sto = sto /\ g.off = off + x
  <2>1. f \in Flow /\ f.st = "active" /\ f.net = net + n /\ f.sto = sto /\ f.off = off
    <3>1. PICK m \in Nat, c \in Flow : m = now[1].n /\ c = sflow[s]
      BY <1>3, <1>5
    <3>2. PICK h : h = [c EXCEPT !.net = @ + m]
      OBVIOUS
    <3>3. h \in Flow /\ h.st = c.st /\ h.net = c.net + m /\ h.sto = c.sto /\ h.off = c.off
      BY <3>2, NetCounted
    <3>4. f = h
      BY <3>1, <3>2
    <3> QED BY ONLY <1>3, <1>4, <1>5, <3>1, <3>3, <3>4
  <2>2. PICK h \in Flow, y \in Nat : h = f /\ y = SumOf(chunks) /\ y = x
    BY <1>5, <2>1
  <2>3. PICK k : k = [h EXCEPT !.off = @ + x]
    OBVIOUS
  <2>4. k \in Flow /\ k.st = h.st /\ k.net = h.net /\ k.sto = h.sto /\ k.off = h.off + x
    BY <2>3, AdvanceIs
  <2>5. g = k
    BY <2>2, <2>3
  <2> QED BY ONLY <2>1, <2>2, <2>4, <2>5
<1>7. PICK kinds : kinds = Ending(g, s, "sjm") /\ Took("sjm", "ack", s, kinds, 0)
  <2>1. Leaves(FinishOf(g, s, "sjm"), s, Ending(g, s, "sjm"), 0)
    BY FinishLeaves
  <2>2. <<"sjm", "ack">> \notin Ending(g, s, "sjm")
    BY DEF Ending
  <2> QED BY <1>1, <2>1, <2>2, AfterHandle
<1>8. PICK h : h = g
  OBVIOUS
<1> HIDE DEF f, g
<1> HIDE DEF chunks
<1>9. PICK done \in BOOLEAN : done = Completed(h, s) /\ kinds = IF done THEN {<<"sjm", "self">>} ELSE {}
  BY <1>7, <1>8 DEF Completed, Ending
<1>10. /\ sflow'[s] \in Flow /\ FlowOK(sflow'[s], plan[s])
       /\ sflow'[s].st = IF done THEN "done" ELSE "active"
       /\ sflow'[s].net = net + n /\ sflow'[s].sto = sto /\ sflow'[s].off = off + x
  BY <1>2, <1>6, <1>8, <1>9, AfterIs
<1>11. /\ Typed' /\ \A u \in Servers \ {s} : SameEvents(u)
       /\ \A e \in ToSet(now') : e \in ToSet(now) \/ e.type # "ack"
       /\ AckBefore(now, s) => AckBefore(now, s)'
       /\ N("sjm", "self", s)' = N("sjm", "self", s) + One(done)
       /\ \A a, t : t # "ack" /\ t # "self" => N(a, t, s)' = N(a, t, s)
       /\ \A a, t : a # "sjm" => N(a, t, s)' = N(a, t, s)
  <2>1. \A a, t : <<a, t>> \in kinds => a = "sjm" /\ t = "self"
    BY ONLY <1>9
  <2>2. N("sjm", "self", s)' = N("sjm", "self", s) + One(done)
    <3>1. CASE done
      BY ONLY <1>7, <1>9, <3>1 DEF Took, One
    <3>2. CASE ~done
      <4>1. N("sjm", "self", s)' = N("sjm", "self", s) /\ N("sjm", "self", s) \in Nat
        BY ONLY <1>2, <1>7, <1>9, <3>2 DEF Took
      <4> QED BY ONLY <3>2, <4>1 DEF One
    <3> QED BY <3>1, <3>2
  <2>3. \A e \in ToSet(now') : e \in ToSet(now) \/ e.type # "ack"
    BY ONLY <1>7, <2>1 DEF Took
  <2>4. /\ \A a, t : t # "ack" /\ t # "self" => N(a, t, s)' = N(a, t, s)
        /\ \A a, t : a # "sjm" => N(a, t, s)' = N(a, t, s)
    BY ONLY <1>7, <2>1 DEF Took
  <2>5. /\ Typed' /\ \A u \in Servers \ {s} : SameEvents(u)
        /\ AckBefore(now, s) => AckBefore(now, s)'
    BY ONLY <1>2, <1>7, <2>1 DEF Took
  <2> QED BY ONLY <2>2, <2>3, <2>4, <2>5
<1>12. AcksTo(s, "sjm")' = AcksTo(s, "sjm") - n /\ AcksTo(s, "cjm")' = AcksTo(s, "cjm")
  <2>1. \A jm : AcksTo(s, jm)' = AcksTo(s, jm) - (IF jm = "sjm" THEN n ELSE 0) + 0
    BY ONLY <1>3, <1>7 DEF Took
  <2> QED BY ONLY n \in Nat \ {0}, <1>2, <2>1
<1>13. /\ disk'[s] \in Seq(Nat \ {0})
       /\ \A m \in ToSet(disk'[s]) : m \in ToSet(disk[s]) \/ m \in ToSet(chunks)
       /\ SumOf(disk'[s]) = SumOf(disk[s]) + x
  <2>1. PICK q \in Seq(Nat \ {0}), c \in Seq(Nat \ {0}) : q = disk[s] /\ c = chunks
    BY <1>2, <1>5
  <2>2. /\ q \o c \in Seq(Nat \ {0}) /\ SumOf(q \o c) = SumOf(q) + SumOf(c)
        /\ \A m \in ToSet(q \o c) : m \in ToSet(q) \/ m \in ToSet(c)
    BY DiskQueued
  <2> QED BY ONLY <1>2, <1>5, <2>1, <2>2
<1>14. /\ Asking(s)' = Asking(s) /\ Answering(s)' = Answering(s) /\ Completing(s)' = Completing(s)
       /\ Starting(s)' = Starting(s) /\ Finishing(s)' = Finishing(s)
  <2>1. \A t : Sent(up[s], t)' = Sent(up[s], t) /\ Sent(down[s], t)' = Sent(down[s], t)
    BY <1>1
  <2> QED BY ONLY <1>11, <2>1 DEF Asking, Answering, Starting, Finishing, Completing
<1>15. RequestOK(s)'
  <2>1. /\ mode' = mode /\ plan' = plan /\ srv' = srv /\ req' = req
        /\ N("client", "resp", s)' = N("client", "resp", s)
        /\ sflow'[s].st # "none" /\ sflow'[s].st # "gone"
    BY ONLY <1>1, <1>10, <1>11
  <2>2. srv[s] # "FINISH" /\ sflow[s].st # "none" /\ sflow[s].st # "gone"
    BY ONLY <1>2, <1>4 DEF RequestOK
  <2> QED BY ONLY <1>2, <1>14, <2>1, <2>2 DEF RequestOK, One
<1>16. FlowsOK(s)'
  <2>1. /\ N("cjm", "self", s)' = N("cjm", "self", s)
        /\ N("client", "fin", s)' = N("client", "fin", s)
        /\ N("cjm", "start", s)' = N("cjm", "start", s)
        /\ N("sched", "req", s)' = N("sched", "req", s) /\ N("server", "req", s)' = N("server", "req", s)
    BY ONLY <1>11
  <2>2. N("sjm", "self", s)' = One(sflow'[s].st = "done")
    BY ONLY <1>2, <1>4, <1>10, <1>11 DEF FlowsOK, One
  <2>3. srv[s] # "INIT"
    BY ONLY <1>2, <1>4 DEF FlowsOK
  <2>4. ~(plan[s] <= 0)
    BY ONLY <1>4
  <2> QED BY ONLY <1>1, <1>2, <1>4, <1>14, <2>1, <2>2, <2>3, <2>4 DEF FlowsOK, One
<1>17. MovedOK(s)'
  <2>1. mode' = mode /\ plan' = plan /\ cflow' = cflow /\ down' = down /\ up' = up
    BY ONLY <1>1
  <2>2. /\ FlowOK(cflow[s], plan[s]) /\ FlowOK(sflow'[s], plan[s])
        /\ off + x <= plan[s]
    BY ONLY <1>2, <1>5, <1>10 DEF MovedOK
  <2>3. PICK d \in Nat, a \in Nat, k \in Nat :
           d = SumOf(disk[s]) /\ a = AcksTo(s, "sjm") /\ k = cflow[s].net /\ off = d + sto /\ k = a + net
    <3>1. sflow[s].off = SumOf(disk[s]) + sflow[s].sto /\ cflow[s].net = AcksTo(s, "sjm") + sflow[s].net
      BY ONLY <1>2, <1>4 DEF MovedOK
    <3>2. PICK d \in Nat, a \in Nat, k \in Nat :
            d = SumOf(disk[s]) /\ a = AcksTo(s, "sjm") /\ k = cflow[s].net
      BY <1>2, FlowsTyped
    <3> QED BY ONLY <1>5, <3>1, <3>2
  <2>4. SumOf(disk'[s]) = d + x /\ AcksTo(s, "sjm")' = a - n
    BY ONLY <1>12, <1>13, <2>3
  <2>5. off + x = (d + x) + sto /\ k = (a - n) + (net + n)
    BY ONLY <2>3, n \in Nat \ {0}, net \in Nat, x \in Nat, off \in Nat, sto \in Nat
  <2>6. PICK w \in Nat, b \in Nat : w = NumBuffers * BufferSize /\ b = BufferSize
    BY Before, MulGrows
  <2>7. (off + x) - (net + n) <= w
    <3>1. off - net <= w
      BY ONLY <1>2, <1>4, <1>5, <2>6 DEF MovedOK, Source
    <3>2. x > 0 => n = b
      <4>1. off < plan[s] => n = b
        BY ONLY <1>3, <1>4, <1>5, <2>6 DEF Source
      <4>2. x > 0 => off < plan[s]
        BY ONLY <1>4, <1>5
      <4> QED BY <4>1, <4>2
    <3>3. x <= b
      BY ONLY <1>5, <2>6
    <3> QED BY ONLY <3>1, <3>2, <3>3, n \in Nat \ {0}, net \in Nat, x \in Nat, off \in Nat, w \in Nat, b \in Nat
  <2>8. /\ mode' = "read" /\ mode' # "write" /\ Source(s)' = sflow'[s]
        /\ cflow[s].off = 0 /\ InFlight(s, down[s]) = 0 /\ AcksTo(s, "cjm")' = 0 /\ cflow[s].net = cflow[s].sto
        /\ sflow[s].sto = InFlight(s, up[s]) + cflow[s].net
    BY ONLY <1>2, <1>4, <1>12, <2>1 DEF MovedOK, Source
  <2>9. /\ sflow'[s].off = SumOf(disk'[s]) + sflow'[s].sto
        /\ sflow'[s].sto = InFlight(s, up[s]) + cflow[s].net
        /\ cflow[s].net = AcksTo(s, "sjm")' + sflow'[s].net
        /\ sflow'[s].off - sflow'[s].net <= NumBuffers * BufferSize
        /\ sflow'[s].off <= plan[s]
    BY ONLY <1>5, <1>10, <2>2, <2>3, <2>4, <2>5, <2>6, <2>7, <2>8
  <2> QED BY ONLY <2>1, <2>2, <2>8, <2>9 DEF MovedOK
<1>18. BuffersFull(s)'
  <2>1. /\ mode' = "read" /\ mode = "read" /\ Source(s)' = sflow'[s] /\ Source(s) = sflow[s]
        /\ plan' = plan /\ up' = up /\ down' = down
    BY ONLY <1>1, <1>4 DEF Source
  <2>2. sflow'[s].off < plan[s] =>
          sflow[s].off < plan[s] /\ \A m \in ToSet(chunks) : m = BufferSize
    BY ONLY <1>4, <1>5, <1>10, x \in Nat, off \in Nat
  <2> QED BY ONLY <1>2, <1>11, <1>13, <2>1, <2>2 DEF BuffersFull, Full
<1>19. AnswerFirst(s)'
  <2>1. /\ N("sched", "resp", s)' = N("sched", "resp", s) /\ N("sjm", "resp", s)' = N("sjm", "resp", s)
        /\ up' = up /\ cflow' = cflow /\ mode' = mode
    BY ONLY <1>1, <1>11
  <2>2. Asking(s)' + Answering(s)' # 1
    BY ONLY <1>4, <1>14
  <2> QED BY ONLY <1>2, <1>11, <2>1, <2>2 DEF AnswerFirst
<1>20. ServerOK(s)'
  BY ONLY <1>1, <1>2, <1>13, <1>15, <1>16, <1>17, <1>18, <1>19 DEF ServerOK
<1>21. Flows(s)' <=> Flows(s)
  BY ONLY <1>1, <1>11 DEF Flows
<1>22. /\ mode = "write" => (req'[s] = "live" <=> req[s] = "live")
       /\ Asking(s)' + Answering(s)' = Asking(s) + Answering(s)
       /\ phase' = phase /\ remaining' = remaining
  BY ONLY <1>1, <1>14
<1> QED BY <1>2, <1>11, <1>20, <1>21, <1>22, CountsKept

-----------------------------------------------------------------------------
\* Data arrives.
LEMMA DataCounted ==
  ASSUME NEW c \in Flow, NEW m \in Nat
  PROVE  LET h == [c EXCEPT !.net = @ + m, !.off = @ + m]
         IN h \in Flow /\ h.st = c.st /\ h.off = c.off + m /\ h.net = c.net + m /\ h.sto = c.sto
<1>1. PICK a \in Nat, b \in Nat : a = c.net + m /\ b = c.off + m
  BY DEF Flow
<1>2. PICK h : h = [c EXCEPT !.net = a, !.off = b]
  OBVIOUS
<1>3. h \in Flow /\ h.st = c.st /\ h.net = a /\ h.off = b /\ h.sto = c.sto
  BY ONLY c \in Flow, a \in Nat, b \in Nat, <1>2 DEF Flow
<1>4. [c EXCEPT !.net = @ + m, !.off = @ + m] = h
  BY <1>1, <1>2
<1> QED BY ONLY <1>1, <1>3, <1>4

LEMMA DiskAppended ==
  ASSUME NEW q \in Seq(Nat \ {0}), NEW n \in Nat \ {0}
  PROVE  /\ Append(q, n) \in Seq(Nat \ {0}) /\ SumOf(Append(q, n)) = SumOf(q) + n
         /\ \A m \in ToSet(Append(q, n)) : m \in ToSet(q) \/ m = n
<1>1. q \in Seq(Nat) /\ Append(q, n) \in Seq(Nat \ {0})
  OBVIOUS
<1>2. SumOf(Append(q, n)) = SumOf(q) + n
  BY <1>1, SumAppend
<1>3. ASSUME NEW m \in ToSet(Append(q, n)) PROVE m \in ToSet(q) \/ m = n
  BY <1>1 DEF ToSet
<1> QED BY <1>1, <1>2, <1>3

\* When something arrives, what is due was caused by arrivals of the same time.
LEMMA OnlyBrought ==
  ASSUME Begun, NEW s \in Servers, now = << >> \/ arriving
  PROVE  \A a, t : ~Brought(a, t) => N(a, t, s) = 0
<1> SUFFICES ASSUME NEW a, NEW t, ~Brought(a, t) PROVE N(a, t, s) = 0
  OBVIOUS
<1>1. now \in Seq(Events) /\ Kind(a, t, s) \in [Events -> Nat]
  BY Known, WeightsAre
<1>2. \A i \in 1..Len(now) : now[i] \in ToSet(now) /\ now[i] \in Events
  BY <1>1, SetOfSeq
<1>3. ASSUME NEW i \in 1..Len(now) PROVE ~Is(now[i], a, t, s)
  <2>1. CASE arriving
    <3>1. Brought(now[i].at, now[i].type)
      BY <1>2, <2>1 DEF Begun, Typed
    <3> QED BY <3>1 DEF Is
  <2>2. CASE now = << >>
    BY <2>2
  <2> QED BY <2>1, <2>2
<1>4. ASSUME NEW i \in 1..Len(now) PROVE Kind(a, t, s)[now[i]] = 0
  <2>1. Kind(a, t, s)[now[i]] = One(Is(now[i], a, t, s))
    BY <1>2, WeightsAre
  <2> QED BY <1>3, <2>1 DEF One
<1> QED BY <1>1, <1>4, TotalZero DEF N

\* A server's flow is there, and not done, while data of a write is on its way.
LEMMA DataFindsServer ==
  ASSUME Begun, NEW s \in Servers, mode = "write", InFlight(s, down[s]) > 0,
         N("sched", "start", s) = 0, N("sjm", "start", s) = 0
  PROVE  /\ sflow[s].st = "active" /\ plan[s] > 0 /\ plan[s] \in Nat
         /\ sflow[s].sto < plan[s] /\ cflow[s].st # "none"
<1>1. PICK c \in Nat, i \in Nat, d \in Nat, e \in Nat, k \in Nat :
        /\ c = sflow[s].net /\ e = sflow[s].sto /\ k = SumOf(disk[s])
        /\ i = InFlight(s, down[s]) /\ d = cflow[s].off
  BY Known, FlowsTyped
<1>0. MovedOK(s) /\ RequestOK(s) /\ FlowsOK(s) /\ plan[s] \in Nat \cup {Skip}
  BY Known
<1>2. d = i + c /\ c = k + e /\ (plan[s] > 0 => d <= plan[s]) /\ i > 0
  <2>2. /\ cflow[s].off = InFlight(s, down[s]) + sflow[s].net
        /\ sflow[s].net = SumOf(disk[s]) + sflow[s].sto
        /\ plan[s] > 0 => cflow[s].off <= plan[s]
    BY ONLY mode = "write", <1>0 DEF MovedOK, Source
  <2> QED BY ONLY InFlight(s, down[s]) > 0, <1>1, <2>2
<1>3. cflow[s].st # "none"
  <2>1. cflow[s].st = "none" => cflow[s].off = 0
    BY FlowsTyped
  <2> QED BY ONLY <1>1, <1>2, <2>1
<1>4. plan[s] > 0 /\ plan[s] \in Nat /\ plan[s] # Skip
  BY ONLY <1>0, <1>3 DEF FlowsOK, Skip
<1>5. sflow[s].net # plan[s] /\ sflow[s].sto < plan[s]
  BY ONLY <1>1, <1>2, <1>4
<1>6. sflow[s].st \notin {"done", "gone"} /\ sflow[s].st \in FlowStates
  BY <1>5, FlowsTyped DEF Flow
<1>7. Asking(s) = 0
  <2>1. PICK x \in Nat, y \in Nat, z \in Nat : x = Asking(s) /\ y = Answering(s) /\ z = N("cjm", "start", s)
    BY Known, Chains
  <2>2. x + y + z = 0
    BY ONLY mode = "write", <1>0, <1>3, <1>4, <2>1 DEF FlowsOK, One
  <2> QED BY ONLY <2>1, <2>2
<1>8. srv[s] # "INIT"
  BY ONLY <1>0, <1>4, <1>7 DEF RequestOK, One
<1>9. sflow[s].st # "none"
  <2>1. Starting(s) = 0
    BY DEF Starting
  <2> QED BY ONLY <1>0, <1>4, <1>8, <2>1 DEF RequestOK, One
<1> QED BY ONLY <1>3, <1>4, <1>5, <1>6, <1>9 DEF FlowStates

LEMMA PushAtServerKeeps ==
  ASSUME Begun, NEW s \in Servers, ArriveAtServer(s), down[s][1].type = "push"
  PROVE  Begun'
<1> DEFINE n == down[s][1].n
           f == [sflow[s] EXCEPT !.net = @ + n, !.off = @ + n]
<1>1. /\ down[s] # << >> /\ down' = [down EXCEPT ![s] = Tail(@)]
      /\ Deliver(<<Ev("cjm", "ack", s, n)>> \o FinishOf(f, s, "sjm"))
      /\ sflow' = [sflow EXCEPT ![s] = After(f, s)]
      /\ disk' = [disk EXCEPT ![s] = Append(@, n)]
      /\ bstream' = [bstream EXCEPT ![s] = Grown(s, sflow[s].off, n)]
      /\ UNCHANGED <<mode, plan, phase, remaining, req, srv, cflow, up>>
  BY DEF ArriveAtServer, client
<1>2. /\ ServerOK(s) /\ RequestOK(s) /\ FlowsOK(s) /\ MovedOK(s) /\ BuffersFull(s) /\ AnswerFirst(s)
      /\ mode \in {"read", "write"} /\ plan[s] \in Nat \cup {Skip}
      /\ \A a, t : N(a, t, s) \in Nat
      /\ down[s] \in Seq(Packets) /\ disk[s] \in Seq(Nat \ {0}) /\ SumOf(disk[s]) \in Nat
      /\ \A jm : AcksTo(s, jm) \in Nat
      /\ down'[s] = Tail(down[s]) /\ disk'[s] = Append(disk[s], n) /\ Local(s)
      /\ sflow'[s] = After(f, s) /\ bstream'[s] = Grown(s, sflow[s].off, n)
  BY <1>1, Known DEF Begun, Typed, Local
<1>3. Taken(down[s], "push", s)
  BY <1>1, <1>2, TakenPacket
<1>4. /\ n \in Nat \ {0} /\ InFlight(s, down[s]) >= n /\ down'[s] \in Seq(Packets)
      /\ InFlight(s, down[s]) \in Nat /\ InFlight(s, down'[s]) = InFlight(s, down[s]) - n
      /\ \A t : t # "push" => Sent(down[s], t)' = Sent(down[s], t)
      /\ \A p \in ToSet(down'[s]) : p \in ToSet(down[s])
      /\ down[s][1] \in ToSet(down[s])
  <2>1. n \in Nat \ {0} /\ InFlight(s, down[s]) >= n
    BY ONLY <1>3 DEF Taken
  <2> QED BY ONLY <1>2, <1>3, <2>1 DEF Taken
<1>5. N("sched", "start", s) = 0 /\ N("sjm", "start", s) = 0
  <2>1. now = << >> \/ arriving
    BY <1>1 DEF Deliver
  <2> QED BY <2>1, OnlyBrought DEF Brought
<1>6. /\ mode = "write" /\ sflow[s].st = "active" /\ plan[s] > 0 /\ plan[s] \in Nat
      /\ sflow[s].sto < plan[s] /\ cflow[s].st # "none"
  <2>1. InFlight(s, down[s]) > 0
    BY ONLY <1>4
  <2>2. mode = "write"
    BY ONLY <1>2, <2>1 DEF MovedOK
  <2> QED BY <1>5, <2>1, <2>2, DataFindsServer
<1>7. PICK net \in Nat, sto \in Nat :
        /\ sflow[s] \in Flow /\ net = sflow[s].net /\ net = sflow[s].off /\ sto = sflow[s].sto
  <2>1. sflow[s].net = sflow[s].off
    BY ONLY <1>2, <1>6 DEF MovedOK
  <2> QED BY <2>1, FlowsTyped
<1>8. f \in Flow /\ f.st = "active" /\ f.net = net + n /\ f.off = net + n /\ f.sto = sto
  <2>1. PICK m \in Nat, c \in Flow : m = n /\ c = sflow[s]
    BY <1>4, <1>7
  <2>2. PICK h : h = [c EXCEPT !.net = @ + m, !.off = @ + m]
    OBVIOUS
  <2>3. h \in Flow /\ h.st = c.st /\ h.net = c.net + m /\ h.off = c.off + m /\ h.sto = c.sto
    BY <2>2, DataCounted
  <2>4. f = h
    BY <2>1, <2>2
  <2> QED BY ONLY <1>6, <1>7, <2>1, <2>3, <2>4
<1>9. ~Completed(f, s)
  BY <1>6, <1>7, <1>8 DEF Completed
<1>10. Came(s, {<<"cjm", "ack">>}, n)
  <2>1. Due("cjm", "ack") /\ Brought("cjm", "ack")
    BY DEF Due, Brought
  <2>2. Leaves(<<Ev("cjm", "ack", s, n)>>, s, {<<"cjm", "ack">>}, n)
    BY <1>4, <2>1, SomeLeft
  <2>3. <<Ev("cjm", "ack", s, n)>> \o FinishOf(f, s, "sjm") = <<Ev("cjm", "ack", s, n)>>
    <3>1. PICK q \in Seq(Events) : q = <<Ev("cjm", "ack", s, n)>>
      BY <2>2 DEF Leaves
    <3> QED BY <1>9, <3>1, JoinNothing DEF FinishOf
  <2>4. Deliver(<<Ev("cjm", "ack", s, n)>>)
    BY <1>1, <2>3
  <2>5. \A a, t : <<a, t>> \in {<<"cjm", "ack">>} => Brought(a, t)
    BY ONLY <2>1
  <2> QED BY <1>4, <2>2, <2>4, <2>5, AfterDelivery
<1> HIDE DEF f
<1>11. /\ sflow'[s] \in Flow /\ FlowOK(sflow'[s], plan[s]) /\ sflow'[s].st = "active"
       /\ sflow'[s].net = net + n /\ sflow'[s].off = net + n /\ sflow'[s].sto = sto
  <2>1. PICK h \in Flow : h = f
    BY <1>8
  <2> QED BY <1>2, <1>8, <1>9, <2>1, AfterIs
<1>12. /\ Typed' /\ \A u \in Servers \ {s} : SameEvents(u)
       /\ \A e \in ToSet(now') : e \in ToSet(now) \/ (e.type = "ack" => e.n = n)
       /\ \A a, t : t # "ack" => N(a, t, s)' = N(a, t, s)
       /\ AcksTo(s, "cjm")' = AcksTo(s, "cjm") + n /\ AcksTo(s, "sjm")' = AcksTo(s, "sjm")
  <2>1. \A jm : AcksTo(s, jm)' = AcksTo(s, jm) + (IF jm = "cjm" THEN n ELSE 0)
    BY ONLY <1>10 DEF Came
  <2>2. AcksTo(s, "cjm")' = AcksTo(s, "cjm") + n /\ AcksTo(s, "sjm")' = AcksTo(s, "sjm")
    BY ONLY <1>2, <2>1
  <2>3. \A e \in ToSet(now') : e \in ToSet(now) \/ (e.type = "ack" => e.n = n)
    BY ONLY <1>10 DEF Came
  <2>4. /\ Typed' /\ \A u \in Servers \ {s} : SameEvents(u)
        /\ \A a, t : t # "ack" => N(a, t, s)' = N(a, t, s)
    BY ONLY <1>2, <1>10 DEF Came
  <2> QED BY ONLY <2>2, <2>3, <2>4
<1>13. /\ disk'[s] \in Seq(Nat \ {0}) /\ SumOf(disk'[s]) = SumOf(disk[s]) + n
       /\ \A m \in ToSet(disk'[s]) : m \in ToSet(disk[s]) \/ m = n
  <2>1. PICK q \in Seq(Nat \ {0}), m \in Nat \ {0} : q = disk[s] /\ m = n
    BY <1>2, <1>4
  <2>2. PICK r : r = Append(q, m)
    OBVIOUS
  <2>3. r \in Seq(Nat \ {0}) /\ SumOf(r) = SumOf(q) + m /\ \A k \in ToSet(r) : k \in ToSet(q) \/ k = m
    BY <2>2, DiskAppended
  <2>4. disk'[s] = r
    BY ONLY <1>2, <2>1, <2>2
  <2> QED BY ONLY <2>1, <2>3, <2>4
<1>14. bstream'[s] \in Nat
  <2>1. bstream[s] \in Nat /\ WriteAt \in Nat
    BY <1>2, Before DEF ServerOK
  <2>2. PICK m \in Nat, w \in Nat : m = n /\ w = WriteAt
    BY <1>4, <2>1
  <2>3. bstream'[s] = IF w + net + m > bstream[s] THEN w + net + m ELSE bstream[s]
    BY ONLY <1>2, <1>7, <2>2 DEF Grown
  <2>4. w + net + m \in Nat
    BY ONLY m \in Nat, w \in Nat, net \in Nat
  <2> QED BY ONLY <2>1, <2>3, <2>4
<1> HIDE DEF n
<1>15. /\ Asking(s)' = Asking(s) /\ Answering(s)' = Answering(s) /\ Completing(s)' = Completing(s)
       /\ Starting(s)' = Starting(s) /\ Finishing(s)' = Finishing(s)
  <2>1. \A t : Sent(up[s], t)' = Sent(up[s], t)
    BY <1>1
  <2>2. Sent(down[s], "req")' = Sent(down[s], "req")
    BY <1>4
  <2> QED BY ONLY <1>12, <2>1, <2>2 DEF Asking, Answering, Starting, Finishing, Completing
<1>16. RequestOK(s)'
  <2>1. /\ mode' = mode /\ plan' = plan /\ srv' = srv /\ req' = req
        /\ N("client", "resp", s)' = N("client", "resp", s)
        /\ sflow'[s].st # "none" /\ sflow'[s].st # "gone"
    BY ONLY <1>1, <1>11, <1>12
  <2>2. srv[s] # "FINISH" /\ sflow[s].st # "none" /\ sflow[s].st # "gone"
    BY ONLY <1>2, <1>6 DEF RequestOK
  <2> QED BY ONLY <1>2, <1>15, <2>1, <2>2 DEF RequestOK, One
<1>17. FlowsOK(s)'
  <2>1. /\ N("cjm", "self", s)' = N("cjm", "self", s) /\ N("sjm", "self", s)' = N("sjm", "self", s)
        /\ N("client", "fin", s)' = N("client", "fin", s)
        /\ N("cjm", "start", s)' = N("cjm", "start", s)
    BY ONLY <1>12
  <2>2. N("sjm", "self", s) = 0 /\ srv[s] # "INIT"
    BY ONLY <1>2, <1>6 DEF FlowsOK, One
  <2>4. ~(plan[s] <= 0)
    BY ONLY <1>6
  <2> QED BY ONLY <1>1, <1>2, <1>6, <1>11, <1>15, <2>1, <2>2, <2>4 DEF FlowsOK, One
<1>18. MovedOK(s)'
  <2>1. mode' = "write" /\ mode' # "read" /\ plan' = plan /\ cflow' = cflow /\ up' = up /\ Source(s)' = Source(s)
    BY ONLY <1>1, <1>6 DEF Source
  <2>2. /\ FlowOK(cflow[s], plan[s]) /\ FlowOK(sflow'[s], plan[s]) /\ cflow[s].net = cflow[s].sto
        /\ plan[s] > 0 => Source(s).off <= plan[s]
        /\ Source(s).off - Source(s).net <= NumBuffers * BufferSize
        /\ InFlight(s, up[s]) = 0 /\ AcksTo(s, "sjm")' = 0
    BY ONLY <1>2, <1>6, <1>11, <1>12 DEF MovedOK
  <2>3. PICK d \in Nat, a \in Nat, i \in Nat, k \in Nat, o \in Nat :
           /\ d = SumOf(disk[s]) /\ a = AcksTo(s, "cjm") /\ k = cflow[s].net /\ i = InFlight(s, down[s])
           /\ o = cflow[s].off /\ o = i + net /\ net = d + sto /\ net = a + k
    <3>1. /\ cflow[s].off = InFlight(s, down[s]) + sflow[s].net
          /\ sflow[s].net = SumOf(disk[s]) + sflow[s].sto
          /\ sflow[s].net = AcksTo(s, "cjm") + cflow[s].net
      BY ONLY <1>2, <1>6 DEF MovedOK
    <3>2. PICK d \in Nat, a \in Nat, i \in Nat, k \in Nat, o \in Nat :
           /\ d = SumOf(disk[s]) /\ a = AcksTo(s, "cjm") /\ k = cflow[s].net /\ i = InFlight(s, down[s])
           /\ o = cflow[s].off
      BY <1>2, <1>4, FlowsTyped
    <3> QED BY ONLY <1>7, <3>1, <3>2
  <2>4. /\ SumOf(disk'[s]) = d + n /\ AcksTo(s, "cjm")' = a + n /\ InFlight(s, down'[s]) = i - n
    BY ONLY <1>4, <1>12, <1>13, <2>3
  <2>5. PICK m \in Nat : m = n
    BY <1>4
  <2>6. o = (i - m) + (net + m) /\ net + m = (d + m) + sto /\ net + m = (a + m) + k
    BY ONLY <2>3, m \in Nat, net \in Nat, sto \in Nat
  <2>7. /\ cflow[s].off = InFlight(s, down'[s]) + sflow'[s].net
        /\ sflow'[s].net = SumOf(disk'[s]) + sflow'[s].sto
        /\ sflow'[s].net = AcksTo(s, "cjm")' + cflow[s].net
        /\ sflow'[s].off = sflow'[s].net
    BY ONLY <1>11, <2>3, <2>4, <2>5, <2>6
  <2> QED BY ONLY <2>1, <2>2, <2>7 DEF MovedOK
<1>19. BuffersFull(s)'
  <2>1. mode' = "write" /\ mode' # "read" /\ plan' = plan /\ up' = up /\ Source(s)' = Source(s)
    BY ONLY <1>1, <1>6 DEF Source
  <2>2. Source(s).off < plan[s] => n = BufferSize
    BY ONLY <1>2, <1>4, down[s][1].type = "push" DEF BuffersFull, Full, n
  <2> QED BY ONLY <1>2, <1>4, <1>12, <2>1, <2>2 DEF BuffersFull, Full
<1>20. AnswerFirst(s)'
  BY ONLY <1>1, <1>6 DEF AnswerFirst
<1>21. ServerOK(s)'
  <2>1. Sent(down[s], "resp")' = 0 /\ Sent(down[s], "comp")' = 0
    BY ONLY <1>2, <1>4 DEF ServerOK
  <2> QED BY ONLY <1>1, <1>2, <1>4, <1>13, <1>14, <1>16, <1>17, <1>18, <1>19, <1>20, <2>1 DEF ServerOK
<1>22. Flows(s)' <=> Flows(s)
  BY ONLY <1>1, <1>12 DEF Flows
<1>23. /\ mode = "write" => (req'[s] = "live" <=> req[s] = "live")
       /\ Asking(s)' + Answering(s)' = Asking(s) + Answering(s)
       /\ phase' = phase /\ remaining' = remaining
  BY ONLY <1>1, <1>15
<1> QED BY <1>2, <1>12, <1>21, <1>22, <1>23, CountsKept

\* The client's flow is there, and not done, while data of a read is on its way.
LEMMA DataFindsClient ==
  ASSUME Begun, NEW s \in Servers, mode = "read", InFlight(s, up[s]) > 0, N("cjm", "start", s) = 0
  PROVE  /\ cflow[s].st = "active" /\ plan[s] > 0 /\ plan[s] \in Nat /\ sflow[s].st # "none"
<1>1. PICK c \in Nat, i \in Nat, d \in Nat, e \in Nat, k \in Nat :
        /\ c = cflow[s].net /\ e = sflow[s].sto /\ k = SumOf(disk[s])
        /\ i = InFlight(s, up[s]) /\ d = sflow[s].off
  BY Known, FlowsTyped
<1>0. MovedOK(s) /\ RequestOK(s) /\ FlowsOK(s) /\ plan[s] \in Nat \cup {Skip}
  BY Known
<1>2. d = k + e /\ e = i + c /\ (plan[s] > 0 => d <= plan[s]) /\ i > 0
  <2>2. /\ sflow[s].off = SumOf(disk[s]) + sflow[s].sto
        /\ sflow[s].sto = InFlight(s, up[s]) + cflow[s].net
        /\ plan[s] > 0 => sflow[s].off <= plan[s]
    BY ONLY mode = "read", <1>0 DEF MovedOK, Source
  <2> QED BY ONLY InFlight(s, up[s]) > 0, <1>1, <2>2
<1>3. sflow[s].st # "none"
  <2>1. sflow[s].st = "none" => sflow[s].sto = 0
    BY FlowsTyped
  <2> QED BY ONLY <1>1, <1>2, <2>1
<1>4. plan[s] > 0 /\ plan[s] \in Nat
  BY ONLY <1>0, <1>3 DEF FlowsOK, Skip
<1>5. cflow[s].net # plan[s]
  BY ONLY <1>1, <1>2, <1>4
<1>6. cflow[s].st \notin {"done", "gone"} /\ cflow[s].st \in FlowStates
  BY <1>5, FlowsTyped DEF Flow
<1>7. cflow[s].st # "none"
  BY ONLY mode = "read", N("cjm", "start", s) = 0, <1>0, <1>4 DEF FlowsOK, One
<1> QED BY ONLY <1>3, <1>4, <1>6, <1>7 DEF FlowStates

LEMMA PushAtClientKeeps ==
  ASSUME Begun, NEW s \in Servers, ArriveAtClient(s), up[s][1].type = "push"
  PROVE  Begun'
<1> DEFINE n == up[s][1].n
           f == ClientProgress(cflow[s], n)
<1>1. /\ up[s] # << >> /\ up' = [up EXCEPT ![s] = Tail(@)]
      /\ Deliver(<<Ev("sjm", "ack", s, n)>> \o FinishOf(f, s, "cjm"))
      /\ cflow' = [cflow EXCEPT ![s] = After(f, s)]
      /\ UNCHANGED <<mode, plan, phase, remaining, req, srv, sflow, down, disk, bstream>>
  BY DEF ArriveAtClient, client
<1>2. /\ ServerOK(s) /\ RequestOK(s) /\ FlowsOK(s) /\ MovedOK(s) /\ BuffersFull(s) /\ AnswerFirst(s)
      /\ mode \in {"read", "write"} /\ plan[s] \in Nat \cup {Skip}
      /\ \A a, t : N(a, t, s) \in Nat
      /\ up[s] \in Seq(Packets) /\ \A t : Sent(up[s], t) \in Nat
      /\ \A jm : AcksTo(s, jm) \in Nat
      /\ up'[s] = Tail(up[s]) /\ Local(s)
      /\ cflow'[s] = After(f, s)
  BY <1>1, Known DEF Begun, Typed, Local
<1>3. Taken(up[s], "push", s)
  BY <1>1, <1>2, TakenPacket
<1>4. /\ n \in Nat \ {0} /\ InFlight(s, up[s]) >= n /\ up'[s] \in Seq(Packets)
      /\ InFlight(s, up[s]) \in Nat /\ InFlight(s, up'[s]) = InFlight(s, up[s]) - n
      /\ \A t : t # "push" => Sent(up[s], t)' = Sent(up[s], t)
      /\ \A p \in ToSet(up'[s]) : p \in ToSet(up[s])
      /\ up[s][1] \in ToSet(up[s])
  <2>1. n \in Nat \ {0} /\ InFlight(s, up[s]) >= n
    BY ONLY <1>3 DEF Taken
  <2> QED BY ONLY <1>2, <1>3, <2>1 DEF Taken
<1>5. N("cjm", "start", s) = 0 /\ N("sched", "resp", s) = 0 /\ N("sjm", "resp", s) = 0
  <2>1. now = << >> \/ arriving
    BY <1>1 DEF Deliver
  <2> QED BY <2>1, OnlyBrought DEF Brought
<1>6. /\ mode = "read" /\ cflow[s].st = "active" /\ plan[s] > 0 /\ plan[s] \in Nat
      /\ sflow[s].st # "none"
  <2>1. InFlight(s, up[s]) > 0
    BY ONLY <1>4
  <2>2. mode = "read"
    BY ONLY <1>2, <2>1 DEF MovedOK
  <2> QED BY <1>5, <2>1, <2>2, DataFindsClient
<1>7. PICK net \in Nat :
        cflow[s] \in Flow /\ net = cflow[s].net /\ net = cflow[s].sto /\ cflow[s].off = 0
  <2>1. cflow[s].net = cflow[s].sto /\ cflow[s].off = 0
    BY ONLY <1>2, <1>6 DEF MovedOK
  <2> QED BY <2>1, FlowsTyped
<1>8. f \in Flow /\ f.st = "active" /\ f.net = net + n /\ f.sto = net + n /\ f.off = 0
  <2>1. PICK m \in Nat, c \in Flow : m = n /\ c = cflow[s]
    BY <1>4, <1>7
  <2>2. PICK h : h = ClientProgress(c, m)
    OBVIOUS
  <2>3. h \in Flow /\ h.st = c.st /\ h.net = c.net + m /\ h.sto = c.sto + m /\ h.off = c.off
    BY <2>2, ProgressIs
  <2>4. f = h
    BY <2>1, <2>2
  <2> QED BY ONLY <1>6, <1>7, <2>1, <2>3, <2>4
<1>0. PICK done \in BOOLEAN : done = Completed(f, s)
  BY DEF Completed
<1>9. PICK kinds :
        /\ kinds = (IF done THEN {<<"sjm", "ack">>, <<"cjm", "self">>} ELSE {<<"sjm", "ack">>})
        /\ Came(s, kinds, n)
  <2>1. /\ Due("sjm", "ack") /\ Brought("sjm", "ack")
        /\ Due("cjm", "self") /\ Brought("cjm", "self")
    BY DEF Due, Brought
  <2>2. CASE Completed(f, s)
    <3>1. <<Ev("sjm", "ack", s, n)>> \o FinishOf(f, s, "cjm") = <<Ev("sjm", "ack", s, n)>> \o <<Ev("cjm", "self", s, 0)>>
      BY <2>2 DEF FinishOf
    <3>2. Leaves(<<Ev("sjm", "ack", s, n)>> \o <<Ev("cjm", "self", s, 0)>>, s,
                 {<<"sjm", "ack">>, <<"cjm", "self">>}, n)
      BY <1>4, <2>1, TwoLeft
    <3>3. Deliver(<<Ev("sjm", "ack", s, n)>> \o <<Ev("cjm", "self", s, 0)>>)
      BY <1>1, <3>1
    <3>4. \A a, t : <<a, t>> \in {<<"sjm", "ack">>, <<"cjm", "self">>} => Brought(a, t)
      BY ONLY <2>1
    <3>5. Came(s, {<<"sjm", "ack">>, <<"cjm", "self">>}, n)
      BY <1>4, <3>2, <3>3, <3>4, AfterDelivery
    <3> QED BY ONLY <1>0, <2>2, <3>5
  <2>3. CASE ~Completed(f, s)
    <3>1. Leaves(<<Ev("sjm", "ack", s, n)>>, s, {<<"sjm", "ack">>}, n)
      BY <1>4, <2>1, SomeLeft
    <3>2. <<Ev("sjm", "ack", s, n)>> \o FinishOf(f, s, "cjm") = <<Ev("sjm", "ack", s, n)>>
      <4>1. PICK q \in Seq(Events) : q = <<Ev("sjm", "ack", s, n)>>
        BY <3>1 DEF Leaves
      <4> QED BY <2>3, <4>1, JoinNothing DEF FinishOf
    <3>3. Deliver(<<Ev("sjm", "ack", s, n)>>)
      BY <1>1, <3>2
    <3>4. \A a, t : <<a, t>> \in {<<"sjm", "ack">>} => Brought(a, t)
      BY ONLY <2>1
    <3>5. Came(s, {<<"sjm", "ack">>}, n)
      BY <1>4, <3>1, <3>3, <3>4, AfterDelivery
    <3> QED BY ONLY <1>0, <2>3, <3>5
  <2> QED BY <2>2, <2>3
<1> HIDE DEF f
<1>11. /\ cflow'[s] \in Flow /\ FlowOK(cflow'[s], plan[s])
       /\ cflow'[s].st = IF done THEN "done" ELSE "active"
       /\ cflow'[s].net = net + n /\ cflow'[s].sto = net + n /\ cflow'[s].off = 0
  <2>1. PICK h \in Flow : h = f
    BY <1>8
  <2> QED BY <1>0, <1>2, <1>8, <2>1, AfterIs
<1> HIDE DEF n
<1>12. /\ Typed' /\ \A u \in Servers \ {s} : SameEvents(u)
       /\ \A e \in ToSet(now') : e \in ToSet(now) \/ (e.type = "ack" => e.n = n)
       /\ N("cjm", "self", s)' = N("cjm", "self", s) + One(done)
       /\ \A a, t : t # "ack" /\ (a # "cjm" \/ t # "self") => N(a, t, s)' = N(a, t, s)
       /\ AckBefore(now, s) => AckBefore(now, s)'
       /\ AcksTo(s, "sjm")' = AcksTo(s, "sjm") + n /\ AcksTo(s, "cjm")' = AcksTo(s, "cjm")
  <2>0. /\ \A a, t : <<a, t>> \in kinds => (a = "sjm" /\ t = "ack") \/ (a = "cjm" /\ t = "self")
        /\ <<"sjm", "ack">> \in kinds /\ <<"cjm", "ack">> \notin kinds /\ <<"client", "resp">> \notin kinds
        /\ <<"cjm", "self">> \in kinds <=> done
    BY ONLY <1>9
  <2>2. AcksTo(s, "sjm")' = AcksTo(s, "sjm") + n /\ AcksTo(s, "cjm")' = AcksTo(s, "cjm")
    <3>1. \A jm : AcksTo(s, jm)' = AcksTo(s, jm) + (IF <<jm, "ack">> \in kinds THEN n ELSE 0)
      BY ONLY <1>9 DEF Came
    <3>2. AcksTo(s, "cjm")' = AcksTo(s, "cjm") + 0
      BY ONLY <2>0, <3>1
    <3> QED BY ONLY <1>2, <2>0, <3>1, <3>2
  <2>3. \A e \in ToSet(now') : e \in ToSet(now) \/ (e.type = "ack" => e.n = n)
    BY ONLY <1>9 DEF Came
  <2>4. \A a, t : t # "ack" /\ (a # "cjm" \/ t # "self") => N(a, t, s)' = N(a, t, s)
    BY ONLY <1>9, <2>0 DEF Came
  <2>5. N("cjm", "self", s)' = N("cjm", "self", s) + One(done)
    <3>1. CASE done
      BY ONLY <1>9, <2>0, <3>1 DEF Came, One
    <3>2. CASE ~done
      <4>1. N("cjm", "self", s)' = N("cjm", "self", s) /\ N("cjm", "self", s) \in Nat
        BY ONLY <1>2, <1>9, <2>0, <3>2 DEF Came
      <4> QED BY ONLY <3>2, <4>1 DEF One
    <3> QED BY <3>1, <3>2
  <2>6. /\ Typed' /\ \A u \in Servers \ {s} : SameEvents(u)
        /\ AckBefore(now, s) => AckBefore(now, s)'
    BY ONLY <1>2, <1>9, <2>0 DEF Came
  <2> QED BY ONLY <2>2, <2>3, <2>4, <2>5, <2>6
<1>15. /\ Asking(s)' = Asking(s) /\ Answering(s)' = Answering(s) /\ Completing(s)' = Completing(s)
       /\ Starting(s)' = Starting(s) /\ Finishing(s)' = Finishing(s)
  <2>1. \A t : Sent(down[s], t)' = Sent(down[s], t)
    BY <1>1
  <2>2. Sent(up[s], "resp")' = Sent(up[s], "resp") /\ Sent(up[s], "comp")' = Sent(up[s], "comp")
    BY <1>4
  <2> QED BY ONLY <1>12, <2>1, <2>2 DEF Asking, Answering, Starting, Finishing, Completing
<1>16. RequestOK(s)'
  <2>1. /\ mode' = mode /\ plan' = plan /\ srv' = srv /\ req' = req /\ sflow' = sflow
        /\ N("client", "resp", s)' = N("client", "resp", s)
    BY ONLY <1>1, <1>12
  <2> QED BY ONLY <1>2, <1>15, <2>1 DEF RequestOK
<1>17. FlowsOK(s)'
  <2>1. /\ N("sjm", "self", s)' = N("sjm", "self", s)
        /\ N("client", "fin", s)' = N("client", "fin", s)
        /\ N("cjm", "start", s)' = N("cjm", "start", s)
    BY ONLY <1>12
  <2>2. N("cjm", "self", s)' = One(cflow'[s].st = "done") /\ N("client", "fin", s) = 0
    <3>1. N("cjm", "self", s) = 0 /\ N("client", "fin", s) = 0
      BY ONLY <1>2, <1>6 DEF FlowsOK, One
    <3> QED BY ONLY <1>11, <1>12, <3>1 DEF One
  <2>4. ~(plan[s] <= 0) /\ cflow'[s].st # "none" /\ mode' # "write" /\ N("cjm", "start", s) = 0
    BY ONLY <1>1, <1>5, <1>6, <1>11
  <2> QED BY ONLY <1>1, <1>2, <1>6, <1>15, <2>1, <2>2, <2>4 DEF FlowsOK, One
<1>18. MovedOK(s)'
  <2>1. mode' = "read" /\ mode' # "write" /\ plan' = plan /\ sflow' = sflow /\ down' = down /\ disk' = disk /\ Source(s)' = Source(s)
    BY ONLY <1>1, <1>6 DEF Source
  <2>2. /\ FlowOK(sflow[s], plan[s]) /\ FlowOK(cflow'[s], plan[s]) /\ cflow'[s].net = cflow'[s].sto
        /\ plan[s] > 0 => Source(s).off <= plan[s]
        /\ Source(s).off - Source(s).net <= NumBuffers * BufferSize
        /\ cflow'[s].off = 0 /\ InFlight(s, down[s]) = 0 /\ AcksTo(s, "cjm")' = 0
        /\ sflow[s].off = SumOf(disk[s]) + sflow[s].sto
    BY ONLY <1>2, <1>6, <1>11, <1>12 DEF MovedOK
  <2>3. PICK a \in Nat, i \in Nat, k \in Nat, o \in Nat :
           /\ a = AcksTo(s, "sjm") /\ k = sflow[s].net /\ i = InFlight(s, up[s])
           /\ o = sflow[s].sto /\ o = i + net /\ net = a + k
    <3>1. /\ sflow[s].sto = InFlight(s, up[s]) + cflow[s].net
          /\ cflow[s].net = AcksTo(s, "sjm") + sflow[s].net
      BY ONLY <1>2, <1>6 DEF MovedOK
    <3>2. PICK a \in Nat, i \in Nat, k \in Nat, o \in Nat :
           /\ a = AcksTo(s, "sjm") /\ k = sflow[s].net /\ i = InFlight(s, up[s])
           /\ o = sflow[s].sto
      BY <1>2, <1>4, FlowsTyped
    <3> QED BY ONLY <1>7, <3>1, <3>2
  <2>4. /\ AcksTo(s, "sjm")' = a + n /\ InFlight(s, up'[s]) = i - n
    BY ONLY <1>4, <1>12, <2>3
  <2>5. PICK m \in Nat : m = n
    BY <1>4
  <2>6. o = (i - m) + (net + m) /\ net + m = (a + m) + k
    BY ONLY <2>3, m \in Nat, net \in Nat
  <2>7. /\ sflow[s].sto = InFlight(s, up'[s]) + cflow'[s].net
        /\ cflow'[s].net = AcksTo(s, "sjm")' + sflow[s].net
    BY ONLY <1>11, <2>3, <2>4, <2>5, <2>6
  <2> QED BY ONLY <2>1, <2>2, <2>7 DEF MovedOK
<1>19. BuffersFull(s)'
  <2>1. mode' = mode /\ plan' = plan /\ down' = down /\ disk' = disk /\ Source(s)' = Source(s)
    BY ONLY <1>1, <1>6 DEF Source
  <2>2. Source(s).off < plan[s] => n = BufferSize
    BY ONLY <1>2, <1>4, up[s][1].type = "push" DEF BuffersFull, Full, n
  <2> QED BY ONLY <1>2, <1>4, <1>12, <2>1, <2>2 DEF BuffersFull, Full
<1>20. AnswerFirst(s)'
  <2>1. Sent(up[s], "resp") = 0
    BY ONLY <1>2, <1>6, up[s][1].type = "push" DEF AnswerFirst
  <2>2. /\ N("sched", "resp", s)' = 0 /\ N("sjm", "resp", s)' = 0 /\ Sent(up'[s], "resp") = 0
        /\ sflow' = sflow /\ mode' = mode
    BY ONLY <1>1, <1>4, <1>5, <1>12, <2>1
  <2> QED BY ONLY <1>2, <1>12, <1>15, <2>2 DEF AnswerFirst
<1>21. ServerOK(s)'
  <2>1. Sent(up[s], "req")' = 0
    BY ONLY <1>2, <1>4 DEF ServerOK
  <2> QED BY ONLY <1>1, <1>2, <1>4, <1>16, <1>17, <1>18, <1>19, <1>20, <2>1 DEF ServerOK
<1>22. Flows(s)' <=> Flows(s)
  BY ONLY <1>6, <1>11 DEF Flows
<1>23. /\ mode = "write" => (req'[s] = "live" <=> req[s] = "live")
       /\ Asking(s)' + Answering(s)' = Asking(s) + Answering(s)
       /\ phase' = phase /\ remaining' = remaining
  BY ONLY <1>1, <1>15
<1> QED BY <1>2, <1>12, <1>21, <1>22, <1>23, CountsKept

-----------------------------------------------------------------------------
\* The disk answers.
LEMMA DiskFindsServer ==
  ASSUME Begun, NEW s \in Servers, SumOf(disk[s]) > 0
  PROVE  sflow[s].st = "active" /\ plan[s] > 0 /\ plan[s] \in Nat
<1>1. PICK c \in Nat, i \in Nat, d \in Nat, e \in Nat, k \in Nat, o \in Nat :
        /\ c = sflow[s].net /\ e = sflow[s].sto /\ k = SumOf(disk[s])
        /\ i = InFlight(s, down[s]) /\ d = cflow[s].off /\ o = sflow[s].off
  BY Known, FlowsTyped
<1>0. MovedOK(s) /\ RequestOK(s) /\ FlowsOK(s) /\ plan[s] \in Nat \cup {Skip} /\ mode \in {"read", "write"}
  BY Known
<1>2. o > e /\ (plan[s] > 0 => o <= plan[s])
  <2>1. CASE mode = "read"
    <3>1. sflow[s].off = SumOf(disk[s]) + sflow[s].sto /\ (plan[s] > 0 => sflow[s].off <= plan[s])
      BY ONLY <1>0, <2>1 DEF MovedOK, Source
    <3> QED BY ONLY SumOf(disk[s]) > 0, <1>1, <3>1
  <2>2. CASE mode = "write"
    <3>1. /\ sflow[s].off = sflow[s].net /\ sflow[s].net = SumOf(disk[s]) + sflow[s].sto
          /\ cflow[s].off = InFlight(s, down[s]) + sflow[s].net
          /\ plan[s] > 0 => cflow[s].off <= plan[s]
      BY ONLY <1>0, <2>2 DEF MovedOK, Source
    <3>2. o = c /\ c = k + e /\ d = i + c /\ (plan[s] > 0 => d <= plan[s]) /\ k > 0
      BY ONLY SumOf(disk[s]) > 0, <1>1, <3>1
    <3>3. plan[s] > 0 => o <= plan[s]
      <4>1. CASE plan[s] > 0
        <5>1. plan[s] \in Nat
          BY ONLY <1>0, <4>1 DEF Skip
        <5> QED BY ONLY <3>2, <4>1, <5>1, o \in Nat, c \in Nat, d \in Nat, i \in Nat
      <4> QED BY <4>1
    <3> QED BY ONLY <3>2, <3>3, o \in Nat, c \in Nat, k \in Nat, e \in Nat
  <2> QED BY <1>0, <2>1, <2>2
<1>3. sflow[s].st # "none"
  <2>1. sflow[s].st = "none" => sflow[s].off = 0
    BY FlowsTyped
  <2> QED BY ONLY <1>1, <1>2, <2>1
<1>4. plan[s] > 0 /\ plan[s] \in Nat
  BY ONLY <1>0, <1>3 DEF FlowsOK, Skip
<1>5. sflow[s].sto # plan[s]
  BY ONLY <1>1, <1>2, <1>4
<1>6. sflow[s].st \notin {"done", "gone"} /\ sflow[s].st \in FlowStates
  BY <1>5, FlowsTyped DEF Flow
<1> QED BY ONLY <1>3, <1>4, <1>6 DEF FlowStates

LEMMA JoinedSet ==
  ASSUME NEW E, NEW q \in Seq(E), NEW r \in Seq(E)
  PROVE  ToSet(q \o r) = ToSet(q) \cup ToSet(r)
BY SetOfSeq

LEMMA DiskRemoved ==
  ASSUME NEW q \in Seq(Nat \ {0}), NEW i \in 1..Len(q)
  PROVE  RemoveAt(q, i) \in Seq(Nat \ {0}) /\ \A m \in ToSet(RemoveAt(q, i)) : m \in ToSet(q)
<1>1. RemoveAt(q, i) = SubSeq(q, 1, i - 1) \o SubSeq(q, i + 1, Len(q))
  BY DEF RemoveAt
<1>2. PICK a, b : a = SubSeq(q, 1, i - 1) /\ b = SubSeq(q, i + 1, Len(q))
  OBVIOUS
<1>3. PICK E : E = Nat \ {0}
  OBVIOUS
<1>4. a \in Seq(E) /\ b \in Seq(E) /\ <<q[i]>> \in Seq(E) /\ q \in Seq(E)
  <2>1. q \in Seq(E) /\ 1 \in 1..Len(q) + 1 /\ i - 1 \in 0..Len(q) /\ i + 1 \in 1..Len(q) + 1 /\ Len(q) \in Nat
    BY <1>3
  <2>2. SubSeq(q, 1, i - 1) \in Seq(E) /\ SubSeq(q, i + 1, Len(q)) \in Seq(E)
    BY ONLY <2>1, SubSeqProperties
  <2>3. q[i] \in E
    BY <1>3
  <2> QED BY ONLY <1>2, <2>1, <2>2, <2>3
<1>5. SubSeq(q, 1, i) = a \o <<q[i]>>
  BY <1>2, SubSeqRecursiveSecond, 1 \in 1..Len(q), i \in 1..Len(q)
<1>6. SubSeq(q, 1, i) \o b = q
  BY <1>2, ConcatAdjacentSubSeq, SubSeqFull, 1 \in 1..Len(q) + 1, i \in 0..Len(q), Len(q) \in i..Len(q)
<1>7. PICK c : c = a \o <<q[i]>> /\ c \in Seq(E)
  BY <1>4, ConcatProperties
<1>8. ToSet(c) = ToSet(a) \cup ToSet(<<q[i]>>) /\ ToSet(c \o b) = ToSet(c) \cup ToSet(b)
  <2>1. PICK d \in Seq(E) : d = <<q[i]>>
    BY <1>4
  <2>2. ToSet(a \o d) = ToSet(a) \cup ToSet(d)
    BY <1>4, JoinedSet
  <2>3. ToSet(c \o b) = ToSet(c) \cup ToSet(b)
    BY <1>4, <1>7, JoinedSet
  <2> QED BY ONLY <1>7, <2>1, <2>2, <2>3
<1>9. ToSet(a \o b) = ToSet(a) \cup ToSet(b) /\ a \o b \in Seq(E)
  BY <1>4, JoinedSet, ConcatProperties
<1>10. c \o b = q
  BY <1>5, <1>6, <1>7
<1> QED BY ONLY <1>1, <1>2, <1>3, <1>8, <1>9, <1>10

LEMMA StoCounted ==
  ASSUME NEW c \in Flow, NEW m \in Nat
  PROVE  LET h == [c EXCEPT !.sto = @ + m]
         IN h \in Flow /\ h.st = c.st /\ h.off = c.off /\ h.net = c.net /\ h.sto = c.sto + m
BY DEF Flow

LEMMA SentPush ==
  ASSUME NEW q \in Seq(Packets), NEW n \in Nat \ {0}, NEW s
  PROVE  /\ Append(q, Packet("push", n)) \in Seq(Packets)
         /\ \A t : t # "push" => Sent(Append(q, Packet("push", n)), t) = Sent(q, t)
         /\ InFlight(s, Append(q, Packet("push", n))) = InFlight(s, q) + n
         /\ \A p \in ToSet(Append(q, Packet("push", n))) : p \in ToSet(q) \/ p.n = n
         /\ q # << >> => Append(q, Packet("push", n))[1] = q[1]
<1>1. PICK p \in Packets : p = Packet("push", n) /\ p.type = "push" /\ p.n = n
  <2>1. PICK p : p = [type |-> "push", n |-> n]
    OBVIOUS
  <2>3. p \in [type : {"req", "resp", "comp", "push"}, n : Nat] /\ p.type = "push" /\ p.n = n
    BY <2>1
  <2>4. p \in Packets
    BY <2>3 DEF Packets
  <2> QED BY <2>1, <2>3, <2>4 DEF Packet
<1>2. /\ Append(q, p) \in Seq(Packets)
      /\ ToSet(Append(q, p)) = ToSet(q) \cup {p}
      /\ \A t : Sent(Append(q, p), t) = Sent(q, t) + One(p.type = t)
      /\ InFlight(s, Append(q, p)) = InFlight(s, q) + p.n
      /\ Append(q, p)[1] = IF q = << >> THEN p ELSE q[1]
  BY PacketAppended
<1>3. \A t : Sent(q, t) \in Nat
  BY PacketsIn
<1>4. ASSUME NEW t, t # "push" PROVE Sent(Append(q, p), t) = Sent(q, t)
  <2>1. Sent(Append(q, p), t) = Sent(q, t) + 0
    BY ONLY <1>1, <1>2, <1>4 DEF One
  <2> QED BY ONLY <1>3, <2>1
<1> QED BY ONLY <1>1, <1>2, <1>4

LEMMA DiskAnswersKeeps ==
  ASSUME Begun, NEW s \in Servers, DiskAnswers(s)
  PROVE  Begun'
<1>1. PICK i \in 1..Len(disk[s]) :
        LET f == [sflow[s] EXCEPT !.sto = @ + disk[s][i]] IN
        /\ disk' = [disk EXCEPT ![s] = RemoveAt(@, i)]
        /\ up' = IF mode = "read" THEN [up EXCEPT ![s] = Append(@, Packet("push", disk[s][i]))]
                 ELSE up
        /\ Deliver(FinishOf(f, s, "sjm"))
        /\ sflow' = [sflow EXCEPT ![s] = After(f, s)]
        /\ UNCHANGED <<mode, plan, phase, remaining, req, srv, cflow, down, bstream>>
  BY DEF DiskAnswers, client
<1> DEFINE n == disk[s][i]
           f == [sflow[s] EXCEPT !.sto = @ + n]
<1>2. /\ ServerOK(s) /\ RequestOK(s) /\ FlowsOK(s) /\ MovedOK(s) /\ BuffersFull(s) /\ AnswerFirst(s)
      /\ mode \in {"read", "write"} /\ plan[s] \in Nat \cup {Skip}
      /\ \A a, t : N(a, t, s) \in Nat
      /\ up[s] \in Seq(Packets) /\ (\A t : Sent(up[s], t) \in Nat) /\ InFlight(s, up[s]) \in Nat
      /\ disk[s] \in Seq(Nat \ {0}) /\ SumOf(disk[s]) \in Nat
      /\ \A jm : AcksTo(s, jm) \in Nat
      /\ disk'[s] = RemoveAt(disk[s], i) /\ sflow'[s] = After(f, s)
      /\ Local(s) /\ up'[s] = IF mode = "read" THEN Append(up[s], Packet("push", n)) ELSE up[s]
  <2>1. /\ DOMAIN req = Servers /\ DOMAIN srv = Servers /\ DOMAIN cflow = Servers /\ DOMAIN sflow = Servers
        /\ DOMAIN down = Servers /\ DOMAIN up = Servers /\ DOMAIN disk = Servers /\ DOMAIN bstream = Servers
    BY DEF Begun, Typed
  <2>2. /\ DOMAIN up' = Servers /\ \A u \in Servers \ {s} : up'[u] = up[u]
        /\ up'[s] = IF mode = "read" THEN Append(up[s], Packet("push", n)) ELSE up[s]
    <3>1. CASE mode = "read"
      BY <1>1, <2>1, <3>1
    <3>2. CASE mode # "read"
      BY <1>1, <2>1, <3>2
    <3> QED BY <3>1, <3>2
  <2>3. Local(s) /\ disk'[s] = RemoveAt(disk[s], i) /\ sflow'[s] = After(f, s)
    BY ONLY s \in Servers, <1>1, <2>1, <2>2 DEF Local
  <2> QED BY <2>2, <2>3, Known
<1>3. /\ n \in Nat \ {0} /\ SumOf(disk[s]) >= n /\ disk'[s] \in Seq(Nat \ {0})
      /\ SumOf(disk'[s]) \in Nat /\ SumOf(disk[s]) = SumOf(disk'[s]) + n
      /\ \A m \in ToSet(disk'[s]) : m \in ToSet(disk[s])
      /\ n \in ToSet(disk[s])
  <2>1. PICK q \in Seq(Nat \ {0}) : q = disk[s]
    BY <1>2
  <2>2. PICK r : r = RemoveAt(q, i)
    OBVIOUS
  <2>3. q \in Seq(Nat) /\ i \in 1..Len(q) /\ q[i] \in Nat \ {0} /\ q[i] \in ToSet(q)
    BY <2>1 DEF ToSet
  <2>4. r \in Seq(Nat) /\ SumOf(q) = SumOf(r) + q[i] /\ SumOf(q) >= q[i] /\ SumOf(r) \in Nat
    BY <2>2, <2>3, SumRemove, SumNat
  <2>5. r \in Seq(Nat \ {0}) /\ \A m \in ToSet(r) : m \in ToSet(q)
    BY <2>2, <2>3, DiskRemoved
  <2> QED BY ONLY <1>2, <2>1, <2>2, <2>3, <2>4, <2>5
<1>5. N("sched", "resp", s) = 0 /\ N("sjm", "resp", s) = 0
  <2>1. now = << >> \/ arriving
    BY <1>1 DEF Deliver
  <2> QED BY <2>1, OnlyBrought DEF Brought
<1>6. sflow[s].st = "active" /\ plan[s] > 0 /\ plan[s] \in Nat
  <2>1. SumOf(disk[s]) > 0
    BY ONLY <1>2, <1>3
  <2> QED BY <2>1, DiskFindsServer
<1>7. PICK net \in Nat, sto \in Nat, off \in Nat :
        sflow[s] \in Flow /\ net = sflow[s].net /\ sto = sflow[s].sto /\ off = sflow[s].off
  BY FlowsTyped
<1>8. f \in Flow /\ f.st = "active" /\ f.net = net /\ f.sto = sto + n /\ f.off = off
  <2>1. PICK m \in Nat, c \in Flow : m = n /\ c = sflow[s]
    BY <1>3, <1>7
  <2>2. PICK h : h = [c EXCEPT !.sto = @ + m]
    OBVIOUS
  <2>3. h \in Flow /\ h.st = c.st /\ h.net = c.net /\ h.off = c.off /\ h.sto = c.sto + m
    BY <2>2, StoCounted
  <2>4. f = h
    BY <2>1, <2>2
  <2> QED BY ONLY <1>6, <1>7, <2>1, <2>3, <2>4
<1>0. PICK done \in BOOLEAN : done = Completed(f, s)
  BY DEF Completed
<1>9. PICK kinds : kinds = (IF done THEN {<<"sjm", "self">>} ELSE {}) /\ Came(s, kinds, 0)
  <2>1. Leaves(FinishOf(f, s, "sjm"), s, Ending(f, s, "sjm"), 0)
    BY FinishLeaves
  <2>2. \A a, t : <<a, t>> \in Ending(f, s, "sjm") => Brought(a, t)
    BY DEF Ending, Brought
  <2>3. Came(s, Ending(f, s, "sjm"), 0)
    BY <1>1, <2>1, <2>2, AfterDelivery
  <2> QED BY <1>0, <2>3 DEF Ending
<1>11. /\ sflow'[s] \in Flow /\ FlowOK(sflow'[s], plan[s])
       /\ sflow'[s].st = IF done THEN "done" ELSE "active"
       /\ sflow'[s].net = net /\ sflow'[s].sto = sto + n /\ sflow'[s].off = off
  <2>1. PICK h \in Flow : h = f
    BY <1>8
  <2>2. h.st = "active" /\ h.net = net /\ h.sto = sto + n /\ h.off = off
    BY ONLY <1>8, <2>1
  <2>3. sflow'[s] = After(h, s) /\ done = Completed(h, s)
    BY <1>0, <1>2, <2>1
  <2> QED BY <2>2, <2>3, AfterIs
<1> HIDE DEF f
<1> HIDE DEF n
<1>12. /\ Typed' /\ \A u \in Servers \ {s} : SameEvents(u)
       /\ \A e \in ToSet(now') : e \in ToSet(now) \/ e.type # "ack"
       /\ N("sjm", "self", s)' = N("sjm", "self", s) + One(done)
       /\ \A a, t : t # "ack" /\ (a # "sjm" \/ t # "self") => N(a, t, s)' = N(a, t, s)
       /\ AckBefore(now, s) => AckBefore(now, s)'
       /\ AcksTo(s, "sjm")' = AcksTo(s, "sjm") /\ AcksTo(s, "cjm")' = AcksTo(s, "cjm")
  <2>0. /\ \A a, t : <<a, t>> \in kinds => a = "sjm" /\ t = "self"
        /\ <<"client", "resp">> \notin kinds
        /\ <<"sjm", "self">> \in kinds <=> done
    BY ONLY <1>9
  <2>2. AcksTo(s, "sjm")' = AcksTo(s, "sjm") /\ AcksTo(s, "cjm")' = AcksTo(s, "cjm")
    <3>1. \A jm : AcksTo(s, jm)' = AcksTo(s, jm) + 0
      BY ONLY <1>9 DEF Came
    <3> QED BY ONLY <1>2, <3>1
  <2>3. \A e \in ToSet(now') : e \in ToSet(now) \/ e.type # "ack"
    BY ONLY <1>9, <2>0 DEF Came
  <2>4. \A a, t : t # "ack" /\ (a # "sjm" \/ t # "self") => N(a, t, s)' = N(a, t, s)
    BY ONLY <1>9, <2>0 DEF Came
  <2>5. N("sjm", "self", s)' = N("sjm", "self", s) + One(done)
    <3>1. CASE done
      BY ONLY <1>9, <2>0, <3>1 DEF Came, One
    <3>2. CASE ~done
      <4>1. N("sjm", "self", s)' = N("sjm", "self", s) /\ N("sjm", "self", s) \in Nat
        BY ONLY <1>2, <1>9, <2>0, <3>2 DEF Came
      <4> QED BY ONLY <3>2, <4>1 DEF One
    <3> QED BY <3>1, <3>2
  <2>6. /\ Typed' /\ \A u \in Servers \ {s} : SameEvents(u)
        /\ AckBefore(now, s) => AckBefore(now, s)'
    BY ONLY <1>2, <1>9, <2>0 DEF Came
  <2> QED BY ONLY <2>2, <2>3, <2>4, <2>5, <2>6
<1>13. /\ up'[s] \in Seq(Packets)
       /\ \A t : t # "push" => Sent(up[s], t)' = Sent(up[s], t)
       /\ InFlight(s, up'[s]) = InFlight(s, up[s]) + (IF mode = "read" THEN n ELSE 0)
       /\ \A p \in ToSet(up'[s]) : p \in ToSet(up[s]) \/ (mode = "read" /\ p.n = n)
       /\ up[s] # << >> => up'[s][1] = up[s][1]
  <2>1. CASE mode = "read"
    <3>1. PICK q \in Seq(Packets), m \in Nat \ {0} : q = up[s] /\ m = n
      BY <1>2, <1>3
    <3>2. PICK r : r = Append(q, Packet("push", m))
      OBVIOUS
    <3>3. /\ r \in Seq(Packets) /\ \A t : t # "push" => Sent(r, t) = Sent(q, t)
          /\ InFlight(s, r) = InFlight(s, q) + m
          /\ \A p \in ToSet(r) : p \in ToSet(q) \/ p.n = m
          /\ q # << >> => r[1] = q[1]
      BY <3>2, SentPush
    <3>4. up'[s] = r
      BY ONLY <1>2, <2>1, <3>1, <3>2
    <3> QED BY ONLY <2>1, <3>1, <3>3, <3>4
  <2>2. CASE mode # "read"
    <3>1. up'[s] = up[s] /\ InFlight(s, up[s]) = InFlight(s, up[s]) + 0
      BY ONLY <1>2, <2>2
    <3> QED BY ONLY <1>2, <2>2, <3>1
  <2> QED BY <2>1, <2>2
<1>15. /\ Asking(s)' = Asking(s) /\ Answering(s)' = Answering(s) /\ Completing(s)' = Completing(s)
       /\ Starting(s)' = Starting(s) /\ Finishing(s)' = Finishing(s)
  <2>1. \A t : Sent(down[s], t)' = Sent(down[s], t)
    BY <1>1
  <2>2. Sent(up[s], "resp")' = Sent(up[s], "resp") /\ Sent(up[s], "comp")' = Sent(up[s], "comp")
    BY <1>13
  <2> QED BY ONLY <1>12, <2>1, <2>2 DEF Asking, Answering, Starting, Finishing, Completing
<1>16. RequestOK(s)'
  <2>1. /\ mode' = mode /\ plan' = plan /\ srv' = srv /\ req' = req
        /\ N("client", "resp", s)' = N("client", "resp", s)
        /\ sflow'[s].st # "none" /\ sflow'[s].st # "gone"
    BY ONLY <1>1, <1>11, <1>12
  <2>2. srv[s] # "FINISH" /\ sflow[s].st # "none" /\ sflow[s].st # "gone"
    BY ONLY <1>2, <1>6 DEF RequestOK
  <2> QED BY ONLY <1>2, <1>15, <2>1, <2>2 DEF RequestOK, One
<1>17. FlowsOK(s)'
  <2>1. /\ N("cjm", "self", s)' = N("cjm", "self", s)
        /\ N("client", "fin", s)' = N("client", "fin", s)
        /\ N("cjm", "start", s)' = N("cjm", "start", s)
        /\ N("sched", "req", s)' = N("sched", "req", s) /\ N("server", "req", s)' = N("server", "req", s)
    BY ONLY <1>12
  <2>2. N("sjm", "self", s)' = One(sflow'[s].st = "done") /\ srv[s] # "INIT"
    <3>1. N("sjm", "self", s) = 0 /\ srv[s] # "INIT"
      BY ONLY <1>2, <1>6 DEF FlowsOK, One
    <3> QED BY ONLY <1>11, <1>12, <3>1 DEF One
  <2>4. ~(plan[s] <= 0)
    BY ONLY <1>6
  <2> QED BY ONLY <1>1, <1>2, <1>6, <1>15, <2>1, <2>2, <2>4 DEF FlowsOK, One
<1>18. MovedOK(s)'
  <2>1. mode' = mode /\ plan' = plan /\ cflow' = cflow /\ down' = down
    BY ONLY <1>1
  <2>0. /\ Source(s)'.off = Source(s).off /\ Source(s)'.net = Source(s).net
    BY ONLY <1>1, <1>7, <1>11 DEF Source
  <2>2. /\ FlowOK(cflow[s], plan[s]) /\ FlowOK(sflow'[s], plan[s]) /\ cflow[s].net = cflow[s].sto
        /\ plan[s] > 0 => Source(s).off <= plan[s]
        /\ Source(s).off - Source(s).net <= NumBuffers * BufferSize
    BY ONLY <1>2, <1>11 DEF MovedOK
  <2>3. PICK m \in Nat, d \in Nat, d1 \in Nat, j \in Nat, k \in Nat :
           /\ m = n /\ d = SumOf(disk[s]) /\ d1 = SumOf(disk'[s]) /\ j = InFlight(s, up[s]) /\ k = cflow[s].net
           /\ d = d1 + m
    <3>1. PICK k \in Nat : k = cflow[s].net
      BY FlowsTyped
    <3> QED BY ONLY <1>2, <1>3, <3>1
  <2>4. CASE mode = "read"
    <3>1. off = d + sto /\ sto = j + k
      <4>1. /\ sflow[s].off = SumOf(disk[s]) + sflow[s].sto
            /\ sflow[s].sto = InFlight(s, up[s]) + cflow[s].net
        <5>1. MovedOK(s)
          BY ONLY <1>2
        <5> QED BY ONLY <5>1, <2>4 DEF MovedOK
      <4> QED BY ONLY <1>7, <2>3, <4>1
    <3>2. off = d1 + (sto + m) /\ sto + m = (j + m) + k
      <4>1. d = d1 + m
        BY ONLY <2>3
      <4> QED BY ONLY <3>1, <4>1, off \in Nat, sto \in Nat, m \in Nat, d \in Nat, d1 \in Nat, j \in Nat, k \in Nat
    <3>3. InFlight(s, up'[s]) = j + m
      BY ONLY <1>13, <2>3, <2>4
    <3>4. /\ sflow'[s].off = SumOf(disk'[s]) + sflow'[s].sto
          /\ sflow'[s].sto = InFlight(s, up'[s]) + cflow[s].net
      BY ONLY <1>11, <2>3, <3>2, <3>3
    <3>5. /\ mode' = "read" /\ mode' # "write"
          /\ cflow[s].off = 0 /\ InFlight(s, down[s]) = 0 /\ AcksTo(s, "cjm")' = 0
          /\ cflow[s].net = AcksTo(s, "sjm")' + sflow'[s].net
      BY ONLY <1>2, <1>7, <1>11, <1>12, <2>1, <2>4 DEF MovedOK
    <3> QED BY ONLY <2>0, <2>1, <2>2, <3>4, <3>5 DEF MovedOK
  <2>5. CASE mode = "write"
    <3>1. net = d + sto /\ off = net
      BY ONLY <1>2, <1>7, <2>3, <2>5 DEF MovedOK
    <3>2. net = d1 + (sto + m)
      BY ONLY <2>3, <3>1, net \in Nat, sto \in Nat, m \in Nat, d \in Nat, d1 \in Nat
    <3>3. InFlight(s, up'[s]) = 0
      <4>1. InFlight(s, up[s]) = 0
        BY ONLY <1>2, <2>5 DEF MovedOK
      <4> QED BY ONLY <1>2, <2>5, <4>1
    <3>4. sflow'[s].net = SumOf(disk'[s]) + sflow'[s].sto /\ sflow'[s].off = sflow'[s].net
      BY ONLY <1>11, <2>3, <3>1, <3>2
    <3>5. /\ mode' = "write" /\ mode' # "read"
          /\ AcksTo(s, "sjm")' = 0
          /\ cflow[s].off = InFlight(s, down[s]) + sflow'[s].net
          /\ sflow'[s].net = AcksTo(s, "cjm")' + cflow[s].net
      BY ONLY <1>2, <1>7, <1>11, <1>12, <2>1, <2>5 DEF MovedOK
    <3> QED BY ONLY <2>0, <2>1, <2>2, <3>3, <3>4, <3>5 DEF MovedOK
  <2> QED BY <1>2, <2>4, <2>5
<1>19. BuffersFull(s)'
  <2>1. mode' = mode /\ plan' = plan /\ down' = down /\ Source(s)'.off = Source(s).off
    BY ONLY <1>1, <1>7, <1>11 DEF Source
  <2>2. Source(s).off < plan[s] /\ mode = "read" => n = BufferSize
    BY ONLY <1>2, <1>3 DEF BuffersFull, Full
  <2> QED BY ONLY <1>2, <1>3, <1>12, <1>13, <2>1, <2>2 DEF BuffersFull, Full
<1>20. AnswerFirst(s)'
  <2>1. CASE mode = "read"
    <3>1. /\ N("sched", "resp", s)' = 0 /\ N("sjm", "resp", s)' = 0
          /\ Sent(up'[s], "resp") = Sent(up[s], "resp")
          /\ sflow'[s].net = sflow[s].net /\ cflow' = cflow /\ mode' = mode
      BY ONLY <1>1, <1>5, <1>7, <1>11, <1>12, <1>13
    <3>2. Sent(up[s], "resp") > 0 => up[s] # << >>
      <4>1. up[s] = << >> => Sent(up[s], "resp") = 0
        BY TotalEmpty DEF Sent
      <4> QED BY ONLY <4>1
    <3> QED BY ONLY <1>2, <1>12, <1>13, <1>15, <2>1, <3>1, <3>2 DEF AnswerFirst
  <2>2. CASE mode # "read"
    BY ONLY <1>1, <2>2 DEF AnswerFirst
  <2> QED BY <2>1, <2>2
<1>21. ServerOK(s)'
  <2>1. Sent(up[s], "req")' = 0
    BY ONLY <1>2, <1>13 DEF ServerOK
  <2> QED BY ONLY <1>1, <1>2, <1>3, <1>13, <1>16, <1>17, <1>18, <1>19, <1>20, <2>1 DEF ServerOK
<1>22. Flows(s)' <=> Flows(s)
  BY ONLY <1>1, <1>12 DEF Flows
<1>23. /\ mode = "write" => (req'[s] = "live" <=> req[s] = "live")
       /\ Asking(s)' + Answering(s)' = Asking(s) + Answering(s)
       /\ phase' = phase /\ remaining' = remaining
  BY ONLY <1>1, <1>15
<1> QED BY <1>2, <1>12, <1>21, <1>22, <1>23, CountsKept

-----------------------------------------------------------------------------
\* The start of the operation: what the client sends for each server, one
\* server after the other.
Lists(n, E) == [1..n -> Seq(E)]
Joined(g, n, E, q) == /\ g \in Lists(n, E) /\ FlattenSeq(q) = g[n] /\ g[1] = q[1]
                      /\ \A i \in 2..n : g[i] = g[i - 1] \o q[i]

LEMMA FlattenIs ==
  ASSUME NEW n \in Nat \ {0}, NEW E, NEW q, q \in Lists(n, E)
  PROVE  \E g : Joined(g, n, E, q)
<1> DEFINE Upto(g, k) == /\ g \in [1..k -> Seq(E)] /\ g[1] = q[1]
                         /\ \A i \in 2..k : g[i] = g[i - 1] \o q[i]
           Bad == {k \in 1..n : ~\E g : Upto(g, k)}
           Rec(f) == f = [i \in 1..n |-> IF i = 1 THEN q[i] ELSE f[i - 1] \o q[i]]
<1>1. q \in [1..n -> Seq(E)] /\ \A i \in 1..n : q[i] \in Seq(E)
  BY DEF Lists
<1>2. ASSUME NEW k \in Bad, \A j \in Bad : k <= j PROVE FALSE
  <2>1. k # 1
    <3>1. Upto([i \in 1..1 |-> q[1]], 1)
      BY <1>1
    <3>2. \E g : Upto(g, 1)
      <4> HIDE DEF Upto
      <4> QED BY <3>1
    <3> QED BY <3>2
  <2>2. k \in 1..n /\ k \in Nat
    BY <1>2
  <2>3. k - 1 \in 1..n /\ ~(k <= k - 1) /\ k \in 2..n
    BY <2>1, <2>2
  <2>4. k - 1 \notin Bad
    <3> HIDE DEF Bad
    <3> QED BY <1>2, <2>3
  <2>5. PICK g : Upto(g, k - 1)
    BY <2>3, <2>4
  <2> DEFINE f == [i \in 1..k |-> IF i = k THEN g[k - 1] \o q[k] ELSE g[i]]
  <2>6. f \in [1..k -> Seq(E)] /\ f[1] = q[1]
    <3>1. k - 1 \in 1..k - 1 /\ g[k - 1] \in Seq(E) /\ q[k] \in Seq(E)
      BY <1>1, <2>2, <2>3, <2>5
    <3>2. g[k - 1] \o q[k] \in Seq(E)
      BY <3>1, ConcatProperties
    <3>3. \A i \in 1..k : i # k => g[i] \in Seq(E)
      BY <2>3, <2>5
    <3>4. f[1] = q[1]
      BY <2>3, <2>5
    <3> QED BY <3>2, <3>3, <3>4
  <2>7. ASSUME NEW i \in 2..k PROVE f[i] = f[i - 1] \o q[i]
    <3>1. i \in 1..k /\ i - 1 \in 1..k /\ i - 1 # k
      BY <2>2
    <3>2. f[i - 1] = g[i - 1] /\ f[i] = IF i = k THEN g[k - 1] \o q[k] ELSE g[i]
      BY <3>1
    <3>3. CASE i = k
      BY ONLY <3>2, <3>3
    <3>4. CASE i # k
      <4>1. i \in 2..k - 1
        BY <2>2, <3>4
      <4>2. g[i] = g[i - 1] \o q[i]
        BY ONLY <2>5, <4>1
      <4> QED BY ONLY <3>2, <3>4, <4>2
    <3> QED BY <3>3, <3>4
  <2>8. Upto(f, k)
    BY <2>6, <2>7
  <2>9. \E g1 : Upto(g1, k)
    <3> HIDE DEF f, Upto
    <3> QED BY <2>8
  <2> QED BY <1>2, <2>9
<1>3. Bad \in SUBSET Nat
  <2>1. 1..n \in SUBSET Nat
    OBVIOUS
  <2> HIDE DEF Upto
  <2> QED BY ONLY <2>1
<1>4. (~\E g : Upto(g, n)) => n \in Bad
  <2>1. n \in 1..n
    OBVIOUS
  <2> HIDE DEF Upto
  <2> QED BY ONLY <2>1
<1>5. PICK g : Upto(g, n)
  <2> HIDE DEF Bad, Upto
  <2> QED BY <1>2, <1>3, <1>4, LeastNat
<1>6. Rec(g)
  <2>1. g = [i \in 1..n |-> g[i]]
    BY <1>5
  <2>2. ASSUME NEW i \in 1..n PROVE g[i] = IF i = 1 THEN q[i] ELSE g[i - 1] \o q[i]
    <3>1. i = 1 \/ i \in 2..n
      OBVIOUS
    <3> QED BY ONLY <1>5, <3>1
  <2> QED BY <2>1, <2>2
<1> DEFINE f == CHOOSE h : Rec(h)
<1>7. Rec(f)
  <2> HIDE DEF Rec
  <2> QED BY <1>6
<1>8. FlattenSeq(q) = f[n]
  <2>1. Len(q) = n /\ n # 0
    BY <1>1
  <2> QED BY <2>1 DEF FlattenSeq
<1> HIDE DEF f
<1>9. \A i \in 1..n : f[i] = IF i = 1 THEN q[i] ELSE f[i - 1] \o q[i]
  BY <1>7
<1> DEFINE Wrong == {k \in 1..n : f[k] # g[k]}
<1>10. ASSUME NEW k \in Wrong, \A j \in Wrong : k <= j PROVE FALSE
  <2>1. k \in 1..n /\ f[k] # g[k]
    BY <1>10
  <2>2. k # 1
    BY <1>5, <1>9, <2>1
  <2>3. k \in 2..n /\ k - 1 \in 1..n /\ ~(k <= k - 1)
    BY <2>1, <2>2
  <2>4. f[k - 1] = g[k - 1]
    BY <1>10, <2>3
  <2>5. f[k] = f[k - 1] \o q[k]
    BY <1>9, <2>1, <2>2
  <2>6. g[k] = g[k - 1] \o q[k]
    BY <1>5, <2>3
  <2> QED BY ONLY <2>1, <2>4, <2>5, <2>6
<1>11. Wrong \in SUBSET Nat /\ (f[n] # g[n] => n \in Wrong)
  OBVIOUS
<1>12. f[n] = g[n]
  <2> HIDE DEF Wrong
  <2> QED BY <1>10, <1>11, LeastNat
<1>13. g \in Lists(n, E)
  BY <1>5 DEF Lists
<1>14. g[1] = q[1] /\ \A i \in 2..n : g[i] = g[i - 1] \o q[i]
  BY ONLY <1>5
<1> QED BY ONLY <1>8, <1>12, <1>13, <1>14 DEF Joined

LEMMA Flattened ==
  ASSUME NEW n \in Nat \ {0}, NEW q \in [1..n -> Seq(Events)]
  PROVE  /\ FlattenSeq(q) \in Seq(Events)
         /\ \A x \in ToSet(FlattenSeq(q)) : \E i \in 1..n : x \in ToSet(q[i])
         /\ \A w \in [Events -> Nat], k \in 1..n :
              (\A i \in 1..n : i # k => Total(q[i], w) = 0) => Total(FlattenSeq(q), w) = Total(q[k], w)
<1>1. PICK g : /\ g \in [1..n -> Seq(Events)] /\ FlattenSeq(q) = g[n] /\ g[1] = q[1]
               /\ \A i \in 2..n : g[i] = g[i - 1] \o q[i]
  <2>1. q \in Lists(n, Events)
    BY DEF Lists
  <2>2. PICK g : Joined(g, n, Events, q)
    BY ONLY <2>1, n \in Nat \ {0}, FlattenIs
  <2> QED BY ONLY <2>2 DEF Joined, Lists
<1>2. \A i \in 1..n : g[i] \in Seq(Events) /\ q[i] \in Seq(Events)
  BY <1>1
<1>3. ASSUME NEW x, x \in ToSet(g[n]) PROVE \E i \in 1..n : x \in ToSet(q[i])
  <2> DEFINE In == {k \in 1..n : x \in ToSet(g[k])}
  <2>1. PICK k \in In : \A j \in In : k <= j
    <3>1. In \in SUBSET Nat /\ n \in In
      BY <1>3
    <3> HIDE DEF In
    <3> QED BY <3>1, LeastNat
  <2>2. k \in 1..n /\ x \in ToSet(g[k])
    BY <2>1
  <2>3. CASE k = 1
    BY <1>1, <2>2, <2>3
  <2>4. CASE k # 1
    <3>1. k \in 2..n /\ k - 1 \in 1..n /\ ~(k <= k - 1)
      BY <2>2, <2>4
    <3>2. x \notin ToSet(g[k - 1])
      BY <2>1, <3>1
    <3>3. g[k] = g[k - 1] \o q[k]
      BY <1>1, <3>1
    <3>4. ToSet(g[k]) = ToSet(g[k - 1]) \cup ToSet(q[k])
      BY <1>2, <2>2, <3>1, <3>3, JoinedSet
    <3> QED BY ONLY <2>2, <3>2, <3>4
  <2> QED BY <2>3, <2>4
<1>4. ASSUME NEW w \in [Events -> Nat], NEW k \in 1..n, \A i \in 1..n : i # k => Total(q[i], w) = 0
      PROVE  Total(g[n], w) = Total(q[k], w)
  <2> DEFINE Wrong == {i \in 1..n : Total(g[i], w) # IF i < k THEN 0 ELSE Total(q[k], w)}
  <2>1. ASSUME NEW i \in Wrong, \A j \in Wrong : i <= j PROVE FALSE
    <3>1. i \in 1..n /\ Total(g[i], w) # IF i < k THEN 0 ELSE Total(q[k], w)
      BY <2>1
    <3>2. i # 1
      <4>1. CASE k = 1
        BY <1>1, <3>1, <4>1
      <4>2. CASE k # 1
        <5>1. 1 \in 1..n /\ 1 < k /\ Total(q[1], w) = 0
          BY <1>4, <4>2
        <5> QED BY <1>1, <3>1, <5>1
      <4> QED BY <4>1, <4>2
    <3>3. i \in 2..n /\ i - 1 \in 1..n /\ ~(i <= i - 1)
      BY <3>1, <3>2
    <3>4. Total(g[i - 1], w) = IF i - 1 < k THEN 0 ELSE Total(q[k], w)
      BY <2>1, <3>3
    <3>5. Total(g[i], w) = Total(g[i - 1], w) + Total(q[i], w)
      <4>1. g[i] = g[i - 1] \o q[i]
        BY <1>1, <3>3
      <4>2. PICK a \in Seq(Events), b \in Seq(Events) : a = g[i - 1] /\ b = q[i]
        BY <1>2, <3>1, <3>3
      <4>3. Total(a \o b, w) = Total(a, w) + Total(b, w)
        BY ONLY w \in [Events -> Nat], a \in Seq(Events), b \in Seq(Events), TotalConcat, Zenon
      <4> QED BY ONLY <4>1, <4>2, <4>3
    <3>6. Total(q[k], w) \in Nat /\ Total(q[i], w) \in Nat
      BY <1>2, <3>1, TotalNat
    <3>7. CASE i = k
      <4>1. Total(g[i], w) = 0 + Total(q[k], w)
        BY <3>3, <3>4, <3>5, <3>7
      <4> QED BY <3>1, <3>6, <3>7, <4>1
    <3>8. CASE i < k
      <4>1. Total(q[i], w) = 0 /\ Total(g[i - 1], w) = 0
        BY <1>4, <3>1, <3>3, <3>4, <3>8
      <4> QED BY <3>1, <3>5, <3>8, <4>1
    <3>9. CASE i > k
      <4>1. Total(q[i], w) = 0 /\ Total(g[i - 1], w) = Total(q[k], w)
        BY <1>4, <3>1, <3>3, <3>4, <3>9
      <4> QED BY <3>1, <3>5, <3>6, <3>9, <4>1
    <3> QED BY <3>3, <3>7, <3>8, <3>9
  <2>2. Wrong \in SUBSET Nat
    OBVIOUS
  <2>3. Total(g[n], w) # Total(q[k], w) => n \in Wrong
    OBVIOUS
  <2> HIDE DEF Wrong
  <2> QED BY <2>1, <2>2, <2>3, LeastNat
<1>5. g[n] \in Seq(Events)
  BY <1>2
<1>6. PICK r : r = g[n] /\ r = FlattenSeq(q)
  BY ONLY <1>1
<1> QED BY ONLY <1>3, <1>4, <1>5, <1>6


LEMMA ClientSendsIs ==
  ASSUME mode \in {"read", "write"}, NEW s \in Servers, plan[s] \in Nat \cup {Skip}
  PROVE  /\ ClientSends(s) \in Seq(Events)
         /\ \A e \in ToSet(ClientSends(s)) :
              e.at = "cjm" /\ e.type \in {"start", "req"} /\ e.server = s
         /\ Total(ClientSends(s), Kind("cjm", "req", s)) = One(plan[s] # Skip)
         /\ Total(ClientSends(s), Kind("cjm", "start", s)) = One(mode = "read" /\ plan[s] > 0)
<1>1. PICK e \in Events, f \in Events :
        /\ e = Ev("cjm", "start", s, 0) /\ e.at = "cjm" /\ e.type = "start" /\ e.server = s
        /\ f = Ev("cjm", "req", s, 0) /\ f.at = "cjm" /\ f.type = "req" /\ f.server = s
  <2>1. PICK e, f : e = Ev("cjm", "start", s, 0) /\ f = Ev("cjm", "req", s, 0)
    OBVIOUS
  <2>2. /\ e \in [at : Places, type : Types, server : Servers, n : Nat] /\ e.at = "cjm"
        /\ e.type = "start" /\ e.server = s /\ e.n = 0
    BY <2>1 DEF Ev, Places, Types
  <2>3. /\ f \in [at : Places, type : Types, server : Servers, n : Nat] /\ f.at = "cjm"
        /\ f.type = "req" /\ f.server = s /\ f.n = 0
    BY <2>1 DEF Ev, Places, Types
  <2>4. e \in Events /\ f \in Events
    BY <2>2, <2>3 DEF Events, Due
  <2> QED BY <2>1, <2>2, <2>3, <2>4
<1>2. CASE plan[s] = Skip
  <2>1. ClientSends(s) = << >> /\ One(plan[s] # Skip) = 0 /\ One(mode = "read" /\ plan[s] > 0) = 0
    BY <1>2 DEF ClientSends, One, Skip
  <2> QED BY <2>1, NoEvents
<1>3. CASE plan[s] # Skip /\ mode = "read" /\ plan[s] > 0
  <2>1. ClientSends(s) = <<e>> \o <<f>>
    BY <1>1, <1>3 DEF ClientSends
  <2>2. PICK q : q = <<e>> \o <<f>>
    OBVIOUS
  <2>3. /\ q \in Seq(Events) /\ ToSet(q) = {e, f}
        /\ \A at, type : Total(q, Kind(at, type, s)) = One(Is(e, at, type, s)) + One(Is(f, at, type, s))
    <3>1. /\ <<e>> \o <<f>> \in Seq(Events) /\ ToSet(<<e>> \o <<f>>) = {e, f}
          /\ \A at, type, u : Total(<<e>> \o <<f>>, Kind(at, type, u))
                                 = One(Is(e, at, type, u)) + One(Is(f, at, type, u))
      BY ONLY e \in Events, f \in Events, TwoEvents
    <3> QED BY ONLY <2>2, <3>1
  <2>4. /\ Total(q, Kind("cjm", "req", s)) = One(Is(e, "cjm", "req", s)) + One(Is(f, "cjm", "req", s))
        /\ Total(q, Kind("cjm", "start", s)) = One(Is(e, "cjm", "start", s)) + One(Is(f, "cjm", "start", s))
    BY ONLY <2>3
  <2>5. /\ One(Is(e, "cjm", "req", s)) = 0 /\ One(Is(f, "cjm", "req", s)) = 1
        /\ One(Is(e, "cjm", "start", s)) = 1 /\ One(Is(f, "cjm", "start", s)) = 0
        /\ One(plan[s] # Skip) = 1 /\ One(mode = "read" /\ plan[s] > 0) = 1
    BY ONLY <1>1, <1>3 DEF One, Is
  <2>6. Total(q, Kind("cjm", "req", s)) = 1 /\ Total(q, Kind("cjm", "start", s)) = 1
    BY ONLY <2>4, <2>5
  <2> QED BY ONLY <1>1, <2>1, <2>2, <2>3, <2>5, <2>6
<1>4. CASE plan[s] # Skip /\ ~(mode = "read" /\ plan[s] > 0)
  <2>1. ClientSends(s) = << >> \o <<f>> /\ << >> \o <<f>> = <<f>>
    <3>1. << >> \o <<f>> = <<f>>
      OBVIOUS
    <3>2. ClientSends(s) = << >> \o <<Ev("cjm", "req", s, 0)>>
      BY ONLY <1>4 DEF ClientSends
    <3> QED BY ONLY <1>1, <3>1, <3>2
  <2>2. PICK q : q = <<f>>
    OBVIOUS
  <2>3. /\ q \in Seq(Events) /\ ToSet(q) = {f}
        /\ \A at, type : Total(q, Kind(at, type, s)) = One(Is(f, at, type, s))
    BY <2>2, OneEvent
  <2>4. /\ One(Is(f, "cjm", "req", s)) = 1 /\ One(Is(f, "cjm", "start", s)) = 0
        /\ One(plan[s] # Skip) = 1 /\ One(mode = "read" /\ plan[s] > 0) = 0
    BY ONLY <1>1, <1>4 DEF One, Is
  <2>5. Total(q, Kind("cjm", "req", s)) = 1 /\ Total(q, Kind("cjm", "start", s)) = 0
    BY ONLY <2>3, <2>4
  <2> QED BY ONLY <1>1, <2>1, <2>2, <2>3, <2>4, <2>5
<1> QED BY <1>2, <1>3, <1>4

\* The calendar the start leaves behind.
LEMMA StartSends ==
  ASSUME mode \in {"read", "write"}, plan \in [Servers -> Nat \cup {Skip}],
         NEW q, q = FlattenSeq([s \in Servers |-> ClientSends(s)])
  PROVE  /\ q \in Seq(Events)
         /\ \A e \in ToSet(q) : e.at = "cjm" /\ e.type \in {"start", "req"}
         /\ \A s \in Servers :
              /\ Total(q, Kind("cjm", "req", s)) = One(plan[s] # Skip)
              /\ Total(q, Kind("cjm", "start", s)) = One(mode = "read" /\ plan[s] > 0)
              /\ \A a, t : a # "cjm" \/ t \notin {"start", "req"} => Total(q, Kind(a, t, s)) = 0
              /\ \A jm : Total(q, AckBytes(jm, s)) = 0
<1>1. PICK n \in Nat \ {0} : n = NumServers
  BY NumServersAssumption
<1>2. PICK l : l = [s \in Servers |-> ClientSends(s)]
  OBVIOUS
<1>3. \A s \in Servers :
        /\ l[s] = ClientSends(s) /\ l[s] \in Seq(Events)
        /\ \A e \in ToSet(l[s]) : e.at = "cjm" /\ e.type \in {"start", "req"} /\ e.server = s
        /\ Total(l[s], Kind("cjm", "req", s)) = One(plan[s] # Skip)
        /\ Total(l[s], Kind("cjm", "start", s)) = One(mode = "read" /\ plan[s] > 0)
  BY <1>2, ClientSendsIs
<1>4. Servers = 1..n /\ l \in [1..n -> Seq(Events)]
  BY <1>1, <1>2, <1>3 DEF Servers
<1>5. /\ q \in Seq(Events)
      /\ \A x \in ToSet(q) : \E i \in Servers : x \in ToSet(l[i])
      /\ \A w \in [Events -> Nat], k \in Servers :
           (\A i \in Servers : i # k => Total(l[i], w) = 0) => Total(q, w) = Total(l[k], w)
  <2>1. q = FlattenSeq(l)
    BY <1>2
  <2>2. /\ FlattenSeq(l) \in Seq(Events)
        /\ \A x \in ToSet(FlattenSeq(l)) : \E i \in 1..n : x \in ToSet(l[i])
        /\ \A w \in [Events -> Nat], k \in 1..n :
             (\A i \in 1..n : i # k => Total(l[i], w) = 0) => Total(FlattenSeq(l), w) = Total(l[k], w)
    BY <1>4, Flattened
  <2> QED BY ONLY <1>4, <2>1, <2>2
<1>6. \A e \in ToSet(q) : e.at = "cjm" /\ e.type \in {"start", "req"}
  BY ONLY <1>3, <1>5
<1>7. ASSUME NEW a, NEW t, NEW s \in Servers PROVE Total(q, Kind(a, t, s)) = Total(l[s], Kind(a, t, s))
  <2>1. ASSUME NEW i \in Servers, i # s PROVE Total(l[i], Kind(a, t, s)) = 0
    <3>1. l[i] \in Seq(Events) /\ \A e \in ToSet(l[i]) : e.server # s
      BY <1>3, <2>1
    <3> QED BY ONLY <3>1, NoneOf
  <2>2. Kind(a, t, s) \in [Events -> Nat]
    BY WeightsAre
  <2> QED BY ONLY <1>5, <2>1, <2>2, s \in Servers
<1>8. ASSUME NEW s \in Servers, NEW a, NEW t, a # "cjm" \/ t \notin {"start", "req"}
      PROVE  Total(q, Kind(a, t, s)) = 0
  <2>1. Kind(a, t, s) \in [Events -> Nat] /\ \A e \in Events : Kind(a, t, s)[e] = One(Is(e, a, t, s))
    BY WeightsAre
  <2>2. \A i \in 1..Len(q) : q[i] \in ToSet(q) /\ q[i] \in Events
    BY <1>5, SetOfSeq
  <2>3. \A i \in 1..Len(q) : Kind(a, t, s)[q[i]] = 0
    BY ONLY <1>6, <1>8, <2>1, <2>2 DEF One, Is
  <2> QED BY ONLY <1>5, <2>1, <2>3, TotalZero
<1>9. ASSUME NEW s \in Servers, NEW jm PROVE Total(q, AckBytes(jm, s)) = 0
  <2>1. AckBytes(jm, s) \in [Events -> Nat] /\ \A e \in Events : AckBytes(jm, s)[e] = AckOf(e, jm, s)
    BY WeightsAre
  <2>2. \A i \in 1..Len(q) : q[i] \in ToSet(q) /\ q[i] \in Events
    BY <1>5, SetOfSeq
  <2>3. \A i \in 1..Len(q) : AckBytes(jm, s)[q[i]] = 0
    BY ONLY <1>6, <2>1, <2>2 DEF AckOf, Is
  <2> QED BY ONLY <1>5, <2>1, <2>3, TotalZero
<1> QED BY <1>3, <1>5, <1>6, <1>7, <1>8, <1>9


\* What Init says, and what the start leaves alone.
LEMMA AtFirst ==
  ASSUME Init, NEW s \in Servers
  PROVE  /\ mode \in {"read", "write"} /\ plan[s] \in Nat \cup {Skip}
         /\ mode = "write" => plan[s] # 0
         /\ srv[s] = "INIT" /\ cflow[s] = NoFlow /\ sflow[s] = NoFlow
         /\ down[s] = << >> /\ up[s] = << >> /\ disk[s] = << >> /\ bstream[s] \in Nat
<1>1. plan[s] \in Nat \cup {Skip} /\ bstream[s] \in Nat
  BY SizesAssumption DEF Init
<1>2. mode = "write" => plan[s] # 0
  <2>1. mode = "write" /\ plan[s] = 0 => s \in Asked /\ s \notin WithFlow
    BY DEF Asked, WithFlow, Skip
  <2> QED BY <2>1 DEF Init
<1> QED BY <1>1, <1>2 DEF Init

LEMMA EmptyQueue ==
  /\ << >> \in Seq(Packets) /\ << >> \in Seq(Nat \ {0}) /\ ToSet(<< >>) = {} /\ SumOf(<< >>) = 0
  /\ \A t : Sent(<< >>, t) = 0
  /\ \A s : InFlight(s, << >>) = 0
<1>1. << >> \in Seq(Packets) /\ << >> \in Seq(Nat \ {0}) /\ ToSet(<< >>) = {}
  BY DEF ToSet
<1> QED BY <1>1, TotalEmpty, SumEmpty, InFlightIs DEF Sent

LEMMA StartOperationKeeps ==
  ASSUME Init, StartOperation
  PROVE  Begun'
<1>1. PICK q : q = FlattenSeq([s \in Servers |-> ClientSends(s)])
  OBVIOUS
<1>2. mode \in {"read", "write"} /\ plan \in [Servers -> Nat \cup {Skip}] /\ plan \in [Servers -> Sizes \cup {Skip}]
  BY SizesAssumption DEF Init
<1>3. /\ q \in Seq(Events)
      /\ \A e \in ToSet(q) : e.at = "cjm" /\ e.type \in {"start", "req"}
      /\ \A s \in Servers :
              /\ Total(q, Kind("cjm", "req", s)) = One(plan[s] # Skip)
              /\ Total(q, Kind("cjm", "start", s)) = One(mode = "read" /\ plan[s] > 0)
              /\ \A a, t : a # "cjm" \/ t \notin {"start", "req"} => Total(q, Kind(a, t, s)) = 0
              /\ \A jm : Total(q, AckBytes(jm, s)) = 0
  BY <1>1, <1>2, StartSends
<1>4. now' = q /\ arriving' = FALSE
  <2>1. now = << >> /\ now' = << >> \o q
    BY <1>1 DEF Init, StartOperation
  <2>2. << >> \o q = q
    BY <1>3, JoinNothing
  <2> QED BY <2>1, <2>2 DEF StartOperation
<1>5. /\ mode' = mode /\ plan' = plan /\ srv' = srv /\ cflow' = cflow /\ sflow' = sflow
      /\ down' = down /\ up' = up /\ disk' = disk /\ bstream' = bstream
      /\ req' = [s \in Servers |-> IF s \in Asked THEN "live" ELSE "none"]
  BY DEF StartOperation, flows
<1>6. ASSUME NEW s \in Servers
      PROVE  /\ \A a, t : N(a, t, s)' = Total(q, Kind(a, t, s))
             /\ \A jm : AcksTo(s, jm)' = 0
             /\ \A t : Sent(down'[s], t) = 0 /\ Sent(up'[s], t) = 0
             /\ req'[s] = IF plan[s] = Skip THEN "none" ELSE "live"
             /\ srv'[s] = "INIT" /\ cflow'[s] = NoFlow /\ sflow'[s] = NoFlow
             /\ down'[s] = << >> /\ up'[s] = << >> /\ disk'[s] = << >> /\ bstream'[s] \in Nat
             /\ plan[s] \in Nat \cup {Skip} /\ (mode = "write" => plan[s] # 0)
  <2>1. \A a, t : N(a, t, s)' = Total(q, Kind(a, t, s))
    BY <1>4 DEF N
  <2>2. \A jm : AcksTo(s, jm)' = Total(q, AckBytes(jm, s))
    BY <1>3, <1>4, AcksAre DEF AcksTo
  <2>3. req'[s] = IF plan[s] = Skip THEN "none" ELSE "live"
    BY <1>5 DEF Asked
  <2>4. \A jm : AcksTo(s, jm)' = 0
    BY ONLY <1>3, <2>2, s \in Servers
  <2> QED BY ONLY Init, s \in Servers, <1>5, <2>1, <2>3, <2>4, AtFirst, EmptyQueue
<1>7. Typed'
  <2>1. DOMAIN req' = Servers
    BY <1>5
  <2>2. /\ DOMAIN srv' = Servers /\ DOMAIN cflow' = Servers
        /\ DOMAIN sflow' = Servers /\ DOMAIN down' = Servers /\ DOMAIN up' = Servers
        /\ DOMAIN disk' = Servers /\ DOMAIN bstream' = Servers
    BY <1>5 DEF Init
  <2> QED BY ONLY <1>2, <1>3, <1>4, <1>5, <2>1, <2>2 DEF Typed
<1>8. ASSUME NEW s \in Servers PROVE Asking(s)' = One(plan[s] # Skip) /\ Answering(s)' = 0
  <2>1. /\ N("cjm", "req", s)' = One(plan[s] # Skip)
        /\ N("sched", "req", s)' = 0 /\ N("server", "req", s)' = 0
        /\ N("sched", "resp", s)' = 0 /\ N("sjm", "resp", s)' = 0 /\ N("client", "resp", s)' = 0
        /\ Sent(down[s], "req")' = 0 /\ Sent(up[s], "resp")' = 0
    <3>1. Sent(down[s], "req")' = 0 /\ Sent(up[s], "resp")' = 0
      BY ONLY <1>6, s \in Servers
    <3>2. \A a, t : N(a, t, s)' = Total(q, Kind(a, t, s))
      BY ONLY <1>6, s \in Servers
    <3>3. /\ Total(q, Kind("cjm", "req", s)) = One(plan[s] # Skip)
          /\ \A a, t : a # "cjm" \/ t \notin {"start", "req"} => Total(q, Kind(a, t, s)) = 0
      BY ONLY <1>3, s \in Servers
    <3>4. /\ Total(q, Kind("sched", "req", s)) = 0 /\ Total(q, Kind("server", "req", s)) = 0
          /\ Total(q, Kind("sched", "resp", s)) = 0 /\ Total(q, Kind("sjm", "resp", s)) = 0
          /\ Total(q, Kind("client", "resp", s)) = 0
      BY ONLY <3>3
    <3> QED BY ONLY <3>1, <3>2, <3>3, <3>4
  <2>2. One(plan[s] # Skip) \in Nat
    BY DEF One
  <2> QED BY ONLY <2>1, <2>2 DEF Asking, Answering
<1>9. ASSUME NEW s \in Servers PROVE ServerOK(s)'
  <2>0. PICK c : c = NoFlow
    OBVIOUS
  <2>1. c \in [st : FlowStates, net : Nat, sto : Nat, off : Nat] /\ c.st = "none" /\ c.net = 0 /\ c.sto = 0 /\ c.off = 0
    BY <2>0 DEF NoFlow, FlowStates
  <2>2. cflow'[s] = c /\ sflow'[s] = c /\ srv'[s] = "INIT" /\ mode' = mode /\ plan' = plan
    BY ONLY <1>5, <1>6, <2>0, s \in Servers
  <2>3. /\ N("cjm", "self", s)' = 0 /\ N("sjm", "self", s)' = 0 /\ N("client", "fin", s)' = 0
        /\ N("sched", "req", s)' = 0 /\ N("server", "req", s)' = 0
        /\ N("client", "resp", s)' = 0 /\ N("sched", "resp", s)' = 0 /\ N("sjm", "resp", s)' = 0
        /\ N("cjm", "start", s)' = One(mode = "read" /\ plan[s] > 0)
    BY ONLY <1>3, <1>6, s \in Servers
  <2>4. Starting(s)' = 0 /\ Finishing(s)' = 0 /\ Completing(s)' = 0
    <3>1. /\ N("sched", "start", s)' = 0 /\ N("sjm", "start", s)' = 0
          /\ N("sched", "fin", s)' = 0 /\ N("server", "fin", s)' = 0
          /\ N("sched", "comp", s)' = 0 /\ N("sjm", "comp", s)' = 0 /\ N("client", "comp", s)' = 0
          /\ Sent(up[s], "comp")' = 0
      BY ONLY <1>3, <1>6, s \in Servers
    <3> QED BY ONLY <3>1 DEF Starting, Finishing, Completing
  <2>5. RequestOK(s)'
    BY ONLY <1>6, <1>8, <2>1, <2>2, <2>3, <2>4, s \in Servers DEF RequestOK, One
  <2>6. FlowsOK(s)'
    <3>1. mode = "write" => plan[s] # 0
      BY ONLY <1>6, s \in Servers
    <3>2. plan[s] \in Nat \cup {Skip}
      BY ONLY <1>6, s \in Servers
    <3> QED BY ONLY <1>2, <1>8, <2>1, <2>2, <2>3, <3>1, <3>2, s \in Servers DEF FlowsOK, One, Skip
  <2>7. MovedOK(s)'
    <3>1. FlowOK(c, plan[s])
      BY ONLY <2>0, <2>1 DEF FlowOK
    <3>2. Source(s)' = c
      BY ONLY <2>2 DEF Source
    <3>3. /\ InFlight(s, down[s])' = 0 /\ InFlight(s, up[s])' = 0 /\ SumOf(disk[s])' = 0
          /\ AcksTo(s, "cjm")' = 0 /\ AcksTo(s, "sjm")' = 0
      <4>1. InFlight(s, down'[s]) = 0 /\ InFlight(s, up'[s]) = 0 /\ SumOf(disk'[s]) = 0
        BY ONLY <1>6, s \in Servers, EmptyQueue
      <4> QED BY ONLY <1>6, <4>1, s \in Servers
    <3>4. c.off - c.net <= NumBuffers * BufferSize
      <4>1. \A m, n \in Nat \ {0} : m * n >= 0 /\ m * n \in Nat
        OBVIOUS
      <4>2. PICK b \in Nat : b = NumBuffers * BufferSize
        BY <4>1, BufferAssumption
      <4> QED BY ONLY <2>1, <4>2
    <3>5. plan[s] > 0 => c.off <= plan[s]
      <4>1. PICK p \in Int : p = plan[s]
        BY <1>6 DEF Skip
      <4> QED BY ONLY <2>1, <4>1
    <3> QED BY ONLY <2>1, <2>2, <3>1, <3>2, <3>3, <3>4, <3>5 DEF MovedOK
  <2>8. BuffersFull(s)'
    <3>1. ToSet(disk'[s]) = {} /\ ToSet(up'[s]) = {} /\ ToSet(down'[s]) = {}
      BY ONLY <1>6, s \in Servers, EmptyQueue
    <3>2. \A e \in ToSet(now') : e.type # "ack"
      BY ONLY <1>3, <1>4
    <3> QED BY ONLY <3>1, <3>2 DEF BuffersFull
  <2>9. AnswerFirst(s)'
    <3>1. AckBefore(now, s)'
      <4>1. \A i \in 1..Len(q) : q[i] \in ToSet(q)
        BY DEF ToSet
      <4>2. AckBefore(q, s)
        BY ONLY <1>3, <4>1 DEF AckBefore, Is
      <4> QED BY ONLY <1>4, <4>2
    <3>2. Sent(up[s], "resp")' = 0
      BY ONLY <1>6, s \in Servers
    <3> QED BY ONLY <2>1, <2>2, <2>3, <3>1, <3>2 DEF AnswerFirst
  <2>10. /\ req'[s] \in {"none", "live", "deleted"} /\ srv'[s] \in {"INIT", "RESPONDED", "FINISH"}
         /\ down'[s] \in Seq(Packets) /\ up'[s] \in Seq(Packets) /\ disk'[s] \in Seq(Nat \ {0})
         /\ bstream'[s] \in Nat
         /\ Sent(down[s], "resp")' = 0 /\ Sent(down[s], "comp")' = 0 /\ Sent(up[s], "req")' = 0
    BY ONLY <1>6, s \in Servers, EmptyQueue
  <2> QED BY ONLY <2>5, <2>6, <2>7, <2>8, <2>9, <2>10 DEF ServerOK
<1>10. RemainingOK'
  <2>1. Waiting' = Asked
    <3>1. \A s \in Servers : Asking(s)' + Answering(s)' = 1 <=> plan[s] # Skip
      BY ONLY <1>8 DEF One
    <3>2. Waiting' = {s \in Servers : Asking(s)' + Answering(s)' = 1}
      BY DEF Waiting
    <3> QED BY ONLY <3>1, <3>2 DEF Asked
  <2>2. Flowing' = WithFlow
    <3>1. \A s \in Servers : cflow'[s].st # "gone"
      BY ONLY <1>6 DEF NoFlow
    <3>2. WithFlow' = WithFlow /\ WithFlow \subseteq Servers
      BY <1>5 DEF WithFlow
    <3> QED BY ONLY <3>1, <3>2 DEF Flowing
  <2>3. Uncompleted' = IF mode = "write" THEN Asked ELSE {}
    <3>1. \A s \in Servers : req'[s] = "live" <=> plan[s] # Skip
      BY ONLY <1>6
    <3>2. Uncompleted' = {s \in Servers : mode' = "write" /\ req'[s] = "live"}
      BY DEF Uncompleted
    <3> QED BY ONLY <1>5, <3>1, <3>2 DEF Asked
  <2>4. Cardinality({}) = 0
    BY FS_EmptySet
  <2>5. remaining' = [resp |-> Cardinality(Waiting'), flow |-> Cardinality(Flowing'),
                      comp |-> Cardinality(Uncompleted')]
    <3>1. remaining' = [resp |-> Cardinality(Asked), flow |-> Cardinality(WithFlow),
                        comp |-> IF mode = "write" THEN Cardinality(Asked) ELSE 0]
      BY DEF StartOperation
    <3>2. Cardinality(Uncompleted') = IF mode = "write" THEN Cardinality(Asked) ELSE 0
      BY ONLY <2>3, <2>4
    <3> QED BY ONLY <2>1, <2>2, <3>1, <3>2
  <2>6. phase' \in {"COUNT", "FINISH"}
    BY DEF StartOperation
  <2>7. phase' = "FINISH" => IsComplete(remaining')
    <3>1. phase' = "FINISH" => mode = "read" /\ Asked = {}
      BY DEF StartOperation
    <3>2. Asked = {} => WithFlow = {}
      BY DEF Asked, WithFlow, Skip
    <3>3. ASSUME phase' = "FINISH" PROVE remaining' = [resp |-> 0, flow |-> 0, comp |-> 0]
      BY ONLY <2>1, <2>2, <2>3, <2>4, <2>5, <3>1, <3>2, <3>3
    <3> QED BY <3>3 DEF IsComplete
  <2> QED BY ONLY <2>5, <2>6, <2>7 DEF RemainingOK
<1> QED BY ONLY <1>7, <1>9, <1>10 DEF Begun


-----------------------------------------------------------------------------
\* What the invariant says of the messages on their way: they find their
\* request, and their flow.
LEMMA MessagesFindRequest ==
  ASSUME Begun, NEW s \in Servers,
         \/ Asking(s) > 0 \/ Answering(s) > 0 \/ Starting(s) > 0
         \/ Finishing(s) > 0 \/ Completing(s) > 0 \/ N("cjm", "start", s) > 0
  PROVE  req[s] = "live"
<1>1. /\ RequestOK(s) /\ FlowsOK(s) /\ MovedOK(s) /\ AnswerFirst(s)
      /\ mode \in {"read", "write"} /\ plan[s] \in Nat \cup {Skip}
      /\ req[s] \in {"none", "live", "deleted"} /\ srv[s] \in {"INIT", "RESPONDED", "FINISH"}
  BY Known
<1>2. /\ Asking(s) \in {0, 1} /\ Answering(s) \in {0, 1} /\ Starting(s) \in {0, 1}
      /\ Finishing(s) \in {0, 1} /\ Completing(s) \in {0, 1}
      /\ Asking(s) = 1 => Answering(s) = 0
  BY OneAtMost
<1>3. PICK w \in Nat : w = N("cjm", "start", s)
  BY Known
<1>4. PICK p \in Int : p = plan[s] /\ (p = Skip \/ p >= 0)
  BY <1>1 DEF Skip
<1>5. ASSUME plan[s] = Skip PROVE FALSE
  <2>1. Asking(s) = 0 /\ Answering(s) = 0 /\ srv[s] = "INIT" /\ req[s] = "none"
    BY ONLY <1>1, <1>5 DEF RequestOK
  <2>2. Starting(s) = 0 /\ Finishing(s) = 0 /\ Completing(s) = 0
    BY ONLY <1>1, <2>1 DEF RequestOK, One
  <2>3. N("cjm", "start", s) = 0
    <3>1. plan[s] <= 0
      BY <1>5 DEF Skip
    <3> QED BY ONLY <1>1, <3>1 DEF FlowsOK
  <2> QED BY <2>1, <2>2, <2>3
<1>6. req[s] \in {"live", "deleted"}
  BY ONLY <1>1, <1>5 DEF RequestOK
<1>7. ASSUME srv[s] = "FINISH", req[s] = "deleted" PROVE FALSE
  <2>1. sflow[s].st = "gone"
    BY ONLY <1>1, <1>7 DEF RequestOK
  <2>2. plan[s] > 0
    <3>1. ~(plan[s] <= 0)
      BY ONLY <1>1, <2>1 DEF FlowsOK
    <3> QED BY ONLY <1>4, <3>1
  <2>3. sflow[s].net = plan[s]
    BY <2>1, FlowsTyped
  <2>4. Asking(s) = 0 /\ Starting(s) = 0 /\ Finishing(s) = 0 /\ Completing(s) = 0
    BY ONLY <1>1, <1>5, <1>7, <2>1 DEF RequestOK, One
  <2>5. Answering(s) = 0 /\ N("cjm", "start", s) = 0
    <3>1. CASE mode = "read"
      <4>1. Asking(s) + Answering(s) # 1
        BY ONLY <1>1, <2>2, <2>3, <3>1 DEF AnswerFirst
      <4>2. Answering(s) = 0
        BY ONLY <1>2, <2>4, <4>1
      <4>3. cflow[s].st # "none"
        <5>1. PICK a \in Nat, b \in Nat, c \in Nat :
                a = AcksTo(s, "sjm") /\ b = sflow[s].net /\ c = cflow[s].net
          BY Known, FlowsTyped
        <5>2. c = a + b
          BY ONLY <1>1, <3>1, <5>1 DEF MovedOK
        <5>3. cflow[s].st = "none" => cflow[s].net = 0
          BY FlowsTyped
        <5> QED BY ONLY <2>2, <2>3, <5>1, <5>2, <5>3
      <4>4. N("cjm", "start", s) = 0
        BY ONLY <1>1, <2>2, <3>1, <4>3 DEF FlowsOK, One
      <4> QED BY <4>2, <4>4
    <3>2. CASE mode = "write"
      <4>1. cflow[s].st # "none"
        <5>1. PICK a \in Nat, b \in Nat, c \in Nat :
                a = InFlight(s, down[s]) /\ b = sflow[s].net /\ c = cflow[s].off
          BY Known, FlowsTyped
        <5>2. c = a + b
          BY ONLY <1>1, <3>2, <5>1 DEF MovedOK
        <5>3. cflow[s].st = "none" => cflow[s].off = 0
          BY FlowsTyped
        <5> QED BY ONLY <2>2, <2>3, <5>1, <5>2, <5>3
      <4>2. PICK x \in Nat, y \in Nat : x = Asking(s) /\ y = Answering(s)
        BY <1>2
      <4>3. x + y + w = 0
        BY ONLY <1>1, <1>3, <2>2, <3>2, <4>1, <4>2 DEF FlowsOK, One
      <4>4. y = 0 /\ w = 0
        BY ONLY <4>3, x \in Nat, y \in Nat, w \in Nat
      <4> QED BY ONLY <1>3, <4>2, <4>4
    <3> QED BY <1>1, <3>1, <3>2
  <2> QED BY <2>4, <2>5
<1>8. ASSUME mode = "read", plan[s] = 0, req[s] = "deleted" PROVE FALSE
  <2>1. Answering(s) = 0 /\ srv[s] # "INIT"
    BY ONLY <1>1, <1>8 DEF RequestOK
  <2>2. sflow[s].st = "none" /\ N("cjm", "start", s) = 0
    BY ONLY <1>1, <1>8 DEF FlowsOK
  <2>3. Asking(s) = 0 /\ Starting(s) = 0 /\ Finishing(s) = 0 /\ Completing(s) = 0
    BY ONLY <1>1, <1>5, <1>8, <2>1, <2>2 DEF RequestOK, One
  <2> QED BY <2>1, <2>2, <2>3
<1>9. req[s] = "deleted" => srv[s] = "FINISH" \/ (mode = "read" /\ plan[s] = 0)
  BY ONLY <1>1 DEF RequestOK
<1> QED BY ONLY <1>6, <1>7, <1>8, <1>9

LEMMA DataFindsFlows ==
  ASSUME Begun, NEW s \in Servers
  PROVE  /\ InFlight(s, up[s]) > 0 => cflow[s].st = "active" /\ sflow[s].st = "active"
         /\ InFlight(s, down[s]) > 0 => cflow[s].st = "active" /\ sflow[s].st = "active"
         /\ SumOf(disk[s]) > 0 => sflow[s].st = "active"
         /\ AcksTo(s, "cjm") > 0 => cflow[s].st = "active"
         /\ AcksTo(s, "sjm") > 0 => sflow[s].st = "active"
<1>1. /\ RequestOK(s) /\ FlowsOK(s) /\ MovedOK(s) /\ AnswerFirst(s)
      /\ mode \in {"read", "write"} /\ plan[s] \in Nat \cup {Skip}
  BY Known
<1>2. PICK a \in Nat, b \in Nat, c \in Nat, d \in Nat, i \in Nat, j \in Nat, k \in Nat :
        /\ a = AcksTo(s, "cjm") /\ b = AcksTo(s, "sjm") /\ c = cflow[s].net /\ d = sflow[s].net
        /\ i = InFlight(s, up[s]) /\ j = InFlight(s, down[s]) /\ k = SumOf(disk[s])
  BY Known, FlowsTyped
<1>3. PICK f \in Nat, g \in Nat, h \in Nat : f = cflow[s].off /\ g = sflow[s].off /\ h = sflow[s].sto
  BY FlowsTyped
<1>4. CASE mode = "read"
  <2>1. /\ a = 0 /\ j = 0 /\ g = k + h /\ h = i + c /\ c = b + d
        /\ plan[s] > 0 => g <= plan[s]
    BY ONLY <1>1, <1>2, <1>3, <1>4 DEF MovedOK, Source
  <2>2. ASSUME InFlight(s, up[s]) > 0 PROVE cflow[s].st = "active" /\ sflow[s].st = "active"
    <3>1. N("cjm", "start", s) = 0
      <4>1. sflow[s].st # "none"
        <5>1. sflow[s].st = "none" => sflow[s].sto = 0
          BY FlowsTyped
        <5> QED BY ONLY <1>2, <1>3, <2>1, <2>2, <5>1
      <4>2. srv[s] # "INIT" /\ ~(plan[s] <= 0)
        BY ONLY <1>1, <4>1 DEF FlowsOK
      <4>3. plan[s] > 0
        BY ONLY <1>1, <4>2 DEF Skip
      <4> QED BY ONLY <1>1, <1>4, <4>2, <4>3 DEF FlowsOK, One
    <3>2. cflow[s].st = "active" /\ plan[s] > 0 /\ plan[s] \in Nat /\ sflow[s].st # "none"
      BY <1>4, <2>2, <3>1, DataFindsClient
    <3>3. d # plan[s]
      BY ONLY <1>2, <2>1, <2>2, <3>2, d \in Nat, c \in Nat, b \in Nat, h \in Nat, i \in Nat, g \in Nat, k \in Nat
    <3>4. sflow[s].st \notin {"done", "gone"} /\ sflow[s].st \in FlowStates
      BY <1>2, <3>3, FlowsTyped DEF Flow
    <3> QED BY ONLY <3>2, <3>4 DEF FlowStates
  <2> QED BY <1>2, <1>4, <2>1, <2>2, DiskFindsServer, ServerStillFlows
<1>5. CASE mode = "write"
  <2>1. /\ b = 0 /\ i = 0 /\ f = j + d /\ d = k + h /\ d = a + c
        /\ plan[s] > 0 => f <= plan[s]
    BY ONLY <1>1, <1>2, <1>3, <1>5 DEF MovedOK, Source
  <2>2. ASSUME InFlight(s, down[s]) > 0 PROVE cflow[s].st = "active" /\ sflow[s].st = "active"
    <3>1. cflow[s].st # "none"
      <4>1. cflow[s].st = "none" => cflow[s].off = 0
        BY FlowsTyped
      <4> QED BY ONLY <1>2, <1>3, <2>1, <2>2, <4>1
    <3>2. plan[s] > 0
      <4>1. ~(plan[s] <= 0)
        BY ONLY <1>1, <3>1 DEF FlowsOK
      <4> QED BY ONLY <1>1, <4>1 DEF Skip
    <3>3. Answering(s) = 0
      <4>1. PICK x \in Nat, y \in Nat, z \in Nat : x = Asking(s) /\ y = Answering(s) /\ z = N("cjm", "start", s)
        BY Known, Chains
      <4>2. x + y + z = 0
        BY ONLY <1>1, <1>5, <3>1, <3>2, <4>1 DEF FlowsOK, One
      <4> QED BY ONLY <4>1, <4>2
    <3>4. Starting(s) = 0
      <4>1. Starting(s) \in {0, 1}
        BY OneAtMost
      <4> QED BY ONLY <1>1, <3>3, <4>1 DEF RequestOK
    <3>5. N("sched", "start", s) = 0 /\ N("sjm", "start", s) = 0
      BY <3>4, Chains
    <3>6. sflow[s].st = "active" /\ plan[s] \in Nat
      BY <1>5, <2>2, <3>5, DataFindsServer
    <3>7. c # plan[s]
      BY ONLY <1>2, <2>1, <2>2, <3>2, <3>6, a \in Nat, c \in Nat, d \in Nat, f \in Nat, j \in Nat
    <3>8. cflow[s].st \notin {"done", "gone"} /\ cflow[s].st \in FlowStates
      BY <1>2, <3>7, FlowsTyped DEF Flow
    <3> QED BY ONLY <3>1, <3>6, <3>8 DEF FlowStates
  <2> QED BY <1>2, <1>5, <2>1, <2>2, DiskFindsServer, ClientStillFlows
<1> QED BY <1>1, <1>4, <1>5


LEMMA ObjectsKept ==
  ASSUME Objects, [Next]_vars
  PROVE  Objects'
<1>1. CASE UNCHANGED vars
  BY <1>1 DEF Objects, vars
<1>2. CASE StartOperation
  BY <1>2 DEF Objects, StartOperation
<1>3. ASSUME NEW s \in Servers, ClientResponse(s) \/ ClientFlowFinish(s) \/ ClientCompletion(s) PROVE Objects'
  BY <1>3 DEF Objects, ClientResponse, ClientFlowFinish, ClientCompletion, flows
<1>4. ASSUME NEW s \in Servers, ServerRequest(s) \/ ServerFlowFinish(s) \/ SchedulerPass(s) PROVE Objects'
  BY <1>4 DEF Objects, ServerRequest, ServerFlowFinish, SchedulerPass, ReadFinished, flows, client
<1>5. ASSUME NEW s \in Servers, SendRequest(s) \/ SendResponse(s) \/ EndClientFlow(s) \/ EndServerFlow(s)
      PROVE  Objects'
  BY <1>5 DEF Objects, SendRequest, SendResponse, EndClientFlow, EndServerFlow, flows, client
<1>6. ASSUME NEW s \in Servers, StartClientFlow(s) \/ StartServerFlow(s) \/ AckAtClient(s) \/ AckAtServer(s)
      PROVE  req' = req /\ srv' = srv
  BY <1>6 DEF StartClientFlow, StartServerFlow, AckAtClient, AckAtServer, flows, client
<1>7. ASSUME NEW s \in Servers, ArriveAtServer(s) \/ ArriveAtClient(s) \/ DiskAnswers(s)
      PROVE  req' = req /\ srv' = srv
  BY <1>7 DEF ArriveAtServer, ArriveAtClient, DiskAnswers, flows, client
<1>8. ASSUME req' = req, srv' = srv PROVE Objects'
  BY <1>8 DEF Objects
<1> QED BY ONLY [Next]_vars, <1>1, <1>2, <1>3, <1>4, <1>5, <1>6, <1>7, <1>8 DEF Next, Step

\* Where an event or a packet is, its count is not zero.
LEMMA EventCounted ==
  ASSUME Begun, NEW i \in 1..Len(now)
  PROVE  /\ now[i].server \in Servers /\ Due(now[i].at, now[i].type)
         /\ N(now[i].at, now[i].type, now[i].server) > 0
         /\ now[i].type = "ack" => AcksTo(now[i].server, now[i].at) > 0
<1>1. now \in Seq(Events)
  BY DEF Begun, Typed
<1>2. now[i] \in ToSet(now) /\ now[i] \in Events
  BY <1>1, SetOfSeq
<1>3. now[i].server \in Servers /\ Due(now[i].at, now[i].type) /\ now[i].n \in Nat /\ (now[i].type = "ack" => now[i].n > 0)
  BY <1>2 DEF Events
<1>4. Is(now[i], now[i].at, now[i].type, now[i].server)
  BY DEF Is
<1>5. PICK a, t, s : a = now[i].at /\ t = now[i].type /\ s = now[i].server
  OBVIOUS
<1>6. N(a, t, s) \in Nat /\ N(a, t, s) # 0 /\ AcksTo(s, a) \in Nat
  BY ONLY <1>1, <1>2, <1>4, <1>5, Counted0
<1>7. t = "ack" => AcksTo(s, a) # 0
  BY ONLY <1>1, <1>2, <1>4, <1>5, Counted0
<1> QED BY ONLY <1>3, <1>5, <1>6, <1>7

LEMMA PacketCounted ==
  ASSUME NEW q \in Seq(Packets), NEW i \in 1..Len(q), NEW s
  PROVE  /\ q[i].type \in {"req", "resp", "comp", "push"} /\ Sent(q, q[i].type) > 0
         /\ q[i].type = "push" => InFlight(s, q) > 0
<1>1. q[i] \in ToSet(q) /\ q[i] \in Packets
  BY SetOfSeq
<1>2. PICK t : t = q[i].type
  OBVIOUS
<1>3. t \in {"req", "resp", "comp", "push"}
  BY ONLY <1>1, <1>2 DEF Packets
<1>4. Sent(q, t) \in Nat /\ Sent(q, t) # 0
  BY ONLY <1>1, <1>2, q \in Seq(Packets), PacketsIn
<1>5. InFlight(s, q) \in Nat /\ (t = "push" => InFlight(s, q) # 0)
  BY ONLY <1>1, <1>2, q \in Seq(Packets), PacketsIn
<1> QED BY ONLY <1>2, <1>3, <1>4, <1>5

\* A sum is positive when a part of it is.
LEMMA SomeOf == \A c \in Nat : \A x \in 0..c : x > 0 => c > 0
OBVIOUS

LEMMA RequestsAreThere ==
  ASSUME Begun
  PROVE  RequestsOutliveTheirMessages
<1>1. ASSUME NEW i \in 1..Len(now), RefersToRequest(now[i]) PROVE req[now[i].server] = "live"
  <2>1. PICK a, t, s : a = now[i].at /\ t = now[i].type /\ s = now[i].server
    OBVIOUS
  <2>2. s \in Servers /\ Due(a, t) /\ N(a, t, s) > 0
    BY <2>1, EventCounted
  <2>3. t \in {"req", "start", "resp", "comp"} \/ (t = "fin" /\ a \in {"sched", "server"})
    BY <1>1, <2>1 DEF RefersToRequest
  <2>4. /\ Asking(s) \in Nat
        /\ N("cjm", "req", s) \in 0..Asking(s)
        /\ N("sched", "req", s) \in 0..Asking(s) /\ N("server", "req", s) \in 0..Asking(s)
        /\ Answering(s) \in Nat
        /\ N("sched", "resp", s) \in 0..Answering(s) /\ N("sjm", "resp", s) \in 0..Answering(s)
        /\ N("client", "resp", s) \in 0..Answering(s)
        /\ Starting(s) \in Nat
        /\ N("sched", "start", s) \in 0..Starting(s) /\ N("sjm", "start", s) \in 0..Starting(s)
        /\ Finishing(s) \in Nat
        /\ N("sched", "fin", s) \in 0..Finishing(s) /\ N("server", "fin", s) \in 0..Finishing(s)
        /\ Completing(s) \in Nat
        /\ N("sched", "comp", s) \in 0..Completing(s) /\ N("sjm", "comp", s) \in 0..Completing(s)
        /\ N("client", "comp", s) \in 0..Completing(s)
    BY <2>2, Chains
  <2>5. CASE t = "req"
    <3>1. N("cjm", "req", s) > 0 \/ N("sched", "req", s) > 0 \/ N("server", "req", s) > 0
      BY ONLY <2>2, <2>5 DEF Due
    <3>2. Asking(s) > 0
      BY ONLY <2>4, <3>1, SomeOf
    <3> QED BY <2>1, <2>2, <3>2, MessagesFindRequest
  <2>6. CASE t = "resp"
    <3>1. N("sched", "resp", s) > 0 \/ N("sjm", "resp", s) > 0 \/ N("client", "resp", s) > 0
      BY ONLY <2>2, <2>6 DEF Due
    <3>2. Answering(s) > 0
      BY ONLY <2>4, <3>1, SomeOf
    <3> QED BY <2>1, <2>2, <3>2, MessagesFindRequest
  <2>7. CASE t = "start"
    <3>1. Starting(s) > 0 \/ N("cjm", "start", s) > 0
      <4>1. N("sched", "start", s) > 0 \/ N("sjm", "start", s) > 0 \/ N("cjm", "start", s) > 0
        BY ONLY <2>2, <2>7 DEF Due
      <4> QED BY ONLY <2>4, <4>1, SomeOf
    <3> QED BY <2>1, <2>2, <3>1, MessagesFindRequest
  <2>8. CASE t = "comp"
    <3>1. N("sched", "comp", s) > 0 \/ N("sjm", "comp", s) > 0 \/ N("client", "comp", s) > 0
      BY ONLY <2>2, <2>8 DEF Due
    <3>2. Completing(s) > 0
      BY ONLY <2>4, <3>1, SomeOf
    <3> QED BY <2>1, <2>2, <3>2, MessagesFindRequest
  <2>9. CASE t = "fin" /\ a \in {"sched", "server"}
    <3>1. N("sched", "fin", s) > 0 \/ N("server", "fin", s) > 0
      BY ONLY <2>2, <2>9
    <3>2. Finishing(s) > 0
      BY ONLY <2>4, <3>1, SomeOf
    <3> QED BY <2>1, <2>2, <3>2, MessagesFindRequest
  <2> QED BY <2>3, <2>5, <2>6, <2>7, <2>8, <2>9
<1>2. ASSUME NEW s \in Servers, NEW q \in {down[s], up[s]}, NEW i \in 1..Len(q), q[i].type # "push"
      PROVE  req[s] = "live"
  <2>1. /\ q \in Seq(Packets) /\ Sent(down[s], "resp") = 0 /\ Sent(down[s], "comp") = 0 /\ Sent(up[s], "req") = 0
    BY Known DEF ServerOK
  <2>2. q[i].type \in {"req", "resp", "comp"} /\ Sent(q, q[i].type) > 0
    BY <1>2, <2>1, PacketCounted
  <2>3. Sent(down[s], "req") > 0 \/ Sent(up[s], "resp") > 0 \/ Sent(up[s], "comp") > 0
    <3>1. PICK t \in {"req", "resp", "comp"} : Sent(q, t) > 0
      BY ONLY <2>2
    <3>2. CASE q = down[s]
      BY ONLY <2>1, <3>1, <3>2
    <3>3. CASE q = up[s]
      BY ONLY <2>1, <3>1, <3>3
    <3> QED BY <3>2, <3>3
  <2>4. Asking(s) > 0 \/ Answering(s) > 0 \/ Completing(s) > 0
    <3>0. /\ Asking(s) \in Nat /\ Sent(down[s], "req") \in 0..Asking(s)
          /\ Answering(s) \in Nat /\ Sent(up[s], "resp") \in 0..Answering(s)
          /\ Completing(s) \in Nat /\ Sent(up[s], "comp") \in 0..Completing(s)
      BY Chains
    <3> QED BY ONLY <2>3, <3>0, SomeOf
  <2> QED BY <2>4, MessagesFindRequest
<1> QED BY <1>1, <1>2 DEF RequestsOutliveTheirMessages

LEMMA FlowsAreThere ==
  ASSUME Begun
  PROVE  FlowsOutliveTheirMessages
<1> SUFFICES ASSUME NEW s \in Servers
             PROVE  /\ (\E i \in 1..Len(up[s]) : up[s][i].type = "push") =>
                         cflow[s].st = "active" /\ sflow[s].st = "active"
                    /\ (\E i \in 1..Len(down[s]) : down[s][i].type = "push") =>
                         cflow[s].st = "active" /\ sflow[s].st = "active"
                    /\ disk[s] # << >> => sflow[s].st = "active"
                    /\ \A i \in 1..Len(now) : now[i].server = s =>
                         CASE now[i].type = "ack" /\ now[i].at = "cjm" -> cflow[s].st = "active"
                           [] now[i].type = "ack" /\ now[i].at = "sjm" -> sflow[s].st = "active"
                           [] now[i].type = "self" /\ now[i].at = "cjm" -> cflow[s].st = "done"
                           [] now[i].type = "self" /\ now[i].at = "sjm" -> sflow[s].st = "done"
                           [] OTHER -> TRUE
  BY DEF FlowsOutliveTheirMessages
<1>1. /\ InFlight(s, up[s]) > 0 => cflow[s].st = "active" /\ sflow[s].st = "active"
      /\ InFlight(s, down[s]) > 0 => cflow[s].st = "active" /\ sflow[s].st = "active"
      /\ SumOf(disk[s]) > 0 => sflow[s].st = "active"
      /\ AcksTo(s, "cjm") > 0 => cflow[s].st = "active"
      /\ AcksTo(s, "sjm") > 0 => sflow[s].st = "active"
  BY DataFindsFlows
<1>2. up[s] \in Seq(Packets) /\ down[s] \in Seq(Packets) /\ disk[s] \in Seq(Nat \ {0}) /\ FlowsOK(s)
  BY Known
<1>3. ASSUME NEW i \in 1..Len(up[s]), up[s][i].type = "push" PROVE InFlight(s, up[s]) > 0
  BY ONLY <1>2, <1>3, PacketCounted
<1>4. ASSUME NEW i \in 1..Len(down[s]), down[s][i].type = "push" PROVE InFlight(s, down[s]) > 0
  BY ONLY <1>2, <1>4, PacketCounted
<1>5. ASSUME disk[s] # << >> PROVE SumOf(disk[s]) > 0
  <2>1. PICK q \in Seq(Nat) : q = disk[s] /\ q # << >> /\ q[1] \in Nat \ {0} /\ 1 \in 1..Len(q)
    BY <1>2, <1>5
  <2>2. SumOf(q) >= q[1] /\ SumOf(q) \in Nat
    BY <2>1, SumRemove, SumNat
  <2> QED BY ONLY <2>1, <2>2
<1>6. ASSUME NEW i \in 1..Len(now), now[i].server = s
      PROVE  CASE now[i].type = "ack" /\ now[i].at = "cjm" -> cflow[s].st = "active"
               [] now[i].type = "ack" /\ now[i].at = "sjm" -> sflow[s].st = "active"
               [] now[i].type = "self" /\ now[i].at = "cjm" -> cflow[s].st = "done"
               [] now[i].type = "self" /\ now[i].at = "sjm" -> sflow[s].st = "done"
               [] OTHER -> TRUE
  <2>1. PICK a, t : a = now[i].at /\ t = now[i].type
    OBVIOUS
  <2>2. N(a, t, s) > 0 /\ (t = "ack" => AcksTo(s, a) > 0)
    BY <1>6, <2>1, EventCounted
  <2>3. t = "ack" /\ a = "cjm" => cflow[s].st = "active"
    BY ONLY <1>1, <2>2
  <2>4. t = "ack" /\ a = "sjm" => sflow[s].st = "active"
    BY ONLY <1>1, <2>2
  <2>5. t = "self" /\ a = "cjm" => cflow[s].st = "done"
    BY ONLY <1>2, <2>2 DEF FlowsOK, One
  <2>6. t = "self" /\ a = "sjm" => sflow[s].st = "done"
    BY ONLY <1>2, <2>2 DEF FlowsOK, One
  <2> QED BY ONLY <2>1, <2>3, <2>4, <2>5, <2>6
<1> QED BY ONLY <1>1, <1>3, <1>4, <1>5, <1>6


LEMMA FinishedMeans ==
  ASSUME Begun, phase = "FINISH", NEW s \in Servers
  PROVE  /\ Asking(s) = 0 /\ Answering(s) = 0
         /\ mode = "write" => req[s] # "live"
         /\ cflow[s].st \in {"none", "gone"} /\ N("client", "fin", s) = 0 /\ N("cjm", "start", s) = 0
         /\ plan[s] > 0 => cflow[s].st = "gone"
<1>1. IsFiniteSet(Servers)
  BY NumServersAssumption, FS_Interval DEF Servers
<1>2. Waiting \subseteq Servers /\ Flowing \subseteq Servers /\ Uncompleted \subseteq Servers
  BY DEF Waiting, Flowing, Uncompleted, WithFlow
<1>3. Cardinality(Waiting) = 0 /\ Cardinality(Flowing) = 0 /\ Cardinality(Uncompleted) = 0
  <2>1. /\ IsComplete(remaining)
        /\ remaining = [resp |-> Cardinality(Waiting), flow |-> Cardinality(Flowing),
                        comp |-> Cardinality(Uncompleted)]
    BY DEF Begun, RemainingOK
  <2> QED BY ONLY <2>1 DEF IsComplete
<1>4. Waiting = {} /\ Flowing = {} /\ Uncompleted = {}
  <2>1. IsFiniteSet(Waiting) /\ IsFiniteSet(Flowing) /\ IsFiniteSet(Uncompleted)
    BY <1>1, <1>2, FS_Subset
  <2> QED BY <1>3, <2>1, FS_EmptySet
<1>5. /\ RequestOK(s) /\ FlowsOK(s) /\ mode \in {"read", "write"} /\ plan[s] \in Nat \cup {Skip}
      /\ N("client", "fin", s) \in Nat
  BY Known
<1>6. Asking(s) = 0 /\ Answering(s) = 0
  <2>1. Asking(s) + Answering(s) # 1
    BY <1>4 DEF Waiting
  <2>2. Asking(s) \in {0, 1} /\ Answering(s) \in {0, 1} /\ (Asking(s) = 1 => Answering(s) = 0)
    BY OneAtMost
  <2> QED BY ONLY <2>1, <2>2
<1>7. mode = "write" => req[s] # "live"
  BY <1>4 DEF Uncompleted
<1>8. CASE plan[s] > 0
  <2>1. cflow[s].st = "gone" /\ N("client", "fin", s) # 1
    BY <1>4, <1>8 DEF Flowing, WithFlow
  <2>2. N("client", "fin", s) = 0
    BY ONLY <1>5, <2>1 DEF FlowsOK
  <2>3. N("cjm", "start", s) = 0
    <3>1. CASE mode = "read"
      BY ONLY <1>5, <1>8, <2>1, <3>1 DEF FlowsOK, One
    <3>2. CASE mode = "write"
      <4>1. PICK w \in Nat : w = N("cjm", "start", s)
        BY Known
      <4>2. 0 + 0 + w = 0
        BY ONLY <1>5, <1>6, <1>8, <2>1, <3>2, <4>1 DEF FlowsOK, One
      <4> QED BY ONLY <4>1, <4>2
    <3> QED BY <1>5, <3>1, <3>2
  <2> QED BY <1>6, <1>7, <2>1, <2>2, <2>3
<1>9. CASE ~(plan[s] > 0)
  <2>1. plan[s] <= 0
    BY ONLY <1>5, <1>9 DEF Skip
  <2>2. cflow[s].st = "none" /\ N("cjm", "start", s) = 0
    BY ONLY <1>5, <2>1 DEF FlowsOK
  <2>3. N("client", "fin", s) = 0
    BY ONLY <1>5, <2>2 DEF FlowsOK
  <2> QED BY ONLY <1>6, <1>7, <1>9, <2>2, <2>3
<1> QED BY <1>8, <1>9

LEMMA QuietOnceFinished ==
  ASSUME Begun
  PROVE  QuietAfterFinish
<1> SUFFICES ASSUME phase = "FINISH"
             PROVE  /\ \A i \in 1..Len(now) : now[i].at \notin {"client", "cjm"}
                    /\ \A s \in Servers : up[s] = << >>
  BY DEF QuietAfterFinish
<1>1. ASSUME NEW s \in Servers
      PROVE  /\ N("client", "resp", s) = 0 /\ N("client", "fin", s) = 0 /\ N("client", "comp", s) = 0
             /\ N("cjm", "start", s) = 0 /\ N("cjm", "req", s) = 0 /\ N("cjm", "self", s) = 0
             /\ ~(AcksTo(s, "cjm") > 0) /\ ~(InFlight(s, up[s]) > 0)
             /\ Sent(up[s], "req") = 0 /\ Sent(up[s], "resp") = 0 /\ Sent(up[s], "comp") = 0
  <2>1. /\ Asking(s) = 0 /\ Answering(s) = 0
        /\ mode = "write" => req[s] # "live"
        /\ cflow[s].st \in {"none", "gone"} /\ N("client", "fin", s) = 0 /\ N("cjm", "start", s) = 0
    BY FinishedMeans
  <2>2. RequestOK(s) /\ FlowsOK(s) /\ Sent(up[s], "req") = 0
    BY Known DEF ServerOK
  <2>3. Completing(s) = 0
    BY ONLY <2>1, <2>2 DEF RequestOK, One
  <2>4. /\ N("client", "resp", s) = 0 /\ N("client", "comp", s) = 0 /\ N("cjm", "req", s) = 0
        /\ Sent(up[s], "resp") = 0 /\ Sent(up[s], "comp") = 0
    BY <2>1, <2>3, Chains
  <2>5. N("cjm", "self", s) = 0
    BY ONLY <2>1, <2>2 DEF FlowsOK, One
  <2>6. ~(AcksTo(s, "cjm") > 0) /\ ~(InFlight(s, up[s]) > 0)
    BY <2>1, DataFindsFlows
  <2> QED BY ONLY <2>1, <2>2, <2>4, <2>5, <2>6
<1>2. ASSUME NEW i \in 1..Len(now) PROVE now[i].at \notin {"client", "cjm"}
  <2>1. PICK a, t, s : a = now[i].at /\ t = now[i].type /\ s = now[i].server
    OBVIOUS
  <2>2. s \in Servers /\ Due(a, t) /\ N(a, t, s) > 0 /\ (t = "ack" => AcksTo(s, a) > 0)
    BY <2>1, EventCounted
  <2>3. a \notin {"client", "cjm"}
    BY ONLY <1>1, <2>2 DEF Due
  <2> QED BY ONLY <2>1, <2>3
<1>3. ASSUME NEW s \in Servers PROVE up[s] = << >>
  <2>1. up[s] \in Seq(Packets)
    BY Known
  <2>2. ASSUME NEW i \in 1..Len(up[s]) PROVE FALSE
    <3>1. /\ up[s][i].type \in {"req", "resp", "comp", "push"} /\ Sent(up[s], up[s][i].type) > 0
          /\ up[s][i].type = "push" => InFlight(s, up[s]) > 0
      BY ONLY <2>1, i \in 1..Len(up[s]), PacketCounted
    <3> QED BY ONLY <1>1, <3>1, s \in Servers
  <2>3. up[s] # << >> => 1 \in 1..Len(up[s])
    BY ONLY <2>1
  <2> QED BY ONLY <2>2, <2>3
<1> QED BY <1>2, <1>3

LEMMA BytesAreConserved ==
  ASSUME Begun
  PROVE  BytesConserved
<1>1. \A s \in Servers : MovedOK(s) /\ mode \in {"read", "write"}
  BY Known
<1>2. BytesAccounted
  BY ONLY <1>1 DEF BytesAccounted, MovedOK
<1>3. WindowBounded
  BY ONLY <1>1 DEF WindowBounded, MovedOK, Source
<1> QED BY <1>2, <1>3 DEF BytesConserved

LEMMA TypesAreRight ==
  ASSUME Begun, Objects
  PROVE  TypeOK
<1>1. phase \in {"INIT", "COUNT", "FINISH"}
  BY DEF Begun, RemainingOK
<1>2. remaining \in [resp : 0..NumServers, flow : 0..NumServers, comp : 0..NumServers]
  <2>1. IsFiniteSet(Servers) /\ Cardinality(Servers) = NumServers
    <3>1. PICK n \in Nat \ {0} : n = NumServers
      BY NumServersAssumption
    <3>2. IsFiniteSet(1..n) /\ Cardinality(1..n) = n
      BY <3>1, FS_Interval
    <3> QED BY <3>1, <3>2 DEF Servers
  <2>2. Waiting \subseteq Servers /\ Flowing \subseteq Servers /\ Uncompleted \subseteq Servers
    BY DEF Waiting, Flowing, Uncompleted, WithFlow
  <2>3. ASSUME NEW S, S \subseteq Servers PROVE Cardinality(S) \in 0..NumServers
    <3>1. IsFiniteSet(S) /\ Cardinality(S) <= Cardinality(Servers)
      BY <2>1, <2>3, FS_Subset
    <3>2. Cardinality(S) \in Nat
      BY <3>1, FS_CardinalityType
    <3> QED BY <2>1, <3>1, <3>2, NumServersAssumption
  <2>4. remaining = [resp |-> Cardinality(Waiting), flow |-> Cardinality(Flowing),
                     comp |-> Cardinality(Uncompleted)]
    BY DEF Begun, RemainingOK
  <2> QED BY ONLY <2>2, <2>3, <2>4
<1>3. ASSUME NEW s \in Servers
      PROVE  \A f \in {cflow[s], sflow[s]} :
               f.st \in FlowStates /\ {f.net, f.sto, f.off} \subseteq 0..(IF plan[s] > 0 THEN plan[s] ELSE 0)
  <2>1. FlowsOK(s) /\ MovedOK(s) /\ mode \in {"read", "write"} /\ plan[s] \in Nat \cup {Skip}
    BY Known
  <2>2. cflow[s].st \in FlowStates /\ sflow[s].st \in FlowStates
    BY FlowsTyped DEF Flow
  <2>3. CASE plan[s] > 0
    <3>1. PICK p \in Nat, cn \in Nat, cs \in Nat, co \in Nat, sn \in Nat, ss \in Nat, so \in Nat :
            /\ p = plan[s] /\ cn = cflow[s].net /\ cs = cflow[s].sto /\ co = cflow[s].off
            /\ sn = sflow[s].net /\ ss = sflow[s].sto /\ so = sflow[s].off
      <4>1. PICK p \in Nat : p = plan[s]
        BY <2>1, <2>3 DEF Skip
      <4> QED BY <4>1, FlowsTyped
    <3>2. PICK a \in Nat, b \in Nat, d \in Nat, i \in Nat, j \in Nat :
            /\ a = AcksTo(s, "cjm") /\ b = AcksTo(s, "sjm") /\ d = SumOf(disk[s])
            /\ i = InFlight(s, up[s]) /\ j = InFlight(s, down[s])
      BY Known
    <3>3. CASE mode = "read"
      <4>1. cs = cn /\ so <= p /\ co = 0 /\ so = d + ss /\ ss = i + cn /\ cn = b + sn
        BY ONLY <2>1, <2>3, <3>1, <3>2, <3>3 DEF MovedOK, Source
      <4>2. cn <= p /\ cs <= p /\ co <= p /\ sn <= p /\ ss <= p /\ so <= p
        BY ONLY <4>1, p \in Nat, cn \in Nat, cs \in Nat, co \in Nat, sn \in Nat, ss \in Nat, so \in Nat,
                b \in Nat, d \in Nat, i \in Nat
      <4> QED BY ONLY <2>2, <2>3, <3>1, <4>2
    <3>4. CASE mode = "write"
      <4>1. cs = cn /\ co <= p /\ so = sn /\ co = j + sn /\ sn = d + ss /\ sn = a + cn
        BY ONLY <2>1, <2>3, <3>1, <3>2, <3>4 DEF MovedOK, Source
      <4>2. cn <= p /\ cs <= p /\ co <= p /\ sn <= p /\ ss <= p /\ so <= p
        BY ONLY <4>1, p \in Nat, cn \in Nat, cs \in Nat, co \in Nat, sn \in Nat, ss \in Nat, so \in Nat,
                a \in Nat, d \in Nat, j \in Nat
      <4> QED BY ONLY <2>2, <2>3, <3>1, <4>2
    <3> QED BY <2>1, <3>3, <3>4
  <2>4. CASE ~(plan[s] > 0)
    <3>1. plan[s] <= 0
      BY ONLY <2>1, <2>4 DEF Skip
    <3>2. cflow[s].st = "none" /\ sflow[s].st = "none"
      BY ONLY <2>1, <3>1 DEF FlowsOK
    <3>3. /\ cflow[s].net = 0 /\ cflow[s].sto = 0 /\ cflow[s].off = 0
          /\ sflow[s].net = 0 /\ sflow[s].sto = 0 /\ sflow[s].off = 0
      BY <3>2, FlowsTyped
    <3> QED BY ONLY <2>2, <2>4, <3>3
  <2> QED BY <2>3, <2>4
<1>4. \A s \in Servers : bstream[s] \in Nat
  BY DEF Begun, ServerOK
<1> QED BY ONLY Objects, <1>1, <1>2, <1>3, <1>4 DEF TypeOK, Objects


-----------------------------------------------------------------------------
\* The invariant is inductive.
LEMMA BegunUnchanged ==
  ASSUME Begun, UNCHANGED vars
  PROVE  Begun'
<1>1. /\ mode' = mode /\ plan' = plan /\ phase' = phase /\ remaining' = remaining /\ req' = req
      /\ srv' = srv /\ cflow' = cflow /\ sflow' = sflow /\ now' = now /\ arriving' = arriving
      /\ down' = down /\ up' = up /\ disk' = disk /\ bstream' = bstream
  BY DEF vars
<1>2. \A a, t, s : N(a, t, s)' = N(a, t, s)
  BY ONLY <1>1 DEF N
<1>3. \A s, jm : AcksTo(s, jm)' = AcksTo(s, jm)
  BY ONLY <1>1 DEF AcksTo
<1>4. \A s : /\ Asking(s)' = Asking(s) /\ Answering(s)' = Answering(s) /\ Starting(s)' = Starting(s)
             /\ Finishing(s)' = Finishing(s) /\ Completing(s)' = Completing(s)
             /\ Source(s)' = Source(s)
  BY ONLY <1>1, <1>2 DEF Asking, Answering, Starting, Finishing, Completing, Source
<1>5. ASSUME NEW s \in Servers PROVE ServerOK(s)'
  <2>1. ServerOK(s) /\ RequestOK(s) /\ FlowsOK(s) /\ MovedOK(s) /\ BuffersFull(s) /\ AnswerFirst(s)
    BY Known
  <2>2. RequestOK(s)'
    BY ONLY <1>1, <1>2, <1>4, <2>1 DEF RequestOK
  <2>3. FlowsOK(s)'
    BY ONLY <1>1, <1>2, <1>4, <2>1 DEF FlowsOK
  <2>4. MovedOK(s)'
    BY ONLY <1>1, <1>3, <1>4, <2>1 DEF MovedOK
  <2>5. BuffersFull(s)'
    BY ONLY <1>1, <1>4, <2>1 DEF BuffersFull
  <2>6. AnswerFirst(s)'
    BY ONLY <1>1, <1>2, <1>4, <2>1 DEF AnswerFirst
  <2> QED BY ONLY <1>1, <2>1, <2>2, <2>3, <2>4, <2>5, <2>6 DEF ServerOK
<1>6. Waiting' = Waiting /\ Flowing' = Flowing /\ Uncompleted' = Uncompleted
  BY ONLY <1>1, <1>2, <1>4 DEF Waiting, Flowing, Uncompleted, WithFlow
<1>7. RemainingOK'
  BY <1>1, <1>6 DEF Begun, RemainingOK
<1>8. Typed'
  BY <1>1 DEF Begun, Typed
<1> QED BY ONLY <1>5, <1>7, <1>8 DEF Begun

LEMMA ArriveAtServerKeeps ==
  ASSUME Begun, NEW s \in Servers, ArriveAtServer(s)
  PROVE  Begun'
<1>1. CASE down[s][1].type = "push"
  BY <1>1, PushAtServerKeeps
<1>2. CASE down[s][1].type = "req"
  <2>1. /\ down[s] # << >> /\ down' = [down EXCEPT ![s] = Tail(@)]
        /\ Deliver(<<Ev("sched", "req", s, 0)>>)
        /\ UNCHANGED <<mode, plan, phase, remaining, req, srv, cflow, sflow, disk, bstream, up>>
    BY <1>2 DEF ArriveAtServer, client
  <2> QED BY <1>2, <2>1, RequestArrivesKeeps
<1> QED BY <1>1, <1>2 DEF ArriveAtServer

LEMMA ArriveAtClientKeeps ==
  ASSUME Begun, NEW s \in Servers, ArriveAtClient(s)
  PROVE  Begun'
<1>1. CASE up[s][1].type = "push"
  BY <1>1, PushAtClientKeeps
<1>2. CASE up[s][1].type \in {"resp", "comp"}
  <2>1. /\ up[s] # << >> /\ up' = [up EXCEPT ![s] = Tail(@)]
        /\ Deliver(<<Ev("client", up[s][1].type, s, 0)>>)
        /\ UNCHANGED <<mode, plan, phase, remaining, req, srv, cflow, sflow, disk, bstream, down>>
    BY <1>2 DEF ArriveAtClient, client
  <2> QED BY <1>2, <2>1, ResponseArrivesKeeps
<1> QED BY <1>1, <1>2 DEF ArriveAtClient

LEMMA OnlyStartAtFirst ==
  ASSUME Init, Next
  PROVE  StartOperation
<1>1. /\ phase = "INIT" /\ now = << >>
      /\ \A s \in Servers : down[s] = << >> /\ up[s] = << >> /\ disk[s] = << >>
  BY DEF Init
<1>2. \A at, type, s, out : ~Handle(at, type, s, out)
  BY ONLY <1>1 DEF Handle
<1>3. ASSUME NEW s \in Servers, ClientResponse(s) \/ ClientFlowFinish(s) \/ ClientCompletion(s)
                                \/ ServerRequest(s) \/ ServerFlowFinish(s) \/ SchedulerPass(s)
      PROVE  FALSE
  BY ONLY <1>2, <1>3 DEF ClientResponse, ClientFlowFinish, ClientCompletion, ServerRequest,
                         ServerFlowFinish, SchedulerPass
<1>4. ASSUME NEW s \in Servers, SendRequest(s) \/ SendResponse(s) \/ StartClientFlow(s) \/ StartServerFlow(s)
                                \/ EndClientFlow(s) \/ EndServerFlow(s)
      PROVE  FALSE
  BY ONLY <1>2, <1>4 DEF SendRequest, SendResponse, StartClientFlow, StartServerFlow, EndClientFlow, EndServerFlow
<1>5. ASSUME NEW s \in Servers, AckAtClient(s) \/ AckAtServer(s) PROVE FALSE
  BY ONLY <1>2, <1>5 DEF AckAtClient, AckAtServer
<1>6. ASSUME NEW s \in Servers, ArriveAtServer(s) \/ ArriveAtClient(s) PROVE FALSE
  BY ONLY <1>1, <1>6, s \in Servers DEF ArriveAtServer, ArriveAtClient
<1>7. ASSUME NEW s \in Servers, DiskAnswers(s) PROVE FALSE
  <2>1. disk[s] = << >> /\ 1..Len(disk[s]) # {}
    BY <1>1, <1>7 DEF DiskAnswers
  <2> QED BY <2>1
<1>8. ~Ended
  BY <1>1 DEF Ended
<1> QED BY ONLY Next, <1>3, <1>4, <1>5, <1>6, <1>7, <1>8 DEF Next, Step

LEMMA BegunKept ==
  ASSUME Begun, [Next]_vars
  PROVE  Begun'
<1>1. CASE UNCHANGED vars
  BY <1>1, BegunUnchanged
<1>2. ~StartOperation
  BY DEF StartOperation, Begun, RemainingOK
<1>3. ASSUME NEW s \in Servers, ClientResponse(s) \/ ClientFlowFinish(s) \/ ClientCompletion(s) PROVE Begun'
  BY <1>3, ClientResponseKeeps, ClientFlowFinishKeeps, ClientCompletionKeeps
<1>4. ASSUME NEW s \in Servers, ServerRequest(s) \/ ServerFlowFinish(s) \/ SchedulerPass(s) PROVE Begun'
  BY <1>4, ServerRequestKeeps, ServerFlowFinishKeeps, SchedulerPassKeeps
<1>5. ASSUME NEW s \in Servers, SendRequest(s) \/ SendResponse(s) PROVE Begun'
  BY <1>5, SendRequestKeeps, SendResponseKeeps
<1>6. ASSUME NEW s \in Servers, StartClientFlow(s) \/ StartServerFlow(s) PROVE Begun'
  BY <1>6, StartClientFlowKeeps, StartServerFlowKeeps
<1>7. ASSUME NEW s \in Servers, EndClientFlow(s) \/ EndServerFlow(s) PROVE Begun'
  BY <1>7, EndClientFlowKeeps, EndServerFlowKeeps
<1>8. ASSUME NEW s \in Servers, AckAtClient(s) \/ AckAtServer(s) PROVE Begun'
  BY <1>8, AckAtClientKeeps, AckAtServerKeeps
<1>9. ASSUME NEW s \in Servers, ArriveAtServer(s) \/ ArriveAtClient(s) \/ DiskAnswers(s) PROVE Begun'
  BY <1>9, ArriveAtServerKeeps, ArriveAtClientKeeps, DiskAnswersKeeps
<1> QED BY ONLY [Next]_vars, <1>1, <1>2, <1>3, <1>4, <1>5, <1>6, <1>7, <1>8, <1>9 DEF Next, Step

LEMMA InvariantKept == IInv /\ [Next]_vars => IInv'
<1> SUFFICES ASSUME IInv, [Next]_vars PROVE IInv'
  OBVIOUS
<1>1. CASE Begun /\ Objects
  <2>1. Begun' /\ Objects'
    BY <1>1, BegunKept, ObjectsKept
  <2> QED BY <2>1 DEF IInv
<1>2. CASE Init /\ UNCHANGED vars
  <2>1. Init'
    BY <1>2 DEF Init, vars, WithFlow, Asked
  <2> QED BY <2>1 DEF IInv
<1>3. CASE Init /\ Next
  <2>1. StartOperation
    BY <1>3, OnlyStartAtFirst
  <2>2. Begun'
    BY <1>3, <2>1, StartOperationKeeps
  <2>3. Objects
    BY <1>3 DEF Init, Objects
  <2>4. Objects'
    BY <2>3, ObjectsKept
  <2> QED BY <2>2, <2>4 DEF IInv
<1> QED BY <1>1, <1>2, <1>3 DEF IInv

LEMMA Invariant == Spec => []IInv
<1>1. Init => IInv
  BY DEF IInv
<1> QED BY <1>1, InvariantKept, PTL DEF Spec


-----------------------------------------------------------------------------
\* What the runs check.
LEMMA AllRightAtFirst ==
  ASSUME Init
  PROVE  NoUseAfterDelete /\ BytesConserved
<1>1. /\ now = << >> /\ phase = "INIT" /\ mode \in {"read", "write"}
      /\ \A s \in Servers : /\ down[s] = << >> /\ up[s] = << >> /\ disk[s] = << >>
                            /\ cflow[s] = NoFlow /\ sflow[s] = NoFlow /\ bstream[s] \in Nat
                            /\ plan[s] \in Nat \cup {Skip}
  BY AtFirst DEF Init
<1>2. 1..Len(<< >>) = {}
  OBVIOUS
<1>3. TypeOK
  <2>1. NumServers \in Nat
    BY NumServersAssumption
  <2>2. remaining \in [resp : 0..NumServers, flow : 0..NumServers, comp : 0..NumServers]
    BY <2>1 DEF Init
  <2>3. /\ req \in [Servers -> {"none", "live", "deleted"}]
        /\ srv \in [Servers -> {"INIT", "RESPONDED", "FINISH"}]
    BY DEF Init
  <2>4. NoFlow.st \in FlowStates /\ NoFlow.net = 0 /\ NoFlow.sto = 0 /\ NoFlow.off = 0
    BY DEF NoFlow, FlowStates
  <2>5. ASSUME NEW s \in Servers PROVE 0 \in 0..(IF plan[s] > 0 THEN plan[s] ELSE 0)
    <3>1. CASE plan[s] > 0
      <4>1. plan[s] \in Nat
        BY ONLY <1>1, <3>1, s \in Servers DEF Skip
      <4> QED BY ONLY <3>1, <4>1
    <3>2. CASE ~(plan[s] > 0)
      BY ONLY <3>2
    <3> QED BY <3>1, <3>2
  <2>6. ASSUME NEW s \in Servers
        PROVE  \A f \in {cflow[s], sflow[s]} :
                 f.st \in FlowStates /\ {f.net, f.sto, f.off} \subseteq 0..(IF plan[s] > 0 THEN plan[s] ELSE 0)
    <3>1. cflow[s] = NoFlow /\ sflow[s] = NoFlow
      BY <1>1
    <3> QED BY ONLY <2>4, <2>5, <3>1, s \in Servers
  <2> QED BY ONLY <1>1, <2>2, <2>3, <2>6 DEF TypeOK
<1>4. RequestsOutliveTheirMessages
  BY ONLY <1>1, <1>2 DEF RequestsOutliveTheirMessages
<1>5. FlowsOutliveTheirMessages
  BY ONLY <1>1, <1>2 DEF FlowsOutliveTheirMessages
<1>6. QuietAfterFinish
  BY ONLY <1>1 DEF QuietAfterFinish
<1>7. BytesConserved
  <2>1. ASSUME NEW s \in Servers
        PROVE  /\ InFlight(s, up[s]) = 0 /\ InFlight(s, down[s]) = 0 /\ SumOf(disk[s]) = 0
               /\ AcksTo(s, "sjm") = 0 /\ AcksTo(s, "cjm") = 0
               /\ cflow[s].off = 0 /\ cflow[s].net = 0 /\ cflow[s].sto = 0
               /\ sflow[s].off = 0 /\ sflow[s].net = 0 /\ sflow[s].sto = 0
    <3>1. InFlight(s, up[s]) = 0 /\ InFlight(s, down[s]) = 0 /\ SumOf(disk[s]) = 0
      BY ONLY <1>1, EmptyQueue, s \in Servers
    <3>2. \A jm : AcksTo(s, jm) = 0
      <4>1. now \in Seq(Events) /\ ToSet(now) = {}
        BY ONLY <1>1, NoEvents
      <4> QED BY ONLY <4>1, Counted0
    <3>3. NoFlow.net = 0 /\ NoFlow.sto = 0 /\ NoFlow.off = 0
      BY DEF NoFlow
    <3> QED BY ONLY <1>1, <3>1, <3>2, <3>3, s \in Servers
  <2>2. BytesAccounted
    BY ONLY <2>1 DEF BytesAccounted
  <2>3. WindowBounded
    <3>1. \A m, n \in Nat \ {0} : m * n \in Nat /\ 0 - 0 <= m * n
      OBVIOUS
    <3>2. 0 - 0 <= NumBuffers * BufferSize
      BY <3>1, BufferAssumption
    <3> QED BY ONLY <2>1, <3>2 DEF WindowBounded
  <2> QED BY <2>2, <2>3 DEF BytesConserved
<1> QED BY <1>3, <1>4, <1>5, <1>6, <1>7 DEF NoUseAfterDelete

\* No message is ever about something that is gone: the request of every
\* message on its way is there, and so is the flow data and acknowledgements
\* are for, and nothing comes to a client that has finished
\* (the deletions in FSReadSM, FSWriteSM, Read, Write and JobManager).
THEOREM NothingUsedAfterDelete == Spec => []NoUseAfterDelete
<1>1. IInv => NoUseAfterDelete
  <2>1. CASE Init
    BY <2>1, AllRightAtFirst
  <2>2. CASE Begun /\ Objects
    BY <2>2, TypesAreRight, RequestsAreThere, FlowsAreThere, QuietOnceFinished DEF NoUseAfterDelete
  <2> QED BY <2>1, <2>2 DEF IInv
<1> QED BY <1>1, Invariant, PTL

\* Every byte the source handed out is on its disk, on the network or counted
\* at the other side, and acknowledged or being acknowledged; no more than the
\* buffers hold is out (BMIMemoryDataFlow, BMIListIODataFlow).
THEOREM NoByteLost == Spec => []BytesConserved
<1>1. IInv => BytesConserved
  BY AllRightAtFirst, BytesAreConserved DEF IInv
<1> QED BY <1>1, Invariant, PTL


-----------------------------------------------------------------------------
\* The operation implements the transfer of FileTransfer: what reached its
\* destination grows, by bytes that were missing and while the client counts,
\* and the client is finished when nothing is missing.
Share(s) == IF plan[s] > 0 THEN plan[s] ELSE 0
Moved(s) == IF mode = "read" THEN cflow[s].sto ELSE sflow[s].sto
Gains(s) == \E n \in 1..Share(s) - Moved(s) :
              /\ Moved(s)' = Moved(s) + n
              /\ \A u \in Servers \ {s} : Moved(u)' = Moved(u)

LEMMA FinishedHasAll ==
  Begun /\ phase = "FINISH" => \A s \in Servers : Moved(s) = Share(s)
<1> SUFFICES ASSUME Begun, phase = "FINISH", NEW s \in Servers PROVE Moved(s) = Share(s)
  OBVIOUS
<1>1. /\ RequestOK(s) /\ FlowsOK(s) /\ mode \in {"read", "write"} /\ plan[s] \in Nat \cup {Skip}
      /\ req[s] \in {"none", "live", "deleted"}
  BY Known
<1>2. CASE plan[s] > 0
  <2>1. CASE mode = "read"
    <3>1. cflow[s].st = "gone"
      BY <1>2, FinishedMeans
    <3>2. cflow[s].sto = plan[s]
      BY <3>1, FlowsTyped
    <3> QED BY ONLY <1>2, <2>1, <3>2 DEF Moved, Share
  <2>2. CASE mode = "write"
    <3>1. req[s] # "live"
      BY <2>2, FinishedMeans
    <3>2. plan[s] # Skip
      BY ONLY <1>2 DEF Skip
    <3>3. srv[s] = "FINISH"
      BY ONLY <1>1, <2>2, <3>1, <3>2 DEF RequestOK
    <3>4. sflow[s].st = "gone"
      BY ONLY <1>1, <3>3 DEF RequestOK
    <3>5. sflow[s].sto = plan[s]
      BY <3>4, FlowsTyped
    <3> QED BY ONLY <1>2, <2>2, <3>5 DEF Moved, Share
  <2> QED BY <1>1, <2>1, <2>2
<1>3. CASE ~(plan[s] > 0)
  <2>1. plan[s] <= 0
    BY ONLY <1>1, <1>3 DEF Skip
  <2>2. cflow[s].st = "none" /\ sflow[s].st = "none"
    BY ONLY <1>1, <2>1 DEF FlowsOK
  <2>3. cflow[s].sto = 0 /\ sflow[s].sto = 0
    BY <2>2, FlowsTyped
  <2> QED BY ONLY <1>3, <2>3 DEF Moved, Share
<1> QED BY <1>2, <1>3

LEMMA HandledWasDue ==
  ASSUME Begun, NEW at, NEW type, NEW s, NEW out, Handle(at, type, s, out)
  PROVE  /\ N(at, type, s) > 0 /\ (type = "ack" => AcksTo(s, at) > 0)
         /\ at \in {"client", "cjm"} => phase = "COUNT"
<1>1. now # << >> /\ now[1].at = at /\ now[1].type = type /\ now[1].server = s
  BY DEF Handle
<1>2. 1 \in 1..Len(now)
  BY <1>1 DEF Begun, Typed
<1>3. at \in {"client", "cjm"} => phase # "FINISH"
  BY <1>1, <1>2, QuietOnceFinished DEF QuietAfterFinish
<1>4. phase \in {"COUNT", "FINISH"}
  BY DEF Begun, RemainingOK
<1> QED BY <1>1, <1>2, <1>3, <1>4, EventCounted

\* The steps that leave both flows' totals alone.
LEMMA FlowsStill ==
  ASSUME Begun, NEW s \in Servers, mode' = mode, plan' = plan,
         NEW c, cflow' = [cflow EXCEPT ![s] = c], NEW d, sflow' = [sflow EXCEPT ![s] = d]
  PROVE  /\ cflow'[s] = c /\ sflow'[s] = d
         /\ \A u \in Servers \ {s} : Moved(u)' = Moved(u)
         /\ Moved(s)' = IF mode = "read" THEN c.sto ELSE d.sto
<1>1. DOMAIN cflow = Servers /\ DOMAIN sflow = Servers
  BY DEF Begun, Typed
<1>2. cflow'[s] = c /\ sflow'[s] = d /\ \A u \in Servers \ {s} : cflow'[u] = cflow[u] /\ sflow'[u] = sflow[u]
  BY <1>1
<1> QED BY ONLY mode' = mode, <1>2 DEF Moved

StepsTo(s) == /\ mode' = mode /\ plan' = plan /\ phase' = phase
              /\ \/ \A u \in Servers : Moved(u)' = Moved(u)
                 \/ phase = "COUNT" /\ Gains(s)

LEMMA FlowStepMoves ==
  ASSUME Begun, NEW s \in Servers,
         \/ StartClientFlow(s) \/ StartServerFlow(s) \/ EndClientFlow(s) \/ EndServerFlow(s)
         \/ AckAtClient(s) \/ AckAtServer(s)
  PROVE  StepsTo(s)
<1>1. /\ RequestOK(s) /\ FlowsOK(s) /\ MovedOK(s) /\ mode \in {"read", "write"}
      /\ plan[s] \in Nat \cup {Skip} /\ \A a, t : N(a, t, s) \in Nat
  BY Known
<1>0. DOMAIN cflow = Servers /\ DOMAIN sflow = Servers
  BY DEF Begun, Typed
<1>2. CASE StartClientFlow(s)
  <2>1. Handle("cjm", "start", s, << >>) /\ mode' = mode /\ plan' = plan /\ phase' = phase /\ sflow' = sflow
    BY <1>2 DEF StartClientFlow, client
  <2>2. PICK c : cflow' = [cflow EXCEPT ![s] = c] /\ c.sto = 0
    <3>1. PICK n : cflow' = [cflow EXCEPT ![s] = [NoFlow EXCEPT !.st = "active", !.off = n]]
      BY <1>2 DEF StartClientFlow
    <3>2. [NoFlow EXCEPT !.st = "active", !.off = n].sto = 0
      BY DEF NoFlow
    <3> QED BY <3>1, <3>2
  <2>3. CASE mode = "read"
    <3>1. N("cjm", "start", s) > 0
      BY <2>1, HandledWasDue
    <3>2. plan[s] > 0
      <4>1. ~(plan[s] <= 0)
        BY ONLY <1>1, <3>1 DEF FlowsOK
      <4> QED BY ONLY <1>1, <4>1 DEF Skip
    <3>3. cflow[s].st = "none"
      BY ONLY <1>1, <2>3, <3>1, <3>2 DEF FlowsOK, One
    <3>4. cflow[s].sto = 0
      BY <3>3, FlowsTyped
    <3>5. \A u \in Servers : cflow'[u].sto = cflow[u].sto
      BY ONLY <1>0, <2>2, <3>4
    <3> QED BY ONLY <2>1, <2>3, <3>5 DEF StepsTo, Moved
  <2>4. CASE mode = "write"
    BY ONLY <2>1, <2>4 DEF StepsTo, Moved
  <2> QED BY <1>1, <2>3, <2>4
<1>3. CASE StartServerFlow(s)
  <2>1. Handle("sjm", "start", s, << >>) /\ mode' = mode /\ plan' = plan /\ phase' = phase /\ cflow' = cflow
    BY <1>3 DEF StartServerFlow, client
  <2>2. PICK c : sflow' = [sflow EXCEPT ![s] = c] /\ c.sto = 0
    <3>1. PICK n : sflow' = [sflow EXCEPT ![s] = [NoFlow EXCEPT !.st = "active", !.off = n]]
      BY <1>3 DEF StartServerFlow
    <3>2. [NoFlow EXCEPT !.st = "active", !.off = n].sto = 0
      BY DEF NoFlow
    <3> QED BY <3>1, <3>2
  <2>3. sflow[s].sto = 0
    <3>1. N("sjm", "start", s) > 0
      BY <2>1, HandledWasDue
    <3>2. N("sched", "start", s) \in Nat /\ N("sjm", "start", s) \in Nat
      BY <1>1
    <3>3. Starting(s) # 0
      BY ONLY <3>1, <3>2 DEF Starting
    <3>4. sflow[s].st = "none"
      BY ONLY <1>1, <3>3 DEF RequestOK, One
    <3> QED BY <3>4, FlowsTyped
  <2>4. \A u \in Servers : sflow'[u].sto = sflow[u].sto
    BY ONLY <1>0, <2>2, <2>3
  <2> QED BY ONLY <2>1, <2>4 DEF StepsTo, Moved
<1>4. CASE EndClientFlow(s)
  <2>1. /\ mode' = mode /\ plan' = plan /\ phase' = phase /\ sflow' = sflow
        /\ cflow' = [cflow EXCEPT ![s].st = "gone"]
    BY <1>4 DEF EndClientFlow, client
  <2>2. cflow[s] \in Flow
    BY FlowsTyped
  <2>3. \A u \in Servers : cflow'[u].sto = cflow[u].sto
    BY ONLY <1>0, <2>1, <2>2 DEF Flow
  <2> QED BY ONLY <2>1, <2>3 DEF StepsTo, Moved
<1>5. CASE EndServerFlow(s)
  <2>1. /\ mode' = mode /\ plan' = plan /\ phase' = phase /\ cflow' = cflow
        /\ sflow' = [sflow EXCEPT ![s].st = "gone"]
    BY <1>5 DEF EndServerFlow, client
  <2>2. sflow[s] \in Flow
    BY FlowsTyped
  <2>3. \A u \in Servers : sflow'[u].sto = sflow[u].sto
    BY ONLY <1>0, <2>1, <2>2 DEF Flow
  <2> QED BY ONLY <2>1, <2>3 DEF StepsTo, Moved
<1>6. CASE AckAtClient(s)
  <2>1. \E out : Handle("cjm", "ack", s, out)
    BY <1>6 DEF AckAtClient
  <2>2. mode' = mode /\ plan' = plan /\ phase' = phase /\ sflow' = sflow
    BY <1>6 DEF AckAtClient, client
  <2>3. AcksTo(s, "cjm") > 0
    BY <2>1, HandledWasDue
  <2>4. mode # "read"
    BY ONLY <1>1, <2>3 DEF MovedOK
  <2> QED BY ONLY <2>2, <2>4 DEF StepsTo, Moved
<1>7. CASE AckAtServer(s)
  <2>1. \E out : Handle("sjm", "ack", s, out)
    BY <1>7 DEF AckAtServer
  <2>2. mode' = mode /\ plan' = plan /\ phase' = phase /\ cflow' = cflow
    BY <1>7 DEF AckAtServer, client
  <2>3. AcksTo(s, "sjm") > 0
    BY <2>1, HandledWasDue
  <2>4. mode = "read"
    BY ONLY <1>1, <2>3 DEF MovedOK
  <2> QED BY ONLY <2>2, <2>4 DEF StepsTo, Moved
<1> QED BY <1>2, <1>3, <1>4, <1>5, <1>6, <1>7


\* Data that arrives at a server is on no disk yet.
LEMMA PushAtServerMoves ==
  ASSUME Begun, NEW s \in Servers, ArriveAtServer(s), down[s][1].type = "push"
  PROVE  StepsTo(s)
<1> DEFINE n == down[s][1].n
           f == [sflow[s] EXCEPT !.net = @ + n, !.off = @ + n]
<1>1. /\ down[s] # << >> /\ mode' = mode /\ plan' = plan /\ phase' = phase /\ cflow' = cflow
      /\ sflow' = [sflow EXCEPT ![s] = After(f, s)]
  BY DEF ArriveAtServer, client
<1>2. DOMAIN sflow = Servers
  BY DEF Begun, Typed
<1>3. Taken(down[s], "push", s)
  BY <1>1, Known, TakenPacket
<1>4. n \in Nat \ {0} /\ InFlight(s, down[s]) > 0
  BY ONLY <1>3 DEF Taken
<1>5. sflow[s].st = "active" /\ sflow[s] \in Flow
  BY <1>4, DataFindsFlows, FlowsTyped
<1>6. f \in Flow /\ f.st = "active" /\ f.sto = sflow[s].sto
  <2>1. PICK m \in Nat, c \in Flow : m = n /\ c = sflow[s]
    BY <1>4, <1>5
  <2>2. PICK h : h = [c EXCEPT !.net = @ + m, !.off = @ + m]
    OBVIOUS
  <2>3. h \in Flow /\ h.st = c.st /\ h.sto = c.sto
    BY <2>2, DataCounted
  <2>4. f = h
    BY <2>1, <2>2
  <2> QED BY ONLY <1>5, <2>1, <2>3, <2>4
<1> HIDE DEF f
<1>7. After(f, s).sto = sflow[s].sto
  <2>1. PICK h \in Flow : h = f
    BY <1>6
  <2> QED BY <1>6, <2>1, AfterIs
<1>8. \A u \in Servers : sflow'[u].sto = sflow[u].sto
  BY ONLY <1>1, <1>2, <1>7
<1> QED BY ONLY <1>1, <1>8 DEF StepsTo, Moved

\* Data that arrives at the client is read.
LEMMA PushAtClientMoves ==
  ASSUME Begun, NEW s \in Servers, ArriveAtClient(s), up[s][1].type = "push"
  PROVE  StepsTo(s)
<1> DEFINE n == up[s][1].n
           f == ClientProgress(cflow[s], n)
<1>1. /\ up[s] # << >> /\ mode' = mode /\ plan' = plan /\ phase' = phase /\ sflow' = sflow
      /\ cflow' = [cflow EXCEPT ![s] = After(f, s)]
  BY DEF ArriveAtClient, client
<1>2. DOMAIN cflow = Servers
  BY DEF Begun, Typed
<1>3. Taken(up[s], "push", s)
  BY <1>1, Known, TakenPacket
<1>4. n \in Nat \ {0} /\ InFlight(s, up[s]) >= n /\ InFlight(s, up[s]) > 0
  BY ONLY <1>3 DEF Taken
<1>5. cflow[s].st = "active" /\ cflow[s] \in Flow
  BY <1>4, DataFindsFlows, FlowsTyped
<1>6. f \in Flow /\ f.st = "active" /\ f.sto = cflow[s].sto + n
  <2>1. PICK m \in Nat, c \in Flow : m = n /\ c = cflow[s]
    BY <1>4, <1>5
  <2>2. PICK h : h = ClientProgress(c, m)
    OBVIOUS
  <2>3. h \in Flow /\ h.st = c.st /\ h.sto = c.sto + m
    BY <2>2, ProgressIs
  <2>4. f = h
    BY <2>1, <2>2
  <2> QED BY ONLY <1>5, <2>1, <2>3, <2>4
<1> HIDE DEF f
<1>7. After(f, s).sto = cflow[s].sto + n
  <2>1. PICK h \in Flow : h = f
    BY <1>6
  <2> QED BY <1>6, <2>1, AfterIs
<1>8. phase = "COUNT"
  <2>1. phase # "FINISH"
    BY <1>1, QuietOnceFinished DEF QuietAfterFinish
  <2>2. phase \in {"COUNT", "FINISH"}
    BY DEF Begun, RemainingOK
  <2> QED BY <2>1, <2>2
<1>9. MovedOK(s) /\ mode \in {"read", "write"} /\ plan[s] \in Nat \cup {Skip} /\ FlowsOK(s)
  BY Known
<1>10. mode = "read"
  BY ONLY <1>4, <1>9 DEF MovedOK
<1>11. plan[s] > 0 /\ plan[s] \in Nat
  BY ONLY <1>5, <1>9 DEF FlowsOK, Skip
<1>12. cflow[s].sto \in Nat /\ n \in 1..(plan[s] - cflow[s].sto)
  <2>1. PICK c \in Nat, i \in Nat, d \in Nat, e \in Nat, k \in Nat, m \in Nat, p \in Nat :
          /\ c = cflow[s].sto /\ e = sflow[s].sto /\ k = SumOf(disk[s])
          /\ i = InFlight(s, up[s]) /\ d = sflow[s].off /\ m = n /\ p = plan[s]
    BY <1>4, <1>11, Known, FlowsTyped
  <2>2. d = k + e /\ e = i + c /\ d <= p /\ i >= m /\ m > 0
    <3>1. /\ sflow[s].off = SumOf(disk[s]) + sflow[s].sto
          /\ sflow[s].sto = InFlight(s, up[s]) + cflow[s].sto
          /\ sflow[s].off <= plan[s]
      BY ONLY <1>9, <1>10, <1>11 DEF MovedOK, Source
    <3> QED BY ONLY <1>4, <2>1, <3>1
  <2>3. m \in 1..(p - c)
    BY ONLY <2>2, d \in Nat, k \in Nat, e \in Nat, i \in Nat, c \in Nat, p \in Nat, m \in Nat
  <2> QED BY ONLY <2>1, <2>3
<1>13. /\ cflow'[s].sto = cflow[s].sto + n
       /\ \A u \in Servers \ {s} : cflow'[u] = cflow[u]
  BY ONLY <1>1, <1>2, <1>7, s \in Servers
<1>14. Share(s) = plan[s] /\ Moved(s) = cflow[s].sto /\ Moved(s)' = cflow'[s].sto
  BY ONLY <1>1, <1>10, <1>11 DEF Share, Moved
<1>15. \A u \in Servers \ {s} : Moved(u)' = Moved(u)
  BY ONLY <1>1, <1>10, <1>13 DEF Moved
<1>16. Gains(s)
  BY ONLY <1>12, <1>13, <1>14, <1>15 DEF Gains
<1> QED BY ONLY <1>1, <1>8, <1>16 DEF StepsTo

\* What a disk answers is written, or on its way to the client.
LEMMA DiskAnswersMoves ==
  ASSUME Begun, NEW s \in Servers, DiskAnswers(s)
  PROVE  StepsTo(s)
<1>1. PICK i \in 1..Len(disk[s]) :
        LET f == [sflow[s] EXCEPT !.sto = @ + disk[s][i]] IN
        /\ sflow' = [sflow EXCEPT ![s] = After(f, s)]
        /\ mode' = mode /\ plan' = plan /\ phase' = phase /\ cflow' = cflow
  BY DEF DiskAnswers, client
<1> DEFINE n == disk[s][i]
           f == [sflow[s] EXCEPT !.sto = @ + n]
<1>2. DOMAIN sflow = Servers
  BY DEF Begun, Typed
<1>3. /\ MovedOK(s) /\ mode \in {"read", "write"} /\ plan[s] \in Nat \cup {Skip} /\ FlowsOK(s)
      /\ RequestOK(s) /\ disk[s] \in Seq(Nat \ {0})
      /\ req[s] \in {"none", "live", "deleted"}
  BY Known
<1>4. n \in Nat \ {0} /\ SumOf(disk[s]) >= n
  <2>1. disk[s] \in Seq(Nat) /\ n \in Nat \ {0}
    BY <1>3
  <2> QED BY <2>1, SumRemove
<1>5. sflow[s].st = "active" /\ plan[s] > 0 /\ plan[s] \in Nat /\ sflow[s] \in Flow
  <2>1. PICK k \in Nat, m \in Nat : k = SumOf(disk[s]) /\ m = n
    BY <1>4, Known
  <2>2. SumOf(disk[s]) > 0
    BY ONLY <1>4, <2>1
  <2> QED BY <2>2, DiskFindsServer, FlowsTyped
<1>6. f \in Flow /\ f.st = "active" /\ f.sto = sflow[s].sto + n
  <2>1. PICK m \in Nat, c \in Flow : m = n /\ c = sflow[s]
    BY <1>4, <1>5
  <2>2. PICK h : h = [c EXCEPT !.sto = @ + m]
    OBVIOUS
  <2>3. h \in Flow /\ h.st = c.st /\ h.sto = c.sto + m
    BY <2>2, StoCounted
  <2>4. f = h
    BY <2>1, <2>2
  <2> QED BY ONLY <1>5, <2>1, <2>3, <2>4
<1>7. sflow' = [sflow EXCEPT ![s] = After(f, s)] /\ mode' = mode /\ plan' = plan /\ phase' = phase /\ cflow' = cflow
  BY <1>1
<1> HIDE DEF f
<1>8. After(f, s).sto = sflow[s].sto + n
  <2>1. PICK h \in Flow : h = f
    BY <1>6
  <2> QED BY <1>6, <2>1, AfterIs
<1>9. CASE mode = "read"
  BY ONLY <1>7, <1>9 DEF StepsTo, Moved
<1>10. CASE mode = "write"
  <2>1. phase = "COUNT"
    <3>1. ASSUME phase = "FINISH" PROVE FALSE
      <4>1. req[s] # "live"
        BY <1>10, <3>1, FinishedMeans
      <4>2. plan[s] # Skip
        BY ONLY <1>5 DEF Skip
      <4>3. srv[s] = "FINISH"
        BY ONLY <1>3, <1>10, <4>1, <4>2 DEF RequestOK
      <4>4. sflow[s].st = "gone"
        BY ONLY <1>3, <4>3 DEF RequestOK
      <4> QED BY ONLY <1>5, <4>4
    <3>2. phase \in {"COUNT", "FINISH"}
      BY DEF Begun, RemainingOK
    <3> QED BY <3>1, <3>2
  <2>2. sflow[s].sto \in Nat /\ n \in 1..(plan[s] - sflow[s].sto)
    <3>1. PICK c \in Nat, j \in Nat, d \in Nat, e \in Nat, k \in Nat, m \in Nat, p \in Nat :
            /\ c = sflow[s].net /\ e = sflow[s].sto /\ k = SumOf(disk[s])
            /\ j = InFlight(s, down[s]) /\ d = cflow[s].off /\ m = n /\ p = plan[s]
      BY <1>4, <1>5, Known, FlowsTyped
    <3>2. d = j + c /\ c = k + e /\ d <= p /\ k >= m /\ m > 0
      <4>1. /\ cflow[s].off = InFlight(s, down[s]) + sflow[s].net
            /\ sflow[s].net = SumOf(disk[s]) + sflow[s].sto
            /\ cflow[s].off <= plan[s]
        BY ONLY <1>3, <1>5, <1>10 DEF MovedOK, Source
      <4> QED BY ONLY <1>4, <3>1, <4>1
    <3>3. m \in 1..(p - e)
      BY ONLY <3>2, d \in Nat, k \in Nat, e \in Nat, j \in Nat, c \in Nat, p \in Nat, m \in Nat
    <3> QED BY ONLY <3>1, <3>3
  <2>3. /\ sflow'[s].sto = sflow[s].sto + n
        /\ \A u \in Servers \ {s} : sflow'[u] = sflow[u]
    BY ONLY <1>2, <1>7, <1>8, s \in Servers
  <2>4. Share(s) = plan[s] /\ Moved(s) = sflow[s].sto /\ Moved(s)' = sflow'[s].sto
    BY ONLY <1>5, <1>7, <1>10 DEF Share, Moved
  <2>5. \A u \in Servers \ {s} : Moved(u)' = Moved(u)
    BY ONLY <1>7, <1>10, <2>3 DEF Moved
  <2>6. Gains(s)
    BY ONLY <2>2, <2>3, <2>4, <2>5 DEF Gains
  <2> QED BY ONLY <1>7, <2>1, <2>6 DEF StepsTo
<1> QED BY <1>3, <1>9, <1>10

\* The other steps of a server leave both flows alone.
LEMMA MessageMoves ==
  ASSUME Begun, NEW s \in Servers,
         \/ SchedulerPass(s) \/ SendRequest(s) \/ SendResponse(s)
         \/ ServerRequest(s) \/ ServerFlowFinish(s)
         \/ ArriveAtServer(s) /\ down[s][1].type # "push"
         \/ ArriveAtClient(s) /\ up[s][1].type # "push"
  PROVE  StepsTo(s)
<1>1. mode' = mode /\ plan' = plan /\ phase' = phase /\ cflow' = cflow /\ sflow' = sflow
  <2>1. CASE SchedulerPass(s) \/ SendRequest(s) \/ SendResponse(s)
    BY <2>1 DEF SchedulerPass, SendRequest, SendResponse, client, flows
  <2>2. CASE ServerRequest(s) \/ ServerFlowFinish(s)
    BY <2>2 DEF ServerRequest, ServerFlowFinish, client, flows
  <2>3. CASE ArriveAtServer(s) /\ down[s][1].type # "push"
    BY <2>3 DEF ArriveAtServer, client
  <2>4. CASE ArriveAtClient(s) /\ up[s][1].type # "push"
    BY <2>4 DEF ArriveAtClient, client
  <2> QED BY <2>1, <2>2, <2>3, <2>4
<1> QED BY ONLY <1>1 DEF StepsTo, Moved

\* The client counts, and may finish.
StepsOn == /\ mode' = mode /\ plan' = plan /\ phase = "COUNT" /\ phase' \in {"COUNT", "FINISH"}
           /\ \A u \in Servers : Moved(u)' = Moved(u)

LEMMA ClientMoves ==
  ASSUME Begun, NEW s \in Servers, ClientResponse(s) \/ ClientFlowFinish(s) \/ ClientCompletion(s)
  PROVE  StepsOn
<1>1. phase = "COUNT"
  <2>1. \E type, out : Handle("client", type, s, out)
    BY DEF ClientResponse, ClientFlowFinish, ClientCompletion
  <2> QED BY <2>1, HandledWasDue
<1>2. mode' = mode /\ plan' = plan /\ cflow' = cflow /\ sflow' = sflow
  BY DEF ClientResponse, ClientFlowFinish, ClientCompletion, flows
<1>3. phase' = phase \/ phase' \in {"COUNT", "FINISH"}
  <2>1. CASE ClientResponse(s)
    BY <2>1 DEF ClientResponse, Counted
  <2>2. CASE ClientFlowFinish(s)
    BY <2>2 DEF ClientFlowFinish, Counted
  <2>3. CASE ClientCompletion(s)
    BY <2>3 DEF ClientCompletion, Counted
  <2> QED BY <2>1, <2>2, <2>3
<1> QED BY ONLY <1>1, <1>2, <1>3 DEF StepsOn, Moved

LEMMA StartMoves ==
  ASSUME Init, StartOperation
  PROVE  /\ mode' = mode /\ plan' = plan /\ phase = "INIT" /\ phase' \in {"COUNT", "FINISH"}
         /\ \A u \in Servers : Moved(u)' = Moved(u) /\ Moved(u) = 0
         /\ phase' = "FINISH" => \A u \in Servers : Share(u) = 0
<1>1. /\ mode' = mode /\ plan' = plan /\ cflow' = cflow /\ sflow' = sflow /\ phase = "INIT"
      /\ phase' = IF mode = "read" /\ Asked = {} THEN "FINISH" ELSE "COUNT"
  BY DEF StartOperation, flows
<1>2. \A u \in Servers : cflow[u] = NoFlow /\ sflow[u] = NoFlow
  BY DEF Init
<1>3. NoFlow.sto = 0
  BY DEF NoFlow
<1>4. ASSUME Asked = {}, NEW u \in Servers PROVE Share(u) = 0
  BY <1>4 DEF Asked, Share, Skip
<1>5. \A u \in Servers : Moved(u)' = Moved(u) /\ Moved(u) = 0
  BY ONLY <1>1, <1>2, <1>3 DEF Moved
<1> QED BY ONLY <1>1, <1>4, <1>5

\* The steps of the transfer, of what the two modules share.
LEMMA NothingMoved ==
  ASSUME mode' = mode, plan' = plan, phase' = phase, \A u \in Servers : Moved(u)' = Moved(u)
  PROVE  UNCHANGED Transfer!vars
BY DEF Transfer!vars, Moved

LEMMA SomeMoved ==
  ASSUME NEW s \in Servers, mode' = mode, plan' = plan, phase' = phase, phase = "COUNT", Gains(s)
  PROVE  Transfer!Move(s)
<1> DEFINE share == [u \in Servers |-> IF plan[u] > 0 THEN plan[u] ELSE 0]
           moved == [u \in Servers |-> IF mode = "read" THEN cflow[u].sto ELSE sflow[u].sto]
<1>1. share[s] = Share(s) /\ \A u \in Servers : moved[u] = Moved(u) /\ moved'[u] = Moved(u)'
  BY DEF Share, Moved
<1>2. PICK n \in 1..Share(s) - Moved(s) :
        Moved(s)' = Moved(s) + n /\ \A u \in Servers \ {s} : Moved(u)' = Moved(u)
  BY DEF Gains
<1>3. moved' = [moved EXCEPT ![s] = @ + n]
  <2>1. moved'[s] = moved[s] + n /\ \A u \in Servers \ {s} : moved'[u] = moved[u]
    BY ONLY <1>1, <1>2, s \in Servers
  <2>2. DOMAIN moved = Servers /\ DOMAIN moved' = Servers
    OBVIOUS
  <2>3. moved = [u \in Servers |-> moved[u]] /\ moved' = [u \in Servers |-> moved'[u]]
    OBVIOUS
  <2> HIDE DEF moved
  <2> QED BY ONLY <2>1, <2>2, <2>3, s \in Servers
<1>4. share' = share
  OBVIOUS
<1>5. n \in 1..(share[s] - moved[s])
  BY ONLY <1>1, <1>2, s \in Servers
<1> QED BY <1>3, <1>4, <1>5 DEF Transfer!Move

LEMMA AllMovedIs ==
  (\A u \in Servers : Moved(u) = Share(u)) => Transfer!AllMoved
BY DEF Transfer!AllMoved, Moved, Share

LEMMA StepImplements ==
  ASSUME NEW s \in Servers, StepsTo(s)
  PROVE  [Transfer!Next]_(Transfer!vars)
<1>1. CASE \A u \in Servers : Moved(u)' = Moved(u)
  BY <1>1, NothingMoved DEF StepsTo
<1>2. CASE phase = "COUNT" /\ Gains(s)
  <2>1. Transfer!Move(s)
    BY <1>2, SomeMoved DEF StepsTo
  <2> QED BY <2>1 DEF Transfer!Next
<1> QED BY <1>1, <1>2 DEF StepsTo

LEMMA ClientImplements ==
  ASSUME Begun', StepsOn
  PROVE  [Transfer!Next]_(Transfer!vars)
<1>1. mode' = mode /\ plan' = plan /\ phase = "COUNT" /\ \A u \in Servers : Moved(u)' = Moved(u)
  BY DEF StepsOn
<1>2. CASE phase' = "COUNT"
  BY <1>1, <1>2, NothingMoved
<1>3. CASE phase' = "FINISH"
  <2>1. (Begun /\ phase = "FINISH" => \A s \in Servers : Moved(s) = Share(s))'
    BY FinishedHasAll, PTL
  <2>2. \A s \in Servers : Share(s)' = Share(s)
    BY ONLY <1>1 DEF Share
  <2>3. Transfer!AllMoved
    <3>1. \A s \in Servers : Moved(s)' = Share(s)'
      BY <1>3, <2>1
    <3>2. \A s \in Servers : Moved(s) = Share(s)
      BY ONLY <1>1, <2>2, <3>1
    <3> QED BY <3>2, AllMovedIs
  <2>4. /\ [u \in Servers |-> IF plan[u] > 0 THEN plan[u] ELSE 0]'
             = [u \in Servers |-> IF plan[u] > 0 THEN plan[u] ELSE 0]
        /\ [u \in Servers |-> IF mode = "read" THEN cflow[u].sto ELSE sflow[u].sto]'
             = [u \in Servers |-> IF mode = "read" THEN cflow[u].sto ELSE sflow[u].sto]
    BY ONLY <1>1 DEF Moved
  <2>5. Transfer!Finish
    BY ONLY <1>1, <1>3, <2>3, <2>4 DEF Transfer!Finish
  <2> QED BY <2>5 DEF Transfer!Next
<1> QED BY <1>2, <1>3 DEF StepsOn

LEMMA StartImplements ==
  ASSUME Init, StartOperation
  PROVE  Transfer!Start
<1>1. /\ mode' = mode /\ plan' = plan /\ phase = "INIT" /\ phase' \in {"COUNT", "FINISH"}
      /\ \A u \in Servers : Moved(u)' = Moved(u) /\ Moved(u) = 0
      /\ phase' = "FINISH" => \A u \in Servers : Share(u) = 0
  BY StartMoves
<1>2. phase' = "FINISH" => Transfer!AllMoved
  BY <1>1, AllMovedIs
<1>3. phase' \in IF Transfer!AllMoved THEN {"COUNT", "FINISH"} ELSE {"COUNT"}
  BY ONLY <1>1, <1>2
<1>4. /\ [u \in Servers |-> IF plan[u] > 0 THEN plan[u] ELSE 0]'
           = [u \in Servers |-> IF plan[u] > 0 THEN plan[u] ELSE 0]
      /\ [u \in Servers |-> IF mode = "read" THEN cflow[u].sto ELSE sflow[u].sto]'
           = [u \in Servers |-> IF mode = "read" THEN cflow[u].sto ELSE sflow[u].sto]
  BY ONLY <1>1 DEF Moved
<1> QED BY ONLY <1>1, <1>3, <1>4 DEF Transfer!Start

LEMMA InitImplements == Init => Transfer!Init
<1> SUFFICES ASSUME Init PROVE Transfer!Init
  OBVIOUS
<1>1. phase = "INIT" /\ plan \in [Servers -> Sizes \union {Skip}]
  BY DEF Init
<1>2. \A s \in Servers : cflow[s] = NoFlow /\ sflow[s] = NoFlow
  BY DEF Init
<1>3. NoFlow.sto = 0
  BY DEF NoFlow
<1>4. [s \in Servers |-> IF plan[s] > 0 THEN plan[s] ELSE 0] \in [Servers -> Sizes \union {0}]
  BY <1>1 DEF Skip
<1>5. [s \in Servers |-> IF mode = "read" THEN cflow[s].sto ELSE sflow[s].sto] = [s \in Servers |-> 0]
  BY ONLY <1>2, <1>3
<1> QED BY ONLY <1>1, <1>4, <1>5 DEF Transfer!Init

LEMMA NextImplements == IInv /\ [Next]_vars => [Transfer!Next]_(Transfer!vars)
<1> SUFFICES ASSUME IInv, [Next]_vars PROVE [Transfer!Next]_(Transfer!vars)
  OBVIOUS
<1>1. CASE UNCHANGED vars
  BY <1>1 DEF vars, Transfer!vars
<1>2. CASE Init /\ Next
  <2>1. StartOperation
    BY <1>2, OnlyStartAtFirst
  <2> QED BY <1>2, <2>1, StartImplements DEF Transfer!Next
<1>3. CASE Begun /\ Next
  <2>0. Begun'
    BY <1>3, BegunKept
  <2>1. ~StartOperation
    BY <1>3 DEF StartOperation, Begun, RemainingOK
  <2>2. ASSUME NEW s \in Servers, ClientResponse(s) \/ ClientFlowFinish(s) \/ ClientCompletion(s)
        PROVE  [Transfer!Next]_(Transfer!vars)
    BY <1>3, <2>0, <2>2, ClientMoves, ClientImplements
  <2>3. ASSUME NEW s \in Servers, \/ ServerRequest(s) \/ ServerFlowFinish(s) \/ SchedulerPass(s)
                                  \/ SendRequest(s) \/ SendResponse(s)
        PROVE  [Transfer!Next]_(Transfer!vars)
    <3>1. StepsTo(s)
      BY <1>3, <2>3, MessageMoves
    <3> QED BY <3>1, StepImplements
  <2>4. ASSUME NEW s \in Servers,
               \/ StartClientFlow(s) \/ StartServerFlow(s) \/ EndClientFlow(s) \/ EndServerFlow(s)
               \/ AckAtClient(s) \/ AckAtServer(s)
        PROVE  [Transfer!Next]_(Transfer!vars)
    <3>1. StepsTo(s)
      BY <1>3, <2>4, FlowStepMoves
    <3> QED BY <3>1, StepImplements
  <2>5. ASSUME NEW s \in Servers, ArriveAtServer(s) \/ ArriveAtClient(s) \/ DiskAnswers(s)
        PROVE  [Transfer!Next]_(Transfer!vars)
    <3>1. StepsTo(s)
      BY <1>3, <2>5, PushAtServerMoves, PushAtClientMoves, DiskAnswersMoves, MessageMoves
    <3> QED BY <3>1, StepImplements
  <2>6. CASE UNCHANGED vars
    BY <1>1, <2>6
  <2> QED BY ONLY <1>3, <2>1, <2>2, <2>3, <2>4, <2>5, <2>6 DEF Next, Step
<1> QED BY <1>1, <1>2, <1>3 DEF IInv

\* A read or a write is the transfer its client asked for: each server moves
\* its own bytes of the region, none twice and none more, and the client is
\* finished, once, when all of them have reached their destination
\* (FSReadSM, FSWriteSM and the two data flows of each server).
THEOREM TransfersWhatWasAsked == Spec => Transfer!Init /\ [][Transfer!Next]_(Transfer!vars)
<1> QED BY InitImplements, NextImplements, Invariant, PTL DEF Spec
=============================================================================
