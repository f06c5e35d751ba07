--------------------------- MODULE StorageProofs ---------------------------
(***************************************************************************)
(* Where the bytes of a file are.                                          *)
(*                                                                         *)
(* The objects of a file share its bytes out: for every strip size, number *)
(* of objects and offset, SimpleStripeDistribution gives a byte to one     *)
(* object, at a place no other byte has, and the walk from strip to strip  *)
(* that distributeContiguousRegion makes misses none.                      *)
(*                                                                         *)
(* A region of an object is turned into the blocks that hold it, with at   *)
(* most one block too many; and the file system of an I/O node answers a   *)
(* request when the device has done all of it, each byte's blocks included.*)
(*                                                                         *)
(* The file builder gives each object a handle of its own, stored by the   *)
(* server that owns the handle, in blocks no other object has.             *)
(***************************************************************************)
EXTENDS FileSystem, FileAccess, FiniteSetTheorems, SequenceTheorems,
        WellFoundedInduction, TLAPS

\* A logical offset is byte RestOf of strip ObjectOf of stripe StripeOf.
ObjectOf(off, n) == (off \div StripSize) % n
StripeOf(off, n) == (off \div StripSize) \div n
RestOf(off) == off % StripSize

LEMMA StripSizePositive == StripSize \in Nat \ {0}
  BY FileLayoutsAssumption

LEMMA MulMonotone ==
  ASSUME NEW a \in Int, NEW b \in Int, NEW c \in Nat, a <= b
  PROVE  a * c <= b * c
  OBVIOUS

LEMMA DivModUnique ==
  ASSUME NEW w \in Nat \ {0}, NEW q \in Int, NEW r \in 0 .. w - 1
  PROVE  (q * w + r) \div w = q /\ (q * w + r) % w = r
<1>1. (q * w + r) \div w = q
  OBVIOUS
<1>2. (q * w + r) % w = r
  OBVIOUS
<1> QED BY <1>1, <1>2

LEMMA DivModSum ==
  ASSUME NEW w \in Nat \ {0}, NEW a \in Nat
  PROVE  /\ a = (a \div w) * w + (a % w)
         /\ a \div w \in Nat /\ a % w \in 0 .. w - 1
  OBVIOUS

-----------------------------------------------------------------------------
\* The parts an offset is made of.
LEMMA Decompose ==
  ASSUME NEW n \in Nat \ {0}, NEW off \in Nat
  PROVE  /\ StripeOf(off, n) \in Nat /\ ObjectOf(off, n) \in 0 .. n - 1
         /\ RestOf(off) \in 0 .. StripSize - 1
         /\ off = StripeOf(off, n) * (n * StripSize) + ObjectOf(off, n) * StripSize + RestOf(off)
<1> DEFINE s == off \div StripSize
           q == StripeOf(off, n)
           o == ObjectOf(off, n)
           b == RestOf(off)
<1>1. off = s * StripSize + b /\ s \in Nat /\ b \in 0 .. StripSize - 1
  BY StripSizePositive, DivModSum DEF RestOf
<1> HIDE DEF s
<1>2. s = q * n + o /\ q \in Nat /\ o \in 0 .. n - 1
  BY <1>1, DivModSum DEF StripeOf, ObjectOf, s
<1> HIDE DEF q, o, b
<1>3. s * StripSize = q * (n * StripSize) + o * StripSize
  BY <1>2, StripSizePositive
<1> QED BY <1>1, <1>2, <1>3 DEF q, o, b

\* And the offset that is made of them.
LEMMA Compose ==
  ASSUME NEW n \in Nat \ {0}, NEW q \in Nat, NEW o \in 0 .. n - 1, NEW b \in 0 .. StripSize - 1
  PROVE  LET off == q * (n * StripSize) + o * StripSize + b
         IN  /\ off \in Nat
             /\ StripeOf(off, n) = q /\ ObjectOf(off, n) = o /\ RestOf(off) = b
             /\ off \div (n * StripSize) = q
<1> DEFINE off == q * (n * StripSize) + o * StripSize + b
           s == q * n + o
           r == o * StripSize + b
<1>1. s \in Nat /\ off = s * StripSize + b /\ off \in Nat
  BY StripSizePositive
<1>2. off \div StripSize = s /\ off % StripSize = b
  <2> HIDE DEF s, off
  <2> QED BY <1>1, StripSizePositive, DivModUnique
<1>3. s \div n = q /\ s % n = o
  BY DivModUnique
<1>4. n * StripSize \in Nat \ {0}
  BY StripSizePositive
<1>5. r \in 0 .. n * StripSize - 1
  <2>1. o * StripSize <= (n - 1) * StripSize /\ o * StripSize \in Nat
    BY StripSizePositive, MulMonotone
  <2>2. (n - 1) * StripSize = n * StripSize - StripSize
    BY StripSizePositive
  <2> QED BY <1>4, <2>1, <2>2, StripSizePositive
<1>6. off = q * (n * StripSize) + r
  BY StripSizePositive
<1>7. off \div (n * StripSize) = q
  <2> HIDE DEF off, r
  <2> QED BY <1>4, <1>5, <1>6, DivModUnique
<1> QED BY <1>1, <1>2, <1>3, <1>7 DEF StripeOf, ObjectOf, RestOf

\* The next offset of object i is off itself, or the start of the object's
\* strip in the same stripe, or in the next.
LEMMA NextMappedCases ==
  ASSUME NEW n \in Nat \ {0}, NEW i \in 0 .. n - 1, NEW off \in Nat
  PROVE  NextMappedLogicalOffset(i, n, off) =
           IF ObjectOf(off, n) = i THEN off
           ELSE IF ObjectOf(off, n) < i
           THEN StripeOf(off, n) * (n * StripSize) + i * StripSize
           ELSE (StripeOf(off, n) + 1) * (n * StripSize) + i * StripSize
<1> DEFINE q == StripeOf(off, n)
           o == ObjectOf(off, n)
           b == RestOf(off)
           w == n * StripSize
           diff == (off - i * StripSize) % w
<1>1. /\ q \in Nat /\ o \in 0 .. n - 1 /\ b \in 0 .. StripSize - 1
      /\ off = q * w + o * StripSize + b
  BY Decompose
<1>2. w \in Nat \ {0} /\ StripSize \in Nat \ {0}
  BY StripSizePositive
<1>3. NextMappedLogicalOffset(i, n, off) =
        IF off < i * StripSize THEN i * StripSize
        ELSE IF diff >= StripSize THEN off + w - diff ELSE off
  BY DEF NextMappedLogicalOffset
<1>4. CASE o = i
  <2>1. off - i * StripSize = q * w + b /\ b \in 0 .. w - 1
    <3>1. StripSize <= w
      BY <1>2, MulMonotone
    <3> QED BY <1>1, <1>2, <1>4, <3>1
  <2>2. diff = b
    <3> HIDE DEF q, o, b, w
    <3> QED BY <1>1, <1>2, <2>1, DivModUnique
  <2>3. ~(off < i * StripSize)
    <3> HIDE DEF q, o, b, w
    <3>1. q * w \in Nat BY <1>1, <1>2
    <3>2. i * StripSize \in Nat BY <1>2
    <3> QED BY <1>1, <1>4, <3>1, <3>2
  <2> HIDE DEF q, o, b, w, diff
  <2> QED BY <1>1, <1>2, <1>3, <1>4, <2>2, <2>3 DEF o
<1>5. CASE o > i
  <2> DEFINE r == (o - i) * StripSize + b
  <2> HIDE DEF q, o, b, w, diff
  <2>1. StripSize <= (o - i) * StripSize
    BY <1>1, <1>2, <1>5, MulMonotone
  <2>2. (o - i) * StripSize <= (n - 1) * StripSize /\ (n - 1) * StripSize = w - StripSize
    BY <1>1, <1>2, <1>5, MulMonotone DEF w
  <2>3. r \in 0 .. w - 1 /\ r >= StripSize
    BY <1>1, <1>2, <2>1, <2>2
  <2>4. off - i * StripSize = q * w + r
    <3>1. (o - i) * StripSize = o * StripSize - i * StripSize BY <1>1, <1>2
    <3> QED BY <1>1, <1>2, <3>1
  <2> HIDE DEF r
  <2>5. diff = r
    BY <1>1, <1>2, <2>3, <2>4, DivModUnique DEF diff
  <2>6. ~(off < i * StripSize)
    <3>1. q * w \in Nat /\ i * StripSize \in Nat BY <1>1, <1>2
    <3> QED BY <1>1, <2>3, <2>4, <3>1
  <2>7. off + w - diff = (q + 1) * w + i * StripSize
    <3>1. (q + 1) * w = q * w + w /\ q * w \in Nat /\ i * StripSize \in Nat BY <1>1, <1>2
    <3> QED BY <1>1, <1>2, <2>3, <2>4, <2>5, <3>1
  <2> QED BY <1>1, <1>3, <1>5, <2>3, <2>5, <2>6, <2>7 DEF o, q, w
<1>6. CASE o < i
  <2> DEFINE r == (n + o - i) * StripSize + b
  <2> HIDE DEF q, o, b, w, diff
  <2>1. StripSize <= (n + o - i) * StripSize
    BY <1>1, <1>2, <1>6, MulMonotone
  <2>2. (n + o - i) * StripSize <= (n - 1) * StripSize /\ (n - 1) * StripSize = w - StripSize
    BY <1>1, <1>2, <1>6, MulMonotone DEF w
  <2>3. r \in 0 .. w - 1 /\ r >= StripSize
    BY <1>1, <1>2, <2>1, <2>2
  <2>4. off - i * StripSize = (q - 1) * w + r
    <3>1. (n + o - i) * StripSize = w + o * StripSize - i * StripSize BY <1>1, <1>2 DEF w
    <3>2. (q - 1) * w = q * w - w BY <1>1, <1>2
    <3>3. q * w \in Nat /\ i * StripSize \in Nat /\ o * StripSize \in Nat BY <1>1, <1>2
    <3> QED BY <1>1, <1>2, <3>1, <3>2, <3>3
  <2>5. diff = r
    <3> HIDE DEF r
    <3> QED BY <1>1, <1>2, <2>3, <2>4, DivModUnique DEF diff
  <2>6. CASE q = 0
    <3>1. o * StripSize + StripSize <= i * StripSize
      <4>1. (o + 1) * StripSize <= i * StripSize BY <1>1, <1>2, <1>6, MulMonotone
      <4> QED BY <1>1, <1>2, <4>1
    <3>2. off < i * StripSize
      BY <1>1, <1>2, <2>6, <3>1
    <3>3. q * w + i * StripSize = i * StripSize
      BY <1>2, <2>6
    <3> QED BY <1>1, <1>3, <1>6, <3>2, <3>3 DEF o, q, w
  <2>7. CASE q > 0
    <3>1. w <= q * w
      BY <1>1, <1>2, <2>7, MulMonotone
    <3>2. i * StripSize <= (n - 1) * StripSize /\ i * StripSize \in Nat /\ o * StripSize \in Nat
      BY <1>1, <1>2, MulMonotone
    <3>3. ~(off < i * StripSize)
      BY <1>1, <1>2, <2>2, <3>1, <3>2
    <3>4. off + w - diff = q * w + i * StripSize
      <4>1. (q - 1) * w = q * w - w /\ q * w \in Nat BY <1>1, <1>2
      <4> HIDE DEF r
      <4> QED BY <1>1, <1>2, <2>3, <2>4, <2>5, <3>2, <4>1
    <3> HIDE DEF r
    <3> QED BY <1>1, <1>3, <1>6, <2>3, <2>5, <3>3, <3>4 DEF o, q, w
  <2> QED BY <1>1, <2>6, <2>7
<1> QED BY <1>1, <1>4, <1>5, <1>6

-----------------------------------------------------------------------------
\* A byte belongs to one object: the walk of object i stops at it when it is
\* the object's, and at no byte of another.
THEOREM EachByteHasOneObject ==
  ASSUME NEW n \in Nat \ {0}, NEW i \in 0 .. n - 1, NEW off \in Nat
  PROVE  NextMappedLogicalOffset(i, n, off) = off <=> i = ObjectOf(off, n)
<1> DEFINE q == StripeOf(off, n)
           o == ObjectOf(off, n)
           b == RestOf(off)
           w == n * StripSize
<1>1. /\ q \in Nat /\ o \in 0 .. n - 1 /\ b \in 0 .. StripSize - 1
      /\ off = q * w + o * StripSize + b
  BY Decompose
<1>2. w \in Nat \ {0} /\ StripSize \in Nat \ {0}
  BY StripSizePositive
<1>3. NextMappedLogicalOffset(i, n, off) =
        IF o = i THEN off ELSE IF o < i THEN q * w + i * StripSize ELSE (q + 1) * w + i * StripSize
  BY NextMappedCases
<1> HIDE DEF q, o, b, w
<1>4. /\ q * w \in Nat /\ i * StripSize \in Nat /\ o * StripSize \in Nat
      /\ (q + 1) * w = q * w + w
  BY <1>1, <1>2
<1>5. CASE o < i
  <2>1. (o + 1) * StripSize <= i * StripSize /\ (o + 1) * StripSize = o * StripSize + StripSize
    BY <1>1, <1>2, <1>5, MulMonotone
  <2>2. off < q * w + i * StripSize
    BY <1>1, <1>2, <1>4, <2>1
  <2> QED BY <1>1, <1>3, <1>4, <1>5, <2>2 DEF o
<1>6. CASE o > i
  <2>1. o * StripSize <= (n - 1) * StripSize /\ (n - 1) * StripSize = w - StripSize
    BY <1>1, <1>2, MulMonotone DEF w
  <2>2. off < (q + 1) * w + i * StripSize
    BY <1>1, <1>2, <1>4, <2>1
  <2> QED BY <1>1, <1>3, <1>4, <1>6, <2>2 DEF o
<1> QED BY <1>1, <1>3, <1>5, <1>6 DEF o

\* The walk misses nothing: the next offset is the object's own, not before
\* off, and no byte from off up to it is the object's.
THEOREM NextMappedIsNext ==
  ASSUME NEW n \in Nat \ {0}, NEW i \in 0 .. n - 1, NEW off \in Nat,
         NEW next, next = NextMappedLogicalOffset(i, n, off)
  PROVE  /\ next \in Nat /\ off <= next
         /\ ObjectOf(next, n) = i
         /\ \A x \in off .. next - 1 : ObjectOf(x, n) # i
<1> DEFINE q == StripeOf(off, n)
           o == ObjectOf(off, n)
           b == RestOf(off)
           w == n * StripSize
<1>1. /\ q \in Nat /\ o \in 0 .. n - 1 /\ b \in 0 .. StripSize - 1
      /\ off = q * w + o * StripSize + b
  BY Decompose
<1>2. w \in Nat \ {0} /\ StripSize \in Nat \ {0}
  BY StripSizePositive
<1>3. next = IF o = i THEN off
             ELSE IF o < i THEN q * w + i * StripSize ELSE (q + 1) * w + i * StripSize
  BY NextMappedCases
<1>4. CASE o = i
  BY <1>1, <1>3, <1>4
<1>5. ASSUME o # i, NEW p \in Nat, next = p * w + i * StripSize,
             (o < i /\ p = q) \/ (o > i /\ p = q + 1)
      PROVE  /\ next \in Nat /\ off <= next /\ ObjectOf(next, n) = i
             /\ \A x \in off .. next - 1 : ObjectOf(x, n) # i
  <2>1. next \in Nat /\ ObjectOf(next, n) = i
    <3>1. 0 \in 0 .. StripSize - 1
      BY <1>2
    <3>2. next = p * (n * StripSize) + i * StripSize + 0
      BY <1>2, <1>5
    <3> HIDE DEF w
    <3> QED BY <3>1, <3>2, Compose
  <2> HIDE DEF q, o, b, w
  <2>2. /\ q * w \in Nat /\ p * w \in Nat /\ i * StripSize \in Nat /\ o * StripSize \in Nat
        /\ (q + 1) * w = q * w + w
    BY <1>1, <1>2
  <2>3. i * StripSize <= w - StripSize /\ o * StripSize <= w - StripSize
    <3>1. i * StripSize <= (n - 1) * StripSize /\ o * StripSize <= (n - 1) * StripSize
      BY <1>1, <1>2, MulMonotone
    <3>2. (n - 1) * StripSize = w - StripSize
      BY <1>2 DEF w
    <3> QED BY <3>1, <3>2
  <2>4. off <= next
    <3>1. CASE o < i
      <4>1. (o + 1) * StripSize <= i * StripSize /\ (o + 1) * StripSize = o * StripSize + StripSize
        BY <1>1, <1>2, <3>1, MulMonotone
      <4> QED BY <1>1, <1>2, <1>5, <2>2, <3>1, <4>1
    <3>2. CASE o > i
      BY <1>1, <1>2, <1>5, <2>2, <2>3, <3>2
    <3> QED BY <1>1, <1>5, <3>1, <3>2
  <2>5. ASSUME NEW x \in off .. next - 1, ObjectOf(x, n) = i PROVE FALSE
    <3> DEFINE s == StripeOf(x, n)
               c == RestOf(x)
    <3>0. x \in Nat /\ off \in Nat /\ off <= x /\ x < next
      BY <2>1, <2>5
    <3>1. /\ s \in Nat /\ c \in 0 .. StripSize - 1
          /\ x = s * w + i * StripSize + c
      BY <2>5, <3>0, Decompose DEF w
    <3> HIDE DEF s, c
    <3>2. s * w \in Nat /\ (s + 1) * w = s * w + w
      BY <1>2, <3>1
    <3>3. s < p
      <4> SUFFICES ASSUME p <= s PROVE FALSE
        BY <3>1
      <4>1. p * w <= s * w
        BY <1>2, <3>1, MulMonotone
      <4> QED BY <1>5, <2>2, <3>0, <3>1, <3>2, <4>1
    <3>4. (s + 1) * w <= p * w
      BY <1>2, <3>1, <3>3, MulMonotone
    <3>5. CASE o < i
      BY <1>1, <1>2, <1>5, <2>2, <2>3, <3>0, <3>1, <3>2, <3>4, <3>5
    <3>6. CASE o > i
      <4>1. (i + 1) * StripSize <= o * StripSize /\ (i + 1) * StripSize = i * StripSize + StripSize
        BY <1>1, <1>2, <3>6, MulMonotone
      <4>2. s * w <= q * w
        <5>1. s <= q BY <1>1, <1>5, <3>1, <3>3, <3>6
        <5> QED BY <1>1, <1>2, <3>1, <5>1, MulMonotone
      <4> QED BY <1>1, <1>2, <2>2, <3>0, <3>1, <3>2, <4>1, <4>2
    <3> QED BY <1>1, <1>5, <3>5, <3>6
  <2> QED BY <2>1, <2>4, <2>5
<1>6. CASE o < i
  BY <1>1, <1>3, <1>5, <1>6
<1>7. CASE o > i
  <2>1. q + 1 \in Nat
    BY <1>1
  <2> HIDE DEF q, o, b, w
  <2> QED BY <1>1, <1>3, <1>5, <1>7, <2>1
<1> QED BY <1>1, <1>4, <1>6, <1>7

-----------------------------------------------------------------------------
\* How many bytes of object i come before logical offset off.
LEMMA PhysicalCases ==
  ASSUME NEW n \in Nat \ {0}, NEW i \in 0 .. n - 1, NEW off \in Nat
  PROVE  LogicalToPhysical(i, n, off) =
           StripeOf(off, n) * StripSize
             + (IF ObjectOf(off, n) < i THEN 0
                ELSE IF ObjectOf(off, n) = i THEN RestOf(off) ELSE StripSize)
<1> DEFINE q == StripeOf(off, n)
           o == ObjectOf(off, n)
           b == RestOf(off)
           rest == off - q * n * StripSize
<1>1. /\ q \in Nat /\ o \in 0 .. n - 1 /\ b \in 0 .. StripSize - 1
      /\ off = q * (n * StripSize) + o * StripSize + b
  BY Decompose
<1>2. StripSize \in Nat \ {0}
  BY StripSizePositive
<1>3. off \div (n * StripSize) = q
  <2> HIDE DEF q, o, b
  <2> QED BY <1>1, Compose
<1>4. LogicalToPhysical(i, n, off) =
        q * StripSize + (IF rest < i * StripSize THEN 0
                         ELSE IF rest < (i + 1) * StripSize THEN rest - i * StripSize
                         ELSE StripSize)
  <2> HIDE DEF q
  <2> QED BY <1>3 DEF LogicalToPhysical
<1> HIDE DEF q, o, b
<1>5. rest = o * StripSize + b
  <2>1. q * n * StripSize = q * (n * StripSize) /\ q * (n * StripSize) \in Nat
    BY <1>1, <1>2
  <2> QED BY <1>1, <1>2, <2>1
<1> HIDE DEF rest
<1>6. o * StripSize \in Nat /\ i * StripSize \in Nat /\ (i + 1) * StripSize = i * StripSize + StripSize
  BY <1>1, <1>2
<1>7. CASE o < i
  <2>1. (o + 1) * StripSize <= i * StripSize /\ (o + 1) * StripSize = o * StripSize + StripSize
    BY <1>1, <1>2, <1>7, MulMonotone
  <2>2. rest < i * StripSize
    BY <1>1, <1>2, <1>5, <1>6, <2>1
  <2> QED BY <1>4, <1>7, <2>2 DEF q, o, b
<1>8. CASE o = i
  <2>1. ~(rest < i * StripSize) /\ rest < (i + 1) * StripSize /\ rest - i * StripSize = b
    BY <1>1, <1>2, <1>5, <1>6, <1>8
  <2>2. ~(o < i)
    BY <1>1, <1>8
  <2> QED BY <1>4, <1>8, <2>1, <2>2 DEF q, o, b
<1>9. CASE o > i
  <2>1. (i + 1) * StripSize <= o * StripSize
    BY <1>1, <1>2, <1>9, MulMonotone
  <2>2. ~(rest < i * StripSize) /\ ~(rest < (i + 1) * StripSize)
    BY <1>1, <1>2, <1>5, <1>6, <2>1
  <2>3. ~(o < i) /\ o # i
    BY <1>1, <1>9
  <2> QED BY <1>4, <2>2, <2>3 DEF q, o, b
<1> QED BY <1>1, <1>7, <1>8, <1>9

\* The place of a byte in its object tells which byte it is: no two bytes of a
\* file are kept at one place.
THEOREM PlaceTellsTheByte ==
  ASSUME NEW n \in Nat \ {0}, NEW off \in Nat
  PROVE  LET i == ObjectOf(off, n)
         IN  PhysicalToLogical(i, n, LogicalToPhysical(i, n, off)) = off
<1> DEFINE q == StripeOf(off, n)
           o == ObjectOf(off, n)
           b == RestOf(off)
           p == LogicalToPhysical(o, n, off)
<1>1. /\ q \in Nat /\ o \in 0 .. n - 1 /\ b \in 0 .. StripSize - 1
      /\ off = q * (n * StripSize) + o * StripSize + b
  BY Decompose
<1>2. StripSize \in Nat \ {0}
  BY StripSizePositive
<1>3. p = q * StripSize + b
  <2>1. ~(o < o) BY <1>1
  <2> QED BY <1>1, <2>1, PhysicalCases
<1> HIDE DEF q, o, b, p
<1>4. p \div StripSize = q /\ p % StripSize = b
  BY <1>1, <1>2, <1>3, DivModUnique
<1>5. PhysicalToLogical(o, n, p) = q * StripSize * n + StripSize * o + b
  BY <1>4 DEF PhysicalToLogical
<1>6. q * StripSize * n = q * (n * StripSize) /\ StripSize * o = o * StripSize
  BY <1>1, <1>2
<1> QED BY <1>1, <1>5, <1>6 DEF o, p

\* Every place of an object is a byte's: an object has no holes.
THEOREM EveryPlaceHasAByte ==
  ASSUME NEW n \in Nat \ {0}, NEW i \in 0 .. n - 1, NEW p \in Nat
  PROVE  LET off == PhysicalToLogical(i, n, p)
         IN  off \in Nat /\ ObjectOf(off, n) = i /\ LogicalToPhysical(i, n, off) = p
<1> DEFINE q == p \div StripSize
           b == p % StripSize
           off == PhysicalToLogical(i, n, p)
<1>1. StripSize \in Nat \ {0}
  BY StripSizePositive
<1>2. q \in Nat /\ b \in 0 .. StripSize - 1 /\ p = q * StripSize + b
  BY <1>1, DivModSum
<1>3. off = q * StripSize * n + StripSize * i + b
  BY DEF PhysicalToLogical
<1> HIDE DEF q, b, off
<1>4. q * StripSize * n = q * (n * StripSize) /\ StripSize * i = i * StripSize
  BY <1>1, <1>2
<1>5. off = q * (n * StripSize) + i * StripSize + b
  BY <1>3, <1>4
<1>6. /\ off \in Nat /\ StripeOf(off, n) = q /\ ObjectOf(off, n) = i /\ RestOf(off) = b
  BY <1>2, <1>5, Compose
<1>7. LogicalToPhysical(i, n, off) = q * StripSize + b
  <2>1. ~(i < i) OBVIOUS
  <2> QED BY <1>6, <2>1, PhysicalCases
<1> QED BY <1>2, <1>6, <1>7 DEF off

-----------------------------------------------------------------------------
(* The blocks of a region.                                                 *)

LEMMA BlockSizePositive == BlockSize \in Nat \ {0} /\ SizeMod \in Nat \ {0} /\ SizeMod % BlockSize = 0
  BY LayoutAssumption

\* The blocks from that of the region's first byte to that of its last.
LastBlock(r) == (r.offset + r.extent - 1) \div BlockSize
Held(r) == IF r.extent = 0 THEN 0 ELSE LastBlock(r) - BlocksOffset(r.offset) + 1

\* The unsigned subtraction wraps around at a multiple of the block size, so
\* that the remainder is what is missing to the next boundary.
LEMMA BytesToBoundary ==
  ASSUME NEW off \in Nat
  PROVE  ((BlocksOffset(off) * BlockSize - off) % SizeMod) % BlockSize
           = IF off % BlockSize = 0 THEN 0 ELSE BlockSize - (off % BlockSize)
<1> DEFINE B == BlockSize
           q == off \div B
           rest == off % B
           m == SizeMod \div B
<1>1. B \in Nat \ {0} /\ SizeMod \in Nat \ {0}
  BY BlockSizePositive
<1>2. off = q * B + rest /\ q \in Nat /\ rest \in 0 .. B - 1
  BY <1>1, DivModSum
<1>3. SizeMod = m * B /\ m \in Nat
  <2>1. SizeMod = m * B + (SizeMod % B) /\ m \in Nat
    BY <1>1, DivModSum
  <2>2. SizeMod % B = 0
    BY BlockSizePositive
  <2> HIDE DEF m
  <2> QED BY <1>1, <2>1, <2>2
<1>4. BlocksOffset(off) = q
  BY DEF BlocksOffset
<1> HIDE DEF q, rest, m, B
<1>5. m \in Nat \ {0} /\ B <= SizeMod
  <2>1. m # 0
    BY <1>1, <1>3
  <2>2. 1 * B <= m * B
    BY <1>1, <1>3, <2>1, MulMonotone
  <2> QED BY <1>1, <1>3, <2>1, <2>2
<1>6. q * B - off = 0 - rest
  <2>1. q * B \in Nat
    BY <1>1, <1>2
  <2> HIDE DEF B
  <2> QED BY <1>2, <2>1
<1>7. CASE rest = 0
  <2>1. (0 - rest) % SizeMod = 0
    BY <1>1, <1>7
  <2>2. 0 % B = 0
    BY <1>1
  <2> QED BY <1>4, <1>6, <1>7, <2>1, <2>2 DEF B, rest
<1>8. CASE rest # 0
  <2>1. (0 - rest) % SizeMod = SizeMod - rest
    <3>1. SizeMod - rest \in 0 .. SizeMod - 1
      BY <1>1, <1>2, <1>5, <1>8
    <3>2. PICK k \in Int : k = 0 - 1
      OBVIOUS
    <3>3. 0 - rest = k * SizeMod + (SizeMod - rest)
      BY <1>1, <1>2, <3>2
    <3>4. (k * SizeMod + (SizeMod - rest)) % SizeMod = SizeMod - rest
      BY <1>1, <3>1, DivModUnique
    <3> QED BY <3>3, <3>4
  <2>2. (SizeMod - rest) % B = B - rest
    <3>1. B - rest \in 0 .. B - 1
      BY <1>1, <1>2, <1>8
    <3>2. SizeMod - rest = (m - 1) * B + (B - rest)
      <4>1. m * B = (m - 1) * B + B
        BY <1>1, <1>5
      <4>2. (m - 1) * B \in Int
        BY <1>1, <1>5
      <4> QED BY <1>1, <1>2, <1>3, <4>1, <4>2
    <3>3. m - 1 \in Int
      BY <1>5
    <3> QED BY <1>1, <3>1, <3>2, <3>3, DivModUnique
  <2> QED BY <1>4, <1>6, <1>8, <2>1, <2>2 DEF B, rest
<1> QED BY <1>7, <1>8

\* The blocks a region is turned into are those from its first byte's to its
\* last byte's, or one more.
LEMMA NumBlocksHold ==
  ASSUME NEW r \in [offset : Nat, extent : Nat]
  PROVE  /\ Held(r) \in Nat
         /\ r.extent = 0 => NumBlocks(r) = 0
         /\ NumBlocks(r) \in {Held(r), Held(r) + 1}
<1> DEFINE B == BlockSize
           off == r.offset
           ext == r.extent
           first == off \div B
           rest == off % B
           q == ext \div B
           t == ext % B
           p == FirstBlockPortion(r)
           last == (off + ext - 1) \div B
           tail == IF (ext - p) % B # 0 THEN 1 ELSE 0
<1>1. B \in Nat \ {0} /\ off \in Nat /\ ext \in Nat
  BY BlockSizePositive
<1>2. off = first * B + rest /\ first \in Nat /\ rest \in 0 .. B - 1
  BY <1>1, DivModSum
<1>3. ext = q * B + t /\ q \in Nat /\ t \in 0 .. B - 1
  BY <1>1, DivModSum
<1>4. p = IF rest = 0 THEN 0 ELSE IF ext < B - rest THEN ext ELSE B - rest
  BY <1>1, <1>2, BytesToBoundary DEF FirstBlockPortion
<1>5. NumBlocks(r) = q + (IF p # 0 THEN 1 ELSE 0) + tail
  BY DEF NumBlocks
<1>6. Held(r) = IF ext = 0 THEN 0 ELSE last - first + 1
  BY DEF Held, LastBlock, BlocksOffset
<1> HIDE DEF B, off, ext, first, rest, q, t, p, last
<1>7. CASE ext = 0
  <2>1. p = 0 /\ q = 0
    <3>1. q * B = 0
      BY <1>1, <1>3, <1>7
    <3>2. q >= 1 => 1 * B <= q * B
      BY <1>1, <1>3, MulMonotone
    <3> QED BY <1>1, <1>2, <1>3, <1>4, <1>7, <3>1, <3>2
  <2>2. (0 - 0) % B = 0
    BY <1>1
  <2>3. tail = 0
    BY <1>7, <2>1, <2>2
  <2> QED BY <1>5, <1>6, <1>7, <2>1, <2>3 DEF ext
<1>8. CASE ext # 0 /\ rest = 0
  <2>1. p = 0 /\ (ext - p) % B = t
    BY <1>1, <1>4, <1>8 DEF t
  <2>2. CASE t = 0
    <3>1. q # 0
      BY <1>1, <1>3, <1>8, <2>2
    <3>2. off + ext - 1 = (first + q - 1) * B + (B - 1)
      <4>1. (first + q - 1) * B = first * B + q * B - B
        BY <1>1, <1>2, <1>3
      <4>2. first * B \in Nat /\ q * B \in Nat
        BY <1>1, <1>2, <1>3
      <4> QED BY <1>1, <1>2, <1>3, <1>8, <2>2, <4>1, <4>2
    <3>3. last = first + q - 1
      <4>1. first + q - 1 \in Int /\ B - 1 \in 0 .. B - 1
        BY <1>1, <1>2, <1>3
      <4>2. ((first + q - 1) * B + (B - 1)) \div B = first + q - 1
        BY <1>1, <4>1, DivModUnique
      <4> QED BY <3>2, <4>2 DEF last
    <3> QED BY <1>2, <1>3, <1>5, <1>6, <1>8, <2>1, <2>2, <3>1, <3>3 DEF ext
  <2>3. CASE t # 0
    <3>1. off + ext - 1 = (first + q) * B + (t - 1)
      <4>1. (first + q) * B = first * B + q * B
        BY <1>1, <1>2, <1>3
      <4>2. first * B \in Nat /\ q * B \in Nat
        BY <1>1, <1>2, <1>3
      <4> QED BY <1>1, <1>2, <1>3, <1>8, <4>1, <4>2
    <3>2. last = first + q
      <4>1. first + q \in Int /\ t - 1 \in 0 .. B - 1
        BY <1>1, <1>2, <1>3, <2>3
      <4>2. ((first + q) * B + (t - 1)) \div B = first + q
        BY <1>1, <4>1, DivModUnique
      <4> QED BY <3>1, <4>2 DEF last
    <3> QED BY <1>2, <1>3, <1>5, <1>6, <1>8, <2>1, <2>3, <3>2 DEF ext
  <2> QED BY <2>2, <2>3
<1>9. CASE ext # 0 /\ rest # 0 /\ ext < B - rest
  <2>1. p = ext
    BY <1>4, <1>9
  <2>2. q = 0
    <3>1. q >= 1 => 1 * B <= q * B
      BY <1>1, <1>3, MulMonotone
    <3>2. q * B \in Nat
      BY <1>1, <1>3
    <3> QED BY <1>1, <1>2, <1>3, <1>9, <3>1, <3>2
  <2>3. tail = 0
    <3>1. (ext - ext) % B = 0
      BY <1>1
    <3> QED BY <2>1, <3>1
  <2>4. last = first
    <3>1. rest + ext - 1 \in 0 .. B - 1 /\ first \in Int
      BY <1>1, <1>2, <1>9
    <3>2. (first * B + (rest + ext - 1)) \div B = first
      BY <1>1, <3>1, DivModUnique
    <3>3. off + ext - 1 = first * B + (rest + ext - 1)
      <4>1. first * B \in Nat
        BY <1>1, <1>2
      <4> QED BY <1>1, <1>2, <4>1
    <3> QED BY <3>2, <3>3 DEF last
  <2> QED BY <1>1, <1>2, <1>5, <1>6, <1>9, <2>1, <2>2, <2>3, <2>4 DEF ext
<1>10. CASE ext # 0 /\ rest # 0 /\ ext >= B - rest
  <2> DEFINE u == ext - (B - rest)
             v == u \div B
             w == u % B
  <2>1. p = B - rest /\ p # 0
    BY <1>1, <1>2, <1>4, <1>10
  <2>2. u \in Nat
    BY <1>1, <1>2, <1>10
  <2>3. u = v * B + w /\ v \in Nat /\ w \in 0 .. B - 1
    BY <1>1, <2>2, DivModSum
  <2>4. tail = IF w # 0 THEN 1 ELSE 0
    BY <2>1
  <2> HIDE DEF v, w
  <2>5. ext = u + (B - rest)
    BY <1>1, <1>2
  <2> HIDE DEF u, tail
  <2>6. q \in {v, v + 1}
    <3>1. q * B + t = v * B + (w + (B - rest)) /\ q * B \in Nat /\ v * B \in Nat
      BY <1>1, <1>2, <1>3, <2>3, <2>5
    <3>2. v >= q + 1 => (q + 1) * B <= v * B
      BY <1>1, <1>3, <2>3, MulMonotone
    <3>3. q >= v + 2 => (v + 2) * B <= q * B
      BY <1>1, <1>3, <2>3, MulMonotone
    <3>4. (q + 1) * B = q * B + B /\ (v + 2) * B = v * B + B + B
      BY <1>1, <1>3, <2>3
    <3>5. ~(v >= q + 1)
      BY <1>1, <1>2, <1>3, <1>10, <2>3, <3>1, <3>2, <3>4
    <3>6. ~(q >= v + 2)
      BY <1>1, <1>2, <1>3, <1>10, <2>3, <3>1, <3>3, <3>4
    <3> QED BY <1>3, <2>3, <3>5, <3>6
  <2>7. last = IF w = 0 THEN first + v ELSE first + v + 1
    <3>0. first * B \in Nat /\ v * B \in Nat
      BY <1>1, <1>2, <2>3
    <3>1. CASE w = 0
      <4>1. (first + v) * B = first * B + v * B
        BY <1>1, <1>2, <2>3
      <4>2. off + ext - 1 = (first + v) * B + (B - 1)
        BY <1>1, <1>2, <2>3, <2>5, <3>0, <3>1, <4>1
      <4>3. ((first + v) * B + (B - 1)) \div B = first + v
        <5>1. first + v \in Int /\ B - 1 \in 0 .. B - 1
          BY <1>1, <1>2, <2>3
        <5> QED BY <1>1, <5>1, DivModUnique
      <4> QED BY <3>1, <4>2, <4>3 DEF last
    <3>2. CASE w # 0
      <4>1. (first + v + 1) * B = first * B + v * B + B
        BY <1>1, <1>2, <2>3
      <4>2. off + ext - 1 = (first + v + 1) * B + (w - 1)
        BY <1>1, <1>2, <2>3, <2>5, <3>0, <4>1
      <4>3. ((first + v + 1) * B + (w - 1)) \div B = first + v + 1
        <5>1. first + v + 1 \in Int /\ w - 1 \in 0 .. B - 1
          BY <1>1, <1>2, <2>3, <3>2
        <5> QED BY <1>1, <5>1, DivModUnique
      <4> QED BY <3>2, <4>2, <4>3 DEF last
    <3> QED BY <3>1, <3>2
  <2> QED BY <1>2, <1>3, <1>5, <1>6, <1>10, <2>1, <2>3, <2>4, <2>6, <2>7 DEF ext
<1> QED BY <1>1, <1>2, <1>7, <1>8, <1>9, <1>10

\* So the block of each byte is among them.
LEMMA BytesInBlocks ==
  ASSUME NEW first \in Nat, NEW r \in [offset : Nat, extent : Nat],
         NEW b \in r.offset .. (r.offset + r.extent - 1)
  PROVE  \E i \in 1 .. NumBlocks(r) : RegionBlocks(first, r)[i] = first + (b \div BlockSize)
<1> DEFINE B == BlockSize
           lo == BlocksOffset(r.offset)
           hi == LastBlock(r)
           at == b \div B
<1>1. B \in Nat \ {0} /\ r.offset \in Nat /\ r.extent \in Nat
  BY BlockSizePositive
<1>2. b \in Nat /\ r.extent # 0 /\ r.offset <= b /\ b <= r.offset + r.extent - 1
  BY <1>1
<1>3. NumBlocks(r) \in Nat /\ NumBlocks(r) >= hi - lo + 1
  BY <1>2, NumBlocksHold DEF Held
<1>4. lo \in Nat /\ hi \in Nat /\ at \in Nat
  <2>1. r.offset + r.extent - 1 \in Nat
    BY <1>1, <1>2
  <2> QED BY <1>1, <1>2, <2>1, DivModSum DEF BlocksOffset, LastBlock
<1>5. lo <= at /\ at <= hi
  <2>1. \A x \in Nat, y \in Nat : x <= y => x \div B <= y \div B
    <3> SUFFICES ASSUME NEW x \in Nat, NEW y \in Nat, x <= y, ~(x \div B <= y \div B) PROVE FALSE
      OBVIOUS
    <3>1. PICK q \in Nat, s \in 0 .. B - 1 : x = q * B + s /\ x \div B = q
      BY <1>1, DivModSum
    <3>2. PICK q2 \in Nat, s2 \in 0 .. B - 1 : y = q2 * B + s2 /\ y \div B = q2
      BY <1>1, DivModSum
    <3>3. (q2 + 1) * B <= q * B /\ (q2 + 1) * B = q2 * B + B
      BY <1>1, <3>1, <3>2, MulMonotone
    <3>4. q * B \in Nat /\ q2 * B \in Nat
      BY <1>1, <3>1, <3>2
    <3> HIDE DEF B
    <3> QED BY <1>1, <3>1, <3>2, <3>3, <3>4
  <2>2. r.offset + r.extent - 1 \in Nat
    BY <1>1, <1>2
  <2> QED BY <1>1, <1>2, <2>1, <2>2 DEF BlocksOffset, LastBlock
<1>6. at - lo + 1 \in 1 .. NumBlocks(r)
  <2> HIDE DEF lo, hi, at
  <2> QED BY <1>3, <1>4, <1>5
<1>7. RegionBlocks(first, r)[at - lo + 1] = first + lo + (at - lo + 1) - 1
  BY <1>6 DEF RegionBlocks
<1>8. first + lo + (at - lo + 1) - 1 = first + at
  <2> HIDE DEF lo, at
  <2> QED BY <1>4
<1> QED BY <1>6, <1>7, <1>8

-----------------------------------------------------------------------------
(* Sequences joined to one.                                                *)

LEMMA LeastNat ==
  ASSUME NEW T \in SUBSET Nat, T # {}
  PROVE  \E x \in T : \A y \in T : x <= y
<1>1. IsWellFoundedOn(OpToRel(<, Nat), Nat)
  BY NatLessThanWellFounded
<1>2. PICK x \in T : \A y \in T : ~(<<y, x>> \in OpToRel(<, Nat))
  BY <1>1, WFMin
<1>3. ASSUME NEW y \in T, ~(x <= y) PROVE FALSE
  <2>1. <<y, x>> \in Nat \X Nat /\ y < x
    BY <1>3
  <2>2. <<y, x>> \in {ss \in Nat \X Nat : ss[1] < ss[2]}
    BY <2>1
  <2>3. <<y, x>> \in OpToRel(<, Nat)
    BY <2>2 DEF OpToRel
  <2> QED BY <1>2, <2>3
<1> QED BY <1>3

Lists(n, E) == [1..n -> Seq(E)]
Joined(g, n, E, q) == /\ g \in Lists(n, E) /\ FlattenSeq(q) = g[n] /\ g[1] = q[1]
                      /\ \A i \in 2..n : g[i] = g[i - 1] \o q[i]

LEMMA FlattenIs ==
  ASSUME NEW n \in Nat \ {0}, NEW E, NEW q, q \in Lists(n, E)
  PROVE  \E g : Joined(g, n, E, q)
<1> DEFINE Upto(g, k) == /\ g \in [1..k -> Seq(E)] /\ g[1] = q[1]
                         /\ \A i \in 2..k : g[i] = g[i - 1] \o q[i]
           Bad == {k \in 1..n : ~\E g : Upto(g, k)}
           Rec(f) == f = [i \in 1..n |-> IF i = 1 THEN q[i] ELSE f[i - 1] \o q[i]]
<1>1. q \in [1..n -> Seq(E)] /\ \A i \in 1..n : q[i] \in Seq(E)
  BY DEF Lists
<1>2. ASSUME NEW k \in Bad, \A j \in Bad : k <= j PROVE FALSE
  <2>1. k # 1
    <3>1. Upto([i \in 1..1 |-> q[1]], 1)
      BY <1>1
    <3>2. \E g : Upto(g, 1)
      <4> HIDE DEF Upto
      <4> QED BY <3>1
    <3> QED BY <3>2
  <2>2. k \in 1..n /\ k \in Nat
    BY <1>2
  <2>3. k - 1 \in 1..n /\ ~(k <= k - 1) /\ k \in 2..n
    BY <2>1, <2>2
  <2>4. k - 1 \notin Bad
    <3> HIDE DEF Bad
    <3> QED BY <1>2, <2>3
  <2>5. PICK g : Upto(g, k - 1)
    BY <2>3, <2>4
  <2> DEFINE f == [i \in 1..k |-> IF i = k THEN g[k - 1] \o q[k] ELSE g[i]]
  <2>6. f \in [1..k -> Seq(E)] /\ f[1] = q[1]
    <3>1. k - 1 \in 1..k - 1 /\ g[k - 1] \in Seq(E) /\ q[k] \in Seq(E)
      BY <1>1, <2>2, <2>3, <2>5
    <3>2. g[k - 1] \o q[k] \in Seq(E)
      BY <3>1, ConcatProperties
    <3>3. \A i \in 1..k : i # k => g[i] \in Seq(E)
      BY <2>3, <2>5
    <3>4. f[1] = q[1]
      BY <2>3, <2>5
    <3> QED BY <3>2, <3>3, <3>4
  <2>7. ASSUME NEW i \in 2..k PROVE f[i] = f[i - 1] \o q[i]
    <3>1. i \in 1..k /\ i - 1 \in 1..k /\ i - 1 # k
      BY <2>2
    <3>2. f[i - 1] = g[i - 1] /\ f[i] = IF i = k THEN g[k - 1] \o q[k] ELSE g[i]
      BY <3>1
    <3>3. CASE i = k
      BY ONLY <3>2, <3>3
    <3>4. CASE i # k
      <4>1. i \in 2..k - 1
        BY <2>2, <3>4
      <4>2. g[i] = g[i - 1] \o q[i]
        BY ONLY <2>5, <4>1
      <4> QED BY ONLY <3>2, <3>4, <4>2
    <3> QED BY <3>3, <3>4
  <2>8. Upto(f, k)
    BY <2>6, <2>7
  <2>9. \E g1 : Upto(g1, k)
    <3> HIDE DEF f, Upto
    <3> QED BY <2>8
  <2> QED BY <1>2, <2>9
<1>3. Bad \in SUBSET Nat
  <2>1. 1..n \in SUBSET Nat
    OBVIOUS
  <2> HIDE DEF Upto
  <2> QED BY ONLY <2>1
<1>4. (~\E g : Upto(g, n)) => n \in Bad
  <2>1. n \in 1..n
    OBVIOUS
  <2> HIDE DEF Upto
  <2> QED BY ONLY <2>1
<1>5. PICK g : Upto(g, n)
  <2> HIDE DEF Bad, Upto
  <2> QED BY <1>2, <1>3, <1>4, LeastNat
<1>6. Rec(g)
  <2>1. g = [i \in 1..n |-> g[i]]
    BY <1>5
  <2>2. ASSUME NEW i \in 1..n PROVE g[i] = IF i = 1 THEN q[i] ELSE g[i - 1] \o q[i]
    <3>1. i = 1 \/ i \in 2..n
      OBVIOUS
    <3> QED BY ONLY <1>5, <3>1
  <2> QED BY <2>1, <2>2
<1> DEFINE f == CHOOSE h : Rec(h)
<1>7. Rec(f)
  <2> HIDE DEF Rec
  <2> QED BY <1>6
<1>8. FlattenSeq(q) = f[n]
  <2>1. Len(q) = n /\ n # 0
    BY <1>1
  <2> QED BY <2>1 DEF FlattenSeq
<1> HIDE DEF f
<1>9. \A i \in 1..n : f[i] = IF i = 1 THEN q[i] ELSE f[i - 1] \o q[i]
  BY <1>7
<1> DEFINE Wrong == {k \in 1..n : f[k] # g[k]}
<1>10. ASSUME NEW k \in Wrong, \A j \in Wrong : k <= j PROVE FALSE
  <2>1. k \in 1..n /\ f[k] # g[k]
    BY <1>10
  <2>2. k # 1
    BY <1>5, <1>9, <2>1
  <2>3. k \in 2..n /\ k - 1 \in 1..n /\ ~(k <= k - 1)
    BY <2>1, <2>2
  <2>4. f[k - 1] = g[k - 1]
    BY <1>10, <2>3
  <2>5. f[k] = f[k - 1] \o q[k]
    BY <1>9, <2>1, <2>2
  <2>6. g[k] = g[k - 1] \o q[k]
    BY <1>5, <2>3
  <2> QED BY ONLY <2>1, <2>4, <2>5, <2>6
<1>11. Wrong \in SUBSET Nat /\ (f[n] # g[n] => n \in Wrong)
  OBVIOUS
<1>12. f[n] = g[n]
  <2> HIDE DEF Wrong
  <2> QED BY <1>10, <1>11, LeastNat
<1>13. g \in Lists(n, E)
  BY <1>5 DEF Lists
<1>14. g[1] = q[1] /\ \A i \in 2..n : g[i] = g[i - 1] \o q[i]
  BY ONLY <1>5
<1> QED BY ONLY <1>8, <1>12, <1>13, <1>14 DEF Joined

\* What is in the joined sequence is what is in one of the parts.
HoldsAll(s, n, E, q) ==
  /\ s \in Seq(E)
  /\ \A x : (\E j \in 1..Len(s) : s[j] = x)
              <=> \E i \in 1..n : \E j \in 1..Len(q[i]) : q[i][j] = x

LEMMA FlattenedSet ==
  ASSUME NEW n \in Nat \ {0}, NEW E, NEW q, q \in Lists(n, E)
  PROVE  HoldsAll(FlattenSeq(q), n, E, q)
<1> DEFINE In(s, x) == \E j \in 1..Len(s) : s[j] = x
<1>1. PICK g : Joined(g, n, E, q)
  BY FlattenIs
<1>2. /\ g \in [1..n -> Seq(E)] /\ q \in [1..n -> Seq(E)]
      /\ FlattenSeq(q) = g[n] /\ g[1] = q[1]
      /\ \A i \in 2..n : g[i] = g[i - 1] \o q[i]
  BY ONLY <1>1, q \in Lists(n, E) DEF Joined, Lists
<1>3. ASSUME NEW s \in Seq(E), NEW t \in Seq(E), NEW x
      PROVE  In(s \o t, x) <=> In(s, x) \/ In(t, x)
  <2>1. /\ Len(s) \in Nat /\ Len(t) \in Nat /\ Len(s \o t) = Len(s) + Len(t)
        /\ \A i \in 1..Len(s) + Len(t) :
             (s \o t)[i] = IF i <= Len(s) THEN s[i] ELSE t[i - Len(s)]
    BY ConcatProperties, LenProperties
  <2>2. ASSUME NEW j \in 1..Len(s \o t), (s \o t)[j] = x PROVE In(s, x) \/ In(t, x)
    <3>1. CASE j <= Len(s)
      <4>1. j \in 1..Len(s) /\ s[j] = x
        BY <2>1, <2>2, <3>1
      <4> QED BY <4>1
    <3>2. CASE ~(j <= Len(s))
      <4>1. j - Len(s) \in 1..Len(t) /\ t[j - Len(s)] = x
        BY <2>1, <2>2, <3>2
      <4> QED BY <4>1
    <3> QED BY <3>1, <3>2
  <2>3. ASSUME NEW j \in 1..Len(s), s[j] = x PROVE In(s \o t, x)
    <3>1. j \in 1..Len(s \o t) /\ (s \o t)[j] = x
      BY <2>1, <2>3
    <3> QED BY <3>1
  <2>4. ASSUME NEW j \in 1..Len(t), t[j] = x PROVE In(s \o t, x)
    <3>1. /\ Len(s) + j \in 1..Len(s \o t) /\ ~(Len(s) + j <= Len(s))
          /\ Len(s) + j - Len(s) = j
      BY <2>1
    <3>2. (s \o t)[Len(s) + j] = x
      BY <2>1, <2>4, <3>1
    <3> QED BY <3>1, <3>2
  <2> QED BY <2>2, <2>3, <2>4
<1> DEFINE Exact(k) == \A x : In(g[k], x) <=> \E i \in 1..k : In(q[i], x)
           Wrong == {k \in 1..n : ~Exact(k)}
<1>4. ASSUME NEW k \in Wrong, \A j \in Wrong : k <= j PROVE FALSE
  <2>1. k \in 1..n
    OBVIOUS
  <2>2. CASE k = 1
    <3>1. \A x : In(g[1], x) <=> \E i \in 1..1 : In(q[i], x)
      <4> HIDE DEF In
      <4> QED BY <1>2
    <3>2. Exact(1)
      BY <3>1
    <3> QED BY <2>2, <3>2
  <2>3. CASE k # 1
    <3>1. k \in 2..n /\ k - 1 \in 1..n /\ ~(k <= k - 1) /\ 1..k = (1..k - 1) \cup {k}
      BY <2>1, <2>3
    <3>2. Exact(k - 1)
      <4> HIDE DEF Exact
      <4> QED BY <1>4, <3>1
    <3>3. g[k] = g[k - 1] \o q[k] /\ g[k - 1] \in Seq(E) /\ q[k] \in Seq(E)
      BY <1>2, <2>1, <3>1
    <3>4. \A x : In(g[k], x) <=> In(g[k - 1], x) \/ In(q[k], x)
      <4> HIDE DEF In
      <4> QED BY <1>3, <3>3
    <3>5. Exact(k)
      <4> HIDE DEF In
      <4> QED BY <3>1, <3>2, <3>4
    <3> QED BY <3>5
  <2> QED BY <2>2, <2>3
<1>5. Exact(n)
  <2>1. Wrong \in SUBSET Nat /\ n \in 1..n
    OBVIOUS
  <2> HIDE DEF Exact
  <2>2. ~Exact(n) => n \in Wrong
    BY <2>1
  <2> HIDE DEF Wrong
  <2> QED BY <1>4, <2>1, <2>2, LeastNat
<1>6. n \in 1..n
  OBVIOUS
<1> QED BY <1>2, <1>5, <1>6 DEF HoldsAll

-----------------------------------------------------------------------------
(* The device requests of the file system.                                 *)

LEMMA RegionBlocksAre ==
  ASSUME NEW first \in Nat, NEW r \in [offset : Nat, extent : Nat]
  PROVE  RegionBlocks(first, r) \in Seq(Nat) /\ Len(RegionBlocks(first, r)) = NumBlocks(r)
<1>1. NumBlocks(r) \in Nat
  BY NumBlocksHold
<1>2. BlocksOffset(r.offset) \in Nat
  BY BlockSizePositive, DivModSum DEF BlocksOffset
<1>3. \A i \in 1..NumBlocks(r) : first + BlocksOffset(r.offset) + i - 1 \in Nat
  BY <1>2
<1> QED BY <1>1, <1>3 DEF RegionBlocks

\* Every byte of a request's regions is in one of its blocks, and a request
\* without bytes has no blocks.
LEMMA DataBlocksAre ==
  ASSUME NEW f \in Requests, IsIO(f)
  PROVE  /\ DataBlocks(f) \in Seq(Nat)
         /\ \A b \in RegionBytes(f) : b \in Nat /\
              \E i \in 1..Len(DataBlocks(f)) : DataBlocks(f)[i] = FirstBlock + b \div BlockSize
         /\ RegionBytes(f) = {} => Len(DataBlocks(f)) = 0
<1> DEFINE R == [offset : Nat, extent : Nat]
           n == Len(FileRegions[f])
           regions == [i \in 1..2 * n |-> IF i <= n THEN [offset |-> 0, extent |-> 0]
                                                    ELSE FileRegions[f][i - n]]
           q == [i \in 1..2 * n |-> RegionBlocks(FirstBlock, regions[i])]
<1>1. FileRegions[f] \in Seq(R) /\ FirstBlock \in Nat
  BY FileSystemAssumption
<1>2. n \in Nat /\ 2 * n \in Nat /\ \A i \in 1..n : FileRegions[f][i] \in R
  <2> HIDE DEF R
  <2>1. n \in Nat
    BY <1>1
  <2>2. \A i \in 1..n : FileRegions[f][i] \in R
    BY <1>1
  <2> QED BY <2>1, <2>2
<1>3. DataBlocks(f) = FlattenSeq(q)
  BY DEF DataBlocks
<1> HIDE DEF n
<1>4. ASSUME NEW i \in 1..2 * n PROVE regions[i] \in R
  <2>1. CASE i <= n
    BY <2>1
  <2>2. CASE ~(i <= n)
    <3>1. i - n \in 1..n
      BY <1>2, <2>2
    <3> QED BY <1>2, <2>2, <3>1
  <2> QED BY <2>1, <2>2
<1>5. ASSUME NEW i \in 1..2 * n
      PROVE q[i] \in Seq(Nat) /\ q[i] = RegionBlocks(FirstBlock, regions[i]) /\ Len(q[i]) = NumBlocks(regions[i])
  <2>1. q[i] = RegionBlocks(FirstBlock, regions[i])
    OBVIOUS
  <2> HIDE DEF regions
  <2> QED BY <1>1, <1>4, <2>1, RegionBlocksAre
<1>6. q \in Lists(2 * n, Nat)
  BY <1>5 DEF Lists
<1>7. ASSUME NEW b \in RegionBytes(f)
      PROVE \E i \in 1..n : FileRegions[f][i] \in R /\
              b \in FileRegions[f][i].offset .. (FileRegions[f][i].offset + FileRegions[f][i].extent - 1)
  BY <1>2 DEF RegionBytes, n
<1>8. CASE n = 0
  <2>1. RegionBytes(f) = {}
    BY <1>7, <1>8
  <2>2. q = <<>>
    BY <1>8
  <2>3. FlattenSeq(<<>>) = <<>>
    BY DEF FlattenSeq
  <2>4. <<>> \in Seq(Nat) /\ Len(<<>>) = 0
    OBVIOUS
  <2>5. DataBlocks(f) = <<>>
    BY ONLY <1>3, <2>2, <2>3
  <2> QED BY ONLY <2>1, <2>4, <2>5
<1>9. CASE n # 0
  <2>1. 2 * n \in Nat \ {0}
    BY <1>2, <1>9
  <2> DEFINE s == FlattenSeq(q)
  <2>2. /\ s \in Seq(Nat)
        /\ \A x : (\E j \in 1..Len(s) : s[j] = x)
                     <=> \E i \in 1..2 * n : \E j \in 1..Len(q[i]) : q[i][j] = x
    <3> HIDE DEF q
    <3> DEFINE m == 2 * n
    <3>1. m \in Nat \ {0} /\ q \in Lists(m, Nat)
      BY <1>6, <2>1
    <3> HIDE DEF m
    <3>2. HoldsAll(FlattenSeq(q), m, Nat, q)
      BY ONLY <3>1, FlattenedSet
    <3>3. HoldsAll(s, m, Nat, q)
      BY ONLY <3>2
    <3> HIDE DEF s
    <3> QED BY ONLY <3>3 DEF HoldsAll, m
  <2>3. ASSUME NEW b \in RegionBytes(f)
        PROVE  b \in Nat /\ \E i \in 1..Len(s) : s[i] = FirstBlock + b \div BlockSize
    <3>1. PICK k \in 1..n : FileRegions[f][k] \in R /\
              b \in FileRegions[f][k].offset .. (FileRegions[f][k].offset + FileRegions[f][k].extent - 1)
      BY <1>7
    <3>2. n + k \in 1..2 * n /\ ~(n + k <= n) /\ n + k - n = k
      BY <1>2
    <3>3. regions[n + k] = FileRegions[f][k]
      BY <1>2, <3>2
    <3> DEFINE r == regions[n + k]
    <3>4. r \in R /\ b \in r.offset .. (r.offset + r.extent - 1)
      BY <3>1, <3>3
    <3> HIDE DEF regions, q, r, s
    <3>5. PICK i \in 1 .. NumBlocks(r) : RegionBlocks(FirstBlock, r)[i] = FirstBlock + (b \div BlockSize)
      BY <1>1, <3>4, BytesInBlocks
    <3>6. q[n + k] = RegionBlocks(FirstBlock, r) /\ Len(q[n + k]) = NumBlocks(r)
      BY <1>5, <3>2 DEF r
    <3>7. \E j \in 1..Len(s) : s[j] = FirstBlock + (b \div BlockSize)
      BY <2>2, <3>2, <3>5, <3>6
    <3> QED BY <3>1, <3>7
  <2>4. ASSUME RegionBytes(f) = {} PROVE Len(s) = 0
    <3>1. ASSUME NEW i \in 1..2 * n PROVE Len(q[i]) = 0
      <4>1. regions[i].extent = 0
        <5>1. CASE i <= n
          BY <5>1
        <5>2. CASE ~(i <= n)
          <6>1. i - n \in 1..n /\ regions[i] = FileRegions[f][i - n]
            BY <1>2, <5>2
          <6> DEFINE r == FileRegions[f][i - n]
          <6>2. r \in R /\ r.offset .. (r.offset + r.extent - 1) = {}
            BY <1>2, <2>4, <6>1 DEF RegionBytes, n
          <6>3. r.extent = 0
            <7>1. r.offset \in Nat /\ r.extent \in Nat
              BY <6>2
            <7>2. r.offset \notin r.offset .. (r.offset + r.extent - 1)
              BY <6>2
            <7> HIDE DEF r
            <7> QED BY <7>1, <7>2
          <6> QED BY <6>1, <6>3
        <5> QED BY <5>1, <5>2
      <4> HIDE DEF regions, q
      <4> QED BY <1>4, <1>5, <4>1, NumBlocksHold
    <3>2. ~\E i \in 1..2 * n : \E j \in 1..Len(q[i]) : q[i][j] = s[1]
      <4> HIDE DEF q, s
      <4> QED BY <3>1
    <3>3. Len(s) \in Nat /\ 1 \notin 1..Len(s)
      <4> HIDE DEF q, s
      <4>1. ~\E j \in 1..Len(s) : s[j] = s[1]
        BY ONLY <2>2, <3>2
      <4>2. Len(s) \in Nat
        BY <2>2
      <4> QED BY <4>1, <4>2
    <3> HIDE DEF s
    <3> QED BY <3>3
  <2> HIDE DEF q
  <2> QED BY <1>3, <2>2, <2>3, <2>4
<1> QED BY <1>8, <1>9

LEMMA FiniteProduct ==
  ASSUME NEW m \in Nat, NEW n \in Nat
  PROVE  IsFiniteSet((1..m) \X (1..n))
<1>1. IsFiniteSet(1..m) /\ IsFiniteSet(1..n)
  BY FS_Interval
<1> QED BY ONLY <1>1, FS_Product

LEMMA FiniteImage ==
  ASSUME NEW S, IsFiniteSet(S), NEW f
  PROVE  IsFiniteSet({f[x] : x \in S})
<1> DEFINE T == {f[x] : x \in S}
           g == [x \in S |-> f[x]]
<1>1. g \in Surjection(S, T)
  BY DEF Surjection
<1> QED BY <1>1, FS_Surjection

\* The block requests the file system makes are those of open, unlink and
\* create for metadata, and those of read and write.
Asked == {b \in BlockRequests : b[2] = "data" => IsIO(b[1])}

\* What the device is asked for a block request is told apart by its parent.
LEMMA DeviceRequestsAre ==
  ASSUME NEW b \in Asked
  PROVE  /\ IsFiniteSet(DeviceRequests[b])
         /\ \A d \in DeviceRequests[b] : d.parent = b
         /\ b[2] # "data" => DeviceRequests[b] # {}
         /\ b[2] = "data" /\ RegionBytes(b[1]) = {} => DeviceRequests[b] = {}
<1> DEFINE n == Len(BlocksOfRequest(b))
           d(i, j) == [parent |-> b, index |-> <<i, j>>, address |-> GetAddresses(BlocksOfRequest(b)[i])[j],
                       read |-> IsRead(b), through |-> WriteThrough(b)]
           D == DeviceRequests[b]
           P == (1..n) \X (1..AddrsPerBlock)
           g == [p \in P |-> d(p[1], p[2])]
<1>1. b \in BlockRequests /\ b[1] \in Requests /\ b[2] \in {"readMeta", "writeMeta", "data"}
      /\ (b[2] = "data" => IsIO(b[1]))
  BY DEF BlockRequests, Asked
<1>2. D = {d(i, j) : i \in 1..n, j \in 1..AddrsPerBlock}
  BY <1>1 DEF DeviceRequests
<1>3. AddrsPerBlock \in Nat \ {0}
  BY FileSystemAssumption
<1>4. /\ n \in Nat /\ (b[2] # "data" => n = 1)
      /\ (b[2] = "data" /\ RegionBytes(b[1]) = {} => n = 0)
  <2>1. CASE b[2] = "data"
    <3>1. BlocksOfRequest(b) = DataBlocks(b[1])
      BY <2>1 DEF BlocksOfRequest
    <3> QED BY <1>1, <2>1, <3>1, DataBlocksAre
  <2>2. CASE b[2] # "data"
    BY <2>2 DEF BlocksOfRequest
  <2> QED BY <2>1, <2>2
<1>5. D = {g[p] : p \in P}
  <2> HIDE DEF d, D, n
  <2>1. \A i \in 1..n, j \in 1..AddrsPerBlock : <<i, j>> \in P /\ g[<<i, j>>] = d(i, j)
    OBVIOUS
  <2>2. \A p \in P : p[1] \in 1..n /\ p[2] \in 1..AddrsPerBlock /\ g[p] = d(p[1], p[2])
    OBVIOUS
  <2>3. \A x : x \in D <=> \E i \in 1..n, j \in 1..AddrsPerBlock : x = d(i, j)
    BY <1>2
  <2> HIDE DEF P, g
  <2>4. ASSUME NEW x \in D PROVE x \in {g[p] : p \in P}
    <3>1. PICK i \in 1..n, j \in 1..AddrsPerBlock : x = d(i, j)
      BY <2>3
    <3>2. <<i, j>> \in P /\ x = g[<<i, j>>]
      BY <2>1, <3>1
    <3> QED BY <3>2
  <2>5. ASSUME NEW p \in P PROVE g[p] \in D
    BY <2>2, <2>3
  <2> QED BY <2>4, <2>5
<1>6. IsFiniteSet(D)
  <2> HIDE DEF d, D, n
  <2>1. IsFiniteSet(P)
    BY <1>3, <1>4, FiniteProduct
  <2> HIDE DEF P, g
  <2> QED BY <1>5, <2>1, FiniteImage
<1>7. \A e \in D : e.parent = b
  BY <1>2
<1>8. n # 0 => D # {}
  <2>1. n # 0 => d(1, 1) \in D
    <3> HIDE DEF d, D, n
    <3> QED BY <1>2, <1>3, <1>4
  <2> QED BY <2>1
<1>9. n = 0 => D = {}
  <2> HIDE DEF d, D, n
  <2> QED BY <1>2
<1> HIDE DEF n, D
<1> QED BY <1>4, <1>6, <1>7, <1>8, <1>9 DEF D

-----------------------------------------------------------------------------
(* The invariant of the file system.                                       *)

Of(f) == {<<f, "readMeta">>, <<f, "writeMeta">>, <<f, "data">>}
MetaOf(f) == <<f, IF Kind[f] \in {"create", "unlink"} THEN "writeMeta" ELSE "readMeta">>

FSTyped ==
  /\ fsState \in [Requests -> States]
  /\ translating \subseteq BlockRequests
  /\ remaining \in [BlockRequests -> Nat]
  /\ \A d \in devices : d.parent \in BlockRequests /\ d \in DeviceRequests[d.parent]
  /\ finished \subseteq BlockRequests
  /\ answered = {f \in Requests : fsState[f] = "FINISH"}

\* A block request that is nowhere: not made yet, or its response was handled.
\* In the second case the device has done all of it, and there was something.
Gone(b) == b \notin translating /\ b \notin finished /\ Outstanding(b) = {}
AllDone(b) == DeviceRequests[b] # {} /\ DeviceRequests[b] \subseteq done
Through(b) == Gone(b) /\ AllDone(b)

\* A block request is in one place; the device requests it has no more are done,
\* and it is finished when there is none left.
BlockOK(b) ==
  /\ b \in translating => b \notin finished /\ Outstanding(b) = {}
  /\ b \in finished => Outstanding(b) = {} /\ AllDone(b)
  /\ Outstanding(b) # {} => /\ remaining[b] = Cardinality(Outstanding(b))
                            /\ DeviceRequests[b] \ Outstanding(b) \subseteq done

\* Which block requests can be under way in each state of a file request.  In
\* META_COMPLETE one of the two was answered, which may be either.
RequestOK(f) ==
  /\ fsState[f] = "new" => \A b \in Of(f) : Gone(b)
  /\ fsState[f] = "WAIT_META" => ~IsIO(f) /\ \A b \in Of(f) : b # MetaOf(f) => Gone(b)
  /\ fsState[f] = "READ_META" => IsIO(f) /\ \A b \in Of(f) : b # <<f, "readMeta">> => Gone(b)
  /\ fsState[f] = "WRITE_META" => IsIO(f) /\ Gone(<<f, "readMeta">>)
  /\ fsState[f] = "META_COMPLETE" => /\ IsIO(f) /\ Gone(<<f, "readMeta">>)
                                     /\ Through(<<f, "data">>) \/ Through(<<f, "writeMeta">>)
  /\ fsState[f] = "FINISH" => /\ \A b \in Of(f) : Gone(b)
                              /\ IsIO(f) => Through(<<f, "data">>)

FSInv ==
  /\ FSTyped
  /\ \A b \in BlockRequests : BlockOK(b)
  /\ \A f \in Requests : RequestOK(f)

\* What a step leaves alone.
Same(b) ==
  /\ (b \in translating') <=> (b \in translating)
  /\ (b \in finished') <=> (b \in finished)
  /\ {d \in devices' : d.parent = b} = {d \in devices : d.parent = b}
  /\ remaining'[b] = remaining[b]
  /\ done \subseteq done'

LEMMA SameBlock ==
  ASSUME NEW b, Same(b)
  PROVE  (BlockOK(b) => BlockOK(b)') /\ (Gone(b) => Gone(b)') /\ (Through(b) => Through(b)')
<1>1. Outstanding(b)' = Outstanding(b)
  BY DEF Same, Outstanding
<1>2. AllDone(b) => AllDone(b)'
  BY DEF Same, AllDone
<1>3. Gone(b) => Gone(b)'
  BY <1>1 DEF Same, Gone
<1>4. BlockOK(b) => BlockOK(b)'
  BY <1>1, <1>2 DEF Same, BlockOK
<1> QED BY <1>2, <1>3, <1>4 DEF Through

LEMMA OfIs ==
  ASSUME NEW f \in Requests
  PROVE  /\ \A b \in Of(f) : b \in BlockRequests /\ b[1] = f
         /\ \A b \in BlockRequests : b[1] \in Requests /\ b \in Of(b[1])
  BY DEF Of, BlockRequests

\* A request is as it was if its state is and all that changes of its blocks is
\* one that is under way.
LEMMA OneMoves ==
  ASSUME NEW f \in Requests, NEW c, RequestOK(f), fsState'[f] = fsState[f], ~Gone(c),
         \A b \in Of(f) : b # c => Same(b)
  PROVE  RequestOK(f)'
<1>1. \A b \in Of(f) : (Gone(b) => Gone(b)') /\ (Through(b) => Through(b)')
  <2> SUFFICES ASSUME NEW b \in Of(f) PROVE (Gone(b) => Gone(b)') /\ (Through(b) => Through(b)')
    OBVIOUS
  <2>1. CASE b = c
    BY <2>1 DEF Through
  <2>2. CASE b # c
    BY <2>2, SameBlock
  <2> QED BY <2>1, <2>2
<1>2. <<f, "readMeta">> \in Of(f) /\ <<f, "writeMeta">> \in Of(f) /\ <<f, "data">> \in Of(f)
  BY DEF Of
<1> QED BY <1>1, <1>2 DEF RequestOK

LEMMA OthersKept ==
  ASSUME NEW f \in Requests, RequestOK(f), fsState'[f] = fsState[f], \A b \in Of(f) : Same(b)
  PROVE  RequestOK(f)'
<1>1. \A b \in Of(f) : (Gone(b) => Gone(b)') /\ (Through(b) => Through(b)')
  BY SameBlock
<1>2. <<f, "readMeta">> \in Of(f) /\ <<f, "writeMeta">> \in Of(f) /\ <<f, "data">> \in Of(f)
  BY DEF Of
<1> QED BY <1>1, <1>2 DEF RequestOK

LEMMA KindsDiffer ==
  ASSUME NEW f \in Requests
  PROVE  /\ <<f, "readMeta">> # <<f, "writeMeta">> /\ <<f, "readMeta">> # <<f, "data">>
         /\ <<f, "writeMeta">> # <<f, "data">> /\ MetaOf(f) # <<f, "data">>
         /\ MetaOf(f) \in Of(f) /\ MetaOf(f) \in BlockRequests
  BY DEF MetaOf, Of, BlockRequests

\* Only what the device is asked for is under way.
LEMMA UnderWayAsked ==
  ASSUME FSInv, NEW b \in BlockRequests, ~Gone(b)
  PROVE  b \in Asked
<1> DEFINE f == b[1]
<1>1. f \in Requests /\ b \in Of(f) /\ RequestOK(f) /\ fsState[f] \in States
  BY DEF FSInv, FSTyped, Of, BlockRequests
<1>2. ASSUME b[2] = "data", ~IsIO(f) PROVE FALSE
  <2>1. b = <<f, "data">> /\ b # MetaOf(f)
    BY <1>1, <1>2, KindsDiffer DEF BlockRequests
  <2> QED BY <1>1, <1>2, <2>1 DEF RequestOK, States
<1> QED BY <1>2 DEF Asked

LEMMA DevicesFinite ==
  ASSUME FSInv, NEW b \in BlockRequests
  PROVE  IsFiniteSet(Outstanding(b)) /\ Outstanding(b) \subseteq DeviceRequests[b]
<1>1. Outstanding(b) \subseteq DeviceRequests[b]
  BY DEF FSInv, FSTyped, Outstanding
<1>2. CASE Outstanding(b) = {}
  BY <1>2, <1>1, FS_EmptySet
<1>3. CASE Outstanding(b) # {}
  <2>1. b \in Asked
    BY <1>3, UnderWayAsked DEF Gone
  <2>2. IsFiniteSet(DeviceRequests[b])
    BY <2>1, DeviceRequestsAre
  <2> QED BY <1>1, <2>2, FS_Subset
<1> QED BY <1>2, <1>3

LEMMA FSInit == Init => FSInv
<1> SUFFICES ASSUME Init PROVE FSInv
  OBVIOUS
<1>1. \A b \in BlockRequests : Gone(b)
  BY DEF Init, Gone, Outstanding
<1>2. \A b \in BlockRequests : BlockOK(b)
  BY DEF Init, BlockOK, Outstanding
<1>3. \A f \in Requests : fsState[f] = "new" /\ RequestOK(f)
  BY <1>1, OfIs DEF Init, RequestOK
<1>4. FSTyped
  <2>1. answered = {f \in Requests : fsState[f] = "FINISH"}
    BY DEF Init
  <2>2. fsState \in [Requests -> States]
    BY DEF Init, States
  <2> QED BY <2>1, <2>2 DEF Init, FSTyped
<1> QED BY <1>2, <1>3, <1>4 DEF FSInv

-----------------------------------------------------------------------------
(* The steps.                                                              *)

LEMMA FSArrive ==
  ASSUME FSInv, NEW f \in Requests, Arrive(f)
  PROVE  FSInv'
<1> DEFINE m == MetaOf(f)
<1>1. translating' = translating \cup {m} /\ UNCHANGED <<remaining, devices, finished, answered, done>>
  BY DEF Arrive, MetaOf
<1>2. \A b \in BlockRequests : b # m => Same(b)
  BY <1>1 DEF Same
<1>3. \A b \in Of(f) : Gone(b)
  BY DEF Arrive, FSInv, RequestOK
<1>4. m \in Of(f) /\ m \in BlockRequests
  BY KindsDiffer
<1>5. FSTyped'
  <2>1. fsState' = [fsState EXCEPT ![f] = IF IsIO(f) THEN "READ_META" ELSE "WAIT_META"]
        /\ fsState \in [Requests -> States] /\ fsState[f] = "new"
    BY DEF Arrive, FSInv, FSTyped
  <2>2. fsState' \in [Requests -> States]
    BY <2>1 DEF States
  <2>3. {g \in Requests : fsState'[g] = "FINISH"} = {g \in Requests : fsState[g] = "FINISH"}
    BY <2>1
  <2> QED BY <1>1, <1>4, <2>2, <2>3 DEF FSInv, FSTyped
<1>6. ASSUME NEW b \in BlockRequests PROVE BlockOK(b)'
  <2>1. CASE b = m
    BY <1>1, <1>3, <1>4, <2>1 DEF BlockOK, Gone, Outstanding
  <2>2. CASE b # m
    BY <1>2, <2>2, SameBlock DEF FSInv
  <2> QED BY <2>1, <2>2
<1>7. ASSUME NEW g \in Requests PROVE RequestOK(g)'
  <2>1. CASE g = f
    <3>1. fsState'[f] = IF IsIO(f) THEN "READ_META" ELSE "WAIT_META"
      BY DEF Arrive, FSInv, FSTyped
    <3>2. \A b \in Of(f) : b # m => Gone(b)'
      BY <1>2, <1>3, OfIs, SameBlock
    <3>3. IsIO(f) => m = <<f, "readMeta">>
      BY DEF IsIO, MetaOf
    <3> QED BY <2>1, <3>1, <3>2, <3>3 DEF RequestOK
  <2>2. CASE g # f
    <3>1. fsState'[g] = fsState[g]
      BY <2>2 DEF Arrive, FSInv, FSTyped
    <3>2. \A b \in Of(g) : Same(b)
      BY <1>2, <1>4, <2>2, OfIs
    <3> QED BY <3>1, <3>2, OthersKept DEF FSInv
  <2> QED BY <2>1, <2>2
<1> QED BY <1>5, <1>6, <1>7 DEF FSInv

LEMMA FSTranslate ==
  ASSUME FSInv, NEW b \in BlockRequests, Translate(b)
  PROVE  FSInv'
<1>1. /\ b \in translating /\ translating' = translating \ {b}
      /\ devices' = devices \cup DeviceRequests[b]
      /\ remaining' = [remaining EXCEPT ![b] = Cardinality(DeviceRequests[b])]
      /\ UNCHANGED <<fsState, finished, answered, done>>
  BY DEF Translate
<1>2. ~Gone(b) /\ b \notin finished /\ Outstanding(b) = {}
  BY <1>1 DEF Gone, FSInv, BlockOK
<1>3. IsFiniteSet(DeviceRequests[b]) /\ \A d \in DeviceRequests[b] : d.parent = b
  BY <1>2, UnderWayAsked, DeviceRequestsAre
<1>4. Cardinality(DeviceRequests[b]) \in Nat
  BY <1>3, FS_CardinalityType
<1>5. remaining \in [BlockRequests -> Nat]
  BY DEF FSInv, FSTyped
<1>6. ASSUME NEW c \in BlockRequests, c # b PROVE Same(c)
  <2>1. {d \in devices' : d.parent = c} = {d \in devices : d.parent = c}
    BY <1>1, <1>3, <1>6
  <2> QED BY <1>1, <1>5, <1>6, <2>1 DEF Same
<1>7. FSTyped'
  <2>1. remaining' \in [BlockRequests -> Nat]
    BY <1>1, <1>4, <1>5
  <2>2. \A d \in devices' : d.parent \in BlockRequests /\ d \in DeviceRequests[d.parent]
    BY <1>1, <1>3 DEF FSInv, FSTyped
  <2> QED BY <1>1, <2>1, <2>2 DEF FSInv, FSTyped
<1>8. ASSUME NEW c \in BlockRequests PROVE BlockOK(c)'
  <2>1. CASE c = b
    <3>1. Outstanding(b)' = DeviceRequests[b]
      BY <1>1, <1>2, <1>3 DEF Outstanding
    <3>2. remaining'[b] = Cardinality(DeviceRequests[b])
      BY <1>1, <1>5
    <3>3. b \notin translating' /\ b \notin finished'
      BY <1>1, <1>2
    <3> QED BY <2>1, <3>1, <3>2, <3>3 DEF BlockOK
  <2>2. CASE c # b
    BY <1>6, <2>2, SameBlock DEF FSInv
  <2> QED BY <2>1, <2>2
<1>9. ASSUME NEW g \in Requests PROVE RequestOK(g)'
  <2>1. \A c \in Of(g) : c # b => Same(c)
    BY <1>6, OfIs
  <2>2. RequestOK(g) /\ fsState'[g] = fsState[g]
    BY <1>1 DEF FSInv
  <2> QED BY <1>2, <2>1, <2>2, OneMoves
<1> QED BY <1>7, <1>8, <1>9 DEF FSInv

LEMMA FSDeviceResponse ==
  ASSUME FSInv, NEW d \in devices, DeviceResponse(d)
  PROVE  FSInv'
<1> DEFINE b == d.parent
<1>1. /\ devices' = devices \ {d} /\ done' = done \cup {d}
      /\ remaining[b] = 1 => finished' = finished \cup {b} /\ UNCHANGED remaining
      /\ remaining[b] # 1 => remaining' = [remaining EXCEPT ![b] = remaining[b] - 1] /\ UNCHANGED finished
      /\ UNCHANGED <<fsState, translating, answered>>
  BY DEF DeviceResponse
<1>2. b \in BlockRequests /\ d \in DeviceRequests[b] /\ d \in Outstanding(b)
  BY DEF FSInv, FSTyped, Outstanding
<1> HIDE DEF b
<1>3. /\ ~Gone(b) /\ b \notin finished /\ b \notin translating
      /\ remaining[b] = Cardinality(Outstanding(b)) /\ DeviceRequests[b] \ Outstanding(b) \subseteq done
  BY <1>2 DEF Gone, FSInv, BlockOK
<1>4. remaining \in [BlockRequests -> Nat]
  BY DEF FSInv, FSTyped
<1>5. IsFiniteSet(Outstanding(b))
  BY <1>2, DevicesFinite
<1>6. Outstanding(b)' = Outstanding(b) \ {d}
  BY <1>1 DEF Outstanding
<1>7. remaining[b] \in Nat \ {0} /\ Cardinality(Outstanding(b) \ {d}) = remaining[b] - 1
  <2>1. Cardinality(Outstanding(b) \ {d}) = Cardinality(Outstanding(b)) - 1
        /\ IsFiniteSet(Outstanding(b) \ {d})
    BY <1>2, <1>5, FS_RemoveElement
  <2>2. Cardinality(Outstanding(b)) # 0 /\ Cardinality(Outstanding(b)) \in Nat
    BY <1>2, <1>5, FS_EmptySet, FS_CardinalityType
  <2> QED BY <1>3, <2>1, <2>2
<1>8. ASSUME NEW c \in BlockRequests, c # b PROVE Same(c)
  <2>1. {e \in devices' : e.parent = c} = {e \in devices : e.parent = c}
    BY <1>1, <1>8 DEF b
  <2>2. remaining'[c] = remaining[c] /\ ((c \in finished') <=> (c \in finished))
    BY <1>1, <1>4, <1>8
  <2> QED BY <1>1, <2>1, <2>2 DEF Same
<1>9. FSTyped'
  <2>1. remaining' \in [BlockRequests -> Nat]
    BY <1>1, <1>2, <1>4, <1>7
  <2>2. finished' \subseteq BlockRequests
    BY <1>1, <1>2 DEF FSInv, FSTyped
  <2> QED BY <1>1, <2>1, <2>2 DEF FSInv, FSTyped
<1>10. ASSUME NEW c \in BlockRequests PROVE BlockOK(c)'
  <2>1. CASE c = b
    <3>1. DeviceRequests[b] \ Outstanding(b)' \subseteq done'
      BY <1>1, <1>3, <1>6
    <3>2. b \notin translating'
      BY <1>1, <1>3
    <3>3. CASE remaining[b] = 1
      <4>1. Outstanding(b)' = {}
        <5>1. Cardinality(Outstanding(b) \ {d}) = 0 /\ IsFiniteSet(Outstanding(b) \ {d})
          BY <1>5, <1>7, <3>3, FS_RemoveElement
        <5> QED BY <1>6, <5>1, FS_EmptySet
      <4>2. AllDone(b)'
        BY <1>2, <3>1, <4>1 DEF AllDone
      <4> QED BY <2>1, <3>2, <4>1, <4>2 DEF BlockOK
    <3>4. CASE remaining[b] # 1
      <4>1. remaining'[b] = remaining[b] - 1 /\ b \notin finished'
        BY <1>1, <1>2, <1>3, <1>4, <3>4
      <4>2. remaining'[b] = Cardinality(Outstanding(b)')
        BY <1>6, <1>7, <4>1
      <4> QED BY <2>1, <3>1, <3>2, <4>1, <4>2 DEF BlockOK
    <3> QED BY <3>3, <3>4
  <2>2. CASE c # b
    BY <1>8, <2>2, SameBlock DEF FSInv
  <2> QED BY <2>1, <2>2
<1>11. ASSUME NEW g \in Requests PROVE RequestOK(g)'
  <2>1. \A c \in Of(g) : c # b => Same(c)
    BY <1>8, OfIs
  <2>2. RequestOK(g) /\ fsState'[g] = fsState[g]
    BY <1>1 DEF FSInv
  <2> QED BY <1>3, <2>1, <2>2, OneMoves
<1> QED BY <1>9, <1>10, <1>11 DEF FSInv

\* A block request that is finished is nowhere else, and all of it is done.
LEMMA Finished ==
  ASSUME FSInv, NEW b \in finished
  PROVE  /\ b \in BlockRequests /\ b[1] \in Requests /\ b \in Of(b[1])
         /\ b \notin translating /\ Outstanding(b) = {} /\ AllDone(b) /\ ~Gone(b)
<1>1. b \in BlockRequests
  BY DEF FSInv, FSTyped
<1>2. BlockOK(b)
  BY <1>1 DEF FSInv
<1>3. b[1] \in Requests /\ b \in Of(b[1])
  BY <1>1 DEF Of, BlockRequests
<1>4. Outstanding(b) = {} /\ AllDone(b) /\ b \notin translating
  BY <1>2 DEF BlockOK
<1>5. ~Gone(b)
  BY DEF Gone
<1> QED BY <1>1, <1>3, <1>4, <1>5

LEMMA FSResponseTyped ==
  ASSUME FSInv, NEW b \in finished, NEW s \in States, fsState[b[1]] # "FINISH",
         finished' = finished \ {b}, fsState' = [fsState EXCEPT ![b[1]] = s],
         translating' \subseteq BlockRequests, UNCHANGED <<remaining, devices, done>>,
         answered' = IF s = "FINISH" THEN answered \cup {b[1]} ELSE answered
  PROVE  FSTyped'
<1>1. b[1] \in Requests
  BY Finished
<1>2. fsState \in [Requests -> States] /\ answered = {f \in Requests : fsState[f] = "FINISH"}
  BY DEF FSInv, FSTyped
<1>3. fsState' \in [Requests -> States]
  BY <1>2
<1>4. \A f \in Requests : fsState'[f] = IF f = b[1] THEN s ELSE fsState[f]
  BY <1>2
<1>5. answered' = {f \in Requests : fsState'[f] = "FINISH"}
  BY <1>1, <1>2, <1>4
<1> QED BY <1>3, <1>5 DEF FSInv, FSTyped

\* A response that is handled makes its block request one that is gone and done.
LEMMA FSHandled ==
  ASSUME FSInv, NEW b \in finished, NEW s \in States, fsState[b[1]] # "FINISH",
         finished' = finished \ {b}, fsState' = [fsState EXCEPT ![b[1]] = s],
         UNCHANGED <<translating, remaining, devices, done>>,
         answered' = IF s = "FINISH" THEN answered \cup {b[1]} ELSE answered,
         RequestOK(b[1])'
  PROVE  FSInv'
<1>1. FSTyped'
  BY FSResponseTyped DEF FSInv, FSTyped
<1>2. \A c \in BlockRequests : c # b => Same(c)
  BY DEF Same
<1>3. ASSUME NEW c \in BlockRequests PROVE BlockOK(c)'
  <2>1. CASE c = b
    BY <2>1, Finished DEF BlockOK, Outstanding
  <2>2. CASE c # b
    BY <1>2, <2>2, SameBlock DEF FSInv
  <2> QED BY <2>1, <2>2
<1>4. ASSUME NEW g \in Requests, g # b[1] PROVE RequestOK(g)'
  <2>1. fsState'[g] = fsState[g]
    BY <1>4 DEF FSInv, FSTyped
  <2>2. \A c \in Of(g) : Same(c)
    BY <1>2, <1>4, OfIs
  <2> QED BY <2>1, <2>2, OthersKept DEF FSInv
<1> QED BY <1>1, <1>3, <1>4 DEF FSInv

LEMMA HandledIsThrough ==
  ASSUME FSInv, NEW b \in finished, finished' = finished \ {b},
         UNCHANGED <<translating, remaining, devices, done>>
  PROVE  /\ Through(b)'
         /\ \A c \in BlockRequests : c # b => (Gone(c) => Gone(c)') /\ (Through(c) => Through(c)')
<1>1. \A c \in BlockRequests : c # b => Same(c)
  BY DEF Same
<1>2. Through(b)'
  BY Finished DEF Through, Gone, AllDone, Outstanding
<1> QED BY <1>1, <1>2, SameBlock

LEMMA FSMetaFinished ==
  ASSUME FSInv, NEW b \in BlockRequests, MetaFinished(b)
  PROVE  FSInv'
<1> DEFINE f == b[1]
<1>1. /\ b \in finished /\ fsState[f] = "WAIT_META" /\ finished' = finished \ {b}
      /\ fsState' = [fsState EXCEPT ![f] = "FINISH"] /\ answered' = answered \cup {f}
      /\ UNCHANGED <<translating, remaining, devices, done>>
  BY DEF MetaFinished
<1>2. f \in Requests /\ RequestOK(f) /\ fsState'[f] = "FINISH"
  BY <1>1, Finished DEF FSInv, FSTyped
<1>3. ~IsIO(f) /\ \A c \in Of(f) : c # MetaOf(f) => Gone(c)
  BY <1>1, <1>2 DEF RequestOK
<1>4. \A c \in Of(f) : c # b => Gone(c)
  BY <1>1, <1>3, Finished
<1>5. \A c \in Of(f) : Gone(c)'
  BY <1>1, <1>2, <1>4, HandledIsThrough, OfIs DEF Through
<1>6. RequestOK(f)'
  BY <1>2, <1>3, <1>5 DEF RequestOK
<1>7. "FINISH" \in States
  BY DEF States
<1> HIDE DEF f
<1> QED BY <1>1, <1>6, <1>7, FSHandled DEF f

LEMMA FSFirstOfTwo ==
  ASSUME FSInv, NEW b \in BlockRequests, FirstOfTwo(b)
  PROVE  FSInv'
<1> DEFINE f == b[1]
<1>1. /\ b \in finished /\ fsState[f] = "WRITE_META" /\ finished' = finished \ {b}
      /\ fsState' = [fsState EXCEPT ![f] = "META_COMPLETE"] /\ answered' = answered
      /\ UNCHANGED <<translating, remaining, devices, done>>
  BY DEF FirstOfTwo
<1>2. f \in Requests /\ RequestOK(f) /\ fsState'[f] = "META_COMPLETE"
  BY <1>1, Finished DEF FSInv, FSTyped
<1>3. IsIO(f) /\ Gone(<<f, "readMeta">>) /\ <<f, "readMeta">> \in BlockRequests
  BY <1>1, <1>2 DEF RequestOK, BlockRequests
<1>4. b \in Of(f) /\ ~Gone(b)
  BY <1>1, Finished
<1>5. b = <<f, "data">> \/ b = <<f, "writeMeta">>
  BY <1>3, <1>4 DEF Of
<1>6. Through(b)' /\ Gone(<<f, "readMeta">>)'
  BY <1>1, <1>3, <1>4, HandledIsThrough
<1>7. RequestOK(f)'
  BY <1>2, <1>3, <1>5, <1>6 DEF RequestOK
<1>8. "META_COMPLETE" \in States /\ "META_COMPLETE" # "FINISH"
  BY DEF States
<1> HIDE DEF f
<1> QED BY <1>1, <1>7, <1>8, FSHandled DEF f

LEMMA FSSecondOfTwo ==
  ASSUME FSInv, NEW b \in BlockRequests, SecondOfTwo(b)
  PROVE  FSInv' /\ (IsIO(b[1]) => Through(<<b[1], "data">>)')
<1> DEFINE f == b[1]
<1>1. /\ b \in finished /\ fsState[f] = "META_COMPLETE" /\ finished' = finished \ {b}
      /\ fsState' = [fsState EXCEPT ![f] = "FINISH"] /\ answered' = answered \cup {f}
      /\ UNCHANGED <<translating, remaining, devices, done>>
  BY DEF SecondOfTwo
<1>2. f \in Requests /\ RequestOK(f) /\ fsState'[f] = "FINISH"
  BY <1>1, Finished DEF FSInv, FSTyped
<1>3. IsIO(f) /\ Gone(<<f, "readMeta">>) /\ (Through(<<f, "data">>) \/ Through(<<f, "writeMeta">>))
  BY <1>1, <1>2 DEF RequestOK
<1>4. b \in Of(f) /\ ~Gone(b)
  BY <1>1, Finished
<1>5. /\ <<f, "readMeta">> \in BlockRequests /\ <<f, "data">> \in BlockRequests
      /\ <<f, "writeMeta">> \in BlockRequests
  BY <1>2, OfIs DEF Of
<1>6. \/ b = <<f, "data">> /\ Through(<<f, "writeMeta">>)
      \/ b = <<f, "writeMeta">> /\ Through(<<f, "data">>)
  BY <1>3, <1>4 DEF Of, Through
<1>7. Gone(<<f, "readMeta">>)' /\ Through(<<f, "data">>)' /\ Through(<<f, "writeMeta">>)'
  BY <1>1, <1>2, <1>3, <1>4, <1>5, <1>6, KindsDiffer, HandledIsThrough
<1>8. \A c \in Of(f) : Gone(c)'
  BY <1>7 DEF Of, Through
<1>9. RequestOK(f)'
  BY <1>2, <1>7, <1>8 DEF RequestOK
<1>10. "FINISH" \in States
  BY DEF States
<1>11. FSInv'
  <2> HIDE DEF f
  <2> QED BY <1>1, <1>9, <1>10, FSHandled DEF f
<1> QED BY <1>7, <1>11

LEMMA FSStartIO ==
  ASSUME FSInv, NEW b \in BlockRequests, StartIO(b)
  PROVE  FSInv'
<1> DEFINE f == b[1]
           da == <<f, "data">>
           wm == <<f, "writeMeta">>
           rm == <<f, "readMeta">>
<1>1. /\ b \in finished /\ fsState[f] = "READ_META" /\ finished' = finished \ {b}
      /\ fsState' = [fsState EXCEPT ![f] = "WRITE_META"]
      /\ translating' = translating \cup {da, wm}
      /\ UNCHANGED <<remaining, devices, answered, done>>
  BY DEF StartIO
<1>2. f \in Requests /\ RequestOK(f) /\ fsState'[f] = "WRITE_META"
  BY <1>1, Finished DEF FSInv, FSTyped
<1>3. IsIO(f) /\ \A c \in Of(f) : c # rm => Gone(c)
  BY <1>1, <1>2 DEF RequestOK
<1>4. b \in Of(f) /\ ~Gone(b) /\ b \notin translating /\ Outstanding(b) = {}
  BY <1>1, Finished
<1>5. b = rm /\ da \in Of(f) /\ wm \in Of(f) /\ rm # da /\ rm # wm
  BY <1>3, <1>4 DEF Of
<1>6. da \in BlockRequests /\ wm \in BlockRequests /\ Gone(da) /\ Gone(wm)
  BY <1>2, <1>3, <1>5, OfIs
<1>7. \A c \in BlockRequests : c \notin {da, wm, rm} => Same(c)
  BY <1>1, <1>5 DEF Same
<1>8. Gone(rm)'
  BY <1>1, <1>4, <1>5 DEF Gone, Outstanding
<1>9. FSTyped'
  <2>1. translating' \subseteq BlockRequests
    BY <1>1, <1>6 DEF FSInv, FSTyped
  <2>2. "WRITE_META" \in States /\ "WRITE_META" # "FINISH"
    BY DEF States
  <2> HIDE DEF f, da, wm, rm
  <2> QED BY <1>1, <2>1, <2>2, FSResponseTyped DEF f
<1>10. ASSUME NEW c \in BlockRequests PROVE BlockOK(c)'
  <2>1. CASE c \in {da, wm}
    BY <1>1, <1>6, <2>1 DEF BlockOK, Gone, Outstanding
  <2>2. CASE c = rm
    BY <1>8, <2>2 DEF BlockOK, Gone
  <2>3. CASE c \notin {da, wm, rm}
    BY <1>7, <2>3, SameBlock DEF FSInv
  <2> QED BY <2>1, <2>2, <2>3
<1>11. ASSUME NEW g \in Requests PROVE RequestOK(g)'
  <2>1. CASE g = f
    BY <1>2, <1>3, <1>8, <2>1 DEF RequestOK
  <2>2. CASE g # f
    <3>1. fsState'[g] = fsState[g]
      BY <1>1, <2>2 DEF FSInv, FSTyped
    <3>2. \A c \in Of(g) : c \in BlockRequests /\ c \notin {da, wm, rm}
      BY <2>2, OfIs
    <3> QED BY <1>7, <3>1, <3>2, OthersKept DEF FSInv
  <2> QED BY <2>1, <2>2
<1> QED BY <1>9, <1>10, <1>11 DEF FSInv

LEMMA FSStutter ==
  ASSUME FSInv, UNCHANGED vars
  PROVE  FSInv'
<1>1. \A b : Same(b)
  BY DEF Same, vars
<1>2. \A b \in BlockRequests : BlockOK(b)'
  BY <1>1, SameBlock DEF FSInv
<1>3. \A f \in Requests : RequestOK(f)'
  BY <1>1, OthersKept DEF FSInv, vars
<1>4. FSTyped'
  BY DEF FSInv, FSTyped, vars
<1> QED BY <1>2, <1>3, <1>4 DEF FSInv

LEMMA FSStep == FSInv /\ [Next]_vars => FSInv'
<1> SUFFICES ASSUME FSInv, [Next]_vars PROVE FSInv'
  OBVIOUS
<1>1. ASSUME NEW f \in Requests, Arrive(f) PROVE FSInv'
  BY <1>1, FSArrive
<1>2. ASSUME NEW b \in BlockRequests, Translate(b) PROVE FSInv'
  BY <1>2, FSTranslate
<1>3. ASSUME NEW b \in BlockRequests, BlockResponse(b) PROVE FSInv'
  BY <1>3, FSMetaFinished, FSStartIO, FSFirstOfTwo, FSSecondOfTwo DEF BlockResponse
<1>4. ASSUME NEW d \in devices, DeviceResponse(d) PROVE FSInv'
  BY <1>4, FSDeviceResponse
<1>5. CASE UNCHANGED vars
  BY <1>5, FSStutter
<1> QED BY <1>1, <1>2, <1>3, <1>4, <1>5 DEF Next

-----------------------------------------------------------------------------
(* What it means for the callers of the file system.                       *)

LEMMA FSInvGives == FSInv => TransfersAccounted
<1> SUFFICES ASSUME FSInv PROVE TransfersAccounted
  OBVIOUS
<1>1. TypeOK
  BY DEF FSInv, FSTyped, TypeOK
<1>2. RemainingIsExact
  BY DEF FSInv, BlockOK, RemainingIsExact
<1>3. ASSUME NEW f \in answered
      PROVE  f \in Requests /\ (\A b \in Of(f) : Gone(b)) /\ (IsIO(f) => Through(<<f, "data">>))
  BY <1>3 DEF FSInv, FSTyped, RequestOK
<1>4. AnsweredMeansDone
  <2> SUFFICES ASSUME NEW f \in answered
               PROVE  /\ {b \in translating \union finished : b[1] = f} = {}
                      /\ {d \in devices : d.parent[1] = f} = {}
    BY DEF AnsweredMeansDone
  <2>1. ASSUME NEW b \in translating \cup finished, b[1] = f PROVE FALSE
    <3>1. b \in BlockRequests /\ b \in Of(f)
      BY <2>1, OfIs DEF FSInv, FSTyped
    <3> QED BY <1>3, <2>1, <3>1 DEF Gone
  <2>2. ASSUME NEW d \in devices, d.parent[1] = f PROVE FALSE
    <3>1. d.parent \in BlockRequests /\ d.parent \in Of(f)
      BY <2>2, OfIs DEF FSInv, FSTyped
    <3>2. d \in Outstanding(d.parent)
      BY DEF Outstanding
    <3> QED BY <1>3, <3>1, <3>2 DEF Gone
  <2> QED BY <2>1, <2>2
<1>5. EveryByteTransferred
  <2> SUFFICES ASSUME NEW f \in answered, IsIO(f), NEW byte \in RegionBytes(f),
                      NEW j \in 0..AddrsPerBlock - 1
               PROVE  \E d \in done :
                        /\ d.parent = <<f, "data">>
                        /\ d.address = (FirstBlock + byte \div BlockSize) * AddrsPerBlock + j
                        /\ d.read = (Kind[f] = "read")
    BY DEF EveryByteTransferred
  <2> DEFINE b == <<f, "data">>
  <2>1. f \in Requests /\ DeviceRequests[b] \subseteq done /\ b \in BlockRequests
    BY <1>3 DEF Through, AllDone, BlockRequests
  <2>2. PICK i \in 1..Len(DataBlocks(f)) : DataBlocks(f)[i] = FirstBlock + byte \div BlockSize
    BY <2>1, DataBlocksAre
  <2>3. AddrsPerBlock \in Nat \ {0}
    BY FileSystemAssumption
  <2>4. j + 1 \in 1..AddrsPerBlock /\ j + 1 - 1 = j
    BY <2>3
  <2>5. BlocksOfRequest(b) = DataBlocks(f)
    BY DEF BlocksOfRequest
  <2> DEFINE d == [parent |-> b, index |-> <<i, j + 1>>,
                   address |-> GetAddresses(BlocksOfRequest(b)[i])[j + 1],
                   read |-> IsRead(b), through |-> WriteThrough(b)]
  <2>6. d \in DeviceRequests[b]
    <3>1. DeviceRequests[b] =
            {[parent |-> b, index |-> <<k, l>>, address |-> GetAddresses(BlocksOfRequest(b)[k])[l],
              read |-> IsRead(b), through |-> WriteThrough(b)] :
               k \in 1..Len(BlocksOfRequest(b)), l \in 1..AddrsPerBlock}
      <4> HIDE DEF b, d
      <4> QED BY <2>1 DEF DeviceRequests
    <3>2. i \in 1..Len(BlocksOfRequest(b)) /\ j + 1 \in 1..AddrsPerBlock
      BY <2>4, <2>5
    <3> DEFINE e(k, l) == [parent |-> b, index |-> <<k, l>>,
                           address |-> GetAddresses(BlocksOfRequest(b)[k])[l],
                           read |-> IsRead(b), through |-> WriteThrough(b)]
    <3>3. DeviceRequests[b] = {e(k, l) : k \in 1..Len(BlocksOfRequest(b)), l \in 1..AddrsPerBlock}
      BY ONLY <3>1
    <3>4. d = e(i, j + 1)
      OBVIOUS
    <3> HIDE DEF b, d, e
    <3> QED BY ONLY <3>2, <3>3, <3>4
  <2>7. d.parent = b /\ d.address = GetAddresses(DataBlocks(f)[i])[j + 1] /\ d.read = IsRead(b)
    BY <2>5
  <2>8. IsRead(b) = (Kind[f] = "read")
    BY DEF IsRead
  <2>9. GetAddresses(DataBlocks(f)[i])[j + 1]
          = DataBlocks(f)[i] * AddrsPerBlock + (j + 1) - 1
    BY <2>4 DEF GetAddresses
  <2>10. DataBlocks(f)[i] \in Nat
    BY <2>1, DataBlocksAre
  <2>11. DataBlocks(f)[i] * AddrsPerBlock + (j + 1) - 1 = DataBlocks(f)[i] * AddrsPerBlock + j
    BY <2>3, <2>4, <2>10
  <2> HIDE DEF d
  <2> QED BY <2>1, <2>2, <2>6, <2>7, <2>8, <2>9, <2>11
<1> QED BY <1>1, <1>2, <1>4, <1>5 DEF TransfersAccounted

LEMMA FSInvariant == Spec => []FSInv
BY FSInit, FSStep, PTL DEF Spec

\* Whatever file requests arrive, and in whatever order the device answers, the
\* counter of a block request is exact up to its last response, a file request is
\* answered when nothing of it is under way, and each byte of an answered read or
\* write went through the device (handleMessage in block_translator.cc and
\* file_system.cc).
THEOREM FSTransfersAccounted == Spec => []TransfersAccounted
<1>1. FSInv => TransfersAccounted
  BY FSInvGives
<1> QED BY <1>1, FSInvariant, PTL

\* A request without a byte is never answered, so that what is answered is what
\* the callers asked for.
LEMMA ServiceInit == Init => Service!Init
BY DEF Init, Service!Init, WithWork

LEMMA ServiceAnswer ==
  ASSUME FSInv, NEW f \in Requests, fsState[f] \notin {"new", "FINISH"},
         IsIO(f) => AllDone(<<f, "data">>),
         fsState' = [fsState EXCEPT ![f] = "FINISH"], answered' = answered \cup {f}
  PROVE  Service!Next
<1>1. f \in WithWork
  <2>1. ASSUME IsIO(f) PROVE RegionBytes(f) # {}
    <3>1. <<f, "data">> \in Asked
      BY <2>1 DEF Asked, BlockRequests
    <3>2. AllDone(<<f, "data">>)
      BY <2>1
    <3> QED BY <3>1, <3>2, DeviceRequestsAre DEF AllDone
  <2> QED BY <2>1 DEF WithWork
<1>2. f \notin answered
  BY DEF FSInv, FSTyped
<1>3. \A g \in Requests : fsState'[g] = IF g = f THEN "FINISH" ELSE fsState[g]
  BY DEF FSInv, FSTyped
<1>4. {g \in WithWork : fsState'[g] # "new"} = {g \in WithWork : fsState[g] # "new"}
  BY <1>3 DEF WithWork
<1>5. {f} # {} /\ {f} \cap answered = {} /\ {f} \subseteq {g \in WithWork : fsState[g] # "new"}
      /\ {f} \in SUBSET WithWork
  BY <1>1, <1>2
<1>6. WithWork' = WithWork
  BY DEF WithWork, RegionBytes, IsIO
<1>7. Service!Answer({f})
  BY <1>4, <1>5, <1>6 DEF Service!Answer
<1> QED BY <1>5, <1>7 DEF Service!Next

LEMMA ServiceStep == FSInv /\ [Next]_vars => [Service!Next]_(Service!vars)
<1> SUFFICES ASSUME FSInv, [Next]_vars PROVE [Service!Next]_(Service!vars)
  OBVIOUS
<1> DEFINE Asks == {f \in WithWork : fsState[f] # "new"}
<1>0. WithWork' = WithWork /\ WithWork \subseteq Requests
  BY DEF WithWork, RegionBytes, IsIO
<1>1. ASSUME NEW f \in Requests, Arrive(f) PROVE Service!Next \/ UNCHANGED Service!vars
  <2>1. fsState[f] = "new" /\ answered' = answered
    BY <1>1 DEF Arrive
  <2>2. \A g \in Requests : fsState'[g] # "new" <=> g = f \/ fsState[g] # "new"
    BY <1>1 DEF Arrive, FSInv, FSTyped
  <2>3. CASE f \in WithWork
    <3>1. Asks' = Asks \cup {f}
      BY <1>0, <2>2, <2>3
    <3>2. Service!Ask(f)
      BY <2>1, <3>1 DEF Service!Ask
    <3> QED BY <2>3, <3>2 DEF Service!Next
  <2>4. CASE f \notin WithWork
    <3>1. Asks' = Asks
      BY <1>0, <2>2, <2>4
    <3> QED BY <2>1, <3>1 DEF Service!vars
  <2> QED BY <2>3, <2>4
<1>2. ASSUME fsState' = fsState, answered' = answered PROVE UNCHANGED Service!vars
  BY <1>0, <1>2 DEF Service!vars
<1>3. ASSUME NEW b \in BlockRequests, Translate(b) PROVE UNCHANGED Service!vars
  BY <1>2, <1>3 DEF Translate
<1>4. ASSUME NEW d \in devices, DeviceResponse(d) PROVE UNCHANGED Service!vars
  BY <1>2, <1>4 DEF DeviceResponse
<1>5. ASSUME NEW b \in BlockRequests, StartIO(b) \/ FirstOfTwo(b) PROVE UNCHANGED Service!vars
  <2>1. /\ b \in finished /\ answered' = answered /\ fsState[b[1]] # "new"
        /\ fsState' = [fsState EXCEPT ![b[1]] = "WRITE_META"]
             \/ fsState' = [fsState EXCEPT ![b[1]] = "META_COMPLETE"]
    BY <1>5 DEF StartIO, FirstOfTwo
  <2>2. \A g \in Requests : fsState'[g] # "new" <=> fsState[g] # "new"
    BY <2>1 DEF FSInv, FSTyped
  <2>3. Asks' = Asks
    BY <1>0, <2>2
  <2> QED BY <2>1, <2>3 DEF Service!vars
<1>6. ASSUME NEW b \in BlockRequests, MetaFinished(b) PROVE Service!Next
  <2>1. /\ b \in finished /\ fsState[b[1]] = "WAIT_META"
        /\ fsState' = [fsState EXCEPT ![b[1]] = "FINISH"] /\ answered' = answered \cup {b[1]}
    BY <1>6 DEF MetaFinished
  <2>2. b[1] \in Requests /\ ~IsIO(b[1])
    BY <2>1, Finished DEF FSInv, RequestOK
  <2> QED BY <2>1, <2>2, ServiceAnswer
<1>7. ASSUME NEW b \in BlockRequests, SecondOfTwo(b) PROVE Service!Next
  <2>1. /\ b \in finished /\ fsState[b[1]] = "META_COMPLETE" /\ UNCHANGED done
        /\ fsState' = [fsState EXCEPT ![b[1]] = "FINISH"] /\ answered' = answered \cup {b[1]}
    BY <1>7 DEF SecondOfTwo
  <2>2. b[1] \in Requests
    BY <2>1, Finished
  <2>3. IsIO(b[1]) => AllDone(<<b[1], "data">>)
    BY <1>7, <2>1, FSSecondOfTwo DEF Through, AllDone
  <2> QED BY <2>1, <2>2, <2>3, ServiceAnswer
<1>8. CASE UNCHANGED vars
  BY <1>2, <1>8 DEF vars
<1> QED BY <1>1, <1>3, <1>4, <1>5, <1>6, <1>7, <1>8 DEF Next, BlockResponse

\* The safety of ImplementsFileService: every step of the file system is one of
\* the service its callers see, or none of theirs.  A request is answered at most
\* once, only after it was made, and only when it names a byte.
THEOREM FSImplementsService == Spec => Service!Init /\ [][Service!Next]_(Service!vars)
<1>1. Init => Service!Init
  BY ServiceInit
<1>2. FSInv /\ [Next]_vars => [Service!Next]_(Service!vars)
  BY ServiceStep
<1> QED BY <1>1, <1>2, FSInvariant, PTL DEF Spec

-----------------------------------------------------------------------------
(* The loops of the file builder.                                          *)

LEMMA EveryTurn ==
  ASSUME NEW n \in Nat, NEW T, 0 \in T, \A i \in 1 .. n : i - 1 \in T => i \in T
  PROVE  \A i \in 0 .. n : i \in T
<1> DEFINE Bad == {i \in 0 .. n : i \notin T}
<1>1. ASSUME NEW i \in Bad, \A j \in Bad : i <= j PROVE FALSE
  <2>1. i \in 1 .. n /\ i - 1 \in 0 .. n /\ ~(i <= i - 1)
    OBVIOUS
  <2>2. i - 1 \in T
    BY <1>1, <2>1
  <2> QED BY <2>1, <2>2
<1>2. Bad \in SUBSET Nat
  OBVIOUS
<1>3. Bad = {}
  <2> HIDE DEF Bad
  <2> QED BY <1>1, <1>2, LeastNat
<1> QED BY <1>3

LEMMA MaxIsLast ==
  ASSUME NEW k \in Nat, NEW s \in SUBSET (1 .. k), k \in s
  PROVE  Max(s) = k
<1>1. \A y \in s : k >= y
  OBVIOUS
<1>2. \A x \in s : (\A y \in s : x >= y) => x = k
  OBVIOUS
<1> QED BY <1>1, <1>2 DEF Max

\* One turn of each loop; a says which loop it is.
Do(a, t, k) ==
  IF a.loop = "directories" THEN AddDirectory(t, k, NextMeta(a.server, Len(a.path) - Len(k)))
  ELSE Stored(t, a.order[k], a.data[k], a.bytes)

\* The function FoldLeft is defined by, on sets of positions.
Folds(f, a, base, n, q) ==
  f = [s \in SUBSET (1 .. n) |->
         IF s = {} THEN base ELSE Do(a, f[s \ {Max(s)}], q[Max(s)])]

LEMMA LoopEnds ==
  ASSUME NEW a, NEW base, NEW n \in Nat, NEW q
  PROVE  \E f : Folds(f, a, base, n, q)
<1> DEFINE T == {k \in 0 .. n : \E f : Folds(f, a, base, k, q)}
<1>1. 0 \in T
  <2> DEFINE f == [s \in SUBSET (1 .. 0) |-> base]
  <2>1. \A s \in SUBSET (1 .. 0) : s = {}
    OBVIOUS
  <2>2. Folds(f, a, base, 0, q)
    <3>1. \A s \in SUBSET (1 .. 0) :
            f[s] = IF s = {} THEN base ELSE Do(a, f[s \ {Max(s)}], q[Max(s)])
      BY <2>1
    <3>2. f = [s \in SUBSET (1 .. 0) |-> f[s]]
      OBVIOUS
    <3> HIDE DEF f
    <3> QED BY ONLY <3>1, <3>2 DEF Folds
  <2>3. 0 \in 0 .. n
    OBVIOUS
  <2> HIDE DEF f
  <2> QED BY <2>2, <2>3
<1>2. ASSUME NEW k \in 1 .. n, k - 1 \in T PROVE k \in T
  <2>1. PICK f : Folds(f, a, base, k - 1, q)
    BY <1>2
  <2> DEFINE S == SUBSET (1 .. k - 1)
             g == [s \in SUBSET (1 .. k) |-> IF k \in s THEN Do(a, f[s \ {k}], q[k]) ELSE f[s]]
  <2>2. \A s \in S : f[s] = IF s = {} THEN base ELSE Do(a, f[s \ {Max(s)}], q[Max(s)])
    BY <2>1 DEF Folds
  <2>3. ASSUME NEW s \in SUBSET (1 .. k)
        PROVE g[s] = IF s = {} THEN base ELSE Do(a, g[s \ {Max(s)}], q[Max(s)])
    <3>1. CASE k \in s
      <4>1. Max(s) = k
        BY <3>1, MaxIsLast
      <4>2. s # {} /\ s \ {k} \in SUBSET (1 .. k) /\ k \notin s \ {k}
        BY <3>1
      <4>3. g[s] = Do(a, f[s \ {k}], q[k]) /\ g[s \ {k}] = f[s \ {k}]
        BY <3>1, <4>2
      <4> HIDE DEF g
      <4> QED BY <4>1, <4>2, <4>3
    <3>2. CASE k \notin s
      <4>1. s \in S /\ s \ {Max(s)} \in SUBSET (1 .. k) /\ k \notin s \ {Max(s)}
        <5>1. \A x \in 1 .. k : x # k => x \in 1 .. k - 1
          OBVIOUS
        <5> QED BY <3>2, <5>1
      <4>2. g[s] = f[s] /\ g[s \ {Max(s)}] = f[s \ {Max(s)}]
        BY <3>2, <4>1
      <4> HIDE DEF g, S
      <4> QED BY <2>2, <4>1, <4>2
    <3> QED BY <3>1, <3>2
  <2>4. Folds(g, a, base, k, q)
    <3>1. g = [s \in SUBSET (1 .. k) |-> g[s]]
      OBVIOUS
    <3> HIDE DEF g
    <3> QED BY ONLY <2>3, <3>1 DEF Folds
  <2>5. k \in 0 .. n
    OBVIOUS
  <2> HIDE DEF g
  <2> QED BY <2>4, <2>5
<1>3. n \in 0 .. n
  OBVIOUS
<1>4. n \in T
  <2> HIDE DEF T
  <2> QED BY <1>1, <1>2, <1>3, EveryTurn
<1> QED BY <1>4

\* The states a loop goes through.
Runs(g, a, base, n, q) == g[0] = base /\ \A i \in 1 .. n : g[i] = Do(a, g[i - 1], q[i])

LEMMA FoldRuns ==
  ASSUME NEW a, NEW base, NEW n \in Nat, NEW q, NEW f, Folds(f, a, base, n, q)
  PROVE  \E g : Runs(g, a, base, n, q) /\ g[n] = f[1 .. n]
<1> DEFINE g == [k \in 0 .. n |-> f[1 .. k]]
<1>1. \A s \in SUBSET (1 .. n) : f[s] = IF s = {} THEN base ELSE Do(a, f[s \ {Max(s)}], q[Max(s)])
  BY DEF Folds
<1>2. g[0] = base
  <2>1. 1 .. 0 = {} /\ 0 \in 0 .. n
    OBVIOUS
  <2>2. g[0] = f[{}]
    BY <2>1
  <2> QED BY <1>1, <2>2
<1>3. ASSUME NEW i \in 1 .. n PROVE g[i] = Do(a, g[i - 1], q[i])
  <2>1. 1 .. i \in SUBSET (1 .. n) /\ i \in 1 .. i /\ (1 .. i) \ {i} = 1 .. (i - 1) /\ i \in Nat
    OBVIOUS
  <2>2. Max(1 .. i) = i
    BY <2>1, MaxIsLast
  <2>3. f[1 .. i] = Do(a, f[1 .. (i - 1)], q[i])
    BY <1>1, <2>1, <2>2
  <2>4. i \in 0 .. n /\ i - 1 \in 0 .. n
    OBVIOUS
  <2>5. g[i] = f[1 .. i] /\ g[i - 1] = f[1 .. (i - 1)]
    BY <2>4
  <2> HIDE DEF g
  <2> QED BY <2>3, <2>5
<1>4. g[n] = f[1 .. n]
  OBVIOUS
<1> HIDE DEF g
<1> QED BY <1>2, <1>3, <1>4 DEF Runs

-----------------------------------------------------------------------------
(* The tables of the file builder.                                         *)

\* The storage layout of one server, in which each object has blocks of its own.
LayoutOK(l, bytes) ==
  /\ l = [nextMetaDataBlock |-> l.nextMetaDataBlock, nextDataBlock |-> l.nextDataBlock,
          metaDataBlocks |-> l.metaDataBlocks, dataBlocks |-> l.dataBlocks]
  /\ l.nextMetaDataBlock \in Nat /\ l.nextDataBlock \in Nat /\ FirstDataBlock <= l.nextDataBlock
  /\ DOMAIN l.metaDataBlocks = DOMAIN l.dataBlocks
  /\ \A h \in DOMAIN l.dataBlocks :
       /\ h \in DOMAIN bytes /\ bytes[h] \in Nat
       /\ l.metaDataBlocks[h] \in 0 .. l.nextMetaDataBlock - 1
       /\ l.dataBlocks[h] \in Nat /\ FirstDataBlock <= l.dataBlocks[h]
       /\ l.dataBlocks[h] + (bytes[h] \div BlockSize) <= l.nextDataBlock
  /\ \A g, h \in DOMAIN l.dataBlocks : g # h =>
       /\ l.metaDataBlocks[g] # l.metaDataBlocks[h]
       /\ \/ l.dataBlocks[g] + (bytes[g] \div BlockSize) <= l.dataBlocks[h]
          \/ l.dataBlocks[h] + (bytes[h] \div BlockSize) <= l.dataBlocks[g]

\* The objects a server stores have handles it gave out, all of its range.
StoredIn(t, s) == DOMAIN t.storage[s].dataBlocks
TablesTyped(t, n) ==
  /\ t = [next |-> t.next, names |-> t.names, meta |-> t.meta, storage |-> t.storage, size |-> t.size]
  /\ t.next \in [0 .. n - 1 -> Nat]
  /\ t.storage = [s \in 0 .. n - 1 |-> t.storage[s]]
ServersOK(t, n) ==
  \A s \in 0 .. n - 1 :
    /\ LayoutOK(t.storage[s], t.size)
    /\ First(s) <= t.next[s]
    /\ \A h \in StoredIn(t, s) : h \in First(s) .. t.next[s] - 1

\* What is stored is the objects of the names, each with handles of its own.
AllStored(t, n) == UNION {StoredIn(t, s) : s \in 0 .. n - 1}
DataOf(t) == UNION {Range(t.meta[h]) : h \in DOMAIN t.meta}
ObjectsOK(t, n) ==
  /\ \A p \in DOMAIN t.names : t.names[p] \in DOMAIN t.meta /\ (p # <<>> => Front(p) \in DOMAIN t.names)
  /\ \A p, q \in DOMAIN t.names : t.names[p] = t.names[q] => p = q
  /\ DataOf(t) \cap DOMAIN t.meta = {}
  /\ \A g, h \in DOMAIN t.meta : \A i \in DOMAIN t.meta[g], j \in DOMAIN t.meta[h] :
       t.meta[g][i] = t.meta[h][j] => g = h /\ i = j
  /\ AllStored(t, n) = DOMAIN t.meta \union DataOf(t)
TablesInv(t, n) == TablesTyped(t, n) /\ ServersOK(t, n) /\ ObjectsOK(t, n)
InRanges(t) == \A s \in DOMAIN t.next : t.next[s] <= First(s) + HandleSpan

\* Put, and what an inserted file does to a layout.
LEMMA FileAdded ==
  ASSUME NEW l, NEW old, LayoutOK(l, old), NEW h, h \notin DOMAIN l.dataBlocks, NEW bytes \in Nat,
         NEW new, h \in DOMAIN new, new[h] = bytes,
         \A g \in DOMAIN l.dataBlocks : g \in DOMAIN new /\ new[g] = old[g]
  PROVE  /\ LayoutOK(AddFile(l, h, bytes), new)
         /\ DOMAIN AddFile(l, h, bytes).dataBlocks = DOMAIN l.dataBlocks \union {h}
<1> DEFINE D == DOMAIN l.dataBlocks
           m == AddFile(l, h, bytes)
           blocks == bytes \div BlockSize
<1>1. BlockSize \in Nat \ {0} /\ FirstDataBlock \in Nat /\ blocks \in Nat
  BY LayoutAssumption
<1>2. /\ m.nextMetaDataBlock = l.nextMetaDataBlock + 1
      /\ m.nextDataBlock = l.nextDataBlock + blocks
      /\ m.metaDataBlocks = Put(l.metaDataBlocks, h, l.nextMetaDataBlock)
      /\ m.dataBlocks = Put(l.dataBlocks, h, l.nextDataBlock)
      /\ m = [nextMetaDataBlock |-> m.nextMetaDataBlock, nextDataBlock |-> m.nextDataBlock,
              metaDataBlocks |-> m.metaDataBlocks, dataBlocks |-> m.dataBlocks]
  BY DEF AddFile
<1>3. /\ l.nextMetaDataBlock \in Nat /\ l.nextDataBlock \in Nat /\ FirstDataBlock <= l.nextDataBlock
      /\ DOMAIN l.metaDataBlocks = D
  BY DEF LayoutOK
<1>4. DOMAIN m.dataBlocks = D \union {h} /\ DOMAIN m.metaDataBlocks = D \union {h}
  BY <1>2, <1>3 DEF Put
<1>5. /\ \A g \in D : g # h /\ m.dataBlocks[g] = l.dataBlocks[g] /\ m.metaDataBlocks[g] = l.metaDataBlocks[g]
      /\ m.dataBlocks[h] = l.nextDataBlock /\ m.metaDataBlocks[h] = l.nextMetaDataBlock
  BY <1>2, <1>3 DEF Put
<1> HIDE DEF m, D
<1>6. ASSUME NEW g \in D
      PROVE  /\ g \in DOMAIN new /\ new[g] \in Nat /\ new[g] \div BlockSize \in Nat
             /\ m.metaDataBlocks[g] \in 0 .. l.nextMetaDataBlock - 1
             /\ m.dataBlocks[g] \in Nat /\ FirstDataBlock <= m.dataBlocks[g]
             /\ m.dataBlocks[g] + (new[g] \div BlockSize) <= l.nextDataBlock
  <2>1. new[g] = old[g] /\ old[g] \in Nat
    BY DEF LayoutOK, D
  <2>2. old[g] \div BlockSize \in Nat
    BY <1>1, <2>1
  <2> QED BY <1>5, <2>1, <2>2 DEF LayoutOK, D
<1>7. ASSUME NEW g \in D \union {h}
      PROVE  /\ g \in DOMAIN new /\ new[g] \in Nat
             /\ m.metaDataBlocks[g] \in 0 .. m.nextMetaDataBlock - 1
             /\ m.dataBlocks[g] \in Nat /\ FirstDataBlock <= m.dataBlocks[g]
             /\ m.dataBlocks[g] + (new[g] \div BlockSize) <= m.nextDataBlock
  <2>1. CASE g \in D
    <3>1. /\ m.metaDataBlocks[g] \in 0 .. l.nextMetaDataBlock - 1
          /\ new[g] \div BlockSize \in Nat /\ m.dataBlocks[g] \in Nat
          /\ m.dataBlocks[g] + (new[g] \div BlockSize) <= l.nextDataBlock
      BY <1>6, <2>1
    <3>2. m.metaDataBlocks[g] \in 0 .. m.nextMetaDataBlock - 1
      BY <1>2, <1>3, <3>1
    <3>3. m.dataBlocks[g] + (new[g] \div BlockSize) <= m.nextDataBlock
      <4> DEFINE x == new[g] \div BlockSize
      <4> HIDE DEF x, blocks
      <4> QED BY <1>1, <1>2, <1>3, <3>1 DEF x
    <3> QED BY <1>6, <2>1, <3>2, <3>3
  <2>2. CASE g = h
    <3> HIDE DEF blocks
    <3>1. new[g] \div BlockSize = blocks
      BY <2>2 DEF blocks
    <3> QED BY <1>1, <1>2, <1>3, <1>5, <2>2, <3>1
  <2> QED BY <2>1, <2>2
<1>8. ASSUME NEW g \in D \union {h}, NEW k \in D \union {h}, g # k
      PROVE  /\ m.metaDataBlocks[g] # m.metaDataBlocks[k]
             /\ \/ m.dataBlocks[g] + (new[g] \div BlockSize) <= m.dataBlocks[k]
                \/ m.dataBlocks[k] + (new[k] \div BlockSize) <= m.dataBlocks[g]
  <2>1. CASE g \in D /\ k \in D
    <3>1. new[g] = old[g] /\ new[k] = old[k]
      BY <2>1 DEF D
    <3> QED BY <1>5, <1>8, <2>1, <3>1 DEF LayoutOK, D
  <2>2. CASE g = h /\ k \in D
    BY <1>3, <1>5, <1>6, <2>2
  <2>3. CASE g \in D /\ k = h
    BY <1>3, <1>5, <1>6, <2>3
  <2> QED BY <1>8, <2>1, <2>2, <2>3
<1>9. m.nextMetaDataBlock \in Nat /\ m.nextDataBlock \in Nat /\ FirstDataBlock <= m.nextDataBlock
  <2> HIDE DEF blocks
  <2> QED BY <1>1, <1>2, <1>3
<1>10. LayoutOK(m, new)
  BY <1>2, <1>4, <1>7, <1>8, <1>9 DEF LayoutOK
<1> QED BY <1>4, <1>10 DEF m, D

\* A record of the tables is its fields.
LEMMA RecordIs ==
  ASSUME NEW t, NEW u, NEW x, NEW y,
         t = [next |-> t.next, names |-> t.names, meta |-> t.meta, storage |-> t.storage, size |-> t.size],
         u = [t EXCEPT !.storage = x, !.size = y]
  PROVE  u = [next |-> t.next, names |-> t.names, meta |-> t.meta, storage |-> x, size |-> y]
<1>1. u = [k \in DOMAIN t |-> u[k]] /\ DOMAIN t = {"next", "names", "meta", "storage", "size"}
  OBVIOUS
<1>2. u.next = t.next /\ u.names = t.names /\ u.meta = t.meta /\ u.storage = x /\ u.size = y
  OBVIOUS
<1> QED BY ONLY <1>1, <1>2

LEMMA NamedIs ==
  ASSUME NEW t, NEW u, NEW x, NEW y, NEW z,
         t = [next |-> t.next, names |-> t.names, meta |-> t.meta, storage |-> t.storage, size |-> t.size],
         u = [t EXCEPT !.next = x, !.names = y, !.meta = z]
  PROVE  u = [next |-> x, names |-> y, meta |-> z, storage |-> t.storage, size |-> t.size]
<1>1. u = [k \in DOMAIN t |-> u[k]] /\ DOMAIN t = {"next", "names", "meta", "storage", "size"}
  OBVIOUS
<1>2. u.next = x /\ u.names = y /\ u.meta = z /\ u.storage = t.storage /\ u.size = t.size
  OBVIOUS
<1> QED BY ONLY <1>1, <1>2

LEMMA StoredIs ==
  ASSUME NEW n \in Nat, NEW t, TablesTyped(t, n), NEW s \in 0 .. n - 1, NEW h, NEW bytes,
         NEW u, u = Stored(t, s, h, bytes)
  PROVE  /\ TablesTyped(u, n)
         /\ u.next = t.next /\ u.names = t.names /\ u.meta = t.meta /\ u.size = Put(t.size, h, bytes)
         /\ u.storage[s] = AddFile(t.storage[s], h, bytes)
         /\ \A x \in 0 .. n - 1 : x # s => u.storage[x] = t.storage[x]
<1> DEFINE new == [t.storage EXCEPT ![s] = AddFile(@, h, bytes)]
<1>1. u = [next |-> t.next, names |-> t.names, meta |-> t.meta, storage |-> new, size |-> Put(t.size, h, bytes)]
  <2>1. u = [t EXCEPT !.storage = new, !.size = Put(@, h, bytes)]
    BY DEF Stored
  <2>2. t = [next |-> t.next, names |-> t.names, meta |-> t.meta, storage |-> t.storage, size |-> t.size]
    BY DEF TablesTyped
  <2> HIDE DEF new
  <2>3. u = [t EXCEPT !.storage = new, !.size = Put(t.size, h, bytes)]
    BY ONLY <2>1, <2>2
  <2> QED BY ONLY <2>2, <2>3, RecordIs
<1>2. u.storage = [x \in 0 .. n - 1 |-> IF x = s THEN AddFile(t.storage[s], h, bytes) ELSE t.storage[x]]
  <2>1. t.storage = [x \in 0 .. n - 1 |-> t.storage[x]]
    BY DEF TablesTyped
  <2>2. new = [x \in 0 .. n - 1 |-> IF x = s THEN AddFile(t.storage[s], h, bytes) ELSE t.storage[x]]
    BY ONLY <2>1
  <2> HIDE DEF new
  <2> QED BY ONLY <1>1, <2>2
<1> HIDE DEF new
<1>3. TablesTyped(u, n)
  <2>1. u.next \in [0 .. n - 1 -> Nat]
    BY <1>1 DEF TablesTyped
  <2> QED BY ONLY <1>1, <1>2, <2>1 DEF TablesTyped
<1> QED BY ONLY <1>1, <1>2, <1>3, s \in 0 .. n - 1

LEMMA FirstNat == HandleSpan \in Nat \ {0} /\ \A s \in Nat : First(s) \in Nat
  BY BuilderAssumption DEF First

LEMMA NextNat ==
  ASSUME NEW n \in Nat, NEW t, TablesTyped(t, n)
  PROVE  /\ DOMAIN t.next = 0 .. n - 1
         /\ \A s \in 0 .. n - 1 : s \in Nat /\ t.next[s] \in Nat /\ First(s) \in Nat
<1>1. t.next \in [0 .. n - 1 -> Nat]
  BY DEF TablesTyped
<1> QED BY ONLY <1>1, FirstNat, n \in Nat

\* The owner of a handle in the range of a server.
LEMMA OwnerIs ==
  ASSUME NEW s \in Nat, NEW h \in First(s) .. First(s) + HandleSpan - 1
  PROVE  h \in Nat /\ Owner(h) = s
<1>1. HandleSpan \in Nat \ {0} /\ First(s) \in Nat
  BY FirstNat
<1>2. PICK r \in 0 .. HandleSpan - 1 : h = First(s) + r
  <2>1. h - First(s) \in 0 .. HandleSpan - 1 /\ h = First(s) + (h - First(s))
    BY <1>1
  <2> QED BY <2>1
<1>3. (s * HandleSpan + r) \div HandleSpan = s
  <2>1. s \in Int /\ r \in 0 .. HandleSpan - 1
    OBVIOUS
  <2> QED BY ONLY <1>1, <2>1, DivModUnique
<1>4. Owner(h) = s
  BY ONLY <1>2, <1>3 DEF Owner, First
<1> QED BY <1>1, <1>4

\* As long as the ranges last a server's next handles are new.
LEMMA NewHandles ==
  ASSUME NEW n \in Nat, NEW t, TablesTyped(t, n), ServersOK(t, n), InRanges(t), NEW s \in 0 .. n - 1,
         NEW h \in t.next[s] .. First(s) + HandleSpan - 1
  PROVE  h \in Nat /\ Owner(h) = s /\ \A x \in 0 .. n - 1 : h \notin StoredIn(t, x)
<1>1. /\ t.next[s] \in Nat /\ First(s) \in Nat /\ First(s) <= t.next[s]
      /\ HandleSpan \in Nat /\ s \in Nat
  BY NextNat, FirstNat DEF ServersOK
<1>2. h \in First(s) .. First(s) + HandleSpan - 1
  BY <1>1
<1>3. h \in Nat /\ Owner(h) = s
  BY <1>1, <1>2, OwnerIs
<1>4. ASSUME NEW x \in 0 .. n - 1, h \in StoredIn(t, x) PROVE FALSE
  <2>1. h \in First(x) .. t.next[x] - 1
    BY <1>4 DEF ServersOK
  <2>2. t.next[x] <= First(x) + HandleSpan /\ t.next[x] \in Nat /\ First(x) \in Nat /\ x \in Nat
    BY NextNat DEF InRanges
  <2>3. h \in First(x) .. First(x) + HandleSpan - 1
    BY <1>1, <2>1, <2>2
  <2>4. Owner(h) = x
    BY <2>2, <2>3, OwnerIs
  <2> QED BY <1>1, <1>3, <2>1, <2>4
<1> QED BY <1>3, <1>4

\* A path gets an object: a metadata handle and data handles that are new.
NewObject(t, u, n, p, h, d) ==
  /\ p # <<>> => Front(p) \in DOMAIN t.names
  /\ h \notin AllStored(t, n) /\ h \notin Range(d) /\ Range(d) \cap AllStored(t, n) = {}
  /\ \A i, j \in DOMAIN d : d[i] = d[j] => i = j
  /\ u.names = Put(t.names, p, h) /\ u.meta = Put(t.meta, h, d)
  /\ AllStored(u, n) = AllStored(t, n) \union {h} \union Range(d)

LEMMA ObjectAdded ==
  ASSUME NEW n \in Nat, NEW t, ObjectsOK(t, n), NEW u, NEW p, NEW h, NEW d, NewObject(t, u, n, p, h, d)
  PROVE  ObjectsOK(u, n) /\ DOMAIN u.names = DOMAIN t.names \union {p}
<1> USE DEF NewObject
<1>1. /\ DOMAIN u.names = DOMAIN t.names \union {p} /\ u.names[p] = h
      /\ \A q \in DOMAIN t.names : q # p => u.names[q] = t.names[q]
  BY DEF Put
<1>2. h \notin DOMAIN t.meta /\ Range(d) \cap DOMAIN t.meta = {} /\ AllStored(t, n) = DOMAIN t.meta \union DataOf(t)
  BY DEF ObjectsOK
<1>3. /\ DOMAIN u.meta = DOMAIN t.meta \union {h} /\ u.meta[h] = d
      /\ \A g \in DOMAIN t.meta : u.meta[g] = t.meta[g]
  BY <1>2 DEF Put
<1>4. DataOf(u) = DataOf(t) \union Range(d)
  BY <1>3 DEF DataOf
<1>5. \A q \in DOMAIN u.names : u.names[q] \in DOMAIN u.meta /\ (q # <<>> => Front(q) \in DOMAIN u.names)
  BY <1>1, <1>3 DEF ObjectsOK
<1>6. ASSUME NEW q \in DOMAIN u.names, NEW r \in DOMAIN u.names, u.names[q] = u.names[r] PROVE q = r
  <2>1. \A x \in DOMAIN t.names : t.names[x] # h
    BY <1>2 DEF ObjectsOK
  <2> QED BY <1>1, <1>6, <2>1 DEF ObjectsOK
<1>7. DataOf(u) \cap DOMAIN u.meta = {}
  BY <1>2, <1>3, <1>4 DEF ObjectsOK
<1>8. ASSUME NEW g \in DOMAIN u.meta, NEW k \in DOMAIN u.meta, NEW i \in DOMAIN u.meta[g],
             NEW j \in DOMAIN u.meta[k], u.meta[g][i] = u.meta[k][j]
      PROVE  g = k /\ i = j
  <2>1. \A x \in DOMAIN t.meta : \A y \in DOMAIN t.meta[x] : t.meta[x][y] \in DataOf(t)
    BY DEF DataOf, Range
  <2>2. \A y \in DOMAIN d : d[y] \in Range(d) /\ d[y] \notin DataOf(t)
    BY <1>2 DEF Range
  <2>3. CASE g = h /\ k = h
    BY <1>3, <1>8, <2>3
  <2>4. CASE g = h /\ k # h
    BY <1>3, <1>8, <2>1, <2>2, <2>4
  <2>5. CASE g # h /\ k = h
    BY <1>3, <1>8, <2>1, <2>2, <2>5
  <2>6. CASE g # h /\ k # h
    BY <1>3, <1>8, <2>6 DEF ObjectsOK
  <2> QED BY <2>3, <2>4, <2>5, <2>6
<1>9. AllStored(u, n) = DOMAIN u.meta \union DataOf(u)
  BY <1>2, <1>3, <1>4
<1> QED BY <1>1, <1>5, <1>6, <1>7, <1>8, <1>9 DEF ObjectsOK

\* What the server that stores a new object has then.
StoresOn(t, n, s, h, u) ==
  /\ \A x \in 0 .. n - 1 : LayoutOK(u.storage[x], u.size)
  /\ StoredIn(u, s) = StoredIn(t, s) \union {h}
  /\ \A x \in 0 .. n - 1 : x # s => StoredIn(u, x) = StoredIn(t, x)
LEMMA ServerStores ==
  ASSUME NEW n \in Nat, NEW t, TablesTyped(t, n), NEW s \in 0 .. n - 1, NEW h, NEW bytes \in Nat,
         \A x \in 0 .. n - 1 : LayoutOK(t.storage[x], t.size) /\ h \notin StoredIn(t, x),
         NEW u, u = Stored(t, s, h, bytes)
  PROVE  StoresOn(t, n, s, h, u)
<1>1. /\ u.size = Put(t.size, h, bytes)
      /\ u.storage[s] = AddFile(t.storage[s], h, bytes)
      /\ \A x \in 0 .. n - 1 : x # s => u.storage[x] = t.storage[x]
  BY StoredIs
<1>2. h \in DOMAIN u.size /\ u.size[h] = bytes
  BY <1>1 DEF Put
<1>3. ASSUME NEW x \in 0 .. n - 1, NEW g \in StoredIn(t, x)
      PROVE  g \in DOMAIN u.size /\ u.size[g] = t.size[g]
  <2>1. g # h /\ g \in DOMAIN t.size
    BY DEF LayoutOK, StoredIn
  <2> QED BY <1>1, <2>1 DEF Put
<1>4. /\ LayoutOK(AddFile(t.storage[s], h, bytes), u.size)
      /\ DOMAIN AddFile(t.storage[s], h, bytes).dataBlocks = StoredIn(t, s) \union {h}
  <2>1. \A g \in DOMAIN t.storage[s].dataBlocks : g \in DOMAIN u.size /\ u.size[g] = t.size[g]
    BY <1>3 DEF StoredIn
  <2>2. h \notin DOMAIN t.storage[s].dataBlocks /\ LayoutOK(t.storage[s], t.size)
    BY DEF StoredIn
  <2> QED BY <1>2, <2>1, <2>2, FileAdded DEF StoredIn
<1>5. ASSUME NEW x \in 0 .. n - 1, x # s PROVE LayoutOK(u.storage[x], u.size) /\ StoredIn(u, x) = StoredIn(t, x)
  <2>1. u.storage[x] = t.storage[x]
    BY <1>1, <1>5
  <2>2. \A g \in DOMAIN t.storage[x].dataBlocks : g \in DOMAIN u.size /\ u.size[g] = t.size[g]
    BY <1>3 DEF StoredIn
  <2>3. LayoutOK(t.storage[x], u.size)
    BY <2>2 DEF LayoutOK
  <2> QED BY <2>1, <2>3 DEF StoredIn
<1>6. LayoutOK(u.storage[s], u.size) /\ StoredIn(u, s) = StoredIn(t, s) \union {h}
  BY <1>1, <1>4 DEF StoredIn
<1> QED BY <1>5, <1>6 DEF StoresOn

\* The tables on the way of a new directory.
MakesDirectory(t, path, s, h, v, w, u) ==
  /\ h = t.next[s]
  /\ v = Stored(t, s, h, MetaDataSize)
  /\ w = Stored(v, s, h + 1, DirectorySize)
  /\ u = AddDirectory(t, path, s)

DirectoryMade(t, n, path, s, h, v, w, u) ==
  /\ TablesTyped(u, n) /\ TablesTyped(v, n)
  /\ u.next = [t.next EXCEPT ![s] = @ + 2]
  /\ u.names = Put(t.names, path, h) /\ u.meta = Put(t.meta, h, <<h + 1>>)
  /\ u.storage = w.storage /\ u.size = w.size

LEMMA DirectoryIs ==
  ASSUME NEW n \in Nat, NEW t, TablesTyped(t, n), NEW s \in 0 .. n - 1, NEW path,
         NEW h, NEW v, NEW w, NEW u, MakesDirectory(t, path, s, h, v, w, u)
  PROVE  DirectoryMade(t, n, path, s, h, v, w, u)
<1> USE DEF MakesDirectory
<1>1. TablesTyped(v, n) /\ v.next = t.next /\ v.names = t.names /\ v.meta = t.meta
  BY StoredIs
<1>2. TablesTyped(w, n) /\ w.next = t.next /\ w.names = t.names /\ w.meta = t.meta
  BY <1>1, StoredIs
<1>3. u = [w EXCEPT !.next[s] = @ + 2, !.names = Put(@, path, h), !.meta = Put(@, h, <<h + 1>>)]
  BY DEF AddDirectory
<1>4. u = [next |-> [t.next EXCEPT ![s] = @ + 2], names |-> Put(t.names, path, h),
           meta |-> Put(t.meta, h, <<h + 1>>), storage |-> w.storage, size |-> w.size]
  <2> DEFINE x == [t.next EXCEPT ![s] = @ + 2]
             y == Put(t.names, path, h)
             z == Put(t.meta, h, <<h + 1>>)
  <2>1. w = [next |-> w.next, names |-> w.names, meta |-> w.meta, storage |-> w.storage, size |-> w.size]
    BY <1>2 DEF TablesTyped
  <2>2. u = [w EXCEPT !.next = x, !.names = y, !.meta = z]
    BY ONLY <1>2, <1>3, <2>1
  <2> HIDE DEF x, y, z
  <2>3. u = [next |-> x, names |-> y, meta |-> z, storage |-> w.storage, size |-> w.size]
    BY ONLY <2>1, <2>2, NamedIs
  <2> QED BY <2>3 DEF x, y, z
<1>5. [t.next EXCEPT ![s] = @ + 2] \in [0 .. n - 1 -> Nat]
  BY DEF TablesTyped
<1>6. TablesTyped(u, n)
  BY <1>2, <1>4, <1>5 DEF TablesTyped
<1> QED BY ONLY <1>1, <1>4, <1>6 DEF DirectoryMade

LEMMA DirectoryKeeps ==
  ASSUME NEW n \in Nat, NEW t, TablesInv(t, n), NEW s \in 0 .. n - 1, NEW path,
         path # <<>> => Front(path) \in DOMAIN t.names,
         NEW u, u = AddDirectory(t, path, s), InRanges(u)
  PROVE  TablesInv(u, n) /\ DOMAIN u.names = DOMAIN t.names \union {path}
<1>1. PICK h, v, w : MakesDirectory(t, path, s, h, v, w, u)
  BY DEF MakesDirectory
<1>0. /\ TablesTyped(u, n) /\ TablesTyped(v, n) /\ h \in Nat
      /\ u.next = [t.next EXCEPT ![s] = @ + 2] /\ t.next \in [0 .. n - 1 -> Nat]
      /\ u.names = Put(t.names, path, h) /\ u.meta = Put(t.meta, h, <<h + 1>>)
      /\ u.storage = w.storage /\ u.size = w.size
  <2>1. TablesTyped(t, n)
    BY DEF TablesInv
  <2>2. t.next \in [0 .. n - 1 -> Nat] /\ h \in Nat
    BY <1>1, <2>1 DEF TablesTyped, MakesDirectory
  <2>3. DirectoryMade(t, n, path, s, h, v, w, u)
    BY ONLY <1>1, <2>1, DirectoryIs, n \in Nat, s \in 0 .. n - 1, Zenon
  <2> QED BY ONLY <2>2, <2>3 DEF DirectoryMade
<1>2. /\ MetaDataSize \in Nat /\ DirectorySize \in Nat /\ HandleSpan \in Nat
      /\ First(s) \in Nat /\ s \in Nat
  BY BuilderAssumption, FirstNat
<1>3. h = t.next[s] /\ u.next[s] = h + 2 /\ \A x \in 0 .. n - 1 : x # s => u.next[x] = t.next[x]
  BY <1>0, <1>1 DEF MakesDirectory
<1>4. InRanges(t)
  <2>1. InRanges(u) /\ DOMAIN u.next = 0 .. n - 1 /\ DOMAIN t.next = 0 .. n - 1
    BY <1>0
  <2>2. ASSUME NEW x \in 0 .. n - 1 PROVE t.next[x] <= First(x) + HandleSpan
    <3>1. u.next[x] <= First(x) + HandleSpan
      BY <2>1 DEF InRanges
    <3>2. First(x) \in Nat /\ t.next[x] \in Nat
      BY NextNat DEF TablesInv
    <3> QED BY <1>2, <1>3, <3>1, <3>2
  <2> QED BY <2>1, <2>2 DEF InRanges
<1>5. \A g \in {h, h + 1} : g \in Nat /\ \A x \in 0 .. n - 1 : g \notin StoredIn(t, x)
  <2>1. h + 2 <= First(s) + HandleSpan
    BY <1>0, <1>3 DEF InRanges
  <2>2. \A g \in {h, h + 1} : g \in t.next[s] .. First(s) + HandleSpan - 1
    <3>1. h \in h .. First(s) + HandleSpan - 1 /\ h + 1 \in h .. First(s) + HandleSpan - 1
      BY <1>0, <1>2, <2>1
    <3> QED BY <1>3, <3>1
  <2> QED BY <1>4, <2>2, NewHandles DEF TablesInv
<1>6. \A x \in 0 .. n - 1 : LayoutOK(t.storage[x], t.size)
  BY DEF TablesInv, ServersOK
<1>7. /\ \A x \in 0 .. n - 1 : LayoutOK(v.storage[x], v.size)
      /\ StoredIn(v, s) = StoredIn(t, s) \union {h}
      /\ \A x \in 0 .. n - 1 : x # s => StoredIn(v, x) = StoredIn(t, x)
  <2>1. TablesTyped(t, n) /\ h \in {h, h + 1}
    BY DEF TablesInv
  <2>2. \A x \in 0 .. n - 1 : LayoutOK(t.storage[x], t.size) /\ h \notin StoredIn(t, x)
    BY <1>5, <1>6, <2>1
  <2>3. v = Stored(t, s, h, MetaDataSize)
    BY <1>1 DEF MakesDirectory
  <2> QED BY ONLY <1>2, <2>1, <2>2, <2>3, ServerStores, n \in Nat, s \in 0 .. n - 1 DEF StoresOn
<1>8. \A x \in 0 .. n - 1 : h + 1 \notin StoredIn(v, x)
  <2>1. h + 1 # h /\ h + 1 \in {h, h + 1}
    BY <1>0
  <2> QED BY <1>5, <1>7, <2>1
<1>9. /\ \A x \in 0 .. n - 1 : LayoutOK(w.storage[x], w.size)
      /\ StoredIn(w, s) = StoredIn(v, s) \union {h + 1}
      /\ \A x \in 0 .. n - 1 : x # s => StoredIn(w, x) = StoredIn(v, x)
  <2>1. h + 1 \in Nat
    BY <1>0
  <2>2. w = Stored(v, s, h + 1, DirectorySize)
    BY <1>1 DEF MakesDirectory
  <2>3. \A x \in 0 .. n - 1 : LayoutOK(v.storage[x], v.size) /\ h + 1 \notin StoredIn(v, x)
    BY <1>7, <1>8
  <2>4. TablesTyped(v, n)
    BY <1>0
  <2> QED BY ONLY <1>2, <2>1, <2>2, <2>3, <2>4, ServerStores, n \in Nat, s \in 0 .. n - 1 DEF StoresOn
<1>10. /\ StoredIn(u, s) = StoredIn(t, s) \union {h, h + 1}
       /\ \A x \in 0 .. n - 1 : x # s => StoredIn(u, x) = StoredIn(t, x)
  BY <1>0, <1>7, <1>9 DEF StoredIn
<1>11. ServersOK(u, n)
  <2> SUFFICES ASSUME NEW x \in 0 .. n - 1
               PROVE  /\ LayoutOK(u.storage[x], u.size) /\ First(x) <= u.next[x]
                      /\ \A g \in StoredIn(u, x) : g \in First(x) .. u.next[x] - 1
    BY DEF ServersOK
  <2>1. LayoutOK(u.storage[x], u.size)
    BY <1>0, <1>9
  <2>2. /\ First(x) \in Nat /\ t.next[x] \in Nat /\ First(x) <= t.next[x]
        /\ \A g \in StoredIn(t, x) : g \in First(x) .. t.next[x] - 1
    BY NextNat DEF TablesInv, ServersOK
  <2>3. CASE x = s
    <3>1. u.next[x] = h + 2 /\ StoredIn(u, x) = StoredIn(t, x) \union {h, h + 1} /\ h = t.next[x]
      BY <1>1, <1>3, <1>10, <2>3
    <3>2. \A g \in {h, h + 1} : g \in First(x) .. u.next[x] - 1
      BY <2>2, <3>1
    <3>3. \A g \in StoredIn(t, x) : g \in First(x) .. u.next[x] - 1
      BY <2>2, <3>1
    <3>4. First(x) <= u.next[x]
      BY <2>2, <3>1
    <3> QED BY <2>1, <3>1, <3>2, <3>3, <3>4
  <2>4. CASE x # s
    BY <1>3, <1>10, <2>1, <2>2, <2>4
  <2> QED BY <2>3, <2>4
<1>12. ObjectsOK(u, n) /\ DOMAIN u.names = DOMAIN t.names \union {path}
  <2> DEFINE d == <<h + 1>>
  <2>1. Range(d) = {h + 1} /\ DOMAIN d = {1}
    BY DEF Range
  <2>2. AllStored(u, n) = AllStored(t, n) \union {h} \union Range(d)
    BY <1>10, <2>1 DEF AllStored
  <2>3. h \notin AllStored(t, n) /\ h \notin Range(d) /\ Range(d) \cap AllStored(t, n) = {}
    <3>1. h # h + 1
      BY <1>0
    <3> HIDE DEF d
    <3> QED BY <1>5, <2>1, <3>1 DEF AllStored
  <2>4. u.names = Put(t.names, path, h) /\ u.meta = Put(t.meta, h, d) /\ ObjectsOK(t, n)
    BY <1>0 DEF TablesInv
  <2>5. \A i, j \in DOMAIN d : d[i] = d[j] => i = j
    BY <2>1
  <2> HIDE DEF d
  <2>6. NewObject(t, u, n, path, h, d)
    BY <2>2, <2>3, <2>4, <2>5 DEF NewObject
  <2>7. ObjectsOK(t, n)
    BY <2>4
  <2>8. ObjectsOK(u, n) /\ DOMAIN u.names = DOMAIN t.names \union {path}
    BY ONLY <2>6, <2>7, ObjectAdded, n \in Nat
  <2> QED BY ONLY <2>8
<1> QED BY <1>0, <1>11, <1>12 DEF TablesInv

\* Paths: the whole path is its longest prefix, and the parent of a prefix is
\* the prefix that is shorter by one segment.
LEMMA PrefixIs ==
  ASSUME NEW S, NEW path \in Seq(S), NEW j \in 1 .. Len(path)
  PROVE  /\ Len(SubSeq(path, 1, j)) = j
         /\ Front(SubSeq(path, 1, j)) = SubSeq(path, 1, j - 1)
<1>1. Len(path) \in Nat /\ j \in Nat /\ \A i \in 1 .. j : path[i] \in S
  OBVIOUS
<1>2. Len(SubSeq(path, 1, j)) = j
  <2>1. Len(SubSeq(path, 1, j)) = IF 1 <= j THEN j - 1 + 1 ELSE 0
    BY ONLY <1>1, 1 \in Int, j \in Int, SubSeqProperties
  <2> QED BY <1>1, <2>1
<1>3. Front(SubSeq(path, 1, j)) = SubSeq(SubSeq(path, 1, j), 1, j - 1)
  BY <1>2 DEF Front
<1>4. CASE j = 1
  <2>1. SubSeq(SubSeq(path, 1, j), 1, 0) = <<>> /\ SubSeq(path, 1, 0) = <<>>
    BY SubSeqEmpty
  <2> QED BY <1>2, <1>3, <1>4, <2>1
<1>5. CASE j # 1
  <2>1. 1 \in 1 .. Len(path) /\ 1 \in 1 .. j - 1 + 1 /\ j - 1 \in 1 .. j - 1 + 1
    BY <1>1, <1>5
  <2>2. SubSeq(SubSeq(path, 1, j), 1, j - 1) = SubSeq(path, 1 + 1 - 1, 1 + (j - 1) - 1)
    BY ONLY <2>1, j \in 1 .. Len(path), path \in Seq(S), SubSeqOfSubSeq
  <2>3. 1 + 1 - 1 = 1 /\ 1 + (j - 1) - 1 = j - 1
    BY <1>1
  <2> QED BY ONLY <1>2, <1>3, <2>2, <2>3
<1> QED BY <1>4, <1>5

\* The missing directories are the prefixes that follow one that exists.
MissingFrom(t, path, q, k) ==
  /\ k \in 0 .. Len(path) + 1
  /\ DOMAIN q = 1 .. Len(path) + 1 - k
  /\ \A i \in DOMAIN q : q[i] = SubSeq(path, 1, k + i - 1)
  /\ k # 0 => SubSeq(path, 1, k - 1) \in DOMAIN t.names

LEMMA MissingIs ==
  ASSUME NEW t, NEW S, NEW path \in Seq(S)
  PROVE  \E k : MissingFrom(t, path, MissingDirectories(t, path), k)
<1> DEFINE lengths == {x \in 0 .. Len(path) : \A m \in x .. Len(path) : SubSeq(path, 1, m) \notin DOMAIN t.names}
           shortest == CHOOSE x \in lengths : \A m \in lengths : x <= m
           q == MissingDirectories(t, path)
<1>1. q = IF lengths = {} THEN <<>>
          ELSE [i \in 1 .. Len(path) - shortest + 1 |-> SubSeq(path, 1, shortest + i - 1)]
  BY DEF MissingDirectories
<1>2. Len(path) \in Nat /\ lengths \in SUBSET Nat
  OBVIOUS
<1> HIDE DEF q
<1>3. CASE lengths = {}
  <2>1. Len(path) \in 0 .. Len(path) /\ Len(path) \notin lengths
    BY <1>2, <1>3
  <2>2. SubSeq(path, 1, Len(path)) \in DOMAIN t.names
    <3>1. \A m \in Len(path) .. Len(path) : m = Len(path)
      BY <1>2
    <3> QED BY <2>1, <3>1
  <2> HIDE DEF lengths
  <2>3. q = <<>> /\ DOMAIN q = 1 .. Len(path) + 1 - (Len(path) + 1)
    BY <1>1, <1>2, <1>3
  <2>4. Len(path) + 1 \in 0 .. Len(path) + 1 /\ Len(path) + 1 - 1 = Len(path)
    BY <1>2
  <2>5. \A i \in DOMAIN q : FALSE
    BY <2>3
  <2>6. MissingFrom(t, path, q, Len(path) + 1)
    BY ONLY <2>2, <2>3, <2>4, <2>5 DEF MissingFrom
  <2> QED BY <2>6 DEF q
<1>4. CASE lengths # {}
  <2>1. shortest \in lengths /\ \A m \in lengths : shortest <= m
    <3> HIDE DEF lengths
    <3>1. \E x \in lengths : \A m \in lengths : x <= m
      BY <1>2, <1>4, LeastNat
    <3> QED BY <3>1
  <2> HIDE DEF shortest
  <2>2. shortest \in 0 .. Len(path) /\ \A m \in shortest .. Len(path) : SubSeq(path, 1, m) \notin DOMAIN t.names
    BY <2>1
  <2>3. ASSUME shortest # 0 PROVE SubSeq(path, 1, shortest - 1) \in DOMAIN t.names
    <3>1. shortest - 1 \in 0 .. Len(path) /\ ~(shortest <= shortest - 1)
      BY <1>2, <2>2, <2>3
    <3>2. shortest - 1 \notin lengths
      BY <2>1, <3>1
    <3>3. PICK m \in shortest - 1 .. Len(path) : SubSeq(path, 1, m) \in DOMAIN t.names
      BY <3>1, <3>2
    <3>4. m = shortest - 1 \/ m \in shortest .. Len(path)
      BY <1>2, <2>2, <3>3
    <3> QED BY <2>2, <3>3, <3>4
  <2> HIDE DEF lengths
  <2>4. q = [i \in 1 .. Len(path) - shortest + 1 |-> SubSeq(path, 1, shortest + i - 1)]
    BY <1>1, <1>4
  <2>5. Len(path) - shortest + 1 = Len(path) + 1 - shortest /\ shortest \in 0 .. Len(path) + 1
    BY <1>2, <2>2
  <2>6. MissingFrom(t, path, q, shortest)
    BY ONLY <2>3, <2>4, <2>5 DEF MissingFrom
  <2> QED BY <2>6 DEF q
<1> QED BY <1>3, <1>4

\* What is folded over a sequence is the last state of a run.
Folded(a, base, n, q) == CHOOSE f : Folds(f, a, base, n, q)
LEMMA FoldedRuns ==
  ASSUME NEW a, NEW base, NEW n \in Nat, NEW q
  PROVE  \E g : Runs(g, a, base, n, q) /\ g[n] = Folded(a, base, n, q)[1 .. n]
<1>1. Folds(Folded(a, base, n, q), a, base, n, q)
  <2>1. \E f : Folds(f, a, base, n, q)
    BY LoopEnds
  <2> QED BY <2>1 DEF Folded
<1> QED BY <1>1, FoldRuns

DirectoryLoop(path, s) == [loop |-> "directories", server |-> s, path |-> path]
LEMMA DirectoriesRun ==
  ASSUME NEW t, NEW path, NEW s, NEW n \in Nat, DOMAIN MissingDirectories(t, path) = 1 .. n
  PROVE  \E g : /\ Runs(g, DirectoryLoop(path, s), t, n, MissingDirectories(t, path))
                /\ g[n] = WithDirectory(t, path, s)
<1> DEFINE q == MissingDirectories(t, path)
           a == DirectoryLoop(path, s)
           Rec(f) == f = [x \in SUBSET (DOMAIN q) |->
                            IF x = {} THEN t
                            ELSE AddDirectory(f[x \ {Max(x)}], q[Max(x)],
                                              NextMeta(s, Len(path) - Len(q[Max(x)])))]
           F == CHOOSE f : Rec(f)
<1>1. WithDirectory(t, path, s) = F[DOMAIN q]
  BY DEF WithDirectory, FoldLeft, MapThenFoldSet
<1>2. \A b, k : Do(a, b, k) = AddDirectory(b, k, NextMeta(s, Len(path) - Len(k)))
  BY DEF Do, DirectoryLoop
<1>3. DOMAIN q = 1 .. n
  OBVIOUS
<1> HIDE DEF a, q
<1>4. \A f : Rec(f) <=> Folds(f, a, t, n, q)
  BY <1>2, <1>3 DEF Folds
<1> HIDE DEF Rec
<1>5. F = Folded(a, t, n, q)
  BY ONLY <1>4 DEF Folded
<1> HIDE DEF F
<1>6. \E g : Runs(g, a, t, n, q) /\ g[n] = F[1 .. n]
  BY <1>5, FoldedRuns
<1> QED BY <1>1, <1>3, <1>6 DEF a, q

\* The metadata servers are some of the servers.
MetaOK(n) == metaServers \in Seq(0 .. n - 1) /\ metaServers # <<>> /\ Len(metaServers) <= n

LEMMA NextMetaIs ==
  ASSUME NEW n \in Nat, MetaOK(n), NEW s \in 0 .. n - 1, NEW k \in Nat
  PROVE  NextMeta(s, k) \in 0 .. n - 1
<1>1. Len(metaServers) \in Nat \ {0} /\ Len(metaServers) <= n
  BY DEF MetaOK
<1>2. s + k \in Nat
  OBVIOUS
<1>3. (s + k) % Len(metaServers) \in 0 .. Len(metaServers) - 1
  BY ONLY <1>1, <1>2, DivModSum
<1> QED BY <1>1, <1>3 DEF NextMeta

\* The directories of a path are made one after another, each on some server.
DirectorySteps(g, m, k, t, n, path, u) ==
  /\ g[0] = t /\ g[m] = u
  /\ k \in 0 .. Len(path) + 1 /\ m = Len(path) + 1 - k
  /\ k # 0 => SubSeq(path, 1, k - 1) \in DOMAIN t.names
  /\ \A i \in 1 .. m : \E x \in 0 .. n - 1 : g[i] = AddDirectory(g[i - 1], SubSeq(path, 1, k + i - 1), x)

LEMMA DirectoriesInSteps ==
  ASSUME NEW n \in Nat, MetaOK(n), NEW t, NEW S, NEW path \in Seq(S), NEW s \in 0 .. n - 1
  PROVE  \E g, m, k : DirectorySteps(g, m, k, t, n, path, WithDirectory(t, path, s))
<1> DEFINE q == MissingDirectories(t, path)
           a == DirectoryLoop(path, s)
<1>1. PICK k : MissingFrom(t, path, q, k)
  BY MissingIs
<1> DEFINE m == Len(path) + 1 - k
<1>2. /\ Len(path) \in Nat /\ k \in 0 .. Len(path) + 1 /\ m \in Nat /\ DOMAIN q = 1 .. m
      /\ \A i \in 1 .. m : q[i] = SubSeq(path, 1, k + i - 1)
      /\ k # 0 => SubSeq(path, 1, k - 1) \in DOMAIN t.names
  <2>1. Len(path) \in Nat
    OBVIOUS
  <2> HIDE DEF q
  <2> QED BY <1>1, <2>1 DEF MissingFrom
<1>3. PICK g : Runs(g, a, t, m, q) /\ g[m] = WithDirectory(t, path, s)
  <2> HIDE DEF m
  <2> QED BY ONLY <1>2, DirectoriesRun
<1>4. ASSUME NEW i \in 1 .. m
      PROVE  \E x \in 0 .. n - 1 : g[i] = AddDirectory(g[i - 1], SubSeq(path, 1, k + i - 1), x)
  <2> DEFINE c == SubSeq(path, 1, k + i - 1)
  <2>1. g[i] = Do(a, g[i - 1], c)
    <3> HIDE DEF m, a, q
    <3> QED BY <1>2, <1>3 DEF Runs
  <2>2. g[i] = AddDirectory(g[i - 1], c, NextMeta(s, Len(path) - Len(c)))
    <3> HIDE DEF c
    <3> QED BY <2>1 DEF Do, DirectoryLoop
  <2>3. Len(path) - Len(c) \in Nat
    <3>1. CASE k + i - 1 = 0
      <4>1. c = <<>>
        BY <3>1, SubSeqEmpty
      <4>2. Len(c) = 0
        <5> HIDE DEF c
        <5> QED BY <4>1
      <4> HIDE DEF c
      <4> QED BY <1>2, <4>2
    <3>2. CASE k + i - 1 # 0
      <4>1. k + i - 1 \in 1 .. Len(path)
        BY <1>2, <3>2
      <4>2. \A j \in 1 .. Len(path) : Len(SubSeq(path, 1, j)) = j
        BY PrefixIs
      <4>3. Len(c) = k + i - 1
        BY ONLY <4>1, <4>2 DEF c
      <4> HIDE DEF c
      <4> QED BY <1>2, <4>1, <4>3
    <3> QED BY <3>1, <3>2
  <2>4. NextMeta(s, Len(path) - Len(c)) \in 0 .. n - 1
    <3> HIDE DEF c
    <3> QED BY <2>3, NextMetaIs
  <2> QED BY <2>2, <2>4
<1>5. g[0] = t
  BY <1>3 DEF Runs
<1>6. DirectorySteps(g, m, k, t, n, path, WithDirectory(t, path, s))
  <2> HIDE DEF q, a
  <2> QED BY ONLY <1>2, <1>3, <1>4, <1>5 DEF DirectorySteps
<1> QED BY <1>6

LEMMA OneDirectoryTyped ==
  ASSUME NEW n \in Nat, NEW t, TablesTyped(t, n), NEW s \in 0 .. n - 1, NEW path, NEW u,
         u = AddDirectory(t, path, s)
  PROVE  TablesTyped(u, n) /\ (InRanges(u) => InRanges(t))
<1>1. PICK h, v, w : MakesDirectory(t, path, s, h, v, w, u)
  BY DEF MakesDirectory
<1>2. DirectoryMade(t, n, path, s, h, v, w, u)
  BY ONLY <1>1, TablesTyped(t, n), DirectoryIs, n \in Nat, s \in 0 .. n - 1, Zenon
<1>3. TablesTyped(u, n) /\ u.next = [t.next EXCEPT ![s] = @ + 2]
  BY ONLY <1>2 DEF DirectoryMade
<1>4. DOMAIN t.next = 0 .. n - 1 /\ \A x \in 0 .. n - 1 : t.next[x] \in Nat /\ First(x) \in Nat
  BY NextNat
<1>5. ASSUME InRanges(u), NEW x \in 0 .. n - 1 PROVE t.next[x] <= First(x) + HandleSpan
  <2>1. u.next[x] <= First(x) + HandleSpan /\ (u.next[x] = t.next[x] \/ u.next[x] = t.next[x] + 2)
    <3>1. x \in DOMAIN u.next /\ (u.next[x] = t.next[x] \/ u.next[x] = t.next[x] + 2)
      BY <1>3, <1>4
    <3> QED BY <1>5, <3>1 DEF InRanges
  <2>2. HandleSpan \in Nat
    BY FirstNat
  <2> QED BY <1>4, <2>1, <2>2
<1> QED BY <1>3, <1>4, <1>5 DEF InRanges

LEMMA DirectoriesTyped ==
  ASSUME NEW n \in Nat, NEW t, TablesTyped(t, n), NEW S, NEW path \in Seq(S), NEW u, NEW g, NEW m, NEW k,
         DirectorySteps(g, m, k, t, n, path, u)
  PROVE  m \in Nat /\ \A i \in 0 .. m : TablesTyped(g[i], n)
<1> DEFINE T == {i \in 0 .. m : TablesTyped(g[i], n)}
<1>1. m \in Nat /\ g[0] = t
  <2>1. Len(path) \in Nat
    OBVIOUS
  <2> QED BY <2>1 DEF DirectorySteps
<1>2. 0 \in T
  BY <1>1
<1>3. ASSUME NEW i \in 1 .. m, i - 1 \in T PROVE i \in T
  <2>1. PICK x \in 0 .. n - 1 : g[i] = AddDirectory(g[i - 1], SubSeq(path, 1, k + i - 1), x)
    BY DEF DirectorySteps
  <2>2. TablesTyped(g[i - 1], n)
    BY <1>3
  <2>3. TablesTyped(g[i], n)
    BY ONLY <2>1, <2>2, OneDirectoryTyped, n \in Nat
  <2> QED BY <1>1, <2>3
<1> HIDE DEF T
<1>4. \A i \in 0 .. m : i \in T
  BY ONLY <1>1, <1>2, <1>3, EveryTurn
<1> QED BY <1>1, <1>4 DEF T

\* A path and those above it get objects; what was there stays.
LEMMA DirectoriesKeep ==
  ASSUME NEW n \in Nat, NEW t, TablesInv(t, n), NEW S, NEW path \in Seq(S), NEW u, InRanges(u),
         NEW g, NEW m, NEW k, DirectorySteps(g, m, k, t, n, path, u)
  PROVE  TablesInv(u, n) /\ path \in DOMAIN u.names /\ DOMAIN t.names \subseteq DOMAIN u.names
<1>1. m \in Nat /\ \A i \in 0 .. m : TablesTyped(g[i], n)
  BY DirectoriesTyped DEF TablesInv
<1>2. /\ g[0] = t /\ g[m] = u /\ Len(path) \in Nat
      /\ k \in 0 .. Len(path) + 1 /\ m = Len(path) + 1 - k
      /\ k # 0 => SubSeq(path, 1, k - 1) \in DOMAIN t.names
      /\ \A i \in 1 .. m : \E x \in 0 .. n - 1 : g[i] = AddDirectory(g[i - 1], SubSeq(path, 1, k + i - 1), x)
  <2>1. Len(path) \in Nat
    OBVIOUS
  <2> QED BY <2>1 DEF DirectorySteps
<1>3. \A i \in 0 .. m : InRanges(g[i])
  <2> DEFINE T == {i \in 0 .. m : InRanges(g[m - i])}
  <2>1. 0 \in T
    <3>1. m - 0 = m /\ 0 \in 0 .. m
      BY <1>1
    <3> QED BY <1>2, <3>1
  <2>2. ASSUME NEW i \in 1 .. m, i - 1 \in T PROVE i \in T
    <3> DEFINE j == m - (i - 1)
    <3>1. j \in 1 .. m /\ m - i = j - 1 /\ j - 1 \in 0 .. m /\ i \in 0 .. m
      BY <1>1
    <3>2. InRanges(g[j])
      BY <2>2
    <3> HIDE DEF j
    <3>3. PICK x \in 0 .. n - 1 : g[j] = AddDirectory(g[j - 1], SubSeq(path, 1, k + j - 1), x)
      BY <1>2, <3>1
    <3>4. TablesTyped(g[j - 1], n)
      BY <1>1, <3>1
    <3>5. InRanges(g[j - 1])
      BY ONLY <3>2, <3>3, <3>4, OneDirectoryTyped, n \in Nat
    <3> QED BY <3>1, <3>5
  <2> HIDE DEF T
  <2>3. \A i \in 0 .. m : i \in T
    BY ONLY <1>1, <2>1, <2>2, EveryTurn
  <2>4. ASSUME NEW i \in 0 .. m PROVE InRanges(g[i])
    <3>1. m - i \in 0 .. m /\ m - (m - i) = i
      BY <1>1
    <3>2. InRanges(g[m - (m - i)])
      BY <2>3, <3>1 DEF T
    <3> QED BY <3>1, <3>2
  <2> QED BY <2>4
<1> DEFINE T == {i \in 0 .. m : /\ TablesInv(g[i], n) /\ DOMAIN t.names \subseteq DOMAIN g[i].names
                                /\ k + i # 0 => SubSeq(path, 1, k + i - 1) \in DOMAIN g[i].names}
<1>4. 0 \in T
  <2>1. k + 0 = k /\ 0 \in 0 .. m
    BY <1>1, <1>2
  <2> QED BY <1>2, <2>1
<1>5. ASSUME NEW i \in 1 .. m, i - 1 \in T PROVE i \in T
  <2> DEFINE c == SubSeq(path, 1, k + i - 1)
  <2>1. PICK x \in 0 .. n - 1 : g[i] = AddDirectory(g[i - 1], c, x)
    BY <1>2
  <2>2. /\ TablesInv(g[i - 1], n) /\ DOMAIN t.names \subseteq DOMAIN g[i - 1].names
        /\ k + (i - 1) # 0 => SubSeq(path, 1, k + (i - 1) - 1) \in DOMAIN g[i - 1].names
    BY <1>5
  <2>3. c # <<>> => Front(c) \in DOMAIN g[i - 1].names
    <3>1. CASE k + i - 1 = 0
      BY <3>1, SubSeqEmpty
    <3>2. CASE k + i - 1 # 0
      <4>1. k + i - 1 \in 1 .. Len(path) /\ k + (i - 1) # 0 /\ k + (i - 1) - 1 = (k + i - 1) - 1
        BY <1>2, <3>2
      <4>2. \A j \in 1 .. Len(path) : Front(SubSeq(path, 1, j)) = SubSeq(path, 1, j - 1)
        BY PrefixIs
      <4>3. Front(c) = SubSeq(path, 1, (k + i - 1) - 1)
        BY ONLY <4>1, <4>2 DEF c
      <4> HIDE DEF c
      <4> QED BY <2>2, <4>1, <4>3
    <3> QED BY <3>1, <3>2
  <2>4. InRanges(g[i]) /\ i \in 0 .. m
    BY <1>3
  <2> HIDE DEF c
  <2>5. TablesInv(g[i], n) /\ DOMAIN g[i].names = DOMAIN g[i - 1].names \union {c}
    BY ONLY <2>1, <2>2, <2>3, <2>4, DirectoryKeeps, n \in Nat
  <2>6. c \in DOMAIN g[i].names /\ DOMAIN t.names \subseteq DOMAIN g[i].names
    BY <2>2, <2>5
  <2> QED BY <2>4, <2>5, <2>6 DEF c
<1> HIDE DEF T
<1>6. \A i \in 0 .. m : i \in T
  BY ONLY <1>1, <1>4, <1>5, EveryTurn
<1>7. m \in T
  BY <1>1, <1>6
<1>8. SubSeq(path, 1, k + m - 1) = path
  <2>1. k + m - 1 = Len(path)
    BY <1>2
  <2>2. SubSeq(path, 1, Len(path)) = path
    BY SubSeqFull
  <2> QED BY <2>1, <2>2
<1>9. k + m # 0
  BY <1>2
<1> QED BY <1>2, <1>7, <1>8, <1>9 DEF T

\* The servers take turns from the first one on: each gets one data object.
TurnOf(n, first) == [i \in 1 .. n |-> (first + i - 1) % n]
LEMMA TurnsDiffer ==
  ASSUME NEW n \in Nat \ {0}, NEW first \in 0 .. n - 1
  PROVE  /\ \A i \in 1 .. n : TurnOf(n, first)[i] \in 0 .. n - 1
         /\ \A i, j \in 1 .. n : TurnOf(n, first)[i] = TurnOf(n, first)[j] => i = j
<1>1. ASSUME NEW i \in 1 .. n
      PROVE  /\ first + i - 1 < n => TurnOf(n, first)[i] = first + i - 1
             /\ ~(first + i - 1 < n) => TurnOf(n, first)[i] = first + i - 1 - n
  <2>1. TurnOf(n, first)[i] = (first + i - 1) % n
    BY DEF TurnOf
  <2>2. CASE first + i - 1 < n
    <3> DEFINE r == first + i - 1
    <3>1. r \in 0 .. n - 1 /\ 0 * n + r = r
      BY <2>2
    <3> HIDE DEF r
    <3>2. (0 * n + r) % n = r
      BY ONLY <3>1, n \in Nat \ {0}, 0 \in Int, DivModUnique
    <3>3. r % n = r
      BY ONLY <3>1, <3>2
    <3> QED BY <2>1, <2>2, <3>3 DEF r
  <2>3. CASE ~(first + i - 1 < n)
    <3> DEFINE r == first + i - 1 - n
    <3>1. r \in 0 .. n - 1 /\ 1 * n + r = first + i - 1
      BY <2>3
    <3> HIDE DEF r
    <3>2. (1 * n + r) % n = r
      BY ONLY <3>1, n \in Nat \ {0}, 1 \in Int, DivModUnique
    <3>3. (first + i - 1) % n = r
      BY ONLY <3>1, <3>2
    <3> QED BY <2>1, <2>3, <3>3 DEF r
  <2> QED BY <2>2, <2>3
<1>2. \A i \in 1 .. n : TurnOf(n, first)[i] \in 0 .. n - 1
  <2> SUFFICES ASSUME NEW i \in 1 .. n PROVE TurnOf(n, first)[i] \in 0 .. n - 1
    OBVIOUS
  <2> QED BY <1>1
<1>3. ASSUME NEW i \in 1 .. n, NEW j \in 1 .. n, TurnOf(n, first)[i] = TurnOf(n, first)[j] PROVE i = j
  BY <1>1, <1>3
<1> QED BY <1>2, <1>3

\* The loop that stores one object on each server.
ObjectLoop(order, data, bytes) == [loop |-> "objects", order |-> order, data |-> data, bytes |-> bytes]
SameNames(t, u) == u.next = t.next /\ u.names = t.names /\ u.meta = t.meta
GivenTo(order, data, i, x) == {data[j] : j \in {l \in 1 .. i : order[l] = x}}
ObjectsIn(n, v, order, data, i, t) ==
  /\ TablesTyped(t, n) /\ SameNames(v, t)
  /\ \A x \in 0 .. n - 1 : /\ LayoutOK(t.storage[x], t.size)
                           /\ StoredIn(t, x) = StoredIn(v, x) \union GivenTo(order, data, i, x)
LEMMA ObjectsStored ==
  ASSUME NEW n \in Nat, NEW v, TablesTyped(v, n), \A x \in 0 .. n - 1 : LayoutOK(v.storage[x], v.size),
         NEW order, NEW data, NEW bytes \in Nat,
         \A i \in 1 .. n : order[i] \in 0 .. n - 1 /\ \A x \in 0 .. n - 1 : data[i] \notin StoredIn(v, x),
         \A i, j \in 1 .. n : data[i] = data[j] => i = j,
         NEW g, Runs(g, ObjectLoop(order, data, bytes), v, n, [i \in 1 .. n |-> i])
  PROVE  ObjectsIn(n, v, order, data, n, g[n])
<1> DEFINE T == {i \in 0 .. n : ObjectsIn(n, v, order, data, i, g[i])}
<1>1. g[0] = v /\ \A i \in 1 .. n : g[i] = Stored(g[i - 1], order[i], data[i], bytes)
  <2>1. \A b, k : Do(ObjectLoop(order, data, bytes), b, k) = Stored(b, order[k], data[k], bytes)
    BY DEF Do, ObjectLoop
  <2> QED BY <2>1 DEF Runs
<1>2. 0 \in T
  <2>1. \A x : GivenTo(order, data, 0, x) = {}
    BY DEF GivenTo
  <2> QED BY <1>1, <2>1 DEF ObjectsIn, SameNames
<1>3. ASSUME NEW i \in 1 .. n, i - 1 \in T PROVE i \in T
  <2> DEFINE b == g[i - 1]
             s == order[i]
             h == data[i]
  <2>1. ObjectsIn(n, v, order, data, i - 1, b)
    BY <1>3
  <2>2. TablesTyped(b, n) /\ SameNames(v, b)
    BY <2>1 DEF ObjectsIn
  <2>3. s \in 0 .. n - 1 /\ g[i] = Stored(b, s, h, bytes)
    BY <1>1
  <2>4. \A x \in 0 .. n - 1 : LayoutOK(b.storage[x], b.size) /\ h \notin StoredIn(b, x)
    <3>1. \A x : h \notin GivenTo(order, data, i - 1, x)
      <4>1. \A l \in 1 .. i - 1 : l \in 1 .. n /\ l # i
        OBVIOUS
      <4> QED BY <4>1 DEF GivenTo
    <3> QED BY <2>1, <3>1 DEF ObjectsIn
  <2> HIDE DEF b, s, h
  <2>5. /\ \A x \in 0 .. n - 1 : LayoutOK(g[i].storage[x], g[i].size)
        /\ StoredIn(g[i], s) = StoredIn(b, s) \union {h}
        /\ \A x \in 0 .. n - 1 : x # s => StoredIn(g[i], x) = StoredIn(b, x)
    BY ONLY <2>2, <2>3, <2>4, ServerStores, n \in Nat, bytes \in Nat DEF StoresOn
  <2>6. TablesTyped(g[i], n) /\ SameNames(b, g[i])
    BY ONLY <2>2, <2>3, StoredIs, n \in Nat DEF SameNames
  <2>7. \A x : GivenTo(order, data, i, x) = IF x = s THEN GivenTo(order, data, i - 1, x) \union {h}
                                           ELSE GivenTo(order, data, i - 1, x)
    <3>1. 1 .. i = (1 .. i - 1) \union {i}
      OBVIOUS
    <3>2. ASSUME NEW x, x # s PROVE GivenTo(order, data, i, x) = GivenTo(order, data, i - 1, x)
      <4>1. {l \in 1 .. i : order[l] = x} = {l \in 1 .. i - 1 : order[l] = x}
        BY <3>1, <3>2 DEF s
      <4> QED BY <4>1 DEF GivenTo
    <3>3. GivenTo(order, data, i, s) = GivenTo(order, data, i - 1, s) \union {h}
      <4>1. {l \in 1 .. i : order[l] = s} = {l \in 1 .. i - 1 : order[l] = s} \union {i}
        BY <3>1 DEF s
      <4> QED BY <4>1 DEF GivenTo, h
    <3> QED BY <3>2, <3>3
  <2>8. ASSUME NEW x \in 0 .. n - 1
        PROVE  StoredIn(g[i], x) = StoredIn(v, x) \union GivenTo(order, data, i, x)
    <3>1. StoredIn(b, x) = StoredIn(v, x) \union GivenTo(order, data, i - 1, x)
      BY <2>1 DEF ObjectsIn
    <3> QED BY <2>5, <2>7, <3>1
  <2>9. ObjectsIn(n, v, order, data, i, g[i])
    BY <2>2, <2>5, <2>6, <2>8 DEF ObjectsIn, SameNames
  <2> QED BY <2>9
<1> HIDE DEF T
<1>4. n \in T
  <2>1. \A i \in 0 .. n : i \in T
    BY ONLY <1>2, <1>3, EveryTurn, n \in Nat
  <2> QED BY <2>1
<1> QED BY <1>4 DEF T

LEMMA NextIs ==
  ASSUME NEW t, NEW u, NEW x,
         t = [next |-> t.next, names |-> t.names, meta |-> t.meta, storage |-> t.storage, size |-> t.size],
         u = [t EXCEPT !.next = x]
  PROVE  u = [next |-> x, names |-> t.names, meta |-> t.meta, storage |-> t.storage, size |-> t.size]
<1>1. u = [k \in DOMAIN t |-> u[k]] /\ DOMAIN t = {"next", "names", "meta", "storage", "size"}
  OBVIOUS
<1>2. u.next = x /\ u.names = t.names /\ u.meta = t.meta /\ u.storage = t.storage /\ u.size = t.size
  OBVIOUS
<1> QED BY ONLY <1>1, <1>2

\* A server takes its next handle for an object it stores.
TakesHandle(t, s, v) == v = [Stored(t, s, t.next[s], MetaDataSize) EXCEPT !.next[s] = @ + 1]

HandleIsTaken(t, n, s, v) ==
  /\ TablesTyped(v, n) /\ v.next = [t.next EXCEPT ![s] = @ + 1]
  /\ v.names = t.names /\ v.meta = t.meta
  /\ v.storage = Stored(t, s, t.next[s], MetaDataSize).storage
  /\ v.size = Stored(t, s, t.next[s], MetaDataSize).size

LEMMA HandleTaken ==
  ASSUME NEW n \in Nat, NEW t, TablesTyped(t, n), NEW s \in 0 .. n - 1, NEW v, TakesHandle(t, s, v)
  PROVE  HandleIsTaken(t, n, s, v)
<1> DEFINE b == Stored(t, s, t.next[s], MetaDataSize)
<1>1. TablesTyped(b, n) /\ b.next = t.next /\ b.names = t.names /\ b.meta = t.meta
  BY StoredIs
<1> HIDE DEF b
<1>2. v = [b EXCEPT !.next[s] = @ + 1]
  BY DEF TakesHandle, b
<1> DEFINE x == [t.next EXCEPT ![s] = @ + 1]
<1>3. b = [next |-> b.next, names |-> b.names, meta |-> b.meta, storage |-> b.storage, size |-> b.size]
  BY <1>1 DEF TablesTyped
<1>4. v = [b EXCEPT !.next = x]
  BY ONLY <1>1, <1>2, <1>3
<1> HIDE DEF x
<1>5. v = [next |-> x, names |-> b.names, meta |-> b.meta, storage |-> b.storage, size |-> b.size]
  BY ONLY <1>3, <1>4, NextIs
<1>6. x \in [0 .. n - 1 -> Nat]
  BY DEF x, TablesTyped
<1>7. TablesTyped(v, n)
  BY ONLY <1>1, <1>5, <1>6 DEF TablesTyped
<1> QED BY ONLY <1>1, <1>5, <1>7 DEF x, b, HandleIsTaken

LEMMA HandleStored ==
  ASSUME NEW n \in Nat, NEW t, TablesTyped(t, n), ServersOK(t, n), NEW s \in 0 .. n - 1,
         NEW v, TakesHandle(t, s, v), InRanges(v)
  PROVE  /\ TablesTyped(v, n) /\ ServersOK(v, n) /\ InRanges(t)
         /\ StoredIn(v, s) = StoredIn(t, s) \union {t.next[s]} /\ t.next[s] \in Nat
         /\ \A x \in 0 .. n - 1 : t.next[s] \notin StoredIn(t, x)
         /\ \A x \in 0 .. n - 1 : x # s => StoredIn(v, x) = StoredIn(t, x)
<1> DEFINE h == t.next[s]
           b == Stored(t, s, h, MetaDataSize)
<1>1. /\ TablesTyped(v, n) /\ v.next = [t.next EXCEPT ![s] = @ + 1]
      /\ v.storage = b.storage /\ v.size = b.size
  <2>1. HandleIsTaken(t, n, s, v)
    BY HandleTaken
  <2> QED BY <2>1 DEF HandleIsTaken
<1>2. /\ DOMAIN t.next = 0 .. n - 1 /\ h \in Nat /\ HandleSpan \in Nat /\ MetaDataSize \in Nat
      /\ \A x \in 0 .. n - 1 : x \in Nat /\ t.next[x] \in Nat /\ First(x) \in Nat /\ First(x) <= t.next[x]
  BY NextNat, FirstNat, BuilderAssumption DEF ServersOK
<1>3. v.next[s] = h + 1 /\ DOMAIN v.next = 0 .. n - 1 /\ \A x \in 0 .. n - 1 : x # s => v.next[x] = t.next[x]
  BY <1>1, <1>2
<1>4. InRanges(t)
  <2> SUFFICES ASSUME NEW x \in 0 .. n - 1 PROVE t.next[x] <= First(x) + HandleSpan
    BY <1>2 DEF InRanges
  <2>1. v.next[x] <= First(x) + HandleSpan /\ (v.next[x] = t.next[x] \/ v.next[x] = t.next[x] + 1)
    BY <1>3 DEF InRanges
  <2> QED BY <1>2, <2>1
<1>5. h \in t.next[s] .. First(s) + HandleSpan - 1
  <2>1. v.next[s] <= First(s) + HandleSpan
    BY <1>3 DEF InRanges
  <2> QED BY <1>2, <1>3, <2>1
<1>6. \A x \in 0 .. n - 1 : LayoutOK(t.storage[x], t.size) /\ h \notin StoredIn(t, x)
  <2>1. \A x \in 0 .. n - 1 : h \notin StoredIn(t, x)
    <3> HIDE DEF h
    <3> QED BY <1>4, <1>5, NewHandles
  <2> QED BY <2>1 DEF ServersOK
<1> HIDE DEF h
<1>7. /\ \A x \in 0 .. n - 1 : LayoutOK(b.storage[x], b.size)
      /\ StoredIn(b, s) = StoredIn(t, s) \union {h}
      /\ \A x \in 0 .. n - 1 : x # s => StoredIn(b, x) = StoredIn(t, x)
  <2> HIDE DEF b
  <2>1. b = Stored(t, s, h, MetaDataSize)
    BY DEF b
  <2>2. StoresOn(t, n, s, h, b)
    BY ONLY <1>2, <1>6, <2>1, TablesTyped(t, n), n \in Nat, s \in 0 .. n - 1, ServerStores
  <2> QED BY ONLY <2>2 DEF StoresOn
<1> HIDE DEF b
<1>8. \A x \in 0 .. n - 1 : StoredIn(v, x) = StoredIn(b, x)
  BY <1>1 DEF StoredIn
<1>9. ServersOK(v, n)
  <2> SUFFICES ASSUME NEW x \in 0 .. n - 1
               PROVE  /\ LayoutOK(v.storage[x], v.size) /\ First(x) <= v.next[x]
                      /\ \A g \in StoredIn(v, x) : g \in First(x) .. v.next[x] - 1
    BY DEF ServersOK
  <2>1. LayoutOK(v.storage[x], v.size)
    BY <1>1, <1>7
  <2>2. \A g \in StoredIn(t, x) : g \in First(x) .. t.next[x] - 1
    BY DEF ServersOK
  <2>3. CASE x = s
    <3>1. StoredIn(v, x) = StoredIn(t, x) \union {h} /\ v.next[x] = h + 1 /\ h = t.next[x]
      BY <1>3, <1>7, <1>8, <2>3 DEF h
    <3>2. h \in First(x) .. v.next[x] - 1 /\ First(x) <= v.next[x]
      BY <1>2, <3>1
    <3>3. \A g \in StoredIn(t, x) : g \in First(x) .. v.next[x] - 1
      BY <1>2, <2>2, <3>1
    <3> QED BY <2>1, <3>1, <3>2, <3>3
  <2>4. CASE x # s
    BY <1>2, <1>3, <1>7, <1>8, <2>1, <2>2, <2>4
  <2> QED BY <2>3, <2>4
<1> QED BY <1>1, <1>2, <1>4, <1>6, <1>7, <1>8, <1>9 DEF h

\* How a file is made: its parents, its metadata handle, an object per server.
FileSteps(t, n, path, s, first, u, v, data, g, r) ==
  /\ u = WithDirectory(t, Front(path), NextMeta(s, 1)) /\ TakesHandle(u, s, v)
  /\ data = [i \in 1 .. n |-> v.next[TurnOf(n, first)[i]]]
  /\ Runs(g, ObjectLoop(TurnOf(n, first), data, LocalSize(path)), v, n, [i \in 1 .. n |-> i])
  /\ r = [g[n] EXCEPT !.next = [x \in DOMAIN @ |-> @[x] + 1],
                      !.names = Put(@, path, u.next[s]), !.meta = Put(@, u.next[s], data)]

LEMMA FileInSteps ==
  ASSUME servers \in Nat, NEW t, NEW path, NEW s, NEW first
  PROVE  \E u, v, data, g : FileSteps(t, servers, path, s, first, u, v, data, g, WithFile(t, path, s, first))
<1> DEFINE n == servers
           u == WithDirectory(t, Front(path), NextMeta(s, 1))
           h == u.next[s]
           v == [Stored(u, s, h, MetaDataSize) EXCEPT !.next[s] = @ + 1]
           order == TurnOf(n, first)
           data == [i \in 1 .. n |-> v.next[order[i]]]
           q == [i \in 1 .. n |-> i]
           bytes == LocalSize(path)
           a == ObjectLoop(order, data, bytes)
           Rec(f) == f = [x \in SUBSET (DOMAIN q) |->
                            IF x = {} THEN v
                            ELSE Stored(f[x \ {Max(x)}], order[q[Max(x)]], data[q[Max(x)]], bytes)]
           F == CHOOSE f : Rec(f)
           w == FoldLeft(LAMBDA acc, i : Stored(acc, order[i], data[i], bytes), v, q)
<1>1. WithFile(t, path, s, first) =
        [w EXCEPT !.next = [x \in DOMAIN @ |-> @[x] + 1], !.names = Put(@, path, h), !.meta = Put(@, h, data)]
  BY DEF WithFile, TurnOf
<1>2. w = F[DOMAIN q]
  BY DEF FoldLeft, MapThenFoldSet
<1>3. \A b, k : Do(a, b, k) = Stored(b, order[k], data[k], bytes)
  BY DEF Do, ObjectLoop
<1>4. DOMAIN q = 1 .. n
  OBVIOUS
<1>5. TakesHandle(u, s, v)
  BY DEF TakesHandle
<1> HIDE DEF w, q, a, order, data, bytes, v, u, h, n
<1>6. \A f : Rec(f) <=> Folds(f, a, v, n, q)
  BY <1>3, <1>4 DEF Folds
<1> HIDE DEF Rec
<1>7. F = Folded(a, v, n, q)
  BY ONLY <1>6 DEF Folded
<1> HIDE DEF F
<1>8. PICK g : Runs(g, a, v, n, q) /\ g[n] = w
  <2>1. n \in Nat
    BY DEF n
  <2>2. PICK g : Runs(g, a, v, n, q) /\ g[n] = F[1 .. n]
    BY <1>7, <2>1, FoldedRuns
  <2> QED BY <1>2, <1>4, <2>2
<1>9. FileSteps(t, n, path, s, first, u, v, data, g, WithFile(t, path, s, first))
  <2>1. u = WithDirectory(t, Front(path), NextMeta(s, 1))
    BY DEF u
  <2>2. data = [i \in 1 .. n |-> v.next[TurnOf(n, first)[i]]]
    BY DEF data, order
  <2>3. Runs(g, ObjectLoop(TurnOf(n, first), data, LocalSize(path)), v, n, [i \in 1 .. n |-> i])
    BY <1>8 DEF a, order, q, bytes
  <2>4. WithFile(t, path, s, first) =
          [g[n] EXCEPT !.next = [x \in DOMAIN @ |-> @[x] + 1],
                       !.names = Put(@, path, u.next[s]), !.meta = Put(@, u.next[s], data)]
    BY <1>1, <1>8 DEF h
  <2> QED BY ONLY <1>5, <2>1, <2>2, <2>3, <2>4 DEF FileSteps
<1> QED BY <1>9 DEF n

LEMMA ObjectsTyped ==
  ASSUME NEW n \in Nat, NEW v, TablesTyped(v, n), NEW order, NEW data, NEW bytes,
         \A i \in 1 .. n : order[i] \in 0 .. n - 1,
         NEW g, Runs(g, ObjectLoop(order, data, bytes), v, n, [i \in 1 .. n |-> i])
  PROVE  TablesTyped(g[n], n) /\ SameNames(v, g[n])
<1> DEFINE T == {i \in 0 .. n : TablesTyped(g[i], n) /\ SameNames(v, g[i])}
<1>1. g[0] = v /\ \A i \in 1 .. n : g[i] = Stored(g[i - 1], order[i], data[i], bytes)
  <2>1. \A b, k : Do(ObjectLoop(order, data, bytes), b, k) = Stored(b, order[k], data[k], bytes)
    BY DEF Do, ObjectLoop
  <2> QED BY <2>1 DEF Runs
<1>2. 0 \in T
  BY <1>1 DEF SameNames
<1>3. ASSUME NEW i \in 1 .. n, i - 1 \in T PROVE i \in T
  <2> DEFINE b == g[i - 1]
             s == order[i]
  <2>1. TablesTyped(b, n) /\ SameNames(v, b) /\ s \in 0 .. n - 1 /\ g[i] = Stored(b, s, data[i], bytes)
    BY <1>1, <1>3
  <2> HIDE DEF b, s
  <2>2. TablesTyped(g[i], n) /\ SameNames(b, g[i])
    BY ONLY <2>1, StoredIs, n \in Nat DEF SameNames
  <2>3. TablesTyped(g[i], n) /\ SameNames(v, g[i])
    BY <2>1, <2>2 DEF SameNames
  <2> QED BY <2>3
<1> HIDE DEF T
<1>4. n \in T
  <2>1. \A i \in 0 .. n : i \in T
    BY ONLY <1>2, <1>3, EveryTurn, n \in Nat
  <2> QED BY <2>1
<1> QED BY <1>4 DEF T

\* The tables after a file: its parents, its handles and its objects.
LEMMA FileKeeps ==
  ASSUME NEW n \in Nat \ {0}, n = servers, MetaOK(n), NEW t, TablesInv(t, n), NEW path \in Files,
         NEW s \in 0 .. n - 1, NEW first \in 0 .. n - 1,
         NEW r, r = WithFile(t, path, s, first), InRanges(r)
  PROVE  TablesInv(r, n)
<1> DEFINE order == TurnOf(n, first)
           bytes == LocalSize(path)
<1>0. PICK u, v, data, g : FileSteps(t, n, path, s, first, u, v, data, g, r)
  BY FileInSteps
<1>1. /\ u = WithDirectory(t, Front(path), NextMeta(s, 1)) /\ TakesHandle(u, s, v)
      /\ data = [i \in 1 .. n |-> v.next[order[i]]]
      /\ Runs(g, ObjectLoop(order, data, bytes), v, n, [i \in 1 .. n |-> i])
      /\ r = [g[n] EXCEPT !.next = [x \in DOMAIN @ |-> @[x] + 1],
                          !.names = Put(@, path, u.next[s]), !.meta = Put(@, u.next[s], data)]
  BY ONLY <1>0 DEF FileSteps
<1> DEFINE h == u.next[s]
           w == g[n]
<1>2. path # <<>> /\ Front(path) \in Seq(Range(path))
  <2>1. path # <<>> /\ path \in Seq(Range(path)) /\ 1 \in Int
    BY BuilderAssumption
  <2>2. Len(path) - 1 \in Int /\ \A i \in 1 .. Len(path) - 1 : path[i] \in Range(path)
    BY <2>1 DEF Range
  <2>3. SubSeq(path, 1, Len(path) - 1) \in Seq(Range(path))
    BY ONLY <2>1, <2>2, SubSeqProperties
  <2> QED BY <2>1, <2>3 DEF Front
<1>3. PICK gd, m, k : DirectorySteps(gd, m, k, t, n, Front(path), u)
  <2>1. NextMeta(s, 1) \in 0 .. n - 1
    BY NextMetaIs
  <2>2. \E gd, m, k : DirectorySteps(gd, m, k, t, n, Front(path), WithDirectory(t, Front(path), NextMeta(s, 1)))
    BY ONLY <1>2, <2>1, DirectoriesInSteps, n \in Nat \ {0}, MetaOK(n)
  <2> QED BY <1>1, <2>2
<1>4. TablesTyped(u, n)
  <2>1. m \in Nat /\ \A i \in 0 .. m : TablesTyped(gd[i], n)
    BY <1>2, <1>3, DirectoriesTyped DEF TablesInv
  <2>2. gd[m] = u /\ m \in 0 .. m
    BY <1>3, <2>1 DEF DirectorySteps
  <2> QED BY <2>1, <2>2
<1>5. TablesTyped(v, n) /\ v.names = u.names /\ v.meta = u.meta
  <2>1. HandleIsTaken(u, n, s, v)
    BY ONLY <1>1, <1>4, HandleTaken, n \in Nat \ {0}, s \in 0 .. n - 1
  <2> QED BY ONLY <2>1 DEF HandleIsTaken
<1>6. /\ \A i \in 1 .. n : order[i] \in 0 .. n - 1
      /\ \A i, j \in 1 .. n : order[i] = order[j] => i = j
  BY TurnsDiffer
<1> HIDE DEF order, h, bytes
<1>7. TablesTyped(w, n) /\ SameNames(v, w)
  BY ONLY <1>1, <1>5, <1>6, ObjectsTyped, n \in Nat \ {0}
<1> HIDE DEF w
<1> DEFINE next == [x \in DOMAIN w.next |-> w.next[x] + 1]
           names == Put(w.names, path, h)
           meta == Put(w.meta, h, data)
<1>8. r = [next |-> next, names |-> names, meta |-> meta, storage |-> w.storage, size |-> w.size]
  <2>1. w = [next |-> w.next, names |-> w.names, meta |-> w.meta, storage |-> w.storage, size |-> w.size]
    BY <1>7 DEF TablesTyped
  <2>2. r = [w EXCEPT !.next = [x \in DOMAIN @ |-> @[x] + 1], !.names = Put(@, path, h), !.meta = Put(@, h, data)]
    BY ONLY <1>1 DEF h, w
  <2>3. r = [w EXCEPT !.next = next, !.names = names, !.meta = meta]
    BY ONLY <2>1, <2>2
  <2> HIDE DEF next, names, meta
  <2> QED BY ONLY <2>1, <2>3, NamedIs
<1>9. /\ DOMAIN v.next = 0 .. n - 1 /\ DOMAIN r.next = 0 .. n - 1 /\ HandleSpan \in Nat
      /\ \A x \in 0 .. n - 1 : x \in Nat /\ v.next[x] \in Nat /\ First(x) \in Nat /\ r.next[x] = v.next[x] + 1
  <2>1. w.next = v.next /\ DOMAIN v.next = 0 .. n - 1
    BY <1>5, <1>7, NextNat DEF SameNames
  <2>2. r.next = next
    BY ONLY <1>8
  <2> QED BY <1>5, <2>1, <2>2, NextNat, FirstNat
<1>10. TablesTyped(r, n)
  <2>1. next \in [0 .. n - 1 -> Nat]
    BY <1>7, <1>9 DEF SameNames
  <2>2. w.storage = [x \in 0 .. n - 1 |-> w.storage[x]]
    BY <1>7 DEF TablesTyped
  <2> HIDE DEF next, names, meta
  <2> QED BY ONLY <1>8, <2>1, <2>2 DEF TablesTyped
<1>11. InRanges(v)
  <2> SUFFICES ASSUME NEW x \in 0 .. n - 1 PROVE v.next[x] <= First(x) + HandleSpan
    BY <1>9 DEF InRanges
  <2>1. r.next[x] <= First(x) + HandleSpan
    BY <1>9 DEF InRanges
  <2> QED BY <1>9, <2>1
<1>12. InRanges(u)
  <2>1. HandleIsTaken(u, n, s, v)
    BY ONLY <1>1, <1>4, HandleTaken, n \in Nat \ {0}, s \in 0 .. n - 1
  <2>2. v.next = [u.next EXCEPT ![s] = @ + 1]
    BY <2>1 DEF HandleIsTaken
  <2>3. DOMAIN u.next = 0 .. n - 1 /\ \A x \in 0 .. n - 1 : u.next[x] \in Nat
    BY <1>4, NextNat
  <2> SUFFICES ASSUME NEW x \in 0 .. n - 1 PROVE u.next[x] <= First(x) + HandleSpan
    BY <2>3 DEF InRanges
  <2>4. v.next[x] <= First(x) + HandleSpan /\ (v.next[x] = u.next[x] \/ v.next[x] = u.next[x] + 1)
    BY <1>9, <1>11, <2>2, <2>3 DEF InRanges
  <2> QED BY <1>9, <2>3, <2>4
<1>13. TablesInv(u, n) /\ Front(path) \in DOMAIN u.names
  BY <1>2, <1>3, <1>12, DirectoriesKeep
<1>14. /\ ServersOK(v, n) /\ StoredIn(v, s) = StoredIn(u, s) \union {h} /\ h \in Nat
       /\ \A x \in 0 .. n - 1 : h \notin StoredIn(u, x)
       /\ \A x \in 0 .. n - 1 : x # s => StoredIn(v, x) = StoredIn(u, x)
  <2>1. ServersOK(u, n)
    BY <1>13 DEF TablesInv
  <2> QED BY ONLY <1>1, <1>4, <1>11, <2>1, HandleStored, n \in Nat \ {0}, s \in 0 .. n - 1 DEF h
<1>15. \A i \in 1 .. n : /\ data[i] = v.next[order[i]] /\ Owner(data[i]) = order[i]
                         /\ \A x \in 0 .. n - 1 : data[i] \notin StoredIn(v, x)
  <2> SUFFICES ASSUME NEW i \in 1 .. n
               PROVE  /\ data[i] = v.next[order[i]] /\ Owner(data[i]) = order[i]
                      /\ \A x \in 0 .. n - 1 : data[i] \notin StoredIn(v, x)
    OBVIOUS
  <2> DEFINE x == order[i]
             d == data[i]
  <2>1. x \in 0 .. n - 1 /\ d = v.next[x]
    BY <1>1, <1>6
  <2> HIDE DEF x, d
  <2>2. d \in v.next[x] .. First(x) + HandleSpan - 1
    <3>1. r.next[x] <= First(x) + HandleSpan
      BY <1>9, <2>1 DEF InRanges
    <3>2. r.next[x] = v.next[x] + 1 /\ v.next[x] \in Nat /\ First(x) \in Nat
      BY <1>9, <2>1
    <3> QED BY <1>9, <2>1, <3>1, <3>2
  <2>3. Owner(d) = x /\ \A y \in 0 .. n - 1 : d \notin StoredIn(v, y)
    BY <1>5, <1>11, <1>14, <2>1, <2>2, NewHandles
  <2> QED BY <2>1, <2>3 DEF x, d
<1>16. \A i, j \in 1 .. n : data[i] = data[j] => i = j
  BY <1>6, <1>15
<1>17. bytes \in Nat
  <2>1. n \in Nat \ {0} /\ FileSize[path] \in Nat /\ DefaultSize \in Nat
    BY BuilderAssumption
  <2>2. FileSize[path] \div n \in Nat
    BY ONLY <2>1, DivModSum
  <2> QED BY <2>1, <2>2 DEF bytes, LocalSize
<1>18. ObjectsIn(n, v, order, data, n, w)
  <2>1. \A x \in 0 .. n - 1 : LayoutOK(v.storage[x], v.size)
    BY <1>14 DEF ServersOK
  <2>2. \A i \in 1 .. n : order[i] \in 0 .. n - 1 /\ \A x \in 0 .. n - 1 : data[i] \notin StoredIn(v, x)
    BY <1>6, <1>15
  <2> QED BY ONLY <1>1, <1>5, <1>16, <1>17, <2>1, <2>2, ObjectsStored, n \in Nat \ {0} DEF w
<1>19. r.storage = w.storage /\ r.size = w.size /\ r.names = names /\ r.meta = meta
  BY ONLY <1>8
<1>20. \A x \in 0 .. n - 1 : /\ LayoutOK(r.storage[x], r.size)
                             /\ StoredIn(r, x) = StoredIn(v, x) \union GivenTo(order, data, n, x)
  BY <1>18, <1>19 DEF ObjectsIn, StoredIn
<1>21. ServersOK(r, n)
  <2> SUFFICES ASSUME NEW x \in 0 .. n - 1
               PROVE  /\ First(x) <= r.next[x]
                      /\ \A d \in StoredIn(r, x) : d \in First(x) .. r.next[x] - 1
    BY <1>20 DEF ServersOK
  <2>1. /\ First(x) <= v.next[x] /\ First(x) \in Nat /\ v.next[x] \in Nat /\ r.next[x] = v.next[x] + 1
        /\ \A d \in StoredIn(v, x) : d \in First(x) .. v.next[x] - 1
    BY <1>9, <1>14 DEF ServersOK
  <2>2. \A d \in GivenTo(order, data, n, x) : d = v.next[x]
    BY <1>15 DEF GivenTo
  <2>3. \A d \in StoredIn(r, x) : d \in StoredIn(v, x) \/ d = v.next[x]
    BY <1>20, <2>2
  <2> QED BY <2>1, <2>3
<1>22. ObjectsOK(r, n)
  <2>1. Range(data) = {data[i] : i \in 1 .. n} /\ DOMAIN data = 1 .. n
    BY <1>1 DEF Range
  <2>2. AllStored(v, n) = AllStored(u, n) \union {h}
    BY <1>14 DEF AllStored
  <2>3. AllStored(r, n) = AllStored(v, n) \union Range(data)
    <3>1. UNION {GivenTo(order, data, n, x) : x \in 0 .. n - 1} = Range(data)
      BY <1>6, <2>1 DEF GivenTo
    <3> QED BY <1>20, <3>1 DEF AllStored
  <2>4. h \notin AllStored(u, n) /\ h \in AllStored(v, n)
    BY <1>14, <2>2 DEF AllStored
  <2>5. Range(data) \cap AllStored(v, n) = {}
    BY <1>15, <2>1 DEF AllStored
  <2>6. r.names = Put(u.names, path, h) /\ r.meta = Put(u.meta, h, data)
    BY <1>5, <1>7, <1>19 DEF SameNames
  <2>7. /\ path # <<>> => Front(path) \in DOMAIN u.names
        /\ h \notin Range(data) /\ Range(data) \cap AllStored(u, n) = {}
        /\ AllStored(r, n) = AllStored(u, n) \union {h} \union Range(data)
    BY ONLY <1>13, <2>2, <2>3, <2>4, <2>5
  <2>8. \A i, j \in DOMAIN data : data[i] = data[j] => i = j
    BY <1>16, <2>1
  <2>9. NewObject(u, r, n, path, h, data)
    BY ONLY <2>4, <2>6, <2>7, <2>8 DEF NewObject
  <2>10. ObjectsOK(u, n)
    BY <1>13 DEF TablesInv
  <2> QED BY ONLY <2>9, <2>10, ObjectAdded, n \in Nat \ {0}
<1> QED BY ONLY <1>10, <1>21, <1>22 DEF TablesInv

-----------------------------------------------------------------------------
(* The invariant of the file builder.                                      *)

\* What holds as long as the servers' ranges last.
BuilderInv ==
  /\ servers \in 0 .. MaxServers /\ populating \in BOOLEAN
  /\ metaServers \in Seq(0 .. servers - 1) /\ Len(metaServers) <= servers
  /\ populating => metaServers # <<>>
  /\ processed \subseteq Directories \union Files /\ IsFiniteSet(processed)
  /\ TablesInv(Tables, servers)

LEMMA TablesAre ==
  /\ Tables.next = nextHandle /\ Tables.names = nameToHandle /\ Tables.meta = metaData
  /\ Tables.storage = storage /\ Tables.size = size
  BY DEF Tables

LEMMA EmptyLayoutOK == ASSUME NEW bytes PROVE LayoutOK(EmptyLayout, bytes)
<1>1. FirstDataBlock \in Nat
  BY LayoutAssumption
<1>2. /\ EmptyLayout.nextMetaDataBlock = 0 /\ EmptyLayout.nextDataBlock = FirstDataBlock
      /\ DOMAIN EmptyLayout.metaDataBlocks = {} /\ DOMAIN EmptyLayout.dataBlocks = {}
      /\ EmptyLayout = [nextMetaDataBlock |-> EmptyLayout.nextMetaDataBlock,
                        nextDataBlock |-> EmptyLayout.nextDataBlock,
                        metaDataBlocks |-> EmptyLayout.metaDataBlocks,
                        dataBlocks |-> EmptyLayout.dataBlocks]
  BY DEF EmptyLayout
<1> QED BY ONLY <1>1, <1>2 DEF LayoutOK

LEMMA BuilderStarts == BuilderInit => BuilderInv
<1> SUFFICES ASSUME BuilderInit PROVE BuilderInv
  OBVIOUS
<1>1. /\ servers = 0 /\ metaServers = <<>> /\ populating = FALSE /\ processed = {}
      /\ DOMAIN nextHandle = {} /\ DOMAIN nameToHandle = {} /\ DOMAIN metaData = {}
      /\ storage = NoEntries /\ nextHandle = NoEntries
  BY DEF BuilderInit, NoEntries
<1>2. 0 .. servers - 1 = {} /\ MaxServers \in Nat
  BY <1>1, BuilderAssumption
<1>3. TablesTyped(Tables, servers)
  <2>1. nextHandle \in [0 .. servers - 1 -> Nat]
    BY <1>1, <1>2 DEF NoEntries
  <2>2. storage = [s \in 0 .. servers - 1 |-> storage[s]]
    BY <1>1, <1>2 DEF NoEntries
  <2> QED BY <2>1, <2>2 DEF TablesTyped, Tables
<1>4. ServersOK(Tables, servers)
  BY <1>2 DEF ServersOK
<1>5. ObjectsOK(Tables, servers)
  <2>1. DataOf(Tables) = {} /\ AllStored(Tables, servers) = {}
    BY <1>1, <1>2, TablesAre DEF DataOf, AllStored
  <2> QED BY <1>1, <2>1, TablesAre DEF ObjectsOK
<1>6. metaServers \in Seq(0 .. servers - 1) /\ Len(metaServers) <= servers
  BY <1>1
<1>7. IsFiniteSet(processed)
  BY <1>1, FS_EmptySet
<1>8. TablesInv(Tables, servers) /\ servers \in 0 .. MaxServers
  BY <1>1, <1>2, <1>3, <1>4, <1>5 DEF TablesInv
<1> QED BY ONLY <1>1, <1>6, <1>7, <1>8 DEF BuilderInv

\* A server that registers has handles to give out and nothing stored.
LEMMA ServerRegisters ==
  ASSUME BuilderInv, NEW isMeta, RegisterFSServer(isMeta)
  PROVE  BuilderInv'
<1>0. PICK n : n = servers
  OBVIOUS
<1>1. /\ ~populating /\ servers < MaxServers /\ servers' = n + 1
      /\ nextHandle' = Put(nextHandle, n, First(n)) /\ storage' = Put(storage, n, EmptyLayout)
      /\ metaServers' = IF isMeta THEN Append(metaServers, n) ELSE metaServers
      /\ nameToHandle' = nameToHandle /\ metaData' = metaData /\ size' = size
      /\ populating' = populating /\ processed' = processed
  BY <1>0 DEF RegisterFSServer
<1>2. n \in Nat /\ MaxServers \in Nat /\ servers' \in 0 .. MaxServers
  BY <1>0, <1>1, BuilderAssumption DEF BuilderInv
<1>3. TablesTyped(Tables, n) /\ ServersOK(Tables, n) /\ ObjectsOK(Tables, n)
  BY <1>0 DEF BuilderInv, TablesInv
<1>4. 0 .. (n + 1) - 1 = (0 .. n - 1) \union {n} /\ n \notin 0 .. n - 1
  BY <1>2
<1>5. First(n) \in Nat
  BY <1>2, FirstNat
<1>6. nextHandle \in [0 .. n - 1 -> Nat] /\ storage = [s \in 0 .. n - 1 |-> storage[s]]
  BY <1>3, TablesAre DEF TablesTyped
<1>7. /\ nextHandle' \in [0 .. (n + 1) - 1 -> Nat] /\ nextHandle'[n] = First(n)
      /\ \A x \in 0 .. n - 1 : nextHandle'[x] = nextHandle[x]
  BY <1>1, <1>4, <1>5, <1>6 DEF Put
<1>8. /\ storage' = [x \in 0 .. (n + 1) - 1 |-> storage'[x]] /\ storage'[n] = EmptyLayout
      /\ \A x \in 0 .. n - 1 : storage'[x] = storage[x]
  BY <1>1, <1>4, <1>6 DEF Put
<1>9. TablesTyped(Tables', n + 1)
  <2>1. Tables' = [next |-> nextHandle', names |-> nameToHandle', meta |-> metaData',
                   storage |-> storage', size |-> size']
    BY DEF Tables
  <2>2. /\ Tables'.next = nextHandle' /\ Tables'.names = nameToHandle' /\ Tables'.meta = metaData'
        /\ Tables'.storage = storage' /\ Tables'.size = size'
    BY ONLY <2>1
  <2>3. Tables' = [next |-> Tables'.next, names |-> Tables'.names, meta |-> Tables'.meta,
                   storage |-> Tables'.storage, size |-> Tables'.size]
    BY ONLY <2>1, <2>2, Zenon
  <2>4. Tables'.next \in [0 .. (n + 1) - 1 -> Nat]
    BY ONLY <1>7, <2>2
  <2>5. Tables'.storage = [x \in 0 .. (n + 1) - 1 |-> Tables'.storage[x]]
    BY ONLY <1>8, <2>2
  <2> QED BY ONLY <2>3, <2>4, <2>5, Zenon DEF TablesTyped
<1>10. \A x \in 0 .. n - 1 : StoredIn(Tables', x) = StoredIn(Tables, x)
  BY <1>8 DEF StoredIn, Tables
<1>11. StoredIn(Tables', n) = {}
  BY <1>8 DEF StoredIn, Tables, EmptyLayout
<1>12. ServersOK(Tables', n + 1)
  <2>1. ASSUME NEW x \in 0 .. n - 1
        PROVE  /\ LayoutOK(storage'[x], size') /\ First(x) <= nextHandle'[x]
               /\ \A h \in StoredIn(Tables', x) : h \in First(x) .. nextHandle'[x] - 1
    <3>1. /\ LayoutOK(storage[x], size) /\ First(x) <= nextHandle[x]
          /\ \A h \in StoredIn(Tables, x) : h \in First(x) .. nextHandle[x] - 1
      BY <1>3, TablesAre DEF ServersOK
    <3>2. LayoutOK(storage'[x], size')
      BY <1>1, <1>8, <3>1
    <3> QED BY <1>7, <1>10, <3>1, <3>2 DEF Tables
  <2>2. /\ LayoutOK(storage'[n], size') /\ First(n) <= nextHandle'[n]
        /\ \A h \in StoredIn(Tables', n) : h \in First(n) .. nextHandle'[n] - 1
    <3>1. LayoutOK(storage'[n], size')
      BY <1>8, EmptyLayoutOK
    <3> QED BY <1>5, <1>7, <1>11, <3>1 DEF Tables
  <2> QED BY <1>4, <2>1, <2>2 DEF ServersOK, Tables
<1>13. ObjectsOK(Tables', n + 1)
  <2>1. AllStored(Tables', n + 1) = AllStored(Tables, n)
    BY <1>4, <1>10, <1>11 DEF AllStored
  <2>2. DataOf(Tables') = DataOf(Tables)
    BY <1>1 DEF DataOf, Tables
  <2> QED BY <1>1, <1>3, <2>1, <2>2 DEF ObjectsOK, Tables
<1>14. metaServers' \in Seq(0 .. servers' - 1) /\ Len(metaServers') <= servers'
  <2>1. metaServers \in Seq(0 .. n - 1) /\ Len(metaServers) <= n
    BY <1>0 DEF BuilderInv
  <2>2. metaServers \in Seq(0 .. (n + 1) - 1)
    BY <1>4, <2>1
  <2>3. n \in 0 .. (n + 1) - 1
    BY <1>4
  <2>4. Append(metaServers, n) \in Seq(0 .. (n + 1) - 1) /\ Len(Append(metaServers, n)) = Len(metaServers) + 1
    BY <2>2, <2>3
  <2>5. metaServers' \in Seq(0 .. (n + 1) - 1)
    BY <1>1, <2>2, <2>4
  <2>6. Len(metaServers') <= n + 1
    BY <1>1, <1>2, <2>1, <2>4
  <2>7. servers' = n + 1
    BY <1>1
  <2> QED BY ONLY <2>5, <2>6, <2>7, Zenon
<1>15. TablesInv(Tables', servers')
  BY <1>1, <1>9, <1>12, <1>13 DEF TablesInv
<1>16. processed' \subseteq Directories \union Files /\ IsFiniteSet(processed') /\ populating' \in BOOLEAN
  BY <1>1 DEF BuilderInv
<1> QED BY <1>1, <1>2, <1>14, <1>15, <1>16 DEF BuilderInv

\* Directories and files keep the tables as they should be.
LEMMA SetsTables ==
  ASSUME NEW t, SetTables(t)
  PROVE  /\ \A n : TablesTyped(t, n) => Tables' = t
         /\ RangesLast' => InRanges(t)
<1>1. ASSUME NEW n, TablesTyped(t, n) PROVE Tables' = t
  BY <1>1 DEF TablesTyped, SetTables, Tables
<1>2. RangesLast' => InRanges(t)
  BY DEF SetTables, RangesLast, InRanges
<1> QED BY <1>1, <1>2

LEMMA MetaServerIs ==
  ASSUME BuilderInv, populating
  PROVE  MetaOK(servers) /\ servers \in Nat \ {0} /\ MetaServer \in 0 .. servers - 1
<1>1. MetaOK(servers) /\ servers \in Nat
  BY DEF BuilderInv, MetaOK
<1>2. Len(metaServers) \in Nat \ {0} /\ Cardinality(processed) \in Nat
  BY <1>1, FS_CardinalityType DEF BuilderInv, MetaOK
<1>3. Cardinality(processed) % Len(metaServers) \in 0 .. Len(metaServers) - 1
  BY ONLY <1>2, DivModSum
<1>4. (Cardinality(processed) % Len(metaServers)) + 1 \in 1 .. Len(metaServers)
  BY <1>2, <1>3
<1>5. MetaServer \in 0 .. servers - 1
  BY <1>1, <1>4 DEF MetaServer, MetaOK
<1> QED BY <1>1, <1>2, <1>5 DEF MetaOK

LEMMA BuilderStep == BuilderInv /\ RangesLast' /\ [BuilderNext]_builderVars => BuilderInv'
<1> SUFFICES ASSUME BuilderInv, RangesLast', [BuilderNext]_builderVars PROVE BuilderInv'
  OBVIOUS
<1>1. ASSUME NEW isMeta \in BOOLEAN, RegisterFSServer(isMeta) PROVE BuilderInv'
  BY <1>1, ServerRegisters
<1>2. CASE StartPopulating
  <2>1. Tables' = Tables
    BY <1>2 DEF StartPopulating, Tables
  <2> QED BY <1>2, <2>1 DEF StartPopulating, BuilderInv
<1>3. ASSUME NEW path \in Directories \union Files, NEW t, TablesInv(t, servers), Tables' = t,
             processed' = processed \union {path}, UNCHANGED <<servers, metaServers, populating>>
      PROVE  BuilderInv'
  <2>1. IsFiniteSet(processed')
    BY <1>3, FS_AddElement DEF BuilderInv
  <2>2. TablesInv(Tables', servers')
    BY <1>3
  <2> QED BY <1>3, <2>1, <2>2 DEF BuilderInv
<1>4. ASSUME NEW path \in Directories, CreateDirectory(path) PROVE BuilderInv'
  <2> DEFINE t == WithDirectory(Tables, path, MetaServer)
  <2>1. /\ populating /\ SetTables(t) /\ processed' = processed \union {path}
        /\ UNCHANGED <<servers, metaServers, populating>>
    BY <1>4 DEF CreateDirectory
  <2>2. /\ MetaOK(servers) /\ servers \in Nat \ {0} /\ MetaServer \in 0 .. servers - 1
        /\ TablesInv(Tables, servers)
    BY <2>1, MetaServerIs DEF BuilderInv
  <2>3. path \in Seq(Range(path))
    BY BuilderAssumption
  <2>4. PICK g, m, k : DirectorySteps(g, m, k, Tables, servers, path, t)
    BY ONLY <2>2, <2>3, DirectoriesInSteps
  <2> HIDE DEF t
  <2>5. InRanges(t)
    BY <2>1, SetsTables
  <2>6. TablesInv(t, servers)
    BY ONLY <2>2, <2>3, <2>4, <2>5, DirectoriesKeep
  <2>7. Tables' = t
    BY <2>1, <2>6, SetsTables DEF TablesInv
  <2> QED BY <1>3, <2>1, <2>6, <2>7
<1>5. ASSUME NEW path \in Files, CreateFile(path) PROVE BuilderInv'
  <2>1. /\ populating /\ processed' = processed \union {path}
        /\ UNCHANGED <<servers, metaServers, populating>>
    BY <1>5 DEF CreateFile
  <2>2. /\ MetaOK(servers) /\ servers \in Nat \ {0} /\ MetaServer \in 0 .. servers - 1
        /\ TablesInv(Tables, servers)
    BY <2>1, MetaServerIs DEF BuilderInv
  <2>3. CASE SetTables(Tables)
    <3>1. Tables' = Tables
      BY <2>2, <2>3, SetsTables DEF TablesInv
    <3> QED BY <1>3, <2>1, <2>2, <3>1
  <2>4. ASSUME NEW first \in 0 .. servers - 1, SetTables(WithFile(Tables, path, MetaServer, first))
        PROVE  BuilderInv'
    <3> DEFINE t == WithFile(Tables, path, MetaServer, first)
    <3>1. t = WithFile(Tables, path, MetaServer, first) /\ SetTables(t)
      BY <2>4
    <3> HIDE DEF t
    <3>2. InRanges(t)
      BY <3>1, SetsTables
    <3>3. TablesInv(t, servers)
      BY ONLY <2>2, <3>1, <3>2, path \in Files, first \in 0 .. servers - 1, FileKeeps
    <3>4. Tables' = t
      BY <3>1, <3>3, SetsTables DEF TablesInv
    <3> QED BY <1>3, <2>1, <3>3, <3>4
  <2> QED BY <1>5, <2>3, <2>4 DEF CreateFile
<1>6. CASE UNCHANGED builderVars
  <2>1. Tables' = Tables
    BY <1>6 DEF builderVars, Tables
  <2> QED BY <1>6, <2>1 DEF builderVars, BuilderInv
<1> QED BY <1>1, <1>2, <1>4, <1>5, <1>6 DEF BuilderNext

LEMMA BuilderObjects ==
  ASSUME BuilderInv, RangesLast
  PROVE  /\ AllStored(Tables, servers) = Handles
         /\ \A s \in 0 .. servers - 1 : \A h \in Stores(s) : h < nextHandle[s] /\ Owner(h) = s
<1>1. TablesTyped(Tables, servers) /\ ServersOK(Tables, servers) /\ ObjectsOK(Tables, servers) /\ servers \in Nat
  BY DEF BuilderInv, TablesInv
<1>2. AllStored(Tables, servers) = Handles
  BY <1>1, TablesAre DEF ObjectsOK, Handles, DataHandles, DataOf
<1>3. ASSUME NEW s \in 0 .. servers - 1, NEW h \in Stores(s) PROVE h < nextHandle[s] /\ Owner(h) = s
  <2>1. /\ nextHandle[s] \in Nat /\ First(s) \in Nat /\ s \in Nat /\ s \in DOMAIN nextHandle
        /\ HandleSpan \in Nat
    BY <1>1, NextNat, FirstNat, TablesAre
  <2>2. h \in First(s) .. nextHandle[s] - 1
    BY <1>1, TablesAre DEF ServersOK, StoredIn, Stores
  <2>3. nextHandle[s] <= First(s) + HandleSpan
    BY <2>1 DEF RangesLast
  <2>4. h \in First(s) .. First(s) + HandleSpan - 1
    BY <2>1, <2>2, <2>3
  <2> QED BY <2>1, <2>2, <2>4, OwnerIs
<1> QED BY <1>2, <1>3

LEMMA BuilderInvLeads == BuilderInv /\ RangesLast => HandlesLeadToObjects
<1> SUFFICES ASSUME BuilderInv, RangesLast PROVE HandlesLeadToObjects
  OBVIOUS
<1>1. TablesTyped(Tables, servers) /\ ServersOK(Tables, servers) /\ ObjectsOK(Tables, servers) /\ servers \in Nat
  BY DEF BuilderInv, TablesInv
<1>2. /\ AllStored(Tables, servers) = Handles
      /\ \A s \in 0 .. servers - 1 : \A h \in Stores(s) : h < nextHandle[s] /\ Owner(h) = s
  BY BuilderObjects
<1>3. \A h \in Handles : \E s \in 0 .. servers - 1 : h \in Stores(s)
  BY <1>2, TablesAre DEF AllStored, StoredIn, Stores
<1>4. TablesOK
  <2>1. DOMAIN nextHandle = 0 .. servers - 1 /\ DOMAIN storage = 0 .. servers - 1
    BY <1>1, NextNat, TablesAre DEF TablesTyped
  <2>2. Range(metaServers) \subseteq 0 .. servers - 1
    BY DEF BuilderInv, Range
  <2>3. Range(nameToHandle) \subseteq DOMAIN metaData
    BY <1>1, TablesAre DEF ObjectsOK, Range
  <2>4. \A s \in DOMAIN storage : DOMAIN storage[s].dataBlocks = DOMAIN storage[s].metaDataBlocks
    BY <1>1, <2>1, TablesAre DEF ServersOK, LayoutOK
  <2> QED BY <2>1, <2>2, <2>3, <2>4 DEF TablesOK, BuilderInv
<1>5. HandlesUnique
  <2>1. /\ \A p, q \in DOMAIN nameToHandle : nameToHandle[p] = nameToHandle[q] => p = q
        /\ DataHandles \cap DOMAIN metaData = {}
        /\ \A g, h \in DOMAIN metaData : \A i \in DOMAIN metaData[g], j \in DOMAIN metaData[h] :
             metaData[g][i] = metaData[h][j] => g = h /\ i = j
    BY <1>1, TablesAre DEF ObjectsOK, DataHandles, DataOf
  <2>2. \A h \in Handles : h < nextHandle[Owner(h)]
    BY <1>2, <1>3
  <2> QED BY <2>1, <2>2 DEF HandlesUnique
<1>6. StoredWhereRouted
  <2>1. \A h \in Handles : {s \in 0 .. servers - 1 : h \in Stores(s)} = {Owner(h)}
    BY <1>2, <1>3
  <2>2. UNION {Stores(s) : s \in 0 .. servers - 1} = Handles
    BY <1>2, TablesAre DEF AllStored, StoredIn, Stores
  <2>3. \A p \in DOMAIN nameToHandle : p # <<>> => FileExists(Front(p))
    BY <1>1, TablesAre DEF ObjectsOK, FileExists
  <2> QED BY <2>1, <2>2, <2>3 DEF StoredWhereRouted
<1> QED BY <1>4, <1>5, <1>6 DEF HandlesLeadToObjects

\* The blocks of an object, between the inodes and the next free block.
LEMMA BlocksAre ==
  ASSUME BuilderInv, NEW s \in 0 .. servers - 1, NEW h \in Stores(s)
  PROVE  /\ LayoutOK(storage[s], size) /\ storage[s].dataBlocks[h] \in Nat
         /\ size[h] \in Nat /\ size[h] \div BlockSize \in Nat
         /\ BlocksOf(s, h) = storage[s].dataBlocks[h] .. (storage[s].dataBlocks[h] + (size[h] \div BlockSize)) - 1
<1>1. LayoutOK(storage[s], size)
  BY TablesAre DEF BuilderInv, TablesInv, ServersOK
<1>2. storage[s].dataBlocks[h] \in Nat /\ size[h] \in Nat
  BY <1>1 DEF LayoutOK, Stores
<1>3. size[h] \div BlockSize \in Nat
  BY ONLY <1>2, LayoutAssumption, DivModSum
<1>4. BlocksOf(s, h) = storage[s].dataBlocks[h] .. storage[s].dataBlocks[h] + (size[h] \div BlockSize) - 1
  BY DEF BlocksOf
<1> DEFINE x == storage[s].dataBlocks[h]
           y == size[h] \div BlockSize
<1>5. x + y - 1 = (x + y) - 1
  <2> HIDE DEF x, y
  <2>1. x \in Nat /\ y \in Nat
    BY <1>2, <1>3 DEF x, y
  <2> QED BY <2>1
<1> QED BY <1>1, <1>2, <1>3, <1>4, <1>5

LEMMA BuilderInvSeparates == BuilderInv => BlocksDisjoint
<1> SUFFICES ASSUME BuilderInv, NEW s \in 0 .. servers - 1, NEW g \in Stores(s), NEW h \in Stores(s)
             PROVE  /\ BlocksOf(s, g) \subseteq FirstDataBlock .. (storage[s].nextDataBlock - 1)
                    /\ g # h => /\ storage[s].metaDataBlocks[g] # storage[s].metaDataBlocks[h]
                                /\ BlocksOf(s, g) \cap BlocksOf(s, h) = {}
  BY DEF BlocksDisjoint
<1> DEFINE x == storage[s].dataBlocks[g]
           y == size[g] \div BlockSize
           z == storage[s].dataBlocks[h]
           w == size[h] \div BlockSize
           next == storage[s].nextDataBlock
<1>1. /\ x \in Nat /\ y \in Nat /\ z \in Nat /\ w \in Nat
      /\ BlocksOf(s, g) = x .. (x + y) - 1 /\ BlocksOf(s, h) = z .. (z + w) - 1
      /\ LayoutOK(storage[s], size)
  BY BlocksAre
<1>2. /\ next \in Nat /\ FirstDataBlock \in Nat /\ FirstDataBlock <= x /\ x + y <= next
      /\ g # h => (x + y <= z \/ z + w <= x) /\ storage[s].metaDataBlocks[g] # storage[s].metaDataBlocks[h]
  BY <1>1, LayoutAssumption DEF LayoutOK, Stores
<1> HIDE DEF x, y, z, w, next
<1>3. x .. (x + y) - 1 \subseteq FirstDataBlock .. (next - 1)
  BY <1>1, <1>2
<1>4. g # h => (x .. (x + y) - 1) \cap (z .. (z + w) - 1) = {}
  BY <1>1, <1>2
<1> QED BY <1>1, <1>2, <1>3, <1>4 DEF next

\* Each block from that of a region's first byte to that of its last holds one
\* of its bytes.
LEMMA EachBlockHeld ==
  ASSUME NEW r \in [offset : Nat, extent : Nat], r.extent # 0,
         NEW q \in BlocksOffset(r.offset) .. LastBlock(r)
  PROVE  \E b \in r.offset .. (r.offset + r.extent - 1) : b \div BlockSize = q
<1> DEFINE B == BlockSize
           off == r.offset
           end == r.offset + r.extent - 1
<1>1. B \in Nat \ {0} /\ off \in Nat /\ end \in Nat /\ off <= end
  BY BlockSizePositive
<1>2. PICK x \in Nat, s \in 0 .. B - 1 : off = x * B + s /\ off \div B = x
  BY <1>1, DivModSum
<1>3. PICK y \in Nat, t \in 0 .. B - 1 : end = y * B + t /\ end \div B = y
  BY <1>1, DivModSum
<1>4. q \in x .. y /\ q \in Nat
  BY <1>2, <1>3 DEF BlocksOffset, LastBlock
<1> HIDE DEF off, end, B
<1>5. CASE q = x
  BY <1>1, <1>2, <1>5 DEF off, end, B
<1>6. CASE q # x
  <2>1. q * B \in Nat /\ x * B \in Nat /\ y * B \in Nat /\ (x + 1) * B = x * B + B
    BY <1>1, <1>4
  <2>2. (x + 1) * B <= q * B /\ q * B <= y * B
    <3>1. x + 1 <= q /\ q <= y /\ x + 1 \in Int /\ q \in Int /\ y \in Int /\ B \in Nat
      BY <1>1, <1>4, <1>6
    <3> QED BY ONLY <3>1, MulMonotone
  <2>3. q * B \in off .. end
    BY <1>1, <1>2, <1>3, <2>1, <2>2
  <2>4. (q * B + 0) \div B = q
    <3>1. 0 \in 0 .. B - 1 /\ q \in Int
      BY <1>1, <1>4
    <3> QED BY ONLY <1>1, <3>1, DivModUnique
  <2>5. (q * B) \div B = q
    BY <2>1, <2>4
  <2> QED BY <2>3, <2>5 DEF off, end, B
<1> QED BY <1>5, <1>6

\* The steps of the clients leave what the file builder made alone.
LEMMA AccessStep == BuilderInv /\ RangesLast' /\ [AccessNext]_<<builderVars, accessVars>> => BuilderInv'
<1> SUFFICES ASSUME BuilderInv, RangesLast', [AccessNext]_<<builderVars, accessVars>> PROVE BuilderInv'
  OBVIOUS
<1>1. CASE Build
  BY <1>1, BuilderStep DEF Build
<1>2. ASSUME UNCHANGED builderVars PROVE BuilderInv'
  BY <1>2, BuilderStep
<1>3. CASE Launch
  BY <1>2, <1>3 DEF Launch
<1>4. ASSUME NEW c \in Client, Begin(c) \/ Finish(c) PROVE BuilderInv'
  BY <1>2, <1>4 DEF Begin, Finish
<1>5. ASSUME NEW c \in Client, NEW i \in 1 .. MaxServers, InitServerFlow(c, i) \/ MoveBuffer(c, i) PROVE BuilderInv'
  BY <1>2, <1>5 DEF InitServerFlow, MoveBuffer
<1>6. CASE UNCHANGED <<builderVars, accessVars>>
  BY <1>2, <1>6
<1> QED BY <1>1, <1>3, <1>4, <1>5, <1>6 DEF AccessNext

LEMMA AccessInvariant == AccessSpec /\ []RangesLast => []BuilderInv
<1>1. AccessInit => BuilderInv
  BY BuilderStarts DEF AccessInit
<1> QED BY <1>1, AccessStep, PTL DEF AccessSpec

\* As long as the servers' ranges last, which getNextHandle does not look at,
\* no handle names two objects, and each object is stored by the server that
\* owns its handle and by no other (getNextHandle, getMetaServer, addFile).
THEOREM AccessHandlesLeadToObjects == AccessSpec /\ []RangesLast => []HandlesLeadToObjects
  BY AccessInvariant, BuilderInvLeads, PTL

\* In those states no two objects of a server share an inode block or one of
\* the data blocks that were assigned to them (addFileToLayout).
THEOREM AccessBlocksDisjoint == AccessSpec /\ []RangesLast => []BlocksDisjoint
  BY AccessInvariant, BuilderInvSeparates, PTL

\* The blocks a region of an object is turned into: those its bytes are in, and
\* at most one more.
LEMMA BlocksOfRegion ==
  ASSUME NEW first \in Nat, NEW n \in Nat, NEW r \in Regions(n)
  PROVE  LET blocks == Range(RegionBlocks(first, r))
             holding == {first + (b \div BlockSize) : b \in r.offset .. (r.offset + r.extent - 1)}
         IN  holding \subseteq blocks /\ Cardinality(blocks) <= Cardinality(holding) + 1
<1> DEFINE blocks == Range(RegionBlocks(first, r))
           bytes == r.offset .. (r.offset + r.extent - 1)
           holding == {first + (b \div BlockSize) : b \in bytes}
           lo == BlocksOffset(r.offset)
           hi == LastBlock(r)
           num == NumBlocks(r)
<1>1. /\ BlockSize \in Nat \ {0} /\ r \in [offset : Nat, extent : Nat]
      /\ r.offset \in Nat /\ r.extent \in Nat \ {0}
  BY BlockSizePositive DEF Regions
<1>2. lo \in Nat /\ hi \in Nat /\ num \in Nat /\ num <= hi - lo + 2
  <2>1. r.offset + r.extent - 1 \in Nat
    BY <1>1
  <2>2. lo \in Nat /\ hi \in Nat
    BY <1>1, <2>1, DivModSum DEF BlocksOffset, LastBlock
  <2>3. Held(r) = hi - lo + 1 /\ num \in {Held(r), Held(r) + 1} /\ Held(r) \in Nat
    BY <1>1, NumBlocksHold DEF Held
  <2> HIDE DEF lo, hi, num
  <2> QED BY <2>2, <2>3
<1>3. holding \subseteq blocks
  <2> SUFFICES ASSUME NEW b \in bytes PROVE first + (b \div BlockSize) \in blocks
    OBVIOUS
  <2>1. PICK i \in 1 .. NumBlocks(r) : RegionBlocks(first, r)[i] = first + (b \div BlockSize)
    BY <1>1, BytesInBlocks
  <2>2. i \in DOMAIN RegionBlocks(first, r)
    BY DEF RegionBlocks
  <2> QED BY <2>1, <2>2 DEF Range
<1>4. IsFiniteSet(blocks) /\ Cardinality(blocks) <= num
  <2> DEFINE all == (first + lo) .. (first + lo + num - 1)
  <2>1. blocks \in SUBSET all
    <3> SUFFICES ASSUME NEW i \in 1 .. num PROVE first + lo + i - 1 \in all
      BY DEF RegionBlocks, Range
    <3> HIDE DEF lo, num
    <3> QED BY <1>2
  <2>2. IsFiniteSet(all) /\ Cardinality(all) = num
    <3> HIDE DEF lo, num
    <3> DEFINE from == first + lo
               to == first + lo + num - 1
    <3>1. from \in Int /\ to \in Int /\ (IF from > to THEN 0 ELSE to - from + 1) = num
      BY <1>2
    <3> HIDE DEF from, to
    <3>2. IsFiniteSet(from .. to) /\ Cardinality(from .. to) = num
      BY <3>1, FS_Interval
    <3> QED BY <3>2 DEF from, to
  <2> HIDE DEF all, blocks
  <2> QED BY <2>1, <2>2, FS_Subset
<1>5. IsFiniteSet(holding) /\ hi - lo + 1 <= Cardinality(holding)
  <2> DEFINE all == (first + lo) .. (first + hi)
  <2>1. all \in SUBSET holding
    <3> SUFFICES ASSUME NEW x \in all PROVE x \in holding
      OBVIOUS
    <3> DEFINE q == x - first
    <3>1. q \in lo .. hi /\ q \in Nat /\ x = first + q
      <4> HIDE DEF lo, hi
      <4> QED BY <1>2
    <3>2. PICK b \in bytes : b \div BlockSize = q
      <4> HIDE DEF q
      <4> QED BY <1>1, <3>1, EachBlockHeld
    <3> HIDE DEF q
    <3> QED BY <3>1, <3>2
  <2>2. IsFiniteSet(holding)
    <3> DEFINE f == [b \in bytes |-> first + (b \div BlockSize)]
    <3>1. IsFiniteSet(bytes)
      BY <1>1, FS_Interval
    <3>2. IsFiniteSet({f[b] : b \in bytes})
      <4> HIDE DEF f, bytes
      <4> QED BY <3>1, FiniteImage
    <3> QED BY <3>2
  <2>3. Cardinality(all) = IF lo > hi THEN 0 ELSE hi - lo + 1
    <3> DEFINE from == first + lo
               to == first + hi
    <3> HIDE DEF lo, hi
    <3>1. from \in Int /\ to \in Int
      BY <1>2
    <3>2. (IF from > to THEN 0 ELSE to - from + 1) = IF lo > hi THEN 0 ELSE hi - lo + 1
      BY <1>2
    <3> HIDE DEF from, to
    <3>3. Cardinality(from .. to) = IF from > to THEN 0 ELSE to - from + 1
      BY <3>1, FS_Interval
    <3>4. Cardinality(from .. to) = IF lo > hi THEN 0 ELSE hi - lo + 1
      BY <3>2, <3>3
    <3> QED BY <3>4 DEF from, to
  <2>4. Cardinality(all) <= Cardinality(holding) /\ Cardinality(holding) \in Nat
    <3> HIDE DEF all, holding
    <3> QED BY <2>1, <2>2, FS_Subset, FS_CardinalityType
  <2> HIDE DEF lo, hi, all, holding
  <2> QED BY <1>2, <2>2, <2>3, <2>4
<1>6. Cardinality(blocks) \in Nat /\ Cardinality(holding) \in Nat
  <2> HIDE DEF blocks, holding
  <2> QED BY <1>4, <1>5, FS_CardinalityType
<1>7. Cardinality(blocks) <= Cardinality(holding) + 1
  <2> HIDE DEF blocks, holding, lo, hi, num
  <2> QED BY <1>2, <1>4, <1>5, <1>6
<1> QED BY <1>3, <1>7

LEMMA BuilderInvCovers == BuilderInv => AccessCoversRegion
<1> SUFFICES ASSUME BuilderInv, NEW s \in 0 .. servers - 1, NEW h \in Stores(s), NEW r \in Regions(size[h])
             PROVE  LET blocks == Range(RegionBlocks(storage[s].dataBlocks[h], r))
                    IN /\ HoldingBlocks(s, h, r) \subseteq blocks
                       /\ Cardinality(blocks) <= Cardinality(HoldingBlocks(s, h, r)) + 1
  BY DEF AccessCoversRegion
<1>1. storage[s].dataBlocks[h] \in Nat /\ size[h] \in Nat
  BY BlocksAre
<1> QED BY <1>1, BlocksOfRegion DEF HoldingBlocks

\* In those states, before the accesses begin, each region of an object is
\* turned into the blocks its bytes are in, with at most one that holds none of
\* them (calcNumBlocks, addRegionToBlockIndexes).
THEOREM AccessBlocksHoldRegions == AccessSpec /\ []RangesLast => []BlocksHoldRegions
<1>1. BuilderInv => BlocksHoldRegions
  BY BuilderInvCovers DEF BlocksHoldRegions
<1> QED BY <1>1, AccessInvariant, PTL
=============================================================================
