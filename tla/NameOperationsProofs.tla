------------------------ MODULE NameOperationsProofs ------------------------
(***************************************************************************)
(* The clients' state machines and the servers' lookups, for any number of *)
(* clients and servers, any tree of paths and any cache sizes: what a      *)
(* client sends is what its machine is waiting for, servers read only      *)
(* directories of their own, an entry names a whole file, and the answer   *)
(* of an operation keeps its promise.                                      *)
(***************************************************************************)
EXTENDS NameOperations, FiniteSetTheorems, WellFoundedInduction, TLAPS

-----------------------------------------------------------------------------
\* Numbers.
LEMMA LeastNat ==
  ASSUME NEW T \in SUBSET Nat, T # {}
  PROVE  \E x \in T : \A y \in T : x <= y
<1>1. IsWellFoundedOn(OpToRel(<, Nat), Nat)
  BY NatLessThanWellFounded
<1>2. PICK x \in T : \A y \in T : ~(<<y, x>> \in OpToRel(<, Nat))
  BY <1>1, WFMin
<1>3. ASSUME NEW y \in T, ~(x <= y) PROVE FALSE
  <2>1. <<y, x>> \in Nat \X Nat /\ y < x
    BY <1>3
  <2>2. <<y, x>> \in {ss \in Nat \X Nat : ss[1] < ss[2]}
    BY <2>1
  <2>3. <<y, x>> \in OpToRel(<, Nat)
    BY <2>2 DEF OpToRel
  <2> QED BY <1>2, <2>3
<1> QED BY <1>3

LEMMA MaxIs ==
  ASSUME NEW S \in SUBSET Nat, NEW x \in S, \A y \in S : x >= y
  PROVE  Max(S) = x
<1>1. \A z \in S : (\A y \in S : z >= y) => z = x
  OBVIOUS
<1> QED BY <1>1 DEF Max

LEMMA MaxOfBounded ==
  ASSUME NEW S \in SUBSET Nat, S # {}, NEW b \in Nat, \A y \in S : y <= b
  PROVE  Max(S) \in S /\ \A y \in S : Max(S) >= y
<1> DEFINE T == {n \in Nat : \A y \in S : y <= n}
<1>1. PICK x \in T : \A y \in T : x <= y
  BY LeastNat
<1>2. x \in S
  <2>1. ASSUME x \notin S PROVE FALSE
    <3>1. PICK y \in S : TRUE
      OBVIOUS
    <3>2. y <= x /\ y # x /\ y \in Nat /\ x \in Nat
      BY <1>1, <2>1
    <3>3. x - 1 \in Nat
      BY <3>2
    <3>4. \A z \in S : z <= x - 1
      BY <1>1, <2>1
    <3> QED BY <1>1, <3>3, <3>4
  <2> QED BY <2>1
<1>3. \A y \in S : x >= y
  BY <1>1
<1> QED BY <1>2, <1>3, MaxIs
-----------------------------------------------------------------------------
\* Paths.
LEMMA PrefixIs ==
  ASSUME NEW p \in Seq(Names), NEW n \in 0..Len(p)
  PROVE  /\ Prefix(p, n) \in Seq(Names) /\ Len(Prefix(p, n)) = n
         /\ \A i \in 1..n : Prefix(p, n)[i] = p[i]
BY DEF Prefix

LEMMA PrefixOfPrefix ==
  ASSUME NEW p \in Seq(Names), NEW n \in 0..Len(p), NEW k \in 0..n
  PROVE  Prefix(Prefix(p, n), k) = Prefix(p, k)
<1> DEFINE q == Prefix(p, n)
<1>1. k \in 0..Len(p) /\ n \in Nat
  OBVIOUS
<1>2. q \in Seq(Names) /\ Len(q) = n /\ \A i \in 1..n : q[i] = p[i]
  BY PrefixIs
<1> HIDE DEF q
<1>3. /\ Prefix(q, k) \in Seq(Names) /\ Len(Prefix(q, k)) = k
      /\ \A i \in 1..k : Prefix(q, k)[i] = q[i]
  BY <1>2, PrefixIs
<1>4. /\ Prefix(p, k) \in Seq(Names) /\ Len(Prefix(p, k)) = k
      /\ \A i \in 1..k : Prefix(p, k)[i] = p[i]
  BY <1>1, PrefixIs
<1>5. \A i \in 1..k : Prefix(q, k)[i] = Prefix(p, k)[i]
  BY <1>1, <1>2, <1>3, <1>4
<1> QED BY <1>3, <1>4, <1>5 DEF q

LEMMA WholePrefix ==
  ASSUME NEW p \in Seq(Names)
  PROVE  Prefix(p, Len(p)) = p /\ Prefix(p, 0) = <<>> /\ Len(p) \in Nat
<1>1. Len(p) \in 0..Len(p) /\ 0 \in 0..Len(p)
  OBVIOUS
<1>2. /\ Prefix(p, Len(p)) \in Seq(Names) /\ Len(Prefix(p, Len(p))) = Len(p)
      /\ \A i \in 1..Len(p) : Prefix(p, Len(p))[i] = p[i]
  BY <1>1, PrefixIs
<1>3. Prefix(p, 0) \in Seq(Names) /\ Len(Prefix(p, 0)) = 0
  BY <1>1, PrefixIs
<1>4. Prefix(p, Len(p)) = p
  BY <1>2
<1> QED BY <1>3, <1>4

LEMMA PathsAreSequences ==
  /\ Known \subseteq Seq(Names) /\ Unknown \subseteq Seq(Names)
  /\ <<>> \in Known /\ <<>> \in Directories /\ Unknown \intersect Known = {}
  /\ \A p \in Known \ {<<>>} : Parent(p) \in Directories
  /\ Directories \subseteq Known /\ Files \subseteq Known
  /\ Directories \intersect Files = {}
BY NameOperationsAssumption DEF Known

LEMMA ParentIs ==
  ASSUME NEW p \in Seq(Names), p # <<>>
  PROVE  /\ Len(p) \in Nat \ {0} /\ Parent(p) = Prefix(p, Len(p) - 1)
         /\ Parent(p) \in Seq(Names) /\ Len(Parent(p)) = Len(p) - 1
         /\ \A k \in 0..Len(p) - 1 : Prefix(Parent(p), k) = Prefix(p, k)
<1>1. Len(p) \in Nat \ {0}
  OBVIOUS
<1>2. Parent(p) = Prefix(p, Len(p) - 1)
  BY DEF Parent, Front, Prefix
<1>3. Len(p) - 1 \in 0..Len(p)
  BY <1>1
<1>4. Parent(p) \in Seq(Names) /\ Len(Parent(p)) = Len(p) - 1
  BY <1>2, <1>3, PrefixIs
<1>5. \A k \in 0..Len(p) - 1 : Prefix(Parent(p), k) = Prefix(p, k)
  BY <1>2, <1>3, PrefixOfPrefix
<1> QED BY <1>1, <1>2, <1>4, <1>5

\* What is below a known path is known: FileBuilder makes the parents.
LEMMA PrefixesKnown ==
  ASSUME NEW p \in Seq(Names), NEW n \in 0..Len(p), Prefix(p, n) \in Known, NEW k \in 0..n
  PROVE  /\ Prefix(p, k) \in Known
         /\ k < n => Prefix(p, k) \in Directories
<1> DEFINE Bad == {j \in Nat : j <= n /\ Prefix(p, n - j) \notin Known}
<1>1. ASSUME Bad # {} PROVE FALSE
  <2>1. PICK j \in Bad : \A i \in Bad : j <= i
    BY <1>1, LeastNat
  <2>2. j # 0
    BY <2>1
  <2>3. j - 1 \in Nat /\ j - 1 \notin Bad
    BY <2>1, <2>2
  <2>4. Prefix(p, n - (j - 1)) \in Known
    BY <2>1, <2>3
  <2> DEFINE i == n - (j - 1)
             q == Prefix(p, i)
  <2>5. i \in 0..Len(p) /\ i # 0 /\ i - 1 = n - j /\ i - 1 \in 0..i
    BY <2>1, <2>2
  <2>6. q \in Seq(Names) /\ Len(q) = i
    BY <2>5, PrefixIs
  <2>7. q # <<>>
    BY <2>5, <2>6
  <2>8. Prefix(q, i - 1) = Prefix(p, i - 1)
    BY <2>5, PrefixOfPrefix
  <2>9. Parent(q) = Prefix(q, i - 1)
    BY <2>6, <2>7, ParentIs
  <2>10. Parent(q) \in Known
    BY <2>4, <2>7, PathsAreSequences DEF Known
  <2> HIDE DEF q
  <2> QED BY <2>1, <2>5, <2>8, <2>9, <2>10
<1>2. ASSUME NEW i \in 0..n PROVE Prefix(p, i) \in Known
  <2>1. n - i \in Nat /\ n - i <= n /\ n - (n - i) = i
    OBVIOUS
  <2> QED BY <1>1, <2>1
<1>3. ASSUME k < n PROVE Prefix(p, k) \in Directories
  <2> DEFINE q == Prefix(p, k + 1)
  <2>1. k + 1 \in 0..n /\ k + 1 \in 0..Len(p) /\ k \in 0..(k + 1) /\ (k + 1) - 1 = k
    BY <1>3
  <2>2. q \in Known /\ q \in Seq(Names) /\ Len(q) = k + 1
    BY <1>2, <2>1, PrefixIs
  <2>3. q # <<>>
    BY <2>1, <2>2
  <2>4. Prefix(q, k) = Prefix(p, k)
    BY <2>1, PrefixOfPrefix
  <2>5. Parent(q) = Prefix(q, k)
    BY <2>1, <2>2, <2>3, ParentIs
  <2> QED BY <2>2, <2>3, <2>4, <2>5, PathsAreSequences
<1> QED BY <1>2, <1>3

\* The longest known prefix is where known ones end.
LEMMA LongestKnownIs ==
  ASSUME NEW p \in Seq(Names), NEW n \in 0..Len(p), Prefix(p, n) \in Known,
         n = Len(p) \/ Prefix(p, n + 1) \notin Known
  PROVE  LongestKnown(p) = n
<1> DEFINE S == {k \in 0..Len(p) : Prefix(p, k) \in Known}
<1>1. S \in SUBSET Nat /\ n \in S
  OBVIOUS
<1>2. ASSUME NEW k \in S PROVE n >= k
  <2>1. CASE n = Len(p)
    BY <2>1
  <2>2. CASE n # Len(p)
    <3>1. ASSUME k > n PROVE FALSE
      <4>1. n + 1 \in 0..k /\ k \in 0..Len(p) /\ Prefix(p, k) \in Known
        BY <3>1
      <4>2. Prefix(p, n + 1) \in Known
        BY <4>1, PrefixesKnown
      <4> QED BY <2>2, <4>2
    <3> QED BY <3>1
  <2> QED BY <2>1, <2>2
<1> HIDE DEF S
<1>3. Max(S) = n
  BY <1>1, <1>2, MaxIs
<1> QED BY <1>3 DEF S, LongestKnown
-----------------------------------------------------------------------------
\* The client's caches, LRUTimeoutCache, keep their keys as LRUCache does.
LRU == INSTANCE LRUCacheOpsProofs WITH SizeMod <- 2

\* A cache: known paths, each once, no more than fit.
CacheOK(cache, capacity) ==
  cache \in Seq(Known) /\ IsInjective(cache) /\ Len(cache) <= capacity

LEMMA DistinctIs ==
  ASSUME NEW cache \in Seq(Known)
  PROVE  IsInjective(cache) <=> LRU!Distinct(cache)
BY DEF IsInjective, LRU!Distinct

LEMMA SameToSet == \A s : LRU!ToSet(s) = ToSet(s)
BY DEF ToSet, LRU!ToSet

LEMMA RemovedOK ==
  ASSUME NEW cap \in Nat, NEW cache, CacheOK(cache, cap), NEW k
  PROVE  /\ CacheOK(Removed(cache, k), cap)
         /\ ToSet(Removed(cache, k)) = ToSet(cache) \ {k}
         /\ k \in ToSet(cache) => Len(Removed(cache, k)) = Len(cache) - 1
<1>1. cache \in Seq(Known) /\ LRU!Distinct(cache) /\ Len(cache) \in Nat /\ Len(cache) <= cap
  BY DistinctIs DEF CacheOK
<1>2. CASE k \in ToSet(cache)
  <2>1. Removed(cache, k) = LRU!EraseRef(cache, k)
    BY <1>2 DEF Removed, LRU!EraseRef, LRU!RefOf, RemoveAt, LRU!RemoveAt
  <2>2. LRU!EraseRef(cache, k) \in Seq(Known) /\ Len(LRU!EraseRef(cache, k)) = Len(cache) - 1
    BY <1>1, <1>2, SameToSet, LRU!EraseRefShifts
  <2>3. /\ LRU!Distinct(LRU!EraseRef(cache, k))
        /\ ToSet(LRU!EraseRef(cache, k)) = ToSet(cache) \ {k}
    BY <1>1, <1>2, SameToSet, LRU!EraseRefRemoves
  <2> QED BY <1>1, <2>1, <2>2, <2>3, DistinctIs DEF CacheOK
<1>3. CASE k \notin ToSet(cache)
  BY <1>3 DEF Removed
<1> QED BY <1>2, <1>3

LEMMA RefreshedOK ==
  ASSUME NEW cap \in Nat, NEW cache, CacheOK(cache, cap), NEW k \in Known,
         k \in ToSet(cache) \/ Len(cache) < cap
  PROVE  CacheOK(Refreshed(cache, k), cap)
<1> DEFINE r == Removed(cache, k)
<1>1. CacheOK(r, cap) /\ k \notin ToSet(r) /\ Len(r) < cap
  <2>1. CacheOK(r, cap) /\ ToSet(r) = ToSet(cache) \ {k}
    BY RemovedOK
  <2>2. CASE k \in ToSet(cache)
    BY <2>1, <2>2, RemovedOK DEF CacheOK
  <2>3. CASE k \notin ToSet(cache)
    BY <2>1, <2>3 DEF Removed
  <2> QED BY <2>1, <2>2, <2>3
<1>2. r \in Seq(Known) /\ LRU!Distinct(r)
  BY <1>1, DistinctIs DEF CacheOK
<1> HIDE DEF r
<1>3. /\ LRU!PushFront(r, k) \in Seq(Known) /\ LRU!Distinct(LRU!PushFront(r, k))
      /\ Len(LRU!PushFront(r, k)) = Len(r) + 1
  BY <1>1, <1>2, SameToSet, LRU!PushFrontAdds
<1>4. Refreshed(cache, k) = LRU!PushFront(r, k)
  BY DEF Refreshed, LRU!PushFront, r
<1> QED BY <1>1, <1>2, <1>3, <1>4, DistinctIs DEF CacheOK

LEMMA InsertedOK ==
  ASSUME NEW cap \in Nat \ {0}, NEW cache, CacheOK(cache, cap), NEW k \in Known
  PROVE  CacheOK(Inserted(cache, k, cap), cap)
<1>1. CASE k \in ToSet(cache) \/ Len(cache) < cap
  BY <1>1, RefreshedOK DEF Inserted
<1>2. CASE ~(k \in ToSet(cache) \/ Len(cache) < cap)
  <2> DEFINE r == Front(cache)
  <2>1. cache \in Seq(Known) /\ Len(cache) = cap /\ IsInjective(cache)
    BY <1>2 DEF CacheOK
  <2>2. r \in Seq(Known) /\ Len(r) = cap - 1 /\ \A i \in 1..cap - 1 : r[i] = cache[i]
    BY <2>1 DEF Front
  <2>3. IsInjective(r) /\ k \notin ToSet(r)
    BY <1>2, <2>1, <2>2 DEF IsInjective, ToSet
  <2> HIDE DEF r
  <2>4. LRU!Distinct(r)
    BY <2>2, <2>3, DistinctIs
  <2>5. /\ LRU!PushFront(r, k) \in Seq(Known) /\ LRU!Distinct(LRU!PushFront(r, k))
        /\ Len(LRU!PushFront(r, k)) = Len(r) + 1
    BY <2>2, <2>3, <2>4, SameToSet, LRU!PushFrontAdds
  <2>6. Inserted(cache, k, cap) = LRU!PushFront(r, k)
    BY <1>2 DEF Inserted, LRU!PushFront, r
  <2> QED BY <2>2, <2>5, <2>6, DistinctIs DEF CacheOK
<1> QED BY <1>1, <1>2

LEMMA TouchedOK ==
  ASSUME NEW cap \in Nat, NEW cache, CacheOK(cache, cap), NEW k \in Known
  PROVE  CacheOK(Touched(cache, k), cap)
BY RefreshedOK DEF Touched

\* What a cache resolves of a path is known.
LEMMA ResolvedIs ==
  ASSUME NEW cache, NEW p \in Seq(Names)
  PROVE  /\ ResolvedIn(cache, p) \in 0..Len(p) + 1
         /\ ResolvedIn(cache, p) # 0 => Prefix(p, ResolvedIn(cache, p) - 1) \in ToSet(cache)
<1> DEFINE T == {m \in 0..Len(p) : Prefix(p, m) \in ToSet(cache)}
           S == {0} \union {n + 1 : n \in T}
<1>1. Len(p) \in Nat
  OBVIOUS
<1>2. S \in SUBSET Nat /\ S # {} /\ \A y \in S : y <= Len(p) + 1
  BY <1>1
<1>3. Max(S) \in S
  <2>1. Len(p) + 1 \in Nat
    BY <1>1
  <2> HIDE DEF S
  <2> QED BY <1>2, <2>1, MaxOfBounded
<1>4. \A y \in S : y # 0 => y - 1 \in T
  BY <1>1
<1> QED BY <1>1, <1>2, <1>3, <1>4 DEF ResolvedIn
-----------------------------------------------------------------------------
\* The state machines an operation registers.
MachineTypes == {"lookup", "getAttr", "getSize", "create", "createDir", "remove",
                 "setAttr", "readDir"}

\* A path that can be looked up: nothing on the way to it is a file.
Lookable(q) == q \in Paths /\ \A n \in 0..Len(q) - 1 : Prefix(q, n) \notin Files

MachineOK(m) ==
  /\ m = Machine(m.type, m.path) /\ m.type \in MachineTypes
  /\ m.type = "lookup" => Lookable(m.path)
  /\ m.type # "lookup" => m.path \in Known
  /\ m.type = "create" => m.path \in Files
  /\ m.type = "createDir" => m.path \in Directories
  /\ m.type \in {"create", "createDir", "remove"} => m.path # <<>>

\* Which machine is the last one, and which tell the caller what was found.
PlaceOK(kind, p, i) ==
  LET m == Machines(kind, p)[i]
      last == i = Len(Machines(kind, p))
  IN /\ Len(m.path) <= Len(p)
     /\ m.type = "create" => kind = "create" /\ last
     /\ m.type = "createDir" => kind = "mkdir" /\ last
     /\ m.type = "remove" => kind \in Removes /\ last
     /\ kind = "create" /\ last => m.type = "create"
     /\ kind = "mkdir" /\ last => m.type = "createDir"
     /\ kind \in Removes /\ last => m.type = "remove"
     /\ m.type \in {"create", "createDir", "remove"} => m.path = p
     /\ kind = "open" /\ last =>
          m.type = "lookup" /\ (m.path = p \/ (m.path = Parent(p) /\ Parent(p) \notin Known))
     /\ kind = "stat" /\ i = 3 => m.type = "lookup" /\ m.path = p
     /\ kind = "stat" /\ i = 4 => m.type = "getSize"

LEMMA PathsAre ==
  /\ Paths \subseteq Seq(Names)
  /\ \A p \in Paths : Len(p) \in Nat
  /\ \A p \in Files \union Unknown : p # <<>>
  /\ \A p \in Unknown : Parent(p) \in Paths
<1>1. \A p \in Files \union Unknown : p # <<>>
  BY PathsAreSequences
<1>2. \A p \in Unknown : Parent(p) \in Seq(Names)
  BY <1>1, PathsAreSequences, ParentIs
<1>3. Paths \subseteq Seq(Names)
  BY <1>2, PathsAreSequences DEF Paths
<1> QED BY <1>1, <1>3 DEF Paths

LEMMA KnownLookable ==
  ASSUME NEW p \in Known
  PROVE  Lookable(p)
<1>1. p \in Seq(Names) /\ Len(p) \in 0..Len(p) /\ Prefix(p, Len(p)) = p
  BY PathsAreSequences, WholePrefix
<1>2. ASSUME NEW n \in 0..Len(p) - 1 PROVE Prefix(p, n) \in Directories
  <2>1. n \in 0..Len(p) /\ n < Len(p)
    BY <1>1
  <2> QED BY <1>1, <2>1, PrefixesKnown
<1> QED BY <1>2, PathsAreSequences DEF Lookable, Paths

LEMMA ParentLookable ==
  ASSUME NEW p \in Seq(Names), p # <<>>, Lookable(p), Parent(p) \in Paths
  PROVE  Lookable(Parent(p))
<1>1. /\ Len(p) \in Nat \ {0} /\ Len(Parent(p)) = Len(p) - 1
      /\ \A k \in 0..Len(p) - 1 : Prefix(Parent(p), k) = Prefix(p, k)
  BY ParentIs
<1>2. \A n \in 0..Len(Parent(p)) - 1 : n \in 0..Len(p) - 1
  BY <1>1
<1> QED BY <1>1, <1>2 DEF Lookable

LEMMA UnknownLookable ==
  ASSUME NEW p \in Unknown
  PROVE  Lookable(p)
BY NameOperationsAssumption DEF Lookable, Paths

\* The paths operations name.
LEMMA OperandIs ==
  ASSUME NEW kind \in Kinds, NEW p \in PathsOf(kind)
  PROVE  /\ p \in Paths /\ p \in Seq(Names) /\ Len(p) \in Nat /\ Lookable(p)
         /\ kind # "open" => p \in Known
         /\ kind # "readdir" => p # <<>> /\ Parent(p) \in Paths /\ Lookable(Parent(p))
                                /\ Parent(p) \in Seq(Names) /\ Len(Parent(p)) <= Len(p)
         /\ kind \notin {"readdir", "open"} => Parent(p) \in Directories
         /\ kind = "create" => p \in Files
         /\ kind \in {"mkdir", "rmdir"} => p \in Directories
<1>1. /\ p \in Files \union Unknown \union Directories
      /\ kind # "open" => p \in Known
      /\ kind # "readdir" => p # <<>>
      /\ kind = "create" => p \in Files
      /\ kind \in {"mkdir", "rmdir"} => p \in Directories
  BY PathsAre, PathsAreSequences DEF PathsOf, Kinds, Known
<1>2. p \in Known \/ p \in Unknown
  BY <1>1 DEF Known
<1>3. p \in Paths /\ p \in Seq(Names) /\ Len(p) \in Nat /\ Lookable(p)
  BY <1>2, PathsAre, KnownLookable, UnknownLookable DEF Lookable
<1>4. ASSUME kind # "readdir"
      PROVE  /\ Parent(p) \in Paths /\ Lookable(Parent(p))
             /\ Parent(p) \in Seq(Names) /\ Len(Parent(p)) <= Len(p)
  <2>1. p # <<>>
    BY <1>1, <1>4
  <2>2. /\ Len(p) \in Nat \ {0} /\ Parent(p) \in Seq(Names) /\ Len(Parent(p)) = Len(p) - 1
    BY <1>3, <2>1, ParentIs
  <2>3. Parent(p) \in Paths
    BY <1>2, <2>1, PathsAreSequences, PathsAre DEF Paths
  <2> QED BY <1>3, <2>1, <2>2, <2>3, ParentLookable
<1>5. kind \notin {"readdir", "open"} => Parent(p) \in Directories
  BY <1>1, PathsAreSequences
<1> QED BY <1>1, <1>3, <1>4, <1>5

\* Machine m is of this type, for this path.
Is(m, type, p) == m = Machine(type, p) /\ m.type = type /\ m.path = p

LEMMA MachineIs == \A type, p : Is(Machine(type, p), type, p)
BY DEF Is, Machine

LEMMA OnParentIs ==
  ASSUME NEW p, NEW type, NEW q,
         NEW i \in 1..Len(OnParent(p, Machine(type, q)))
  PROVE  LET ms == OnParent(p, Machine(type, q))
         IN /\ Parent(p) \in Known =>
                 /\ Len(ms) = 3
                 /\ \/ i = 1 /\ Is(ms[i], "lookup", Parent(p))
                    \/ i = 2 /\ Is(ms[i], "getAttr", Parent(p))
                    \/ i = 3 /\ Is(ms[i], type, q)
            /\ Parent(p) \notin Known =>
                 Len(ms) = 1 /\ i = 1 /\ Is(ms[i], "lookup", Parent(p))
BY MachineIs DEF OnParent

LEMMA MachinesLength ==
  ASSUME NEW kind \in Kinds, NEW p
  PROVE  Len(Machines(kind, p)) \in 0..4
BY DEF Kinds, Machines, OpenMachines, CreateMachines, CreateDirMachines, DeleteMachines,
       StatMachines, UpdateTimeMachines, ReadDirMachines, OnParent, Removes

LEMMA MachinesAre ==
  ASSUME NEW kind \in Kinds, NEW p \in PathsOf(kind), NEW i \in 1..Len(Machines(kind, p))
  PROVE  MachineOK(Machines(kind, p)[i]) /\ PlaceOK(kind, p, i)
<1> DEFINE ms == Machines(kind, p)
           m == ms[i]
<1>1. /\ p \in Paths /\ p \in Seq(Names) /\ Len(p) \in Nat /\ Lookable(p)
      /\ kind # "open" => p \in Known
      /\ kind # "readdir" => p # <<>> /\ Parent(p) \in Paths /\ Lookable(Parent(p))
                             /\ Parent(p) \in Seq(Names) /\ Len(Parent(p)) <= Len(p)
      /\ kind \notin {"readdir", "open"} => Parent(p) \in Known
      /\ kind = "create" => p \in Files
      /\ kind \in {"mkdir", "rmdir"} => p \in Directories
  BY OperandIs, PathsAreSequences
<1>3. CASE kind = "open"
  <2>1. ms = OnParent(p, Machine("lookup", p))
    BY <1>3 DEF Machines, OpenMachines
  <2>2. CASE Parent(p) \in Known
    <3>1. /\ Len(ms) = 3
          /\ \/ i = 1 /\ Is(m, "lookup", Parent(p))
             \/ i = 2 /\ Is(m, "getAttr", Parent(p))
             \/ i = 3 /\ Is(m, "lookup", p)
      BY <2>1, <2>2, OnParentIs
    <3>2. MachineOK(m) /\ Len(m.path) <= Len(p)
      BY <1>1, <1>3, <2>2, <3>1 DEF MachineOK, MachineTypes, Is
    <3>3. i = Len(ms) => m.type = "lookup" /\ m.path = p
      BY <3>1 DEF Is
    <3>4. m.type \in {"lookup", "getAttr"} /\ kind \notin Removes
      BY <1>3, <3>1 DEF Is, Removes
    <3> QED BY <1>3, <3>2, <3>3, <3>4 DEF PlaceOK
  <2>3. CASE Parent(p) \notin Known
    <3>1. Len(ms) = 1 /\ i = 1 /\ Is(m, "lookup", Parent(p))
      BY <2>1, <2>3, OnParentIs
    <3> QED BY <1>1, <1>3, <2>3, <3>1 DEF MachineOK, PlaceOK, MachineTypes, Removes, Is
  <2> QED BY <2>2, <2>3
<1>4. CASE kind = "create"
  <2>1. /\ Len(ms) = 3
        /\ \/ i = 1 /\ Is(m, "lookup", Parent(p))
           \/ i = 2 /\ Is(m, "getAttr", Parent(p))
           \/ i = 3 /\ Is(m, "create", p)
    BY <1>1, <1>4, OnParentIs DEF Machines, CreateMachines
  <2>2. MachineOK(m) /\ Len(m.path) <= Len(p)
    BY <1>1, <1>4, <2>1 DEF MachineOK, MachineTypes, Is
  <2>3. m.type = "create" => i = Len(ms) /\ m.path = p
    BY <2>1 DEF Is
  <2>4. i = Len(ms) => m.type = "create"
    BY <2>1 DEF Is
  <2>5. m.type \in {"lookup", "getAttr", "create"} /\ kind \notin Removes
    BY <1>4, <2>1 DEF Is, Removes
  <2> QED BY <1>4, <2>2, <2>3, <2>4, <2>5 DEF PlaceOK
<1>5. CASE kind = "mkdir"
  <2>1. /\ Len(ms) = 3
        /\ \/ i = 1 /\ Is(m, "lookup", Parent(p))
           \/ i = 2 /\ Is(m, "getAttr", Parent(p))
           \/ i = 3 /\ Is(m, "createDir", p)
    BY <1>1, <1>5, OnParentIs DEF Machines, CreateDirMachines
  <2>2. MachineOK(m) /\ Len(m.path) <= Len(p)
    BY <1>1, <1>5, <2>1 DEF MachineOK, MachineTypes, Is
  <2>3. m.type = "createDir" => i = Len(ms) /\ m.path = p
    BY <2>1 DEF Is
  <2>4. i = Len(ms) => m.type = "createDir"
    BY <2>1 DEF Is
  <2>5. m.type \in {"lookup", "getAttr", "createDir"} /\ kind \notin Removes
    BY <1>5, <2>1 DEF Is, Removes
  <2> QED BY <1>5, <2>2, <2>3, <2>4, <2>5 DEF PlaceOK
<1>6. CASE kind \in Removes
  <2>1. /\ Len(ms) = 3
        /\ \/ i = 1 /\ Is(m, "lookup", Parent(p))
           \/ i = 2 /\ Is(m, "getAttr", Parent(p))
           \/ i = 3 /\ Is(m, "remove", p)
    BY <1>1, <1>6, OnParentIs DEF Machines, DeleteMachines, Removes
  <2>2. kind \notin {"open", "create", "mkdir", "stat", "readdir"}
    BY <1>6 DEF Removes
  <2> QED BY <1>1, <1>6, <2>1, <2>2 DEF MachineOK, PlaceOK, MachineTypes, Is
<1>7. CASE kind = "stat"
  <2>1. /\ Len(ms) = 4
        /\ \/ i = 1 /\ Is(m, "lookup", Parent(p))
           \/ i = 2 /\ Is(m, "getAttr", Parent(p))
           \/ i = 3 /\ Is(m, "lookup", p)
           \/ i = 4 /\ Is(m, "getSize", p)
    BY <1>7, MachineIs DEF Machines, StatMachines
  <2> QED BY <1>1, <1>7, <2>1 DEF MachineOK, PlaceOK, MachineTypes, Removes, Is
<1>8. CASE kind = "utime"
  <2>1. /\ Len(ms) = 3
        /\ \/ i = 1 /\ Is(m, "lookup", Parent(p))
           \/ i = 2 /\ Is(m, "getAttr", Parent(p))
           \/ i = 3 /\ Is(m, "setAttr", p)
    BY <1>8, MachineIs DEF Machines, UpdateTimeMachines
  <2> QED BY <1>1, <1>8, <2>1 DEF MachineOK, PlaceOK, MachineTypes, Removes, Is
<1>9. CASE kind = "readdir"
  <2>1. /\ Len(ms) = 2
        /\ \/ i = 1 /\ Is(m, "getAttr", p)
           \/ i = 2 /\ Is(m, "readDir", p)
    BY <1>9, MachineIs DEF Machines, ReadDirMachines
  <2> QED BY <1>1, <1>9, <2>1 DEF MachineOK, PlaceOK, MachineTypes, Removes, Is
<1>10. CASE kind = "close"
  BY <1>10 DEF Machines
<1> QED BY <1>3, <1>4, <1>5, <1>6, <1>7, <1>8, <1>9, <1>10 DEF Kinds, Removes
-----------------------------------------------------------------------------
\* What the machines send.
Places == {"server", "storage", "client"}
Statuses == {"none", "FOUND", "PARTIAL", "NOTFOUND"}
Reqs == [type : RequestTypes, object : Objects, path : Paths, resolved : Nat,
         at : Places, status : Statuses]

\* A round of requests, as they are sent.
RoundOK(reqs) ==
  /\ reqs # {} /\ IsFiniteSet(reqs) /\ reqs \subseteq Reqs
  /\ \A q \in reqs : q.at = "server" /\ q.type # "lookup"

LEMMA ObjectsAre ==
  ASSUME NEW p \in Known
  PROVE  /\ Meta(p) \in Objects /\ Data(p) \subseteq Objects
         /\ Data(p) # {} /\ IsFiniteSet(Data(p))
         /\ FirstHandle \in Objects
         /\ Meta(p).path = p /\ Meta(p).part = 0
         /\ \A o \in Data(p) : o.path = p /\ o.part # 0
<1>1. Meta(p) \in Objects /\ Data(p) \subseteq Objects
  BY DEF Objects
<1>2. FirstHandle \in Objects
  BY NameOperationsAssumption DEF Objects
<1>3. DataServers[p] \in Seq(Servers) /\ DataServers[p] # <<>>
  <2>1. p \in Directories \union Files
    BY DEF Known
  <2>2. ASSUME p \in Directories PROVE DataServers[p] # <<>>
    <3>1. DataServers[p] = <<MetaServer[p]>>
      BY <2>2, NameOperationsAssumption
    <3>2. Len(<<MetaServer[p]>>) = 1 /\ Len(<<>>) = 0
      OBVIOUS
    <3> QED BY <3>1, <3>2
  <2> QED BY <2>1, <2>2, NameOperationsAssumption
<1> DEFINE D == DOMAIN DataServers[p]
           At(i) == [path |-> p, part |-> i]
<1>4. D = 1..Len(DataServers[p]) /\ Len(DataServers[p]) \in Nat \ {0}
  BY <1>3
<1>5. IsFiniteSet(D)
  BY <1>4, FS_Interval
<1>6. Data(p) = {At(i) : i \in D}
  BY DEF Data
<1>7. IsFiniteSet({At(i) : i \in D})
  <2> DEFINE T == {At(i) : i \in D}
             f == [i \in D |-> At(i)]
  <2>1. f \in Surjection(D, T)
    <3> HIDE DEF D, At
    <3>1. f \in [D -> T]
      OBVIOUS
    <3>2. \A t \in T : \E i \in D : f[i] = t
      OBVIOUS
    <3> HIDE DEF f, T
    <3> QED BY <3>1, <3>2 DEF Surjection
  <2> HIDE DEF f, T, D
  <2>2. IsFiniteSet(T)
    BY <1>5, <2>1, FS_Surjection
  <2> QED BY <2>2 DEF T
<1>8. 1 \in D /\ 0 \notin D
  BY <1>4
<1>9. Data(p) # {} /\ \A o \in Data(p) : o.path = p /\ o.part # 0
  <2>1. At(1) \in Data(p)
    BY <1>6, <1>8
  <2>2. ASSUME NEW o \in Data(p) PROVE o.path = p /\ o.part # 0
    <3>1. PICK i \in D : o = At(i)
      BY <1>6
    <3>2. o.path = p /\ o.part = i
      BY <3>1
    <3> QED BY <1>8, <3>1, <3>2
  <2> QED BY <2>1, <2>2
<1>10. Meta(p).path = p /\ Meta(p).part = 0
  BY DEF Meta
<1> QED BY <1>1, <1>2, <1>6, <1>7, <1>9, <1>10

LEMMA ObjectPaths == \A o \in Objects : o.path \in Known
<1> SUFFICES ASSUME NEW o \in Objects PROVE o.path \in Known
  OBVIOUS
<1>1. PICK p \in Known : o = Meta(p) \/ o \in Data(p)
  BY DEF Objects
<1>2. Meta(p).path = p /\ \A d \in Data(p) : d.path = p
  BY ObjectsAre
<1> QED BY <1>1, <1>2

LEMMA OneRequest ==
  ASSUME NEW q \in Reqs, q.at = "server", q.type # "lookup"
  PROVE  RoundOK({q})
BY FS_Singleton DEF RoundOK

LEMMA RequestTo ==
  ASSUME NEW type \in RequestTypes \ {"lookup"}, NEW o \in Objects
  PROVE  /\ To(type, o) \in Reqs /\ To(type, o).at = "server"
         /\ To(type, o).type = type /\ To(type, o).object = o /\ To(type, o).path = o.path
         /\ RoundOK({To(type, o)})
<1>1. o.path \in Paths
  BY ObjectPaths DEF Paths
<1>2. /\ To(type, o) = [type |-> type, object |-> o, path |-> o.path, resolved |-> 0,
                         at |-> "server", status |-> "none"]
  BY DEF To, Request
<1>3. To(type, o) \in Reqs
  BY <1>1, <1>2 DEF Reqs, Places, Statuses
<1>4. /\ To(type, o) \in Reqs /\ To(type, o).at = "server"
      /\ To(type, o).type = type /\ To(type, o).object = o /\ To(type, o).path = o.path
  BY <1>2, <1>3
<1> QED BY <1>3, <1>4, OneRequest

LEMMA RequestToAll ==
  ASSUME NEW type \in RequestTypes \ {"lookup"}, NEW os \in SUBSET Objects,
         os # {}, IsFiniteSet(os)
  PROVE  RoundOK(ToAll(type, os))
<1> DEFINE f == [o \in os |-> To(type, o)]
           T == ToAll(type, os)
<1>1. f \in Surjection(os, T)
  BY DEF Surjection, ToAll
<1>2. IsFiniteSet(T)
  <2> HIDE DEF f, T
  <2> QED BY <1>1, FS_Surjection
<1>3. T # {}
  BY DEF ToAll
<1>4. ASSUME NEW q \in T PROVE q \in Reqs /\ q.at = "server" /\ q.type # "lookup"
  <2>1. PICK o \in os : q = To(type, o)
    BY DEF ToAll
  <2>2. o \in Objects
    OBVIOUS
  <2>3. To(type, o) \in Reqs /\ To(type, o).at = "server" /\ To(type, o).type = type
    BY <2>2, RequestTo
  <2> QED BY <2>1, <2>3
<1> QED BY <1>2, <1>3, <1>4 DEF RoundOK

LEMMA RequestEntry ==
  ASSUME NEW type \in {"createDirEnt", "removeDirEnt"}, NEW p \in Known \ {<<>>}
  PROVE  /\ Entry(type, p) \in Reqs /\ Entry(type, p).at = "server"
         /\ Entry(type, p).type = type /\ Entry(type, p).path = p
         /\ RoundOK({Entry(type, p)})
<1>1. Meta(Parent(p)) \in Objects /\ p \in Paths
  BY PathsAreSequences, ObjectsAre DEF Paths
<1>2. /\ Entry(type, p) \in Reqs /\ Entry(type, p).at = "server"
      /\ Entry(type, p).type = type /\ Entry(type, p).path = p
  BY <1>1 DEF Entry, Request, Reqs, Places, Statuses, RequestTypes
<1> QED BY <1>2, OneRequest

LEMMA RoundsAre ==
  ASSUME NEW m, MachineOK(m), m.type # "lookup"
  PROVE  /\ Len(Rounds(m)) \in 1..4
         /\ \A j \in 1..Len(Rounds(m)) : RoundOK(Rounds(m)[j])
<1> DEFINE p == m.path
<1>1. p \in Known
  BY DEF MachineOK
<1>2. /\ Meta(p) \in Objects /\ Data(p) \subseteq Objects
      /\ Data(p) # {} /\ IsFiniteSet(Data(p)) /\ FirstHandle \in Objects
  BY <1>1, ObjectsAre
<1>3. \A type \in RequestTypes \ {"lookup"} :
        /\ RoundOK({To(type, Meta(p))}) /\ RoundOK({To(type, FirstHandle)})
        /\ RoundOK(ToAll(type, Data(p)))
  BY <1>2, RequestTo, RequestToAll
<1>4. {"getAttr", "setAttr", "create", "remove", "readDir"} \subseteq RequestTypes \ {"lookup"}
  BY DEF RequestTypes
<1>5. CASE m.type = "getAttr"
  <2>1. Rounds(m) = GetAttrRounds(p)
    BY <1>5 DEF Rounds
  <2>2. /\ Len(GetAttrRounds(p)) = 1
        /\ GetAttrRounds(p)[1] = {To("getAttr", Meta(p))}
    BY DEF GetAttrRounds
  <2>3. RoundOK(GetAttrRounds(p)[1])
    BY <1>1, <1>3, <1>4, <2>2
  <2> HIDE DEF p
  <2> QED BY <2>1, <2>2, <2>3
<1>6. CASE m.type = "getSize"
  <2>1. Rounds(m) = GetSizeRounds(p)
    BY <1>6 DEF Rounds
  <2>2. /\ Len(GetSizeRounds(p)) = 2
        /\ GetSizeRounds(p)[1] = {To("getAttr", Meta(p))}
        /\ GetSizeRounds(p)[2] = ToAll("getAttr", Data(p))
    BY DEF GetSizeRounds
  <2>3. RoundOK(GetSizeRounds(p)[1]) /\ RoundOK(GetSizeRounds(p)[2])
    BY <1>1, <1>3, <1>4, <2>2
  <2> HIDE DEF p
  <2> QED BY <2>1, <2>2, <2>3
<1>7. CASE m.type = "setAttr"
  <2>1. Rounds(m) = SetAttrRounds(p)
    BY <1>7 DEF Rounds
  <2>2. /\ Len(SetAttrRounds(p)) = 1
        /\ SetAttrRounds(p)[1] = {To("setAttr", Meta(p))}
    BY DEF SetAttrRounds
  <2>3. RoundOK(SetAttrRounds(p)[1])
    BY <1>1, <1>3, <1>4, <2>2
  <2> HIDE DEF p
  <2> QED BY <2>1, <2>2, <2>3
<1>8. CASE m.type = "readDir"
  <2>1. Rounds(m) = ReadDirRounds(p)
    BY <1>8 DEF Rounds
  <2>2. /\ Len(ReadDirRounds(p)) = 1
        /\ ReadDirRounds(p)[1] = ToAll("readDir", Data(p))
    BY DEF ReadDirRounds
  <2>3. RoundOK(ReadDirRounds(p)[1])
    BY <1>1, <1>3, <1>4, <2>2
  <2> HIDE DEF p
  <2> QED BY <2>1, <2>2, <2>3
<1>9. CASE m.type = "create"
  <2>1. Rounds(m) = CreateRounds(p)
    BY <1>9 DEF Rounds
  <2>2. /\ Len(CreateRounds(p)) = 4
        /\ CreateRounds(p)[1] = {To("create", Meta(p))}
        /\ CreateRounds(p)[2] = ToAll("create", Data(p))
        /\ CreateRounds(p)[3] = {To("setAttr", Meta(p))}
        /\ CreateRounds(p)[4] = {Entry("createDirEnt", p)}
    BY DEF CreateRounds
  <2>3. /\ RoundOK(CreateRounds(p)[1])
        /\ RoundOK(CreateRounds(p)[2])
        /\ RoundOK(CreateRounds(p)[3])
        /\ RoundOK(CreateRounds(p)[4])
    <3>1. p \in Known \ {<<>>}
      BY <1>1, <1>9 DEF MachineOK
    <3>2. RoundOK({Entry("createDirEnt", p)})
      BY <3>1, RequestEntry
    <3> QED BY <1>3, <1>4, <2>2, <3>2
  <2> HIDE DEF p
  <2> QED BY <2>1, <2>2, <2>3
<1>10. CASE m.type = "createDir"
  <2>1. Rounds(m) = CreateDirRounds(p)
    BY <1>10 DEF Rounds
  <2>2. /\ Len(CreateDirRounds(p)) = 4
        /\ CreateDirRounds(p)[1] = {To("create", FirstHandle)}
        /\ CreateDirRounds(p)[2] = ToAll("create", Data(p))
        /\ CreateDirRounds(p)[3] = {To("setAttr", Meta(p))}
        /\ CreateDirRounds(p)[4] = {Entry("createDirEnt", p)}
    BY DEF CreateDirRounds
  <2>3. /\ RoundOK(CreateDirRounds(p)[1])
        /\ RoundOK(CreateDirRounds(p)[2])
        /\ RoundOK(CreateDirRounds(p)[3])
        /\ RoundOK(CreateDirRounds(p)[4])
    <3>1. p \in Known \ {<<>>}
      BY <1>1, <1>10 DEF MachineOK
    <3>2. RoundOK({Entry("createDirEnt", p)})
      BY <3>1, RequestEntry
    <3> QED BY <1>3, <1>4, <2>2, <3>2
  <2> HIDE DEF p
  <2> QED BY <2>1, <2>2, <2>3
<1>11. CASE m.type = "remove"
  <2>1. Rounds(m) = RemoveRounds(p)
    BY <1>11 DEF Rounds
  <2>2. /\ Len(RemoveRounds(p)) = 3
        /\ RemoveRounds(p)[1] = {Entry("removeDirEnt", p)}
        /\ RemoveRounds(p)[2] = {To("remove", Meta(p))}
        /\ RemoveRounds(p)[3] = ToAll("remove", Data(p))
    BY DEF RemoveRounds
  <2>3. /\ RoundOK(RemoveRounds(p)[1])
        /\ RoundOK(RemoveRounds(p)[2])
        /\ RoundOK(RemoveRounds(p)[3])
    <3>1. p \in Known \ {<<>>}
      BY <1>1, <1>11 DEF MachineOK
    <3>2. RoundOK({Entry("removeDirEnt", p)})
      BY <3>1, RequestEntry
    <3> QED BY <1>3, <1>4, <2>2, <3>2
  <2> HIDE DEF p
  <2> QED BY <2>1, <2>2, <2>3
<1> QED BY <1>5, <1>6, <1>7, <1>8, <1>9, <1>10, <1>11 DEF MachineOK, MachineTypes
-----------------------------------------------------------------------------
\* A client between and during its messages.
Ops == [kind : Kinds, path : Paths, sm : Nat, round : Nat, remaining : Nat, resolved : Nat]

Finished(o) == o.sm = Len(Machines(o.kind, o.path))
MachineOf(o) == Machines(o.kind, o.path)[o.sm + 1]

\* An operation: how far it is, and what it has found.
OpTyped(o) ==
  /\ o \in Ops /\ (o.path \in PathsOf(o.kind) \/ o.kind = "close")
  /\ o.sm \in 0..Len(Machines(o.kind, o.path))
  /\ o.resolved \in 1..Len(o.path) + 1
OpFound(o) ==
  \/ o.kind = "open" /\ Finished(o)
  \/ o.kind = "stat" /\ o.sm >= 3
  => o.resolved = LongestKnown(o.path) + 1
OpOK(o) == OpTyped(o) /\ OpFound(o)

ClientOK(o, n, a) ==
  /\ OpOK(o) /\ CacheOK(n, MaxNames) /\ CacheOK(a, MaxAttrs)
  /\ o.kind \in Removes /\ Finished(o) => o.path \notin ToSet(n) \union ToSet(a)

\* A lookup on its way: the directory to be read is the server's own; what the
\* answer says of the path is true.
Reached(q) == Prefix(q.path, q.resolved - 1)
LookupOK(q, p) ==
  /\ q \in Reqs /\ q.type = "lookup" /\ q.path = p /\ q.resolved \in 1..Len(p) + 1
  /\ q.at \in {"server", "storage"} =>
       /\ q.resolved <= Len(p) /\ q.status = "none" /\ Reached(q) \in Directories
       /\ DataServers[Reached(q)][1] = ServerOf(q.object)
  /\ q.at = "client" =>
       /\ Reached(q) \in Known /\ q.status # "none"
       /\ q.status = "FOUND" => q.resolved = Len(p) + 1
       /\ q.status # "FOUND" => q.resolved <= Len(p)
       /\ q.status = "NOTFOUND" => Prefix(p, q.resolved) \notin Known

\* While a client handles a message: before a machine starts or after the last
\* one, and when a machine has sent a round.
Handlers == [op : Ops, names : Seq(Known), attrs : Seq(Known), sends : SUBSET Reqs]
Ready(t) ==
  /\ t \in Handlers /\ ClientOK(t.op, t.names, t.attrs)
  /\ t.op.round = 0 /\ t.sends = {}
Waiting(t) ==
  LET m == MachineOf(t.op)
  IN /\ t \in Handlers /\ ClientOK(t.op, t.names, t.attrs) /\ ~Finished(t.op)
     /\ m.type = "lookup" =>
          /\ t.op.round = 1
          /\ \E q \in Reqs : t.sends = {q} /\ q.at = "server" /\ LookupOK(q, m.path)
     /\ m.type # "lookup" =>
          /\ t.op.round \in 1..Len(Rounds(m)) /\ t.sends = Rounds(m)[t.op.round]
          /\ t.op.remaining = Cardinality(t.sends)

\* u is t's operation, some machines on.
Same(t, u) == u.op.kind = t.op.kind /\ u.op.path = t.op.path

\* A path is resolved as far as it goes.
Resolves(q, n) ==
  /\ n \in 1..Len(q) + 1 /\ Prefix(q, n - 1) \in Known
  /\ n = Len(q) + 1 \/ Prefix(q, n) \notin Known

LEMMA CurrentMachine ==
  ASSUME NEW o, OpTyped(o), ~Finished(o)
  PROVE  /\ o.sm + 1 \in 1..Len(Machines(o.kind, o.path))
         /\ o.path \in PathsOf(o.kind) /\ o.kind \in Kinds /\ o.sm \in 0..3
         /\ MachineOK(MachineOf(o)) /\ PlaceOK(o.kind, o.path, o.sm + 1)
<1>1. o.kind \in Kinds /\ Len(Machines(o.kind, o.path)) \in 0..4
  BY MachinesLength DEF OpTyped, Ops
<1>2. o.sm + 1 \in 1..Len(Machines(o.kind, o.path)) /\ o.sm \in 0..3
  <2> DEFINE len == Len(Machines(o.kind, o.path))
  <2>1. len \in 0..4 /\ o.sm \in 0..len /\ o.sm # len
    BY <1>1 DEF OpTyped, Finished
  <2> HIDE DEF len
  <2>2. o.sm + 1 \in 1..len /\ o.sm \in 0..3
    BY <2>1
  <2> QED BY <2>2 DEF len
<1>3. o.kind # "close"
  BY <1>2 DEF Machines
<1>4. o.path \in PathsOf(o.kind)
  BY <1>3 DEF OpTyped
<1> QED BY <1>1, <1>2, <1>4, MachinesAre DEF MachineOf

LEMMA FinishMachineIs ==
  ASSUME NEW t \in Handlers
  PROVE  LET u == FinishMachine(t)
         IN /\ u \in Handlers /\ Same(t, u) /\ u.op.sm = t.op.sm + 1 /\ u.op.round = 0
            /\ u.op.resolved = t.op.resolved /\ u.op.remaining = t.op.remaining
            /\ u.names = t.names /\ u.attrs = t.attrs /\ u.sends = t.sends
<1>1. PICK k \in Nat : k = t.op.sm + 1
  BY DEF Handlers, Ops
<1>2. FinishMachine(t) = [t EXCEPT !.op.sm = k, !.op.round = 0]
  BY <1>1 DEF FinishMachine, Handlers, Ops
<1> DEFINE v == [t EXCEPT !.op.sm = k, !.op.round = 0]
<1>3. v \in Handlers
  BY DEF Handlers, Ops
<1>4. v.op.sm = k /\ v.op.round = 0 /\ v.op.resolved = t.op.resolved
  BY DEF Handlers, Ops
<1>5. v.op.remaining = t.op.remaining /\ Same(t, v)
  BY DEF Handlers, Ops, Same
<1>6. v.names = t.names /\ v.attrs = t.attrs /\ v.sends = t.sends
  BY DEF Handlers
<1> QED BY <1>1, <1>2, <1>3, <1>4, <1>5, <1>6

\* u is t when it has sent reqs.
Sent(t, u, round, reqs) ==
  /\ u \in Handlers /\ Same(t, u) /\ u.op.sm = t.op.sm /\ u.op.round = round
  /\ u.op.resolved = t.op.resolved /\ u.op.remaining = Cardinality(reqs)
  /\ u.names = t.names /\ u.attrs = t.attrs /\ u.sends = reqs

LEMMA SendIs ==
  ASSUME NEW t \in Handlers, NEW round \in Nat, NEW reqs \in SUBSET Reqs, IsFiniteSet(reqs)
  PROVE  Sent(t, Send(t, round, reqs), round, reqs)
<1>1. Cardinality(reqs) \in Nat
  BY FS_CardinalityType
<1> QED BY <1>1 DEF Handlers, Ops, Send, Same, Sent

\* What a lookup resolves of the path of an operation.
LEMMA ResolvesLongest ==
  ASSUME NEW p \in Seq(Names), NEW n \in Nat,
         Resolves(p, n) \/ (p # <<>> /\ Parent(p) \notin Known /\ Resolves(Parent(p), n))
  PROVE  n = LongestKnown(p) + 1
<1>1. CASE Resolves(p, n)
  <2>1. n - 1 \in 0..Len(p) /\ Prefix(p, n - 1) \in Known
        /\ (n - 1 = Len(p) \/ Prefix(p, (n - 1) + 1) \notin Known)
    BY <1>1 DEF Resolves
  <2>2. LongestKnown(p) = n - 1
    BY <2>1, LongestKnownIs
  <2> QED BY <2>2
<1>2. CASE p # <<>> /\ Parent(p) \notin Known /\ Resolves(Parent(p), n)
  <2> DEFINE q == Parent(p)
  <2>1. /\ Len(p) \in Nat \ {0} /\ q \in Seq(Names) /\ Len(q) = Len(p) - 1
        /\ \A k \in 0..Len(p) - 1 : Prefix(q, k) = Prefix(p, k)
    BY <1>2, ParentIs
  <2>2. Prefix(q, Len(q)) = q
    BY <2>1, WholePrefix
  <2>3. n \in 1..Len(q) /\ Prefix(q, n - 1) \in Known /\ Prefix(q, n) \notin Known
    BY <1>2, <2>1, <2>2 DEF Resolves
  <2>4. /\ n - 1 \in 0..Len(p) /\ Prefix(p, n - 1) \in Known
        /\ Prefix(p, (n - 1) + 1) \notin Known
    BY <2>1, <2>3
  <2>5. LongestKnown(p) = n - 1
    BY <2>4, LongestKnownIs
  <2> QED BY <2>5
<1> QED BY <1>1, <1>2

\* A machine may finish when it has done its part.
LEMMA MachineFinishes ==
  ASSUME NEW t \in Handlers, OpTyped(t.op), ~Finished(t.op), t.sends = {},
         CacheOK(t.names, MaxNames), CacheOK(t.attrs, MaxAttrs),
         LET m == MachineOf(t.op)
         IN /\ m.type = "lookup" => Resolves(m.path, t.op.resolved)
            /\ m.type # "lookup" => OpFound(t.op)
            /\ m.type = "remove" => m.path \notin ToSet(t.names) \union ToSet(t.attrs)
  PROVE  LET u == FinishMachine(t)
         IN Ready(u) /\ Same(t, u) /\ u.op.sm = t.op.sm + 1
<1> DEFINE o == t.op
           m == MachineOf(o)
           u == FinishMachine(t)
           len == Len(Machines(o.kind, o.path))
<1>1. /\ u \in Handlers /\ Same(t, u) /\ u.op.sm = o.sm + 1 /\ u.op.round = 0
      /\ u.op.resolved = o.resolved
      /\ u.names = t.names /\ u.attrs = t.attrs /\ u.sends = {}
  BY FinishMachineIs
<1>2. /\ o.sm + 1 \in 1..len /\ o.path \in PathsOf(o.kind) /\ o.kind \in Kinds
      /\ o.sm \in 0..3 /\ MachineOK(m) /\ PlaceOK(o.kind, o.path, o.sm + 1)
  BY CurrentMachine
<1>3. Finished(u.op) <=> o.sm + 1 = len
  BY <1>1 DEF Finished, Same
<1>4. OpTyped(u.op)
  BY <1>1, <1>2 DEF OpTyped, Same, Handlers
<1>5. o.path \in Seq(Names) /\ (o.kind = "open" => o.path # <<>>) /\ o.resolved \in Nat
  BY <1>2, OperandIs DEF OpTyped, Ops
<1>6. OpFound(u.op)
  <2>1. ASSUME o.kind = "open", Finished(u.op) PROVE o.resolved = LongestKnown(o.path) + 1
    <3>1. /\ m.type = "lookup"
          /\ (m.path = o.path \/ (m.path = Parent(o.path) /\ Parent(o.path) \notin Known))
      BY <1>2, <1>3, <2>1 DEF PlaceOK, MachineOf
    <3>2. Resolves(m.path, o.resolved)
      BY <3>1
    <3> HIDE DEF m, o
    <3> QED BY <1>5, <2>1, <3>1, <3>2, ResolvesLongest
  <2>2. ASSUME o.kind = "stat", u.op.sm >= 3 PROVE o.resolved = LongestKnown(o.path) + 1
    <3>1. CASE o.sm = 2
      <4>1. m.type = "lookup" /\ m.path = o.path
        BY <1>2, <2>2, <3>1 DEF PlaceOK, MachineOf
      <4>2. Resolves(m.path, o.resolved)
        BY <4>1
      <4> HIDE DEF m, o
      <4> QED BY <1>5, <4>1, <4>2, ResolvesLongest
    <3>2. CASE o.sm = 3
      <4>1. m.type = "getSize"
        BY <1>2, <2>2, <3>2 DEF PlaceOK, MachineOf
      <4>2. OpFound(t.op)
        BY <4>1
      <4> QED BY <2>2, <3>2, <4>2 DEF OpFound
    <3> QED BY <1>1, <1>2, <2>2, <3>1, <3>2
  <2> QED BY <1>1, <2>1, <2>2 DEF OpFound, Same
<1>7. ASSUME o.kind \in Removes, Finished(u.op)
      PROVE  o.path \notin ToSet(t.names) \union ToSet(t.attrs)
  <2>1. m.type = "remove" /\ m.path = o.path
    BY <1>2, <1>3, <1>7 DEF PlaceOK, MachineOf
  <2> QED BY <2>1
<1> QED BY <1>1, <1>4, <1>6, <1>7 DEF Ready, ClientOK, OpOK, Same

\* A known directory above a path is on the server asked for it.
LEMMA LookupAsked ==
  ASSUME NEW q, Lookable(q), NEW n \in 1..Len(q), Prefix(q, n - 1) \in Known
  PROVE  LET r == Request("lookup", Meta(Prefix(q, n - 1)), q, n)
         IN r \in Reqs /\ r.at = "server" /\ LookupOK(r, q)
<1> DEFINE d == Prefix(q, n - 1)
           r == Request("lookup", Meta(d), q, n)
<1>1. q \in Paths /\ Len(q) \in Nat
  BY PathsAre DEF Lookable
<1>2. d \in Directories
  <2>1. n - 1 \in 0..Len(q) - 1
    BY <1>1
  <2>2. d \notin Files
    BY <2>1 DEF Lookable
  <2> QED BY <2>2 DEF Known
<1>3. Meta(d) \in Objects /\ Meta(d).part = 0 /\ Meta(d).path = d
  BY ObjectsAre
<1>4. DataServers[d][1] = ServerOf(Meta(d))
  <2>1. DataServers[d] = <<MetaServer[d]>>
    BY <1>2, NameOperationsAssumption
  <2> QED BY <1>3, <2>1 DEF ServerOf
<1>5. /\ r.type = "lookup" /\ r.object = Meta(d) /\ r.path = q /\ r.resolved = n
      /\ r.at = "server" /\ r.status = "none"
  BY DEF Request
<1>6. r \in Reqs
  BY <1>1, <1>3 DEF Request, Reqs, Places, Statuses, RequestTypes
<1>7. Reached(r) = d
  BY <1>5 DEF Reached
<1> HIDE DEF r, d
<1>8. LookupOK(r, q)
  BY <1>1, <1>2, <1>4, <1>5, <1>6, <1>7 DEF LookupOK
<1> QED BY <1>5, <1>6, <1>8 DEF r, d

LEMMA ServerAsked ==
  ASSUME NEW t \in Handlers, OpTyped(t.op), ~Finished(t.op),
         CacheOK(t.names, MaxNames), CacheOK(t.attrs, MaxAttrs),
         MachineOf(t.op).type = "lookup",
         t.op.resolved <= Len(MachineOf(t.op).path),
         Prefix(MachineOf(t.op).path, t.op.resolved - 1) \in Known
  PROVE  LET u == AskServer(t, MachineOf(t.op).path)
         IN Waiting(u) /\ Same(t, u) /\ u.op.sm = t.op.sm /\ u.op.round = 1
<1> DEFINE o == t.op
           m == MachineOf(o)
           q == m.path
           r == Request("lookup", Meta(Prefix(q, o.resolved - 1)), q, o.resolved)
           u == AskServer(t, q)
<1>1. /\ o.path \in PathsOf(o.kind) /\ o.kind \in Kinds /\ o.sm \in 0..3
      /\ MachineOK(m) /\ PlaceOK(o.kind, o.path, o.sm + 1)
  BY CurrentMachine
<1>2. Lookable(q) /\ o.resolved \in 1..Len(q)
  BY <1>1 DEF MachineOK, OpTyped
<1>3. r \in Reqs /\ r.at = "server" /\ LookupOK(r, q)
  <2> HIDE DEF q
  <2> QED BY <1>2, LookupAsked DEF q
<1>4. IsFiniteSet({r})
  BY FS_Singleton
<1>5. u = Send(t, 1, {r})
  BY DEF AskServer
<1> HIDE DEF r, u
<1>6. /\ u \in Handlers /\ Same(t, u) /\ u.op.sm = o.sm /\ u.op.round = 1
      /\ u.op.resolved = o.resolved
      /\ u.names = t.names /\ u.attrs = t.attrs /\ u.sends = {r}
  <2>1. PICK rs \in SUBSET Reqs : rs = {r} /\ IsFiniteSet(rs)
    BY <1>3, <1>4
  <2>2. Sent(t, Send(t, 1, rs), 1, rs)
    BY <2>1, SendIs
  <2> QED BY <1>5, <2>1, <2>2 DEF Sent
<1>7. ~Finished(u.op) /\ MachineOf(u.op) = m
  BY <1>6 DEF Finished, MachineOf, Same
<1>8. OpOK(u.op)
  <2>1. OpTyped(u.op)
    BY <1>6 DEF OpTyped, Same, Handlers
  <2>2. ~(o.kind = "stat" /\ o.sm >= 3)
    BY <1>1 DEF PlaceOK, MachineOf
  <2> QED BY <1>6, <1>7, <2>1, <2>2 DEF OpOK, OpFound, Same
<1>9. Waiting(u)
  BY <1>3, <1>6, <1>7, <1>8 DEF Waiting, ClientOK
<1> QED BY <1>6, <1>9 DEF u

LEMMA LookupStarts ==
  ASSUME NEW t, Ready(t), ~Finished(t.op), MachineOf(t.op).type = "lookup"
  PROVE  LET u == StartLookup(t, MachineOf(t.op).path)
         IN /\ Same(t, u)
            /\ \/ Waiting(u) /\ u.op.round = 1
               \/ Ready(u) /\ u.op.sm = t.op.sm + 1
<1> DEFINE o == t.op
           m == MachineOf(o)
           q == m.path
           hit == ResolvedIn(t.names, q)
           n == IF hit = 0 THEN 1 ELSE hit
           used == IF hit = 0 THEN t.names ELSE Refreshed(t.names, Prefix(q, hit - 1))
           v == [t EXCEPT !.op.resolved = n, !.names = used]
<1>1. /\ t \in Handlers /\ OpTyped(o) /\ t.sends = {}
      /\ CacheOK(t.names, MaxNames) /\ CacheOK(t.attrs, MaxAttrs)
  BY DEF Ready, ClientOK, OpOK
<1>2. MachineOK(m) /\ PlaceOK(o.kind, o.path, o.sm + 1) /\ o.path \in Seq(Names)
  BY <1>1, CurrentMachine, OperandIs
<1>3. Lookable(q) /\ q \in Seq(Names) /\ Len(q) \in Nat /\ Len(q) <= Len(o.path)
  <2>1. Lookable(q) /\ q \in Paths
    BY <1>2 DEF MachineOK, Lookable
  <2>2. Len(q) <= Len(o.path)
    BY <1>2 DEF PlaceOK, MachineOf
  <2> QED BY <1>2, <2>1, <2>2, PathsAre
<1>4. /\ hit \in 0..Len(q) + 1
      /\ hit # 0 => Prefix(q, hit - 1) \in ToSet(t.names) /\ Prefix(q, hit - 1) \in Known
  <2>1. \A x \in ToSet(t.names) : x \in Known
    BY <1>1 DEF CacheOK, ToSet
  <2> HIDE DEF q, o
  <2> QED BY <1>3, <2>1, ResolvedIs
<1>5. n \in 1..Len(q) + 1 /\ Prefix(q, n - 1) \in Known
  <2>1. Prefix(q, 0) \in Known
    BY <1>3, WholePrefix, PathsAreSequences
  <2> QED BY <1>3, <1>4, <2>1
<1>6. CacheOK(used, MaxNames)
  BY <1>1, <1>4, RefreshedOK, NameOperationsAssumption
<1>7. StartLookup(t, q) = IF v.op.resolved = Len(q) + 1 THEN FinishMachine(v) ELSE AskServer(v, q)
  BY <1>1 DEF StartLookup
<1> HIDE DEF n, used
<1>8. v \in Handlers
  <2>1. n \in Nat /\ used \in Seq(Known)
    BY <1>3, <1>5, <1>6 DEF CacheOK
  <2> QED BY <1>1, <2>1 DEF Handlers, Ops
<1>9. /\ Same(t, v) /\ v.op.sm = o.sm /\ v.op.resolved = n
      /\ v.names = used /\ v.attrs = t.attrs /\ v.sends = {}
  BY <1>1 DEF Same, Handlers, Ops
<1> HIDE DEF v
<1>10. ~Finished(v.op) /\ MachineOf(v.op) = m /\ OpTyped(v.op)
  <2>1. v.op.kind = o.kind /\ v.op.path = o.path /\ v.op.sm = o.sm /\ v.op \in Ops
    BY <1>8, <1>9 DEF Same, Handlers
  <2>2. ~Finished(v.op) /\ MachineOf(v.op) = m
    BY <2>1 DEF Finished, MachineOf
  <2>3. Len(o.path) \in Nat /\ n \in 1..Len(o.path) + 1
    BY <1>3, <1>5
  <2>4. OpTyped(v.op)
    BY ONLY <1>1, <1>9, <2>1, <2>3 DEF OpTyped
  <2> QED BY <2>2, <2>4
<1>11. CASE n = Len(q) + 1
  <2>1. Resolves(q, n)
    BY <1>5, <1>11 DEF Resolves
  <2>2. LET u == FinishMachine(v)
        IN Ready(u) /\ Same(v, u) /\ u.op.sm = v.op.sm + 1
    BY <1>1, <1>6, <1>8, <1>9, <1>10, <2>1, MachineFinishes
  <2>3. StartLookup(t, q) = FinishMachine(v)
    BY <1>7, <1>9, <1>11
  <2> QED BY <1>9, <2>2, <2>3 DEF Same
<1>12. CASE n # Len(q) + 1
  <2>1. v.op.resolved <= Len(q) /\ Prefix(q, v.op.resolved - 1) \in Known
    BY <1>3, <1>5, <1>9, <1>12
  <2>2. LET u == AskServer(v, q)
        IN Waiting(u) /\ Same(v, u) /\ u.op.round = 1
    BY <1>1, <1>6, <1>8, <1>9, <1>10, <2>1, ServerAsked
  <2>3. StartLookup(t, q) = AskServer(v, q)
    BY <1>7, <1>9, <1>12
  <2> QED BY <1>9, <2>2, <2>3 DEF Same
<1> QED BY <1>11, <1>12

\* A machine other than a lookup sends a round.
LEMMA RoundSent ==
  ASSUME NEW t \in Handlers, ClientOK(t.op, t.names, t.attrs), ~Finished(t.op),
         MachineOf(t.op).type # "lookup", NEW k \in 1..Len(Rounds(MachineOf(t.op)))
  PROVE  LET u == Send(t, k, Rounds(MachineOf(t.op))[k])
         IN Waiting(u) /\ Same(t, u) /\ u.op.sm = t.op.sm /\ u.op.round = k
<1> DEFINE o == t.op
           m == MachineOf(o)
           u == Send(t, k, Rounds(m)[k])
<1>1. OpTyped(o) /\ OpFound(o) /\ MachineOK(m)
  BY CurrentMachine DEF ClientOK, OpOK
<1>2. RoundOK(Rounds(m)[k]) /\ k \in Nat
  BY <1>1, RoundsAre
<1>3. PICK rs \in SUBSET Reqs : rs = Rounds(m)[k] /\ IsFiniteSet(rs)
  BY <1>2 DEF RoundOK
<1>4. Sent(t, u, k, rs)
  BY <1>2, <1>3, SendIs
<1> HIDE DEF u
<1>5. ~Finished(u.op) /\ MachineOf(u.op) = m /\ OpTyped(u.op) /\ OpFound(u.op)
  BY <1>1, <1>4 DEF Finished, MachineOf, Same, OpTyped, OpFound, Sent, Handlers
<1>6. ClientOK(u.op, u.names, u.attrs)
  BY <1>4, <1>5 DEF ClientOK, OpOK, Sent
<1>7. Waiting(u)
  BY <1>3, <1>4, <1>5, <1>6 DEF Waiting, Sent
<1> QED BY <1>4, <1>7 DEF Sent, u

LEMMA MachineEnds ==
  ASSUME NEW t \in Handlers, ClientOK(t.op, t.names, t.attrs), ~Finished(t.op), t.sends = {},
         MachineOf(t.op).type # "lookup"
  PROVE  LET u == Finish(t)
         IN Ready(u) /\ Same(t, u) /\ u.op.sm = t.op.sm + 1
<1> DEFINE o == t.op
           m == MachineOf(o)
           cacheAttr == Inserted(t.attrs, m.path, MaxAttrs)
           cacheName == Inserted(t.names, m.path, MaxNames)
           Ending(v) == /\ v \in Handlers /\ v.op = o /\ v.sends = {}
                        /\ CacheOK(v.names, MaxNames) /\ CacheOK(v.attrs, MaxAttrs)
                        /\ m.type = "remove" => m.path \notin ToSet(v.names) \union ToSet(v.attrs)
<1>1. /\ OpTyped(o) /\ OpFound(o) /\ MachineOK(m)
      /\ CacheOK(t.names, MaxNames) /\ CacheOK(t.attrs, MaxAttrs)
  BY CurrentMachine DEF ClientOK, OpOK
<1>2. m.path \in Known /\ m.type \in MachineTypes \ {"lookup"}
  BY <1>1 DEF MachineOK
<1>3. MaxNames \in Nat \ {0} /\ MaxAttrs \in Nat \ {0}
  BY NameOperationsAssumption
<1>4. CacheOK(cacheAttr, MaxAttrs) /\ CacheOK(cacheName, MaxNames)
  BY <1>1, <1>2, <1>3, InsertedOK
<1>5. /\ CacheOK(Removed(t.attrs, m.path), MaxAttrs) /\ CacheOK(Removed(t.names, m.path), MaxNames)
      /\ m.path \notin ToSet(Removed(t.names, m.path)) \union ToSet(Removed(t.attrs, m.path))
  <2>1. MaxNames \in Nat /\ MaxAttrs \in Nat
    BY <1>3
  <2>2. CacheOK(Removed(t.attrs, m.path), MaxAttrs)
        /\ ToSet(Removed(t.attrs, m.path)) = ToSet(t.attrs) \ {m.path}
    BY <1>1, <2>1, RemovedOK
  <2>3. CacheOK(Removed(t.names, m.path), MaxNames)
        /\ ToSet(Removed(t.names, m.path)) = ToSet(t.names) \ {m.path}
    BY <1>1, <2>1, RemovedOK
  <2> QED BY <2>2, <2>3
<1>6. ASSUME NEW v, Ending(v)
      PROVE  LET u == FinishMachine(v)
             IN Ready(u) /\ Same(t, u) /\ u.op.sm = t.op.sm + 1
  <2> HIDE DEF cacheAttr, cacheName
  <2>1. LET u == FinishMachine(v)
        IN Ready(u) /\ Same(v, u) /\ u.op.sm = v.op.sm + 1
    BY <1>1, <1>2, <1>6, MachineFinishes
  <2> QED BY <1>6, <2>1 DEF Same
<1>7. CASE m.type \in {"getAttr", "getSize", "setAttr"}
  <2> DEFINE v == [t EXCEPT !.attrs = cacheAttr]
  <2>1. Finish(t) = FinishMachine(v)
    BY <1>7 DEF Finish, Current, MachineOf
  <2> HIDE DEF cacheAttr
  <2>2. Ending(v)
    BY <1>1, <1>4, <1>7 DEF Handlers, CacheOK
  <2> HIDE DEF Ending, v
  <2> QED BY <1>6, <2>1, <2>2
<1>8. CASE m.type \in {"create", "createDir"}
  <2> DEFINE v == [t EXCEPT !.attrs = cacheAttr, !.names = cacheName]
  <2>1. Finish(t) = FinishMachine(v)
    BY <1>8 DEF Finish, Current, MachineOf
  <2> HIDE DEF cacheAttr, cacheName
  <2>2. Ending(v)
    BY <1>1, <1>4, <1>8 DEF Handlers, CacheOK
  <2> HIDE DEF Ending, v
  <2> QED BY <1>6, <2>1, <2>2
<1>9. CASE m.type = "remove"
  <2> DEFINE n == Removed(t.names, m.path)
             a == Removed(t.attrs, m.path)
             v == [t EXCEPT !.attrs = a, !.names = n]
  <2>1. Finish(t) = FinishMachine(v)
    BY <1>9 DEF Finish, Current, MachineOf
  <2>2. CacheOK(n, MaxNames) /\ CacheOK(a, MaxAttrs) /\ m.path \notin ToSet(n) \union ToSet(a)
    BY <1>5
  <2> HIDE DEF n, a
  <2>3. Ending(v)
    BY <2>2 DEF Handlers, CacheOK
  <2> HIDE DEF Ending, v
  <2> QED BY <1>6, <2>1, <2>3
<1>10. CASE m.type = "readDir"
  <2>1. Finish(t) = FinishMachine(t)
    BY <1>10 DEF Finish, Current, MachineOf
  <2>2. Ending(t)
    BY <1>1, <1>10
  <2> HIDE DEF Ending
  <2> QED BY <1>6, <2>1, <2>2
<1> QED BY <1>2, <1>7, <1>8, <1>9, <1>10 DEF MachineTypes

\* u is t's operation when its machines have gone on: it waits, or it is one
\* machine further.  Only a request answered ends a creation or a removal.
Moves(t, u) ==
  /\ Same(t, u)
  /\ \/ Waiting(u) /\ u.op.round = 1
     \/ Ready(u) /\ u.op.sm = t.op.sm + 1
        /\ (t.op.kind \in Creates \union Removes => ~Finished(u.op))

LEMMA LastMachine ==
  ASSUME NEW t, NEW u, Ready(u), Same(t, u), u.op.sm = t.op.sm + 1,
         OpTyped(t.op), ~Finished(t.op),
         MachineOf(t.op).type \notin {"create", "createDir", "remove"}
  PROVE  t.op.kind \in Creates \union Removes => ~Finished(u.op)
<1>1. PlaceOK(t.op.kind, t.op.path, t.op.sm + 1)
  BY CurrentMachine
<1> QED BY <1>1 DEF PlaceOK, MachineOf, Finished, Same, Creates, Removes

LEMMA MachineStarts ==
  ASSUME NEW t, Ready(t), ~Finished(t.op)
  PROVE  Moves(t, StartMachine(t))
<1> DEFINE o == t.op
           m == MachineOf(o)
           touched == Touched(t.attrs, m.path)
           v == [t EXCEPT !.attrs = touched]
<1>1. /\ t \in Handlers /\ OpTyped(o) /\ OpFound(o) /\ t.sends = {}
      /\ CacheOK(t.names, MaxNames) /\ CacheOK(t.attrs, MaxAttrs)
      /\ ClientOK(o, t.names, t.attrs)
  BY DEF Ready, ClientOK, OpOK
<1>2. MachineOK(m)
  BY <1>1, CurrentMachine
<1>3. CASE m.type = "lookup"
  <2>1. StartMachine(t) = StartLookup(t, m.path)
    BY <1>3 DEF StartMachine, Current, MachineOf
  <2>2. LET u == StartLookup(t, m.path)
        IN /\ Same(t, u)
           /\ \/ Waiting(u) /\ u.op.round = 1
              \/ Ready(u) /\ u.op.sm = t.op.sm + 1
    BY <1>3, LookupStarts
  <2> QED BY <1>1, <1>3, <2>1, <2>2, LastMachine DEF Moves
<1>4. CASE m.type # "lookup"
  <2>1. m.path \in Known /\ 1 \in 1..Len(Rounds(m))
    BY <1>2, <1>4, RoundsAre DEF MachineOK
  <2>2. CacheOK(touched, MaxAttrs)
    <3>1. MaxAttrs \in Nat
      BY NameOperationsAssumption
    <3> QED BY <1>1, <2>1, <3>1, TouchedOK
  <2> HIDE DEF touched
  <2>3. /\ v \in Handlers /\ v.op = o /\ v.names = t.names /\ v.attrs = touched /\ v.sends = {}
    BY <1>1, <2>2 DEF Handlers, CacheOK
  <2>4. ClientOK(v.op, v.names, v.attrs)
    BY <1>1, <2>2, <2>3 DEF ClientOK, OpOK
  <2>5. CASE m.type = "getAttr" /\ m.path \in ToSet(t.attrs)
    <3>1. StartMachine(t) = Finish(v)
      BY <1>4, <2>5 DEF StartMachine, Current, MachineOf, touched
    <3> HIDE DEF v
    <3>2. LET u == Finish(v)
          IN Ready(u) /\ Same(v, u) /\ u.op.sm = v.op.sm + 1
      BY <1>4, <2>3, <2>4, MachineEnds
    <3>3. LET u == Finish(v)
          IN Ready(u) /\ Same(t, u) /\ u.op.sm = t.op.sm + 1
      BY <2>3, <3>2 DEF Same
    <3> QED BY <1>1, <2>5, <3>1, <3>3, LastMachine DEF Moves
  <2>6. CASE m.type = "getSize"
    <3>1. StartMachine(t) = Send(v, 1, Rounds(m)[1])
      BY <2>6 DEF StartMachine, Current, MachineOf, touched
    <3> HIDE DEF v
    <3>2. LET u == Send(v, 1, Rounds(m)[1])
          IN Waiting(u) /\ Same(v, u) /\ u.op.round = 1
      BY <1>4, <2>1, <2>3, <2>4, RoundSent
    <3> QED BY <2>3, <3>1, <3>2 DEF Moves, Same
  <2>7. CASE ~(m.type = "getAttr" /\ m.path \in ToSet(t.attrs)) /\ m.type # "getSize"
    <3>1. StartMachine(t) = Send(t, 1, Rounds(m)[1])
      BY <1>4, <2>7 DEF StartMachine, Current, MachineOf
    <3>2. LET u == Send(t, 1, Rounds(m)[1])
          IN Waiting(u) /\ Same(t, u) /\ u.op.round = 1
      BY <1>1, <1>4, <2>1, RoundSent
    <3> QED BY <3>1, <3>2 DEF Moves, Same
  <2> QED BY <2>5, <2>6, <2>7
<1> QED BY <1>3, <1>4

\* Steps takes one machine further, if none has to wait.
Step(t) ==
  IF t.op.round = 0 /\ t.op.sm < Len(Machines(t.op.kind, t.op.path)) THEN StartMachine(t) ELSE t

LEMMA WaitingHasSent ==
  ASSUME NEW t, Waiting(t)
  PROVE  t.op.round \in Nat \ {0}
<1>1. MachineOf(t.op).type = "lookup" => t.op.round = 1
  BY DEF Waiting
<1>2. MachineOf(t.op).type # "lookup" => t.op.round >= 1 /\ t.op.round \in Nat
  BY DEF Waiting
<1> QED BY <1>1, <1>2

LEMMA StepIs ==
  ASSUME NEW t, Ready(t) \/ Waiting(t)
  PROVE  /\ Waiting(t) \/ Finished(t.op) => Step(t) = t
         /\ Ready(t) /\ ~Finished(t.op) => Moves(t, Step(t))
<1>1. CASE Waiting(t)
  <2>1. t.op.round # 0
    BY <1>1, WaitingHasSent
  <2> QED BY <1>1, <2>1 DEF Step, Ready
<1>2. CASE Ready(t)
  <2> DEFINE len == Len(Machines(t.op.kind, t.op.path))
  <2>1. t.op.sm \in 0..len /\ t.op.round = 0 /\ t.op.kind \in Kinds
    BY <1>2 DEF Ready, ClientOK, OpOK, OpTyped, Ops
  <2>2. len \in Nat
    BY <2>1, MachinesLength
  <2>3. t.op.sm < len <=> ~Finished(t.op)
    BY <2>1, <2>2 DEF Finished
  <2> QED BY <1>2, <2>1, <2>3, MachineStarts DEF Step, Waiting
<1> QED BY <1>1, <1>2

LEMMA StepsOfOne == \A t : Steps({t}) = {Step(t)}
BY DEF Steps, Step

\* What k steps make of t.
Went(t, u, k) ==
  /\ Same(t, u) /\ (Ready(u) \/ (Waiting(u) /\ (u = t \/ u.op.round = 1)))
  /\ ~Waiting(u) /\ ~Finished(u.op) => u.op.sm >= k
  /\ t.op.kind \in Creates \union Removes /\ ~Finished(t.op) => ~Finished(u.op)

LEMMA WentFurther ==
  ASSUME NEW t, NEW u, NEW k \in Nat, Went(t, u, k)
  PROVE  Went(t, Step(u), k + 1)
<1>1. CASE Waiting(u) \/ Finished(u.op)
  <2>1. Step(u) = u
    BY <1>1, StepIs DEF Went
  <2> QED BY <1>1, <2>1 DEF Went
<1>2. CASE ~Waiting(u) /\ ~Finished(u.op)
  <2>1. Moves(u, Step(u)) /\ u.op.sm >= k /\ Same(t, u) /\ Ready(u)
    BY <1>2, StepIs DEF Went
  <2>2. u.op.sm \in Nat
    BY <2>1 DEF Ready, Handlers, Ops
  <2>3. CASE Waiting(Step(u)) /\ Step(u).op.round = 1
    BY <2>1, <2>3 DEF Moves, Went, Same, Waiting
  <2>4. CASE Ready(Step(u)) /\ Step(u).op.sm = u.op.sm + 1
             /\ (u.op.kind \in Creates \union Removes => ~Finished(Step(u).op))
    <3>1. Step(u).op.sm >= k + 1
      BY <2>1, <2>2, <2>4
    <3> QED BY <2>1, <2>4, <3>1 DEF Moves, Went, Same
  <2> QED BY <2>1, <2>3, <2>4 DEF Moves
<1> QED BY <1>1, <1>2

\* u is t when its machines have handed the message on as far as they can.
Advanced(t, u) ==
  /\ Same(t, u)
  /\ \/ Waiting(u) /\ (u = t \/ u.op.round = 1)
     \/ Ready(u) /\ Finished(u.op)
  /\ t.op.kind \in Creates \union Removes /\ ~Finished(t.op) => ~Finished(u.op)

LEMMA AdvanceIs ==
  ASSUME NEW t, Ready(t) \/ Waiting(t)
  PROVE  \E u : Advance(t) = {u} /\ Advanced(t, u)
<1> DEFINE u == Step(Step(Step(Step(t))))
<1>1. Advance(t) = {u}
  BY StepsOfOne DEF Advance
<1>2. Went(t, t, 0)
  <2>1. t.op.sm \in Nat
    BY DEF Ready, Waiting, Handlers, Ops
  <2> QED BY <2>1 DEF Went, Same
<1>3. Went(t, Step(t), 1)
  BY <1>2, WentFurther
<1>4. Went(t, Step(Step(t)), 2)
  BY <1>3, WentFurther
<1>5. Went(t, Step(Step(Step(t))), 3)
  BY <1>4, WentFurther
<1>6. Went(t, u, 4)
  BY <1>5, WentFurther
<1> HIDE DEF u
<1>7. ASSUME ~Waiting(u), ~Finished(u.op) PROVE FALSE
  <2>1. u.op.sm >= 4 /\ Ready(u)
    BY <1>6, <1>7 DEF Went
  <2>2. u.op.sm \in 0..3
    BY <1>7, <2>1, CurrentMachine DEF Ready, ClientOK, OpOK
  <2> QED BY <2>1, <2>2
<1>8. Advanced(t, u)
  <2>1. CASE Waiting(u) /\ (u = t \/ u.op.round = 1)
    BY <1>6, <2>1 DEF Went, Advanced
  <2>2. CASE Ready(u)
    <3>1. ~Waiting(u)
      BY <2>2, WaitingHasSent DEF Ready
    <3> QED BY <1>6, <1>7, <2>2, <3>1 DEF Went, Advanced
  <2> QED BY <1>6, <2>1, <2>2 DEF Went
<1> QED BY <1>1, <1>8

-----------------------------------------------------------------------------
\* The answers.
LEMMA LookupIsAnswered ==
  ASSUME NEW t \in Handlers, ClientOK(t.op, t.names, t.attrs), ~Finished(t.op), t.sends = {},
         MachineOf(t.op).type = "lookup",
         NEW q, LookupOK(q, MachineOf(t.op).path), q.at = "client"
  PROVE  Moves(t, LookupAnswered(t, q))
<1> DEFINE o == t.op
           m == MachineOf(o)
           p == m.path
           k == Prefix(p, q.resolved - 1)
           v == [t EXCEPT !.op.resolved = q.resolved]
           cacheName == Inserted(t.names, k, MaxNames)
           w == [v EXCEPT !.names = cacheName]
<1>1. /\ OpTyped(o) /\ CacheOK(t.names, MaxNames) /\ CacheOK(t.attrs, MaxAttrs)
  BY DEF ClientOK, OpOK
<1>2. MachineOK(m) /\ PlaceOK(o.kind, o.path, o.sm + 1) /\ o.path \in Seq(Names)
  BY <1>1, CurrentMachine, OperandIs
<1>3. Lookable(p) /\ p \in Seq(Names) /\ Len(p) \in Nat /\ Len(p) <= Len(o.path) /\ Len(o.path) \in Nat
  <2>1. Lookable(p) /\ p \in Paths
    BY <1>2 DEF MachineOK, Lookable
  <2>2. Len(p) <= Len(o.path)
    BY <1>2 DEF PlaceOK, MachineOf
  <2> QED BY <1>2, <2>1, <2>2, PathsAre
<1>4. /\ q.resolved \in 1..Len(p) + 1 /\ q.path = p /\ k \in Known
      /\ q.status \in {"FOUND", "NOTFOUND", "PARTIAL"}
      /\ q.status = "FOUND" => q.resolved = Len(p) + 1
      /\ q.status # "FOUND" => q.resolved <= Len(p)
      /\ q.status = "NOTFOUND" => Prefix(p, q.resolved) \notin Known
  BY DEF LookupOK, Reached, Reqs, Statuses
<1>5. q.resolved \in Nat /\ q.resolved \in 1..Len(o.path) + 1
  BY <1>3, <1>4
<1>6. CacheOK(cacheName, MaxNames)
  BY <1>1, <1>4, InsertedOK, NameOperationsAssumption
<1>7. /\ v \in Handlers /\ Same(t, v) /\ v.op.sm = o.sm /\ v.op.resolved = q.resolved
      /\ v.names = t.names /\ v.attrs = t.attrs /\ v.sends = {}
  BY <1>5 DEF Handlers, Ops, Same
<1>8. LookupAnswered(t, q) = CASE q.status = "FOUND" -> FinishMachine(w)
                               [] q.status = "NOTFOUND" -> FinishMachine(v)
                               [] q.status = "PARTIAL"  -> AskServer(v, p)
  <2>1. v.names = t.names /\ q.path = p
    BY <1>4, <1>7
  <2> HIDE DEF v
  <2> QED BY <2>1 DEF LookupAnswered, v
<1> HIDE DEF v, cacheName
<1>9. ~Finished(v.op) /\ MachineOf(v.op) = m /\ OpTyped(v.op)
  BY <1>1, <1>5, <1>7 DEF Finished, MachineOf, Same, OpTyped, Handlers
<1>10. w \in Handlers /\ w.op = v.op /\ w.names = cacheName /\ w.attrs = t.attrs /\ w.sends = {}
  BY <1>6, <1>7 DEF Handlers, CacheOK
<1> HIDE DEF w
<1>11. ASSUME NEW x \in {v, w}, Resolves(p, q.resolved)
       PROVE  Moves(t, FinishMachine(x))
  <2>1. /\ x \in Handlers /\ x.op = v.op /\ x.sends = {}
        /\ CacheOK(x.names, MaxNames) /\ CacheOK(x.attrs, MaxAttrs)
    BY <1>1, <1>6, <1>7, <1>10, <1>11
  <2>2. OpTyped(x.op) /\ ~Finished(x.op) /\ MachineOf(x.op) = m /\ x.op.resolved = q.resolved
    BY <1>7, <1>9, <2>1
  <2>3. LET u == FinishMachine(x)
        IN Ready(u) /\ Same(x, u) /\ u.op.sm = x.op.sm + 1
    BY <1>11, <2>1, <2>2, MachineFinishes
  <2>4. LET u == FinishMachine(x)
        IN Ready(u) /\ Same(t, u) /\ u.op.sm = t.op.sm + 1
    BY <1>7, <2>1, <2>3 DEF Same
  <2> QED BY <1>1, <2>4, LastMachine DEF Moves
<1>12. CASE q.status = "FOUND"
  <2>1. Resolves(p, q.resolved)
    BY <1>4, <1>12 DEF Resolves
  <2> QED BY <1>8, <1>11, <1>12, <2>1
<1>13. CASE q.status = "NOTFOUND"
  <2>1. Resolves(p, q.resolved)
    BY <1>4, <1>13 DEF Resolves
  <2> QED BY <1>8, <1>11, <1>13, <2>1
<1>14. CASE q.status = "PARTIAL"
  <2>1. v.op.resolved <= Len(p) /\ Prefix(p, v.op.resolved - 1) \in Known
    BY <1>4, <1>7, <1>14
  <2>2. LET u == AskServer(v, p)
        IN Waiting(u) /\ Same(v, u) /\ u.op.round = 1
    BY <1>1, <1>7, <1>9, <2>1, ServerAsked
  <2> QED BY <1>7, <1>8, <1>14, <2>2 DEF Moves, Same
<1> QED BY <1>4, <1>12, <1>13, <1>14

LEMMA RoundIsAnswered ==
  ASSUME NEW t \in Handlers, ClientOK(t.op, t.names, t.attrs), ~Finished(t.op), t.sends = {},
         MachineOf(t.op).type # "lookup",
         t.op.round \in 1..Len(Rounds(MachineOf(t.op))), t.op.remaining \in Nat \ {0}
  PROVE  LET u == RoundAnswered(t)
             len == Len(Rounds(MachineOf(t.op)))
         IN /\ t.op.remaining # 1 => u = [t EXCEPT !.op.remaining = @ - 1]
            /\ t.op.remaining = 1 /\ t.op.round # len =>
                 Waiting(u) /\ Same(t, u) /\ u.op.sm = t.op.sm /\ u.op.round = t.op.round + 1
            /\ t.op.remaining = 1 /\ t.op.round = len =>
                 Ready(u) /\ Same(t, u) /\ u.op.sm = t.op.sm + 1
<1> DEFINE o == t.op
           m == MachineOf(o)
           len == Len(Rounds(m))
           v == [t EXCEPT !.op.remaining = @ - 1]
<1>1. OpTyped(o) /\ OpFound(o) /\ MachineOK(m)
  BY CurrentMachine DEF ClientOK, OpOK
<1>2. len \in Nat /\ o.round \in 1..len
  BY <1>1, RoundsAre
<1>3. PICK k \in Nat : k = o.remaining - 1
  OBVIOUS
<1>4. v = [t EXCEPT !.op.remaining = k]
  BY <1>3
<1>5. v \in Handlers
  BY <1>4 DEF Handlers, Ops
<1>6. /\ v.op.kind = o.kind /\ v.op.path = o.path /\ v.op.sm = o.sm /\ v.op.round = o.round
      /\ v.op.resolved = o.resolved /\ v.op.remaining = k
      /\ v.names = t.names /\ v.attrs = t.attrs /\ v.sends = {}
  BY <1>4 DEF Handlers, Ops
<1> HIDE DEF v
<1>7. ~Finished(v.op) /\ MachineOf(v.op) = m /\ OpTyped(v.op) /\ OpFound(v.op)
  BY <1>1, <1>5, <1>6 DEF Finished, MachineOf, OpTyped, OpFound, Handlers
<1>8. ClientOK(v.op, v.names, v.attrs)
  BY <1>6, <1>7 DEF ClientOK, OpOK
<1>9. Current(t) = m /\ Current(v) = m
  BY <1>6 DEF Current, MachineOf
<1>10. RoundAnswered(t) = IF v.op.remaining > 0 THEN v
                          ELSE IF v.op.round < len THEN Send(v, v.op.round + 1, Rounds(m)[v.op.round + 1])
                          ELSE Finish(v)
  BY <1>9 DEF RoundAnswered, v
<1>11. CASE o.remaining # 1
  <2>1. k > 0
    BY <1>3, <1>11
  <2> QED BY <1>6, <1>10, <1>11, <2>1 DEF v
<1>12. CASE o.remaining = 1 /\ o.round # len
  <2>1. ~(k > 0) /\ v.op.round < len /\ v.op.round + 1 \in 1..len
    BY <1>2, <1>3, <1>6, <1>12
  <2>2. RoundAnswered(t) = Send(v, v.op.round + 1, Rounds(m)[v.op.round + 1])
    BY <1>6, <1>10, <2>1
  <2>3. LET u == Send(v, v.op.round + 1, Rounds(m)[v.op.round + 1])
        IN Waiting(u) /\ Same(v, u) /\ u.op.sm = v.op.sm /\ u.op.round = v.op.round + 1
    BY <1>5, <1>7, <1>8, <2>1, RoundSent
  <2> QED BY <1>6, <1>12, <2>2, <2>3 DEF Same
<1>13. CASE o.remaining = 1 /\ o.round = len
  <2>1. ~(k > 0) /\ ~(v.op.round < len)
    BY <1>2, <1>3, <1>6, <1>13
  <2>2. RoundAnswered(t) = Finish(v)
    BY <1>6, <1>10, <2>1
  <2>3. LET u == Finish(v)
        IN Ready(u) /\ Same(v, u) /\ u.op.sm = v.op.sm + 1
    BY <1>5, <1>6, <1>7, <1>8, MachineEnds
  <2> QED BY <1>6, <1>13, <2>2, <2>3 DEF Same
<1> QED BY <1>11, <1>12, <1>13

-----------------------------------------------------------------------------
\* What changes the storage: which machine sends it, and when.
LEMMA ToAllIs ==
  ASSUME NEW type \in RequestTypes \ {"lookup"}, NEW p \in Known, NEW q \in ToAll(type, Data(p))
  PROVE  q.type = type /\ q.object.path = p
<1>1. PICK o \in Data(p) : q = To(type, o)
  BY DEF ToAll
<1>2. o \in Objects /\ o.path = p
  BY ObjectsAre
<1>3. q.type = type /\ q.object = o
  BY <1>1, <1>2, RequestTo
<1> QED BY <1>2, <1>3

LEMMA CreateRoundsAre ==
  ASSUME NEW m, m.type = "create"
  PROVE  /\ Len(Rounds(m)) = 4
         /\ Rounds(m)[1] = {To("create", Meta(m.path))}
         /\ Rounds(m)[2] = ToAll("create", Data(m.path))
         /\ Rounds(m)[3] = {To("setAttr", Meta(m.path))}
         /\ Rounds(m)[4] = {Entry("createDirEnt", m.path)}
<1>1. Rounds(m) = CreateRounds(m.path)
  BY DEF Rounds
<1> QED BY <1>1 DEF CreateRounds

LEMMA CreateDirRoundsAre ==
  ASSUME NEW m, m.type = "createDir"
  PROVE  /\ Len(Rounds(m)) = 4
         /\ Rounds(m)[1] = {To("create", FirstHandle)}
         /\ Rounds(m)[2] = ToAll("create", Data(m.path))
         /\ Rounds(m)[3] = {To("setAttr", Meta(m.path))}
         /\ Rounds(m)[4] = {Entry("createDirEnt", m.path)}
<1>1. Rounds(m) = CreateDirRounds(m.path)
  BY DEF Rounds
<1> QED BY <1>1 DEF CreateDirRounds

LEMMA RemoveRoundsAre ==
  ASSUME NEW m, m.type = "remove"
  PROVE  /\ Len(Rounds(m)) = 3
         /\ Rounds(m)[1] = {Entry("removeDirEnt", m.path)}
         /\ Rounds(m)[2] = {To("remove", Meta(m.path))}
         /\ Rounds(m)[3] = ToAll("remove", Data(m.path))
<1>1. Rounds(m) = RemoveRounds(m.path)
  BY DEF Rounds
<1> QED BY <1>1 DEF RemoveRounds

\* A request to change the storage is of the machine that makes or removes
\* the path: the objects first and then the entry, or the other way round.
SentBy(m, j, q) ==
  /\ q.type = "create" => /\ m.type \in {"create", "createDir"}
                          /\ q.object = FirstHandle \/ q.object.path = m.path
  /\ q.type = "createDirEnt" => m.type \in {"create", "createDir"} /\ q.path = m.path /\ j = 4
  /\ q.type = "remove" => m.type = "remove" /\ q.object.path = m.path /\ j >= 2
  /\ q.type = "removeDirEnt" => m.type = "remove" /\ q.path = m.path /\ j = 1

LEMMA WhatIsSent ==
  ASSUME NEW m, MachineOK(m), m.type # "lookup",
         NEW j \in 1..Len(Rounds(m)), NEW q \in Rounds(m)[j]
  PROVE  SentBy(m, j, q)
<1> DEFINE p == m.path
<1>1. p \in Known /\ (m.type \in {"create", "createDir", "remove"} => p \in Known \ {<<>>})
  BY DEF MachineOK
<1>2. Meta(p) \in Objects /\ Meta(p).path = p /\ FirstHandle \in Objects
  BY <1>1, ObjectsAre
<1>3. {"getAttr", "setAttr", "create", "remove", "readDir"} \subseteq RequestTypes \ {"lookup"}
  BY DEF RequestTypes
<1>4. ASSUME NEW type \in {"getAttr", "setAttr", "create", "remove", "readDir"}
      PROVE  /\ To(type, Meta(p)).type = type /\ To(type, Meta(p)).object.path = p
             /\ To(type, FirstHandle).type = type /\ To(type, FirstHandle).object = FirstHandle
             /\ \A x \in ToAll(type, Data(p)) : x.type = type /\ x.object.path = p
  <2>1. type \in RequestTypes \ {"lookup"}
    BY <1>3
  <2>2. To(type, Meta(p)).type = type /\ To(type, Meta(p)).object = Meta(p)
    BY <1>2, <2>1, RequestTo
  <2>3. To(type, FirstHandle).type = type /\ To(type, FirstHandle).object = FirstHandle
    BY <1>2, <2>1, RequestTo
  <2>4. \A x \in ToAll(type, Data(p)) : x.type = type /\ x.object.path = p
    BY <1>1, <2>1, ToAllIs
  <2> QED BY <1>2, <2>2, <2>3, <2>4
<1>5. CASE m.type \in {"getAttr", "getSize", "setAttr", "readDir"}
  <2>1. q.type \in {"getAttr", "setAttr", "readDir"}
    <3>1. CASE m.type = "getAttr"
      <4>1. j = 1 /\ q = To("getAttr", Meta(p))
        BY <3>1 DEF Rounds, GetAttrRounds
      <4> QED BY <1>4, <4>1
    <3>2. CASE m.type = "getSize"
      <4>1. q = To("getAttr", Meta(p)) \/ q \in ToAll("getAttr", Data(p))
        BY <3>2 DEF Rounds, GetSizeRounds
      <4> QED BY <1>4, <4>1
    <3>3. CASE m.type = "setAttr"
      <4>1. j = 1 /\ q = To("setAttr", Meta(p))
        BY <3>3 DEF Rounds, SetAttrRounds
      <4> QED BY <1>4, <4>1
    <3>4. CASE m.type = "readDir"
      <4>1. j = 1 /\ q \in ToAll("readDir", Data(p))
        BY <3>4 DEF Rounds, ReadDirRounds
      <4> QED BY <1>4, <4>1
    <3> QED BY <1>5, <3>1, <3>2, <3>3, <3>4
  <2> QED BY <2>1 DEF SentBy
<1>6. CASE m.type = "create"
  <2>1. /\ Entry("createDirEnt", p).type = "createDirEnt" /\ Entry("createDirEnt", p).path = p
    BY <1>1, <1>6, RequestEntry
  <2>2. /\ Len(Rounds(m)) = 4
        /\ Rounds(m)[1] = {To("create", Meta(p))} /\ Rounds(m)[2] = ToAll("create", Data(p))
        /\ Rounds(m)[3] = {To("setAttr", Meta(p))} /\ Rounds(m)[4] = {Entry("createDirEnt", p)}
    BY <1>6, CreateRoundsAre
  <2>3. \/ q.type = "create" /\ q.object.path = p
        \/ q.type = "setAttr"
        \/ j = 4 /\ q.type = "createDirEnt" /\ q.path = p
    BY <1>4, <2>1, <2>2
  <2> QED BY <1>6, <2>3 DEF SentBy
<1>7. CASE m.type = "createDir"
  <2>1. /\ Entry("createDirEnt", p).type = "createDirEnt" /\ Entry("createDirEnt", p).path = p
    BY <1>1, <1>7, RequestEntry
  <2>2. /\ Len(Rounds(m)) = 4
        /\ Rounds(m)[1] = {To("create", FirstHandle)} /\ Rounds(m)[2] = ToAll("create", Data(p))
        /\ Rounds(m)[3] = {To("setAttr", Meta(p))} /\ Rounds(m)[4] = {Entry("createDirEnt", p)}
    BY <1>7, CreateDirRoundsAre
  <2>3. \/ q.type = "create" /\ (q.object = FirstHandle \/ q.object.path = p)
        \/ q.type = "setAttr"
        \/ j = 4 /\ q.type = "createDirEnt" /\ q.path = p
    BY <1>4, <2>1, <2>2
  <2> QED BY <1>7, <2>3 DEF SentBy
<1>8. CASE m.type = "remove"
  <2>1. /\ Entry("removeDirEnt", p).type = "removeDirEnt" /\ Entry("removeDirEnt", p).path = p
    BY <1>1, <1>8, RequestEntry
  <2>2. /\ Len(Rounds(m)) = 3 /\ Rounds(m)[1] = {Entry("removeDirEnt", p)}
        /\ Rounds(m)[2] = {To("remove", Meta(p))} /\ Rounds(m)[3] = ToAll("remove", Data(p))
    BY <1>8, RemoveRoundsAre
  <2>3. \/ j = 1 /\ q.type = "removeDirEnt" /\ q.path = p
        \/ j >= 2 /\ q.type = "remove" /\ q.object.path = p
    BY <1>4, <2>1, <2>2
  <2> QED BY <1>8, <2>3 DEF SentBy
<1> QED BY <1>5, <1>6, <1>7, <1>8 DEF MachineOK, MachineTypes

\* All the objects of a path, and its entry, are asked for.
LEMMA CreationSends ==
  ASSUME NEW m, MachineOK(m), m.type \in {"create", "createDir"}
  PROVE  /\ Len(Rounds(m)) = 4 /\ Entry("createDirEnt", m.path) \in Rounds(m)[4]
         /\ \A o \in ObjectsOf(m.path) : \E j \in 1..3 : To("create", o) \in Rounds(m)[j]
<1>1. CASE m.type = "create"
  <2>1. ASSUME NEW o \in ObjectsOf(m.path) PROVE \E j \in 1..3 : To("create", o) \in Rounds(m)[j]
    <3>1. CASE o \in Data(m.path)
      BY <1>1, <3>1, CreateRoundsAre DEF ToAll
    <3>2. CASE o = Meta(m.path)
      BY <1>1, <3>2, CreateRoundsAre
    <3> QED BY <3>1, <3>2 DEF ObjectsOf
  <2> QED BY <1>1, <2>1, CreateRoundsAre
<1>2. CASE m.type = "createDir"
  <2>1. ObjectsOf(m.path) = Data(m.path)
    BY <1>2, PathsAreSequences DEF ObjectsOf, MachineOK
  <2> QED BY <1>2, <2>1, CreateDirRoundsAre DEF ToAll
<1> QED BY <1>1, <1>2

LEMMA RemovalSends ==
  ASSUME NEW m, MachineOK(m), m.type = "remove"
  PROVE  /\ Len(Rounds(m)) = 3 /\ Entry("removeDirEnt", m.path) \in Rounds(m)[1]
         /\ \A o \in ObjectsOf(m.path) : \E j \in 1..3 : To("remove", o) \in Rounds(m)[j]
<1>1. ASSUME NEW o \in ObjectsOf(m.path) PROVE \E j \in 1..3 : To("remove", o) \in Rounds(m)[j]
  <2>1. CASE o \in Data(m.path)
    BY <2>1, RemoveRoundsAre DEF ToAll
  <2>2. CASE o = Meta(m.path)
    BY <2>2, RemoveRoundsAre
  <2> QED BY <2>1, <2>2 DEF ObjectsOf
<1> QED BY <1>1, RemoveRoundsAre

-----------------------------------------------------------------------------
\* The requests of client c that are under way, and as they were sent.
Out(c) == {r \in requests : r.client = c}
AsSent(q) == [q EXCEPT !.at = "server"]
SentFor(c, qs) == {[client |-> c, req |-> q] : q \in qs}

\* A client in the middle of an operation waits for the requests of a round.
Waits(o, out) ==
  LET m == MachineOf(o)
  IN /\ m.type = "lookup" => \E r \in out : out = {r} /\ LookupOK(r.req, m.path)
     /\ m.type # "lookup" =>
          /\ o.round \in 1..Len(Rounds(m))
          /\ out # {} /\ IsFiniteSet(out) /\ o.remaining = Cardinality(out)
          /\ \A r \in out : r.req \in Reqs /\ AsSent(r.req) \in Rounds(m)[o.round]
          /\ \A r, s \in out : AsSent(r.req) = AsSent(s.req) => r = s

ClientState(o, n, a, out) ==
  /\ ClientOK(o, n, a)
  /\ Finished(o) => out = {}
  /\ ~Finished(o) => o.round \in Nat \ {0} /\ Waits(o, out)
ClientInv(c) == ClientState(op[c], names[c], attrs[c], Out(c))

LEMMA AsSentIs ==
  ASSUME NEW q \in Reqs
  PROVE  /\ AsSent(q) \in Reqs /\ AsSent(q).type = q.type /\ AsSent(q).object = q.object
         /\ AsSent(q).path = q.path /\ AsSent(q).at = "server"
         /\ q.at = "server" => AsSent(q) = q
         /\ \A at \in Places : AsSent([q EXCEPT !.at = at]) = AsSent(q)
BY DEF AsSent, Reqs, Places

LEMMA SentForIs ==
  ASSUME NEW c, NEW qs, IsFiniteSet(qs)
  PROVE  IsFiniteSet(SentFor(c, qs)) /\ Cardinality(SentFor(c, qs)) = Cardinality(qs)
<1> DEFINE T == SentFor(c, qs)
           f == [q \in qs |-> [client |-> c, req |-> q]]
<1>1. f \in [qs -> T]
  BY DEF SentFor
<1>2. \A x \in T : \E q \in qs : f[q] = x
  BY DEF SentFor
<1>3. ASSUME NEW q \in qs, NEW s \in qs, f[q] = f[s] PROVE q = s
  <2>1. f[q].req = q /\ f[s].req = s
    OBVIOUS
  <2> QED BY <1>3, <2>1
<1> HIDE DEF f, T
<1>4. f \in Bijection(qs, T)
  <2>1. f \in Surjection(qs, T)
    BY <1>1, <1>2 DEF Surjection
  <2>2. f \in Injection(qs, T)
    BY <1>1, <1>3 DEF Injection, IsInjective
  <2> QED BY <2>1, <2>2 DEF Bijection
<1>5. Cardinality(T) = Cardinality(qs) /\ IsFiniteSet(T)
  BY <1>4, FS_Bijection DEF ExistsBijection
<1> QED BY <1>5 DEF T

LEMMA WaitsForSent ==
  ASSUME NEW c, NEW u, Waiting(u)
  PROVE  Waits(u.op, SentFor(c, u.sends))
<1> DEFINE m == MachineOf(u.op)
           out == SentFor(c, u.sends)
<1>1. CASE m.type = "lookup"
  <2>1. PICK q \in Reqs : u.sends = {q} /\ LookupOK(q, m.path)
    BY <1>1 DEF Waiting
  <2>2. PICK r : r = [client |-> c, req |-> q]
    OBVIOUS
  <2>3. out = {r} /\ r.req = q
    BY <2>1, <2>2 DEF SentFor
  <2> HIDE DEF out
  <2>4. r \in out /\ out = {r} /\ LookupOK(r.req, m.path)
    BY <2>1, <2>3
  <2>5. Waits(u.op, out)
    BY <1>1, <2>4 DEF Waits
  <2> QED BY <2>5 DEF out
<1>2. CASE m.type # "lookup"
  <2>1. /\ u.op.round \in 1..Len(Rounds(m)) /\ u.sends = Rounds(m)[u.op.round]
        /\ u.op.remaining = Cardinality(u.sends) /\ OpTyped(u.op) /\ ~Finished(u.op)
    BY <1>2 DEF Waiting, ClientOK, OpOK
  <2>2. RoundOK(u.sends)
    BY <1>2, <2>1, CurrentMachine, RoundsAre
  <2>3. IsFiniteSet(out) /\ Cardinality(out) = u.op.remaining
    BY <2>1, <2>2, SentForIs DEF RoundOK
  <2>4. out # {}
    BY <2>2 DEF RoundOK, SentFor
  <2>5. ASSUME NEW r \in out
        PROVE  r.req \in u.sends /\ r.req \in Reqs /\ AsSent(r.req) = r.req /\ r = [client |-> c, req |-> r.req]
    <3>1. PICK q \in u.sends : r = [client |-> c, req |-> q]
      BY DEF SentFor
    <3>2. r.req = q /\ q \in Reqs /\ q.at = "server"
      BY <2>2, <3>1 DEF RoundOK
    <3> QED BY <3>1, <3>2, AsSentIs
  <2>6. \A r, s \in out : AsSent(r.req) = AsSent(s.req) => r = s
    BY <2>5
  <2> HIDE DEF out
  <2>7. Waits(u.op, out)
    BY <1>2, <2>1, <2>3, <2>4, <2>5, <2>6 DEF Waits
  <2> QED BY <2>7 DEF out
<1> QED BY <1>1, <1>2

\* A client whose machines have gone on.
LEMMA StateAdvanced ==
  ASSUME NEW c, NEW t, NEW u, Advanced(t, u)
  PROVE  ClientState(u.op, u.names, u.attrs, SentFor(c, u.sends)) /\ u \in Handlers
<1>1. CASE Waiting(u)
  <2>1. u \in Handlers /\ ClientOK(u.op, u.names, u.attrs) /\ ~Finished(u.op)
    BY <1>1 DEF Waiting
  <2> QED BY <1>1, <2>1, WaitsForSent, WaitingHasSent DEF ClientState
<1>2. CASE Ready(u) /\ Finished(u.op)
  <2>1. SentFor(c, u.sends) = {}
    BY <1>2 DEF Ready, SentFor
  <2> QED BY <1>2, <2>1 DEF ClientState, Ready
<1> QED BY <1>1, <1>2 DEF Advanced

\* A request replaced by what becomes of it.
LEMMA ReplacedIs ==
  ASSUME NEW S, IsFiniteSet(S), NEW r \in S, NEW s, s \notin S
  PROVE  /\ IsFiniteSet((S \ {r}) \union {s})
         /\ Cardinality((S \ {r}) \union {s}) = Cardinality(S)
<1> DEFINE T == S \ {r}
<1>1. IsFiniteSet(T) /\ Cardinality(T) = Cardinality(S) - 1 /\ s \notin T
  BY FS_RemoveElement
<1>2. Cardinality(S) \in Nat
  BY FS_CardinalityType
<1> HIDE DEF T
<1>3. IsFiniteSet(T \union {s}) /\ Cardinality(T \union {s}) = Cardinality(T) + 1
  BY <1>1, FS_AddElement
<1>4. Cardinality(T \union {s}) = Cardinality(S)
  BY <1>1, <1>2, <1>3
<1> QED BY <1>3, <1>4 DEF T

LEMMA RequestMoves ==
  ASSUME NEW o, NEW n, NEW a, NEW out, ClientState(o, n, a, out), NEW r \in out,
         NEW s, s # r, s.req \in Reqs, r = [client |-> r.client, req |-> r.req],
         s = [client |-> r.client, req |-> s.req],
         MachineOf(o).type = "lookup" => LookupOK(s.req, MachineOf(o).path),
         MachineOf(o).type # "lookup" => AsSent(s.req) = AsSent(r.req)
  PROVE  ClientState(o, n, a, (out \ {r}) \union {s})
<1> DEFINE new == (out \ {r}) \union {s}
           m == MachineOf(o)
<1>1. ~Finished(o) /\ Waits(o, out) /\ ClientOK(o, n, a) /\ o.round \in Nat \ {0}
  BY DEF ClientState
<1>2. CASE m.type = "lookup"
  <2>1. new = {s}
    BY <1>1, <1>2 DEF Waits
  <2> QED BY <1>1, <1>2, <2>1 DEF ClientState, Waits
<1>3. CASE m.type # "lookup"
  <2>1. /\ o.round \in 1..Len(Rounds(m)) /\ IsFiniteSet(out) /\ o.remaining = Cardinality(out)
        /\ \A x \in out : x.req \in Reqs /\ AsSent(x.req) \in Rounds(m)[o.round]
        /\ \A x, y \in out : AsSent(x.req) = AsSent(y.req) => x = y
    BY <1>1, <1>3 DEF Waits
  <2>2. AsSent(s.req) = AsSent(r.req)
    BY <1>3
  <2>3. s \notin out
    BY <2>1, <2>2
  <2>4. IsFiniteSet(new) /\ Cardinality(new) = Cardinality(out)
    BY <2>1, <2>3, ReplacedIs
  <2>5. \A x \in new : x.req \in Reqs /\ AsSent(x.req) \in Rounds(m)[o.round]
    BY <2>1, <2>2
  <2>6. \A x, y \in new : AsSent(x.req) = AsSent(y.req) => x = y
    BY <2>1, <2>2
  <2>7. new # {}
    OBVIOUS
  <2> HIDE DEF new
  <2>8. Waits(o, new)
    BY <1>3, <2>1, <2>4, <2>5, <2>6, <2>7 DEF Waits
  <2> QED BY <1>1, <2>8 DEF ClientState, new
<1> QED BY <1>2, <1>3

-----------------------------------------------------------------------------
\* The inductive invariant.
Typed ==
  /\ DOMAIN op = Clients /\ DOMAIN names = Clients /\ DOMAIN attrs = Clients
  /\ \A r \in requests : r.client \in Clients /\ r.req \in Reqs
                         /\ r = [client |-> r.client, req |-> r.req]
  /\ objects \subseteq Objects /\ entries \subseteq Known /\ raced \subseteq Known
  /\ started \in 0..MaxOperations

\* What a request leaves in storage, as far as the machine on path p answers
\* for it: others create the first handle, or remove it.
Effect(p, q) ==
  /\ q.type = "create" /\ q.object.path = p => q.object \in objects
  /\ q.type = "createDirEnt" => q.path \in entries
  /\ q.type = "removeDirEnt" => q.path \notin entries
  /\ q.type = "remove" /\ q.object # FirstHandle => q.object \notin objects
Pending(c, q) == \E r \in Out(c) : AsSent(r.req) = q /\ r.req.at # "client"

\* A machine that changes the storage, of an operation that races with none.
Alone(c) ==
  LET m == MachineOf(op[c])
  IN ~Finished(op[c]) /\ m.type \in {"create", "createDir", "remove"} /\ m.path \notin raced

\* It has had the effects of all that was answered.
EffectsKept(c) ==
  LET m == MachineOf(op[c])
  IN Alone(c) => \A j \in 1..op[c].round : \A q \in Rounds(m)[j] :
                   j < op[c].round \/ ~Pending(c, q) => Effect(m.path, q)

RacesNoted ==
  \A c, d \in Clients : ~Finished(op[c]) /\ ~Finished(op[d]) /\ op[c].path = op[d].path
                        /\ op[c].kind \in Creates /\ op[d].kind \in Removes
                        => op[c].path \in raced

IInv ==
  /\ Typed /\ \A c \in Clients : ClientInv(c)
  /\ RacesNoted /\ (\A c \in Clients : EffectsKept(c)) /\ EntriesNameWholeFiles

LEMMA IdleIs == \A c : Idle(c) <=> Finished(op[c])
BY DEF Idle, Finished

\* Whoever waits for a request waits for it as it was sent.
LEMMA RequestIs ==
  ASSUME Typed, \A c \in Clients : ClientInv(c), NEW r \in requests
  PROVE  LET c == r.client
             m == MachineOf(op[c])
         IN /\ c \in Clients /\ ~Finished(op[c]) /\ r \in Out(c) /\ MachineOK(m)
            /\ PlaceOK(op[c].kind, op[c].path, op[c].sm + 1)
            /\ m.type = "lookup" => LookupOK(r.req, m.path) /\ Out(c) = {r}
            /\ m.type # "lookup" =>
                 /\ op[c].round \in 1..Len(Rounds(m))
                 /\ AsSent(r.req) \in Rounds(m)[op[c].round] /\ r.req.type # "lookup"
                 /\ SentBy(m, op[c].round, r.req)
<1> DEFINE c == r.client
           m == MachineOf(op[c])
<1>1. c \in Clients /\ r \in Out(c) /\ r.req \in Reqs
  BY DEF Typed, Out
<1>2. ~Finished(op[c]) /\ Waits(op[c], Out(c)) /\ ClientOK(op[c], names[c], attrs[c])
  BY <1>1 DEF ClientInv, ClientState
<1>3. MachineOK(m) /\ PlaceOK(op[c].kind, op[c].path, op[c].sm + 1)
  BY <1>2, CurrentMachine DEF ClientOK, OpOK
<1>4. ASSUME m.type = "lookup" PROVE LookupOK(r.req, m.path) /\ Out(c) = {r}
  <2>1. PICK s \in Out(c) : Out(c) = {s} /\ LookupOK(s.req, m.path)
    BY <1>2, <1>4 DEF Waits
  <2>2. r = s
    BY <1>1, <2>1
  <2> QED BY <2>1, <2>2
<1>5. ASSUME m.type # "lookup"
      PROVE  /\ op[c].round \in 1..Len(Rounds(m))
             /\ AsSent(r.req) \in Rounds(m)[op[c].round] /\ r.req.type # "lookup"
             /\ SentBy(m, op[c].round, r.req)
  <2>1. op[c].round \in 1..Len(Rounds(m)) /\ AsSent(r.req) \in Rounds(m)[op[c].round]
    BY <1>1, <1>2, <1>5 DEF Waits
  <2>2. AsSent(r.req).type # "lookup"
    BY <1>3, <1>5, <2>1, RoundsAre DEF RoundOK
  <2>3. SentBy(m, op[c].round, AsSent(r.req))
    BY <1>3, <1>5, <2>1, WhatIsSent
  <2>4. /\ AsSent(r.req).type = r.req.type /\ AsSent(r.req).object = r.req.object
        /\ AsSent(r.req).path = r.req.path
    BY <1>1, AsSentIs
  <2> QED BY <2>1, <2>2, <2>3, <2>4 DEF SentBy
<1> QED BY <1>1, <1>2, <1>3, <1>4, <1>5

\* Machines that make and remove one path are of operations that overlap.
LEMMA RaceIs ==
  ASSUME \A c \in Clients : ClientInv(c), RacesNoted, NEW c \in Clients, NEW d \in Clients,
         ~Finished(op[c]), ~Finished(op[d]),
         MachineOf(op[c]).type \in {"create", "createDir"}, MachineOf(op[d]).type = "remove",
         MachineOf(op[c]).path = MachineOf(op[d]).path
  PROVE  MachineOf(op[c]).path \in raced
<1>1. OpTyped(op[c]) /\ OpTyped(op[d])
  BY DEF ClientInv, ClientState, ClientOK, OpOK
<1>2. /\ PlaceOK(op[c].kind, op[c].path, op[c].sm + 1)
      /\ PlaceOK(op[d].kind, op[d].path, op[d].sm + 1)
  BY <1>1, CurrentMachine
<1>3. op[c].kind \in Creates /\ MachineOf(op[c]).path = op[c].path
  BY <1>2 DEF PlaceOK, MachineOf, Creates
<1>4. op[d].kind \in Removes /\ MachineOf(op[d]).path = op[d].path
  BY <1>2 DEF PlaceOK, MachineOf
<1> QED BY <1>3, <1>4 DEF RacesNoted

LEMMA HandledIs ==
  ASSUME Typed, NEW c \in Clients, NEW t \in Handlers, NEW answered \in SUBSET Out(c),
         Handled(c, t, answered)
  PROVE  /\ DOMAIN op' = Clients /\ DOMAIN names' = Clients /\ DOMAIN attrs' = Clients
         /\ op'[c] = t.op /\ names'[c] = t.names /\ attrs'[c] = t.attrs
         /\ \A d \in Clients \ {c} : /\ op'[d] = op[d] /\ names'[d] = names[d]
                                     /\ attrs'[d] = attrs[d] /\ Out(d)' = Out(d)
         /\ Out(c)' = (Out(c) \ answered) \union SentFor(c, t.sends)
         /\ \A r \in requests' : r.client \in Clients /\ r.req \in Reqs
                                 /\ r = [client |-> r.client, req |-> r.req]
<1>1. /\ op' = [op EXCEPT ![c] = t.op] /\ names' = [names EXCEPT ![c] = t.names]
      /\ attrs' = [attrs EXCEPT ![c] = t.attrs]
      /\ requests' = (requests \ answered) \union SentFor(c, t.sends)
  BY DEF Handled, SentFor
<1>2. ASSUME NEW r \in SentFor(c, t.sends)
      PROVE  r.client = c /\ r.req \in Reqs /\ r = [client |-> r.client, req |-> r.req]
  <2>1. PICK q \in t.sends : r = [client |-> c, req |-> q]
    BY DEF SentFor
  <2>2. q \in Reqs
    BY DEF Handlers
  <2> QED BY <2>1, <2>2
<1>3. \A r \in answered : r.client = c
  BY DEF Out
<1>4. /\ DOMAIN op' = Clients /\ DOMAIN names' = Clients /\ DOMAIN attrs' = Clients
      /\ op'[c] = t.op /\ names'[c] = t.names /\ attrs'[c] = t.attrs
      /\ \A d \in Clients \ {c} : op'[d] = op[d] /\ names'[d] = names[d] /\ attrs'[d] = attrs[d]
  BY <1>1 DEF Typed
<1>5. \A d \in Clients \ {c} : Out(d)' = Out(d)
  BY <1>1, <1>2, <1>3 DEF Out
<1>6. Out(c)' = (Out(c) \ answered) \union SentFor(c, t.sends)
  BY <1>1, <1>2 DEF Out
<1>7. \A r \in requests' : r.client \in Clients /\ r.req \in Reqs
                           /\ r = [client |-> r.client, req |-> r.req]
  BY <1>1, <1>2 DEF Typed
<1> QED BY <1>4, <1>5, <1>6, <1>7

LEMMA MovedIs ==
  ASSUME Typed, NEW r \in requests, NEW q \in Reqs, Moved(r, q)
  PROVE  LET s == [client |-> r.client, req |-> q]
         IN /\ Out(r.client)' = (Out(r.client) \ {r}) \union {s}
            /\ \A d \in Clients \ {r.client} : Out(d)' = Out(d)
            /\ \A x \in requests' : x.client \in Clients /\ x.req \in Reqs
                                    /\ x = [client |-> x.client, req |-> x.req]
<1> DEFINE s == [client |-> r.client, req |-> q]
<1>1. r = [client |-> r.client, req |-> r.req] /\ r.client \in Clients
  BY DEF Typed
<1>2. [r EXCEPT !.req = q] = s
  BY <1>1
<1>3. requests' = (requests \ {r}) \union {s} /\ s.client = r.client /\ s.req = q
  BY <1>2 DEF Moved
<1> HIDE DEF s
<1>4. Out(r.client)' = (Out(r.client) \ {r}) \union {s}
  BY <1>3 DEF Out
<1>5. \A d \in Clients \ {r.client} : Out(d)' = Out(d)
  BY <1>3 DEF Out
<1>6. s = [client |-> s.client, req |-> s.req]
  BY <1>3 DEF s
<1>7. \A x \in requests' : x.client \in Clients /\ x.req \in Reqs
                           /\ x = [client |-> x.client, req |-> x.req]
  BY <1>1, <1>3, <1>6 DEF Typed
<1> QED BY <1>4, <1>5, <1>7 DEF s

\* A request goes on: to a server, to its storage, back to the client.
LEMMA RequestMoved ==
  ASSUME IInv, NEW r \in requests, NEW q \in Reqs, Moved(r, q), q # r.req,
         UNCHANGED <<op, names, attrs, raced, started>>,
         objects' \subseteq Objects, entries' \subseteq Known,
         MachineOf(op[r.client]).type = "lookup" => LookupOK(q, MachineOf(op[r.client]).path),
         MachineOf(op[r.client]).type # "lookup" => AsSent(q) = AsSent(r.req)
  PROVE  Typed' /\ (\A c \in Clients : ClientInv(c))' /\ RacesNoted'
<1> DEFINE c == r.client
           s == [client |-> c, req |-> q]
<1>1. Typed /\ (\A d \in Clients : ClientInv(d)) /\ RacesNoted
  BY DEF IInv
<1>2. /\ Out(c)' = (Out(c) \ {r}) \union {s}
      /\ \A d \in Clients \ {c} : Out(d)' = Out(d)
      /\ \A x \in requests' : x.client \in Clients /\ x.req \in Reqs
                              /\ x = [client |-> x.client, req |-> x.req]
  BY <1>1, MovedIs
<1>3. r \in Out(c) /\ c \in Clients /\ r = [client |-> r.client, req |-> r.req]
  BY <1>1 DEF Out, Typed
<1>4. s.req = q /\ s # r /\ s = [client |-> r.client, req |-> s.req]
  OBVIOUS
<1> HIDE DEF s
<1>5. ClientState(op[c], names[c], attrs[c], (Out(c) \ {r}) \union {s})
  <2>1. ClientState(op[c], names[c], attrs[c], Out(c))
    BY <1>1, <1>3 DEF ClientInv
  <2> QED BY <1>3, <1>4, <2>1, RequestMoves
<1>6. ASSUME NEW d \in Clients PROVE ClientInv(d)'
  <2>1. CASE d = c
    BY <1>2, <1>5, <2>1 DEF ClientInv
  <2>2. CASE d # c
    <3>1. Out(d)' = Out(d) /\ ClientInv(d)
      BY <1>1, <1>2, <2>2
    <3> QED BY <3>1 DEF ClientInv
  <2> QED BY <2>1, <2>2
<1>7. Typed'
  BY <1>1, <1>2 DEF Typed
<1>8. RacesNoted'
  BY <1>1 DEF RacesNoted
<1> QED BY <1>6, <1>7, <1>8

LEMMA EffectsStay ==
  ASSUME IInv, NEW r \in requests, NEW q \in Reqs, Moved(r, q), UNCHANGED <<op, raced>>,
         MachineOf(op[r.client]).type # "lookup" => AsSent(q) = AsSent(r.req),
         \A d \in Clients : \A p, x : \A j \in 1..op[d].round :
           Alone(d) /\ p = MachineOf(op[d]).path /\ x \in Rounds(MachineOf(op[d]))[j] /\ Effect(p, x)
           => Effect(p, x)',
         \A p : Alone(r.client) /\ p = MachineOf(op[r.client]).path /\ q.at = "client"
                => Effect(p, AsSent(r.req))'
  PROVE  (\A d \in Clients : EffectsKept(d))'
<1> DEFINE c == r.client
           s == [client |-> c, req |-> q]
<1>1. Typed /\ \A d \in Clients : EffectsKept(d)
  BY DEF IInv
<1>2. /\ Out(c)' = (Out(c) \ {r}) \union {s}
      /\ \A d \in Clients \ {c} : Out(d)' = Out(d)
  BY <1>1, MovedIs
<1>3. s.req = q
  OBVIOUS
<1> HIDE DEF s
<1> SUFFICES ASSUME NEW d \in Clients PROVE EffectsKept(d)'
  OBVIOUS
<1>4. PICK m : m = MachineOf(op[d])
  OBVIOUS
<1>5. m = MachineOf(op[d])' /\ op'[d] = op[d] /\ (Alone(d)' <=> Alone(d))
  BY <1>4 DEF Alone, MachineOf
<1> SUFFICES ASSUME Alone(d), NEW j \in 1..op[d].round, NEW x \in Rounds(m)[j],
                    j < op[d].round \/ ~Pending(d, x)'
             PROVE  Effect(m.path, x)'
  BY <1>4, <1>5 DEF EffectsKept
<1>6. PICK p : p = m.path
  OBVIOUS
<1>7. CASE j < op[d].round \/ ~Pending(d, x)
  <2>1. Effect(p, x)
    BY <1>1, <1>4, <1>6, <1>7 DEF EffectsKept
  <2>2. Effect(p, x)'
    BY <1>4, <1>6, <2>1
  <2> QED BY <1>6, <2>2
<1>8. CASE ~(j < op[d].round) /\ Pending(d, x)
  <2>1. PICK y \in Out(d) : AsSent(y.req) = x /\ y.req.at # "client"
    BY <1>8 DEF Pending
  <2>2. d = c /\ y = r
    <3>1. ASSUME d # c PROVE FALSE
      BY <1>2, <2>1, <3>1, <1>8 DEF Pending
    <3>2. ASSUME d = c, y # r PROVE FALSE
      <4>1. y \in Out(d)'
        BY <1>2, <2>1, <3>2
      <4> QED BY <1>8, <2>1, <4>1 DEF Pending
    <3> QED BY <3>1, <3>2
  <2>3. AsSent(q) = x
    <3>1. m.type # "lookup"
      BY <1>4 DEF Alone
    <3> QED BY <1>4, <2>1, <2>2, <3>1
  <2>4. q.at = "client"
    <3>1. s \in Out(d)'
      BY <1>2, <2>2
    <3> QED BY <1>3, <1>8, <2>3, <3>1 DEF Pending
  <2>5. Effect(p, AsSent(r.req))'
    BY <1>4, <1>6, <2>2, <2>4
  <2> QED BY <1>6, <2>1, <2>2, <2>5
<1> QED BY <1>7, <1>8

LEMMA EffectsUnchanged ==
  ASSUME IInv, NEW r \in requests, NEW q \in Reqs, Moved(r, q), UNCHANGED <<op, raced>>,
         UNCHANGED <<objects, entries>>,
         MachineOf(op[r.client]).type # "lookup" => AsSent(q) = AsSent(r.req),
         \A p : Alone(r.client) /\ p = MachineOf(op[r.client]).path /\ q.at = "client"
                => Effect(p, AsSent(r.req))
  PROVE  (\A d \in Clients : EffectsKept(d))' /\ EntriesNameWholeFiles'
<1>1. \A p, x : Effect(p, x)' <=> Effect(p, x)
  BY DEF Effect
<1>2. (\A d \in Clients : EffectsKept(d))'
  BY <1>1, EffectsStay
<1>3. EntriesNameWholeFiles'
  BY DEF EntriesNameWholeFiles, IInv
<1> QED BY <1>2, <1>3

LEMMA ServerRequestStep ==
  ASSUME IInv, NEW r \in requests, ServerRequest(r)
  PROVE  IInv'
<1> DEFINE q == [r.req EXCEPT !.at = "storage"]
<1>1. /\ r.req.at = "server" /\ Moved(r, q)
      /\ UNCHANGED <<op, names, attrs, objects, entries, raced, started>>
  BY DEF ServerRequest
<1>2. Typed /\ \A c \in Clients : ClientInv(c)
  BY DEF IInv
<1>3. r.req \in Reqs
  BY <1>2 DEF Typed
<1>4. AsSent(q) = AsSent(r.req)
  BY <1>3, AsSentIs DEF Places
<1>5. /\ q \in Reqs /\ q.at = "storage" /\ q.type = r.req.type /\ q.path = r.req.path
      /\ q.resolved = r.req.resolved /\ q.object = r.req.object /\ q.status = r.req.status
  BY <1>3 DEF Reqs, Places
<1> HIDE DEF q
<1>6. ASSUME MachineOf(op[r.client]).type = "lookup"
      PROVE  LookupOK(q, MachineOf(op[r.client]).path)
  <2>1. LookupOK(r.req, MachineOf(op[r.client]).path)
    BY <1>2, <1>6, RequestIs
  <2> QED BY <1>1, <1>5, <2>1 DEF LookupOK, Reached, ServerOf
<1>7. Typed' /\ (\A c \in Clients : ClientInv(c))' /\ RacesNoted'
  <2>1. objects' \subseteq Objects /\ entries' \subseteq Known /\ q # r.req
    BY <1>1, <1>2, <1>5 DEF Typed
  <2> QED BY <1>1, <1>4, <1>5, <1>6, <2>1, RequestMoved
<1>8. (\A d \in Clients : EffectsKept(d))' /\ EntriesNameWholeFiles'
  BY <1>1, <1>4, <1>5, EffectsUnchanged
<1> QED BY <1>7, <1>8 DEF IInv

LEMMA LookedUpIs ==
  ASSUME NEW p, Lookable(p), NEW q, LookupOK(q, p), q.at = "storage"
  PROVE  LookupOK(LookedUp(q), p) /\ LookedUp(q) # q
<1> DEFINE next == Prefix(p, q.resolved)
           done == q.resolved = Len(p)
           here == next \in Known /\ DataServers[next][1] = ServerOf(q.object)
           more == [q EXCEPT !.resolved = @ + 1]
           absent == [q EXCEPT !.at = "client", !.status = "NOTFOUND"]
           found == [more EXCEPT !.at = "client", !.status = "FOUND"]
           partial == [more EXCEPT !.at = "client", !.status = "PARTIAL"]
<1>1. /\ q \in Reqs /\ q.type = "lookup" /\ q.path = p /\ q.resolved \in 1..Len(p)
      /\ Len(p) \in Nat /\ q.status = "none" /\ Reached(q) \in Directories
      /\ DataServers[Reached(q)][1] = ServerOf(q.object)
  BY PathsAre DEF LookupOK, Lookable
<1>2. LookedUp(q) = CASE next \notin Known -> absent
                      [] next \in Known /\ done -> found
                      [] here /\ ~done -> more
                      [] OTHER -> partial
  BY <1>1 DEF LookedUp
<1>3. PICK n \in Nat : n = q.resolved + 1
  BY <1>1
<1>4. q.resolved \in Nat
  BY <1>1
<1>5. more = [q EXCEPT !.resolved = n]
  BY <1>3
<1>6. /\ more \in Reqs /\ more.type = "lookup" /\ more.path = p /\ more.resolved = n
      /\ more.at = "storage" /\ more.status = "none" /\ more.object = q.object
  BY <1>1, <1>5 DEF Reqs
<1> HIDE DEF more
<1>7. /\ absent \in Reqs /\ absent.type = "lookup" /\ absent.path = p
      /\ absent.resolved = q.resolved /\ absent.at = "client" /\ absent.status = "NOTFOUND"
  BY <1>1 DEF Reqs, Places, Statuses
<1>8. /\ found \in Reqs /\ found.type = "lookup" /\ found.path = p
      /\ found.resolved = n /\ found.at = "client" /\ found.status = "FOUND"
  BY <1>6 DEF Reqs, Places, Statuses
<1>9. /\ partial \in Reqs /\ partial.type = "lookup" /\ partial.path = p
      /\ partial.resolved = n /\ partial.at = "client" /\ partial.status = "PARTIAL"
  BY <1>6 DEF Reqs, Places, Statuses
<1> HIDE DEF absent, found, partial
<1>10. n - 1 = q.resolved
  BY <1>3, <1>4
<1>11. CASE next \notin Known
  <2>1. LookedUp(q) = absent
    BY <1>2, <1>11
  <2>2. Reached(absent) \in Known
    BY <1>1, <1>7 DEF Reached, Known
  <2>3. LookupOK(absent, p)
    BY <1>1, <1>7, <1>11, <2>2 DEF LookupOK
  <2> QED BY <1>7, <2>1, <2>3
<1>12. CASE next \in Known /\ done
  <2>1. LookedUp(q) = found
    BY <1>2, <1>12
  <2>2. Reached(found) \in Known /\ n = Len(p) + 1
    BY <1>3, <1>8, <1>10, <1>12 DEF Reached
  <2>3. LookupOK(found, p)
    BY <1>1, <1>8, <2>2 DEF LookupOK
  <2> QED BY <1>8, <2>1, <2>3
<1>13. CASE next \in Known /\ ~done
  <2>1. n \in 1..Len(p) /\ q.resolved \in 0..Len(p) - 1
    BY <1>1, <1>3, <1>13
  <2>2. next \in Directories
    BY <1>13, <2>1 DEF Lookable, Known
  <2>3. CASE here
    <3>1. LookedUp(q) = more
      BY <1>2, <1>13, <2>3
    <3>2. Reached(more) = next
      BY <1>6, <1>10 DEF Reached
    <3>3. LookupOK(more, p)
      BY <1>6, <2>1, <2>2, <2>3, <3>2 DEF LookupOK, ServerOf
    <3>4. more.resolved # q.resolved
      BY <1>3, <1>4, <1>6
    <3> QED BY <3>1, <3>3, <3>4
  <2>4. CASE ~here
    <3>1. LookedUp(q) = partial
      BY <1>2, <1>13, <2>4
    <3>2. Reached(partial) \in Known
      BY <1>9, <1>10, <1>13 DEF Reached
    <3>3. LookupOK(partial, p)
      BY <1>9, <2>1, <3>2 DEF LookupOK
    <3> QED BY <1>9, <3>1, <3>3
  <2> QED BY <2>3, <2>4
<1> QED BY <1>11, <1>12, <1>13

LEMMA LookupStep ==
  ASSUME IInv, NEW r \in requests, Lookup(r)
  PROVE  IInv'
<1> DEFINE c == r.client
           m == MachineOf(op[c])
           q == LookedUp(r.req)
<1>1. /\ r.req.at = "storage" /\ r.req.type = "lookup" /\ Moved(r, q)
      /\ UNCHANGED <<op, names, attrs, objects, entries, raced, started>>
  BY DEF Lookup
<1>2. Typed /\ \A d \in Clients : ClientInv(d)
  BY DEF IInv
<1>3. m.type = "lookup" /\ LookupOK(r.req, m.path) /\ Lookable(m.path)
  BY <1>1, <1>2, RequestIs DEF MachineOK
<1>4. LookupOK(q, m.path) /\ q # r.req
  BY <1>1, <1>3, LookedUpIs
<1>5. q \in Reqs
  BY <1>4 DEF LookupOK
<1> HIDE DEF q
<1>6. Typed' /\ (\A d \in Clients : ClientInv(d))' /\ RacesNoted'
  <2>1. objects' \subseteq Objects /\ entries' \subseteq Known
    BY <1>1, <1>2 DEF Typed
  <2> QED BY <1>1, <1>3, <1>4, <1>5, <2>1, RequestMoved
<1>7. (\A d \in Clients : EffectsKept(d))' /\ EntriesNameWholeFiles'
  <2>1. ~Alone(c)
    BY <1>3 DEF Alone
  <2> QED BY <1>1, <1>3, <1>5, <2>1, EffectsUnchanged
<1> QED BY <1>6, <1>7 DEF IInv

-----------------------------------------------------------------------------
\* The storage answers.
LEMMA RoundInRange ==
  ASSUME NEW c \in Clients, ClientInv(c), ~Finished(op[c]), MachineOf(op[c]).type # "lookup"
  PROVE  /\ op[c].round \in 1..Len(Rounds(MachineOf(op[c]))) /\ MachineOK(MachineOf(op[c]))
         /\ Len(Rounds(MachineOf(op[c]))) \in 1..4
<1>1. Waits(op[c], Out(c)) /\ OpTyped(op[c])
  BY DEF ClientInv, ClientState, ClientOK, OpOK
<1>2. MachineOK(MachineOf(op[c]))
  BY <1>1, CurrentMachine
<1> QED BY <1>1, <1>2, RoundsAre DEF Waits

\* A request of a machine and what it does to the storage.
StoredFor(r, q, m) ==
  /\ q \in Reqs /\ q.at = "client" /\ AsSent(q) = AsSent(r.req) /\ Moved(r, q)
  /\ UNCHANGED <<op, raced>>
  /\ m = MachineOf(op[r.client]) /\ m.type # "lookup" /\ MachineOK(m)
  /\ r.client \in Clients /\ ~Finished(op[r.client]) /\ SentBy(m, op[r.client].round, r.req)
  /\ r.req \in Reqs
  /\ AsSent(r.req).type = r.req.type /\ AsSent(r.req).object = r.req.object
  /\ AsSent(r.req).path = r.req.path

LEMMA StoredIs ==
  ASSUME IInv, NEW r \in requests, NEW type \in RequestTypes \ {"lookup"}, Stored(r, type)
  PROVE  /\ \E q, m : StoredFor(r, q, m)
         /\ objects' \subseteq Objects /\ entries' \subseteq Known
            => Typed' /\ (\A c \in Clients : ClientInv(c))' /\ RacesNoted'
<1> DEFINE m == MachineOf(op[r.client])
           q == [r.req EXCEPT !.at = "client"]
<1>1. /\ r.req.at = "storage" /\ r.req.type = type /\ Moved(r, q)
      /\ UNCHANGED <<op, names, attrs, raced, started>>
  BY DEF Stored
<1>2. Typed /\ \A d \in Clients : ClientInv(d)
  BY DEF IInv
<1>3. r.req \in Reqs
  BY <1>2 DEF Typed
<1>4. q \in Reqs /\ q.at = "client" /\ AsSent(q) = AsSent(r.req) /\ q # r.req
  <2>1. q \in Reqs /\ q.at = "client"
    BY <1>3 DEF Reqs, Places
  <2>2. AsSent(q) = AsSent(r.req)
    BY <1>3, AsSentIs DEF Places
  <2> QED BY <1>1, <2>1, <2>2
<1> HIDE DEF q
<1>5. m.type # "lookup"
  <2>1. m.type = "lookup" => LookupOK(r.req, m.path)
    BY <1>2, RequestIs
  <2> QED BY <1>1, <2>1 DEF LookupOK
<1>6. /\ r.client \in Clients /\ ~Finished(op[r.client]) /\ MachineOK(m)
      /\ SentBy(m, op[r.client].round, r.req)
  BY <1>2, <1>5, RequestIs
<1>7. StoredFor(r, q, m)
  BY <1>1, <1>3, <1>4, <1>5, <1>6, AsSentIs DEF StoredFor
<1>8. ASSUME objects' \subseteq Objects, entries' \subseteq Known
      PROVE  Typed' /\ (\A c \in Clients : ClientInv(c))' /\ RacesNoted'
  BY <1>1, <1>4, <1>5, <1>8, RequestMoved
<1> QED BY <1>7, <1>8

LEMMA ReadsStep ==
  ASSUME IInv, NEW r \in requests, GetAttr(r) \/ SetAttr(r) \/ ReadDir(r)
  PROVE  IInv'
<1>1. PICK type \in {"getAttr", "setAttr", "readDir"} : Stored(r, type)
  BY DEF GetAttr, SetAttr, ReadDir
<1>2. UNCHANGED <<objects, entries>> /\ r.req.type = type
  BY <1>1 DEF GetAttr, SetAttr, ReadDir, Stored
<1>3. type \in RequestTypes \ {"lookup"}
  BY DEF RequestTypes
<1>4. objects' \subseteq Objects /\ entries' \subseteq Known
  BY <1>2 DEF IInv, Typed
<1>5. Typed' /\ (\A c \in Clients : ClientInv(c))' /\ RacesNoted'
  BY <1>1, <1>3, <1>4, StoredIs
<1>6. PICK q, m : StoredFor(r, q, m)
  BY <1>1, <1>3, StoredIs
<1>7. \A p : Effect(p, AsSent(r.req))
  BY <1>2, <1>6 DEF Effect, StoredFor
<1>8. (\A d \in Clients : EffectsKept(d))' /\ EntriesNameWholeFiles'
  BY <1>2, <1>6, <1>7, EffectsUnchanged DEF StoredFor
<1> QED BY <1>5, <1>8 DEF IInv

\* What makes and what removes a path do not meet, unless they race.
LEMMA NoOpposite ==
  ASSUME IInv, NEW r \in requests, NEW q, NEW m, StoredFor(r, q, m),
         NEW d \in Clients, Alone(d)
  PROVE  LET n == MachineOf(op[d])
         IN /\ m.type \in {"create", "createDir"} /\ n.type = "remove" => m.path # n.path
            /\ m.type = "remove" /\ n.type \in {"create", "createDir"} => m.path # n.path
<1>1. /\ m = MachineOf(op[r.client]) /\ r.client \in Clients /\ ~Finished(op[r.client])
      /\ ~Finished(op[d]) /\ MachineOf(op[d]).path \notin raced
  BY DEF StoredFor, Alone
<1>2. (\A c \in Clients : ClientInv(c)) /\ RacesNoted
  BY DEF IInv
<1>3. ASSUME m.type \in {"create", "createDir"}, MachineOf(op[d]).type = "remove",
             m.path = MachineOf(op[d]).path
      PROVE  FALSE
  BY <1>1, <1>2, <1>3, RaceIs
<1>4. ASSUME MachineOf(op[d]).type \in {"create", "createDir"}, m.type = "remove",
             m.path = MachineOf(op[d]).path
      PROVE  FALSE
  BY <1>1, <1>2, <1>4, RaceIs
<1> QED BY <1>3, <1>4

\* A request of one that is alone is of the machine that sends it.
LEMMA SentAlone ==
  ASSUME IInv, NEW d \in Clients, Alone(d), NEW j \in 1..op[d].round,
         NEW x \in Rounds(MachineOf(op[d]))[j]
  PROVE  SentBy(MachineOf(op[d]), j, x)
<1>1. ClientInv(d) /\ ~Finished(op[d]) /\ MachineOf(op[d]).type # "lookup"
  BY DEF IInv, Alone
<1>2. /\ op[d].round \in 1..Len(Rounds(MachineOf(op[d]))) /\ MachineOK(MachineOf(op[d]))
      /\ Len(Rounds(MachineOf(op[d]))) \in 1..4
  BY <1>1, RoundInRange
<1>3. j \in 1..Len(Rounds(MachineOf(op[d])))
  BY <1>2
<1> QED BY <1>1, <1>2, <1>3, WhatIsSent

LEMMA CreateObjectStep ==
  ASSUME IInv, NEW r \in requests, CreateObject(r)
  PROVE  IInv'
<1>1. /\ Stored(r, "create") /\ r.req.type = "create" /\ "create" \in RequestTypes \ {"lookup"}
      /\ objects' = objects \union {r.req.object} /\ entries' = entries
  BY DEF CreateObject, Stored, RequestTypes
<1>2. PICK q, m : StoredFor(r, q, m)
  BY <1>1, StoredIs
<1>3. Typed' /\ (\A c \in Clients : ClientInv(c))' /\ RacesNoted'
  <2>1. r.req.object \in Objects
    BY <1>2 DEF StoredFor, Reqs
  <2>2. objects' \subseteq Objects /\ entries' \subseteq Known
    BY <1>1, <2>1 DEF IInv, Typed
  <2> QED BY <1>1, <2>2, StoredIs
<1>4. m.type \in {"create", "createDir"} /\ (r.req.object = FirstHandle \/ r.req.object.path = m.path)
  BY <1>1, <1>2 DEF StoredFor, SentBy
<1>5. ASSUME NEW d \in Clients, NEW p, NEW x, NEW j \in 1..op[d].round, Alone(d),
             p = MachineOf(op[d]).path, x \in Rounds(MachineOf(op[d]))[j], Effect(p, x)
      PROVE  Effect(p, x)'
  <2>1. SentBy(MachineOf(op[d]), j, x)
    BY <1>5, SentAlone
  <2>2. ASSUME x.type = "remove", x.object # FirstHandle PROVE x.object # r.req.object
    <3>1. MachineOf(op[d]).type = "remove" /\ x.object.path = p
      BY <1>5, <2>1, <2>2 DEF SentBy
    <3>2. m.path # p
      BY <1>2, <1>4, <1>5, <3>1, NoOpposite
    <3> QED BY <1>4, <2>2, <3>1, <3>2
  <2> QED BY <1>1, <1>5, <2>2 DEF Effect
<1>6. \A p : Effect(p, AsSent(r.req))'
  BY <1>1, <1>2 DEF Effect, StoredFor
<1>7. (\A d \in Clients : EffectsKept(d))'
  BY <1>2, <1>5, <1>6, EffectsStay DEF StoredFor
<1>8. EntriesNameWholeFiles'
  BY <1>1, <1>2 DEF EntriesNameWholeFiles, IInv, StoredFor
<1> QED BY <1>3, <1>7, <1>8 DEF IInv

\* By the time objects are removed the entry is gone.
LEMMA RemoveObjectStep ==
  ASSUME IInv, NEW r \in requests, RemoveObject(r)
  PROVE  IInv'
<1>1. /\ Stored(r, "remove") /\ r.req.type = "remove" /\ "remove" \in RequestTypes \ {"lookup"}
      /\ objects' = objects \ {r.req.object} /\ entries' = entries
  BY DEF RemoveObject, Stored, RequestTypes
<1>2. PICK q, m : StoredFor(r, q, m)
  BY <1>1, StoredIs
<1>3. Typed' /\ (\A c \in Clients : ClientInv(c))' /\ RacesNoted'
  <2>1. objects' \subseteq Objects /\ entries' \subseteq Known
    BY <1>1 DEF IInv, Typed
  <2> QED BY <1>1, <2>1, StoredIs
<1>4. m.type = "remove" /\ r.req.object.path = m.path /\ op[r.client].round >= 2
  BY <1>1, <1>2 DEF StoredFor, SentBy
<1>5. ASSUME NEW d \in Clients, NEW p, NEW x, NEW j \in 1..op[d].round, Alone(d),
             p = MachineOf(op[d]).path, x \in Rounds(MachineOf(op[d]))[j], Effect(p, x)
      PROVE  Effect(p, x)'
  <2>1. SentBy(MachineOf(op[d]), j, x)
    BY <1>5, SentAlone
  <2>2. ASSUME x.type = "create", x.object.path = p PROVE x.object # r.req.object
    <3>1. MachineOf(op[d]).type \in {"create", "createDir"}
      BY <2>1, <2>2 DEF SentBy
    <3>2. m.path # p
      BY <1>2, <1>4, <1>5, <3>1, NoOpposite
    <3> QED BY <1>4, <2>2, <3>2
  <2> QED BY <1>1, <1>5, <2>2 DEF Effect
<1>6. \A p : Effect(p, AsSent(r.req))'
  BY <1>1, <1>2 DEF Effect, StoredFor
<1>7. (\A d \in Clients : EffectsKept(d))'
  BY <1>2, <1>5, <1>6, EffectsStay DEF StoredFor
<1>8. EntriesNameWholeFiles'
  <2> SUFFICES ASSUME NEW p \in entries, p \notin raced PROVE ObjectsOf(p) \subseteq objects'
    BY <1>1, <1>2 DEF EntriesNameWholeFiles, StoredFor
  <2>1. ObjectsOf(p) \subseteq objects /\ p \in Known
    BY DEF EntriesNameWholeFiles, IInv, Typed
  <2>2. r.req.object \notin ObjectsOf(p)
    <3> SUFFICES ASSUME r.req.object \in ObjectsOf(p) PROVE FALSE
      OBVIOUS
    <3> DEFINE c == r.client
               e == Entry("removeDirEnt", p)
    <3>1. r.req.object.path = p
      BY <2>1, ObjectsAre DEF ObjectsOf
    <3>2. m.path = p
      BY <1>4, <3>1
    <3>3. c \in Clients /\ m = MachineOf(op[c]) /\ MachineOK(m) /\ Alone(c)
      BY <1>2, <1>4, <3>2 DEF StoredFor, Alone
    <3>4. e \in Rounds(m)[1]
      BY <1>4, <3>2, <3>3, RemovalSends
    <3>5. Effect(p, e)
      <4>1. op[c].round \in Nat
        BY <1>2, <3>3, RoundInRange DEF IInv, StoredFor
      <4>2. 1 \in 1..op[c].round /\ 1 < op[c].round
        BY <1>4, <4>1
      <4>3. EffectsKept(c)
        BY <3>3 DEF IInv
      <4> HIDE DEF e
      <4> QED BY <3>2, <3>3, <3>4, <4>2, <4>3 DEF EffectsKept
    <3>6. e.type = "removeDirEnt" /\ e.path = p
      <4>1. p \in Known \ {<<>>}
        BY <1>4, <2>1, <3>2, <3>3 DEF MachineOK
      <4> QED BY <4>1, RequestEntry
    <3> QED BY <3>5, <3>6 DEF Effect
  <2> QED BY <1>1, <2>1, <2>2
<1> QED BY <1>3, <1>7, <1>8 DEF IInv

\* By the time the entry is made the objects are there.
LEMMA CreateDirEntStep ==
  ASSUME IInv, NEW r \in requests, CreateDirEnt(r)
  PROVE  IInv'
<1>1. /\ Stored(r, "createDirEnt") /\ r.req.type = "createDirEnt"
      /\ "createDirEnt" \in RequestTypes \ {"lookup"}
      /\ entries' = entries \union {r.req.path} /\ objects' = objects
  BY DEF CreateDirEnt, Stored, RequestTypes
<1>2. PICK q, m : StoredFor(r, q, m)
  BY <1>1, StoredIs
<1> DEFINE c == r.client
           p == m.path
<1>3. m.type \in {"create", "createDir"} /\ r.req.path = p /\ op[c].round = 4
  BY <1>1, <1>2 DEF StoredFor, SentBy
<1>4. c \in Clients /\ m = MachineOf(op[c]) /\ MachineOK(m) /\ ~Finished(op[c]) /\ p \in Known
  BY <1>2 DEF StoredFor, MachineOK
<1>5. Typed' /\ (\A d \in Clients : ClientInv(d))' /\ RacesNoted'
  <2>1. objects' \subseteq Objects /\ entries' \subseteq Known
    BY <1>1, <1>3, <1>4 DEF IInv, Typed
  <2> QED BY <1>1, <2>1, StoredIs
<1>6. ASSUME NEW d \in Clients, NEW n, NEW x, NEW j \in 1..op[d].round, Alone(d),
             n = MachineOf(op[d]).path, x \in Rounds(MachineOf(op[d]))[j], Effect(n, x)
      PROVE  Effect(n, x)'
  <2>1. SentBy(MachineOf(op[d]), j, x)
    BY <1>6, SentAlone
  <2>2. ASSUME x.type = "removeDirEnt" PROVE x.path # r.req.path
    <3>1. MachineOf(op[d]).type = "remove" /\ x.path = n
      BY <1>6, <2>1, <2>2 DEF SentBy
    <3>2. p # n
      BY <1>2, <1>3, <1>6, <3>1, NoOpposite
    <3> QED BY <1>3, <3>1, <3>2
  <2> QED BY <1>1, <1>6, <2>2 DEF Effect
<1>7. \A n : Effect(n, AsSent(r.req))'
  BY <1>1, <1>2 DEF Effect, StoredFor
<1>8. (\A d \in Clients : EffectsKept(d))'
  BY <1>2, <1>6, <1>7, EffectsStay DEF StoredFor
<1>9. ASSUME p \notin raced, NEW o \in ObjectsOf(p) PROVE o \in objects
  <2> DEFINE x == To("create", o)
  <2>1. PICK j \in 1..3 : x \in Rounds(m)[j]
    BY <1>3, <1>4, <1>9, CreationSends
  <2>2. Alone(c) /\ EffectsKept(c)
    BY <1>3, <1>4, <1>9 DEF Alone, IInv
  <2>3. Effect(p, x)
    <3>1. j \in 1..op[c].round /\ j < op[c].round
      BY <1>3
    <3> HIDE DEF x
    <3> QED BY <1>4, <2>1, <2>2, <3>1 DEF EffectsKept
  <2>4. o \in Objects /\ o.path = p /\ "create" \in RequestTypes \ {"lookup"}
    BY <1>4, ObjectsAre DEF ObjectsOf, RequestTypes
  <2>5. x.type = "create" /\ x.object = o
    BY <2>4, RequestTo
  <2> QED BY <2>3, <2>4, <2>5 DEF Effect
<1>10. EntriesNameWholeFiles'
  <2> SUFFICES ASSUME NEW n \in entries', n \notin raced PROVE ObjectsOf(n) \subseteq objects
    BY <1>1, <1>2 DEF EntriesNameWholeFiles, StoredFor
  <2>1. CASE n = p
    BY <1>9, <2>1
  <2>2. CASE n # p
    BY <1>1, <1>3, <2>2 DEF EntriesNameWholeFiles, IInv
  <2> QED BY <2>1, <2>2
<1> QED BY <1>5, <1>8, <1>10 DEF IInv

LEMMA RemoveDirEntStep ==
  ASSUME IInv, NEW r \in requests, RemoveDirEnt(r)
  PROVE  IInv'
<1>1. /\ Stored(r, "removeDirEnt") /\ r.req.type = "removeDirEnt"
      /\ "removeDirEnt" \in RequestTypes \ {"lookup"}
      /\ entries' = entries \ {r.req.path} /\ objects' = objects
  BY DEF RemoveDirEnt, Stored, RequestTypes
<1>2. PICK q, m : StoredFor(r, q, m)
  BY <1>1, StoredIs
<1>3. m.type = "remove" /\ r.req.path = m.path
  BY <1>1, <1>2 DEF StoredFor, SentBy
<1>4. Typed' /\ (\A d \in Clients : ClientInv(d))' /\ RacesNoted'
  <2>1. objects' \subseteq Objects /\ entries' \subseteq Known
    BY <1>1 DEF IInv, Typed
  <2> QED BY <1>1, <2>1, StoredIs
<1>5. ASSUME NEW d \in Clients, NEW n, NEW x, NEW j \in 1..op[d].round, Alone(d),
             n = MachineOf(op[d]).path, x \in Rounds(MachineOf(op[d]))[j], Effect(n, x)
      PROVE  Effect(n, x)'
  <2>1. SentBy(MachineOf(op[d]), j, x)
    BY <1>5, SentAlone
  <2>2. ASSUME x.type = "createDirEnt" PROVE x.path # r.req.path
    <3>1. MachineOf(op[d]).type \in {"create", "createDir"} /\ x.path = n
      BY <1>5, <2>1, <2>2 DEF SentBy
    <3>2. m.path # n
      BY <1>2, <1>3, <1>5, <3>1, NoOpposite
    <3> QED BY <1>3, <3>1, <3>2
  <2> QED BY <1>1, <1>5, <2>2 DEF Effect
<1>6. \A n : Effect(n, AsSent(r.req))'
  BY <1>1, <1>2 DEF Effect, StoredFor
<1>7. (\A d \in Clients : EffectsKept(d))'
  BY <1>2, <1>5, <1>6, EffectsStay DEF StoredFor
<1>8. EntriesNameWholeFiles'
  BY <1>1, <1>2 DEF EntriesNameWholeFiles, IInv, StoredFor
<1> QED BY <1>4, <1>7, <1>8 DEF IInv

-----------------------------------------------------------------------------
\* A client that has handled a message and waits for a new round, or is done.
LEMMA SentArePending ==
  ASSUME NEW c, NEW u, Waiting(u), MachineOf(u.op).type # "lookup",
         Out(c)' = SentFor(c, u.sends), NEW q \in Rounds(MachineOf(u.op))[u.op.round]
  PROVE  Pending(c, q)'
<1>1. /\ u.op.round \in 1..Len(Rounds(MachineOf(u.op)))
      /\ u.sends = Rounds(MachineOf(u.op))[u.op.round] /\ OpTyped(u.op) /\ ~Finished(u.op)
  BY DEF Waiting, ClientOK, OpOK
<1>2. RoundOK(u.sends)
  BY <1>1, CurrentMachine, RoundsAre
<1>3. q \in Reqs /\ q.at = "server" /\ q \in u.sends
  BY <1>1, <1>2 DEF RoundOK
<1>4. PICK r : r = [client |-> c, req |-> q]
  OBVIOUS
<1>5. r \in Out(c)' /\ r.req = q
  BY <1>3, <1>4 DEF SentFor
<1>6. AsSent(r.req) = q /\ r.req.at # "client"
  BY <1>3, <1>5, AsSentIs
<1> QED BY <1>5, <1>6 DEF Pending

\* The effects of the rounds before the one that u waits for.
EarlierEffects(u) ==
  LET m == MachineOf(u.op)
  IN ~Finished(u.op) /\ m.type \in {"create", "createDir", "remove"} /\ m.path \notin raced
     => \A j \in 1..u.op.round - 1 : \A q \in Rounds(m)[j] : Effect(m.path, q)

LEMMA ClientHandled ==
  ASSUME IInv, NEW c \in Clients, NEW t, NEW u, Advanced(t, u), Handled(c, u, Out(c)),
         EarlierEffects(u), UNCHANGED <<objects, entries>>,
         raced \subseteq raced', raced' \subseteq Known, started' \in 0..MaxOperations
  PROVE  /\ Typed' /\ (\A d \in Clients : ClientInv(d))'
         /\ (\A d \in Clients : EffectsKept(d))' /\ EntriesNameWholeFiles'
         /\ op'[c] = u.op /\ \A d \in Clients \ {c} : op'[d] = op[d]
<1>1. /\ Typed /\ \A d \in Clients : ClientInv(d) /\ EffectsKept(d)
      /\ EntriesNameWholeFiles
  BY DEF IInv
<1>2. u \in Handlers /\ ClientState(u.op, u.names, u.attrs, SentFor(c, u.sends))
  BY StateAdvanced
<1>3. /\ DOMAIN op' = Clients /\ DOMAIN names' = Clients /\ DOMAIN attrs' = Clients
      /\ op'[c] = u.op /\ names'[c] = u.names /\ attrs'[c] = u.attrs
      /\ \A d \in Clients \ {c} : /\ op'[d] = op[d] /\ names'[d] = names[d]
                                  /\ attrs'[d] = attrs[d] /\ Out(d)' = Out(d)
      /\ Out(c)' = (Out(c) \ Out(c)) \union SentFor(c, u.sends)
      /\ \A r \in requests' : r.client \in Clients /\ r.req \in Reqs
                              /\ r = [client |-> r.client, req |-> r.req]
  BY <1>1, <1>2, HandledIs
<1>4. Out(c)' = SentFor(c, u.sends)
  BY <1>3
<1>5. Typed'
  BY <1>1, <1>3 DEF Typed
<1>6. ASSUME NEW d \in Clients PROVE ClientInv(d)'
  <2>1. CASE d = c
    BY <1>2, <1>3, <1>4, <2>1 DEF ClientInv
  <2>2. CASE d # c
    BY <1>1, <1>3, <2>2 DEF ClientInv
  <2> QED BY <2>1, <2>2
<1>7. \A p, x : Effect(p, x)' <=> Effect(p, x)
  BY DEF Effect
<1>8. ASSUME NEW d \in Clients PROVE EffectsKept(d)'
  <2>1. CASE d # c
    <3>1. op'[d] = op[d] /\ Out(d)' = Out(d) /\ EffectsKept(d)
      BY <1>1, <1>3, <2>1
    <3>2. Alone(d)' => Alone(d)
      BY <3>1 DEF Alone, MachineOf
    <3>3. MachineOf(op[d])' = MachineOf(op[d]) /\ \A x : Pending(d, x)' <=> Pending(d, x)
      BY <3>1 DEF MachineOf, Pending
    <3> QED BY <1>7, <3>1, <3>2, <3>3 DEF EffectsKept
  <2>2. CASE d = c
    <3>1. PICK m : m = MachineOf(u.op)
      OBVIOUS
    <3>2. MachineOf(op[d])' = m /\ op'[d] = u.op
      BY <1>3, <2>2, <3>1 DEF MachineOf
    <3> SUFFICES ASSUME Alone(d)', NEW j \in 1..u.op.round, NEW x \in Rounds(m)[j],
                        j < u.op.round \/ ~Pending(d, x)'
                 PROVE  Effect(m.path, x)'
      BY <3>2 DEF EffectsKept
    <3>3. /\ ~Finished(u.op) /\ m.type \in {"create", "createDir", "remove"}
          /\ m.path \notin raced
      BY <3>2 DEF Alone, Finished
    <3>4. Waiting(u)
      BY <3>3 DEF Advanced
    <3>5. CASE j < u.op.round
      <4>1. j \in 1..u.op.round - 1
        BY <1>2, <3>5 DEF Handlers, Ops
      <4> QED BY <1>7, <3>1, <3>3, <4>1 DEF EarlierEffects
    <3>6. CASE ~(j < u.op.round)
      <4>1. j = u.op.round
        BY <1>2, <3>6 DEF Handlers, Ops
      <4>2. Pending(d, x)'
        BY <1>4, <2>2, <3>1, <3>3, <3>4, <4>1, SentArePending
      <4> QED BY <3>6, <4>2
    <3> QED BY <3>5, <3>6
  <2> QED BY <2>1, <2>2
<1>9. EntriesNameWholeFiles'
  BY <1>1 DEF EntriesNameWholeFiles
<1> QED BY <1>3, <1>5, <1>6, <1>8, <1>9

-----------------------------------------------------------------------------
\* An operation starts.
LEMMA Started ==
  ASSUME NEW c \in Clients, ClientInv(c), NEW kind \in Kinds, NEW p \in PathsOf(kind)
  PROVE  LET o == [kind |-> kind, path |-> p, sm |-> 0, round |-> 0, remaining |-> 0,
                   resolved |-> 1]
         IN Ready([Client(c) EXCEPT !.op = o]) /\ (kind \in Creates \union Removes => ~Finished(o))
<1> DEFINE o == [kind |-> kind, path |-> p, sm |-> 0, round |-> 0, remaining |-> 0,
                 resolved |-> 1]
           t == [Client(c) EXCEPT !.op = o]
<1>1. CacheOK(names[c], MaxNames) /\ CacheOK(attrs[c], MaxAttrs)
  BY DEF ClientInv, ClientState, ClientOK
<1>2. p \in Paths /\ Len(p) \in Nat
  BY OperandIs
<1>3. o \in Ops
  BY <1>2 DEF Ops
<1>4. o.kind = kind /\ o.path = p /\ o.sm = 0 /\ o.round = 0 /\ o.resolved = 1
  OBVIOUS
<1> HIDE DEF o
<1>5. /\ t.op = o /\ t.names = names[c] /\ t.attrs = attrs[c] /\ t.sends = {}
      /\ t = [op |-> o, names |-> names[c], attrs |-> attrs[c], sends |-> {}]
  BY DEF Client
<1>6. t \in Handlers
  BY <1>1, <1>3, <1>5 DEF Handlers, CacheOK
<1>7. Len(Machines(kind, p)) \in 0..4
  BY MachinesLength
<1>8. OpTyped(o)
  BY <1>2, <1>3, <1>4, <1>7 DEF OpTyped
<1>9. kind # "close" => Len(Machines(kind, p)) # 0
  BY DEF Kinds, Machines, OpenMachines, CreateMachines, CreateDirMachines, DeleteMachines,
         StatMachines, UpdateTimeMachines, ReadDirMachines, OnParent, Removes
<1>10. kind # "close" => ~Finished(o)
  BY <1>4, <1>9 DEF Finished
<1>11. OpFound(o)
  BY <1>4, <1>10 DEF OpFound
<1>12. kind \in Creates \union Removes => kind # "close"
  BY DEF Creates, Removes
<1>13. ClientOK(o, names[c], attrs[c])
  BY <1>1, <1>4, <1>8, <1>10, <1>11, <1>12 DEF ClientOK, OpOK
<1>14. Ready(t)
  BY <1>4, <1>5, <1>6, <1>13 DEF Ready
<1>15. t = [Client(c) EXCEPT !.op = o]
  OBVIOUS
<1> HIDE DEF t
<1>16. Ready([Client(c) EXCEPT !.op = o]) /\ (kind \in Creates \union Removes => ~Finished(o))
  BY <1>10, <1>12, <1>14, <1>15
<1> QED BY <1>16 DEF o

LEMMA ChangedPathsKnown ==
  ASSUME NEW kind \in Creates \union Removes, NEW p \in PathsOf(kind)
  PROVE  p \in Known
BY DEF PathsOf, Creates, Removes, Known

LEMMA StartStep ==
  ASSUME IInv, NEW c \in Clients, NEW kind \in Kinds, NEW p \in PathsOf(kind), Start(c, kind, p)
  PROVE  IInv'
<1> DEFINE o == [kind |-> kind, path |-> p, sm |-> 0, round |-> 0, remaining |-> 0,
                 resolved |-> 1]
<1>1. /\ Typed /\ (\A d \in Clients : ClientInv(d)) /\ RacesNoted
  BY DEF IInv
<1>2. PICK t : t = [Client(c) EXCEPT !.op = o]
  OBVIOUS
<1>3. Ready(t)
  BY <1>1, <1>2, Started
<1>4. t.op.kind = kind /\ t.op.path = p
  BY <1>2 DEF Client
<1>5. PICK u : Advance(t) = {u} /\ Advanced(t, u)
  BY <1>3, AdvanceIs
<1>6. Handled(c, u, {}) /\ UNCHANGED <<objects, entries>> /\ Idle(c)
      /\ started < MaxOperations /\ started' = started + 1
      /\ raced' = IF Overlaps(c, kind, p) THEN raced \union {p} ELSE raced
  BY <1>2, <1>5 DEF Start
<1>7. Out(c) = {}
  BY <1>1, <1>6, IdleIs DEF ClientInv, ClientState
<1>8. u.op.kind = kind /\ u.op.path = p
  BY <1>4, <1>5 DEF Advanced, Same
<1>9. EarlierEffects(u)
  <2>1. ~Finished(u.op) => u.op.round = 1
    <3>1. ~Waiting(t)
      BY <1>3, WaitingHasSent DEF Ready
    <3> QED BY <1>5, <3>1 DEF Advanced
  <2>2. 1..1 - 1 = {}
    OBVIOUS
  <2> QED BY <2>1, <2>2 DEF EarlierEffects
<1>10. ASSUME NEW d \in Clients PROVE OpTyped(op[d])
  BY <1>1, <1>10 DEF ClientInv, ClientState, ClientOK, OpOK
<1>11. raced \subseteq raced' /\ raced' \subseteq Known
  <2>1. ASSUME Overlaps(c, kind, p) PROVE p \in Known
    <3>1. PICK d \in Clients \ {c} : /\ ~Idle(d) /\ op[d].path = p
                                     /\ {kind, op[d].kind} \intersect Creates # {}
      BY <2>1 DEF Overlaps
    <3>2. CASE kind \in Creates
      BY <3>2, ChangedPathsKnown
    <3>3. CASE op[d].kind \in Creates
      <4>1. op[d].path \in PathsOf(op[d].kind)
        BY <1>10, <3>3 DEF OpTyped, Creates
      <4> QED BY <3>1, <3>3, <4>1, ChangedPathsKnown
    <3> QED BY <3>1, <3>2, <3>3
  <2> QED BY <1>1, <1>6, <2>1 DEF Typed
<1>12. started' \in 0..MaxOperations
  BY <1>1, <1>6, NameOperationsAssumption DEF Typed
<1>13. /\ Typed' /\ (\A d \in Clients : ClientInv(d))'
       /\ (\A d \in Clients : EffectsKept(d))' /\ EntriesNameWholeFiles'
       /\ op'[c] = u.op /\ \A d \in Clients \ {c} : op'[d] = op[d]
  BY <1>5, <1>6, <1>7, <1>9, <1>11, <1>12, ClientHandled
<1>14. RacesNoted'
  <2> SUFFICES ASSUME NEW a \in Clients, NEW b \in Clients,
                      ~Finished(op'[a]), ~Finished(op'[b]), op'[a].path = op'[b].path,
                      op'[a].kind \in Creates, op'[b].kind \in Removes
               PROVE  op'[a].path \in raced'
    BY DEF RacesNoted, Finished
  <2>1. CASE a # c /\ b # c
    <3>1. op'[a] = op[a] /\ op'[b] = op[b]
      BY <1>13, <2>1
    <3> QED BY <1>1, <1>11, <3>1 DEF RacesNoted
  <2>2. CASE a = c /\ b # c
    <3>1. op'[b] = op[b] /\ op'[a] = u.op
      BY <1>13, <2>2
    <3>2. ~Idle(b) /\ op[b].path = p /\ kind \in Creates /\ op[b].kind \in Removes
      BY <1>8, <3>1, IdleIs
    <3>3. Overlaps(c, kind, p)
      BY <2>2, <3>2 DEF Overlaps
    <3> QED BY <1>6, <1>8, <3>1, <3>3
  <2>3. CASE a # c /\ b = c
    <3>1. op'[a] = op[a] /\ op'[b] = u.op
      BY <1>13, <2>3
    <3>2. ~Idle(a) /\ op[a].path = p /\ kind \in Removes /\ op[a].kind \in Creates
      BY <1>8, <3>1, IdleIs
    <3>3. Overlaps(c, kind, p)
      BY <2>3, <3>2 DEF Overlaps
    <3> QED BY <1>6, <3>1, <3>2, <3>3
  <2>4. CASE a = c /\ b = c
    BY <2>4 DEF Creates, Removes
  <2> QED BY <2>1, <2>2, <2>3, <2>4
<1> QED BY <1>13, <1>14 DEF IInv

-----------------------------------------------------------------------------
\* A client gets an answer.
LEMMA WaitingStays == \A t : Waiting(t) => Advance(t) = {t} /\ Advanced(t, t)
<1> SUFFICES ASSUME NEW t, Waiting(t) PROVE Advance(t) = {t} /\ Advanced(t, t)
  OBVIOUS
<1>1. Step(t) = t
  BY StepIs
<1> QED BY <1>1, StepsOfOne DEF Advance, Advanced, Same

\* The races do not change with the progress of an operation.
LEMMA RacesStay ==
  ASSUME RacesNoted, NEW c \in Clients, ~Finished(op[c]), raced' = raced,
         op'[c].kind = op[c].kind, op'[c].path = op[c].path,
         \A d \in Clients \ {c} : op'[d] = op[d]
  PROVE  RacesNoted'
<1> SUFFICES ASSUME NEW a \in Clients, NEW b \in Clients,
                    ~Finished(op'[a]), ~Finished(op'[b]), op'[a].path = op'[b].path,
                    op'[a].kind \in Creates, op'[b].kind \in Removes
             PROVE  op'[a].path \in raced
  BY DEF RacesNoted, Finished
<1>1. ~Finished(op[a]) /\ op'[a].path = op[a].path /\ op'[a].kind = op[a].kind
  BY DEF Finished
<1>2. ~Finished(op[b]) /\ op'[b].path = op[b].path /\ op'[b].kind = op[b].kind
  BY DEF Finished
<1> QED BY <1>1, <1>2 DEF RacesNoted

\* The machine of client c is its last, and has had all its effects.
Carried(c) ==
  LET m == MachineOf(op[c])
  IN /\ op[c].sm + 1 = Len(Machines(op[c].kind, op[c].path)) /\ m.type # "lookup"
     /\ Alone(c) => \A j \in 1..Len(Rounds(m)) : \A q \in Rounds(m)[j] : Effect(m.path, q)

\* What an answer makes of its client.
Answered(c) ==
  /\ IInv' /\ ~Finished(op[c]) /\ op'[c].kind = op[c].kind /\ op'[c].path = op[c].path
  /\ \A d \in Clients \ {c} : op'[d] = op[d]
  /\ UNCHANGED <<objects, entries, raced>>
  /\ op[c].kind \in Creates \union Removes /\ Finished(op'[c]) => Carried(c)

\* Out of all that it sent nothing is left.
LEMMA AllAnswered ==
  ASSUME IInv, NEW c \in Clients, NEW r, Out(c) = {r}, r.req.at = "client", Alone(c),
         NEW j \in 1..op[c].round, NEW q \in Rounds(MachineOf(op[c]))[j]
  PROVE  Effect(MachineOf(op[c]).path, q)
<1>1. ~Pending(c, q)
  BY DEF Pending
<1> QED BY <1>1 DEF IInv, EffectsKept

\* The whole round is answered: v is what the message leaves.
LEMMA AnswerAdvances ==
  ASSUME IInv, NEW c \in Clients, ~Finished(op[c]), NEW r, Out(c) = {r}, NEW v,
         Ready(v) \/ Waiting(v), Same(Client(c), v),
         \E t \in Advance(v) : Handled(c, t, {r}),
         Waiting(v) => EarlierEffects(v),
         UNCHANGED <<objects, entries, raced, started>>,
         op[c].kind \in Creates \union Removes /\ Finished(v.op) => Carried(c)
  PROVE  Answered(c)
<1>1. PICK u : Advance(v) = {u} /\ Advanced(v, u) /\ (Waiting(v) => u = v)
  <2>1. CASE Waiting(v)
    BY <2>1, WaitingStays
  <2>2. CASE ~Waiting(v)
    BY <2>2, AdvanceIs
  <2> QED BY <2>1, <2>2
<1>2. Handled(c, u, Out(c))
  BY <1>1
<1>3. EarlierEffects(u)
  <2>1. CASE Waiting(v)
    BY <1>1, <2>1
  <2>2. CASE ~Waiting(v)
    <3>1. ~Finished(u.op) => u.op.round = 1
      BY <1>1, <2>2 DEF Advanced
    <3>2. 1..1 - 1 = {}
      OBVIOUS
    <3> QED BY <3>1, <3>2 DEF EarlierEffects
  <2> QED BY <2>1, <2>2
<1>4. raced \subseteq raced' /\ raced' \subseteq Known /\ started' \in 0..MaxOperations
  BY DEF IInv, Typed
<1>5. /\ Typed' /\ (\A d \in Clients : ClientInv(d))'
      /\ (\A d \in Clients : EffectsKept(d))' /\ EntriesNameWholeFiles'
      /\ op'[c] = u.op /\ \A d \in Clients \ {c} : op'[d] = op[d]
  BY <1>1, <1>2, <1>3, <1>4, ClientHandled
<1>6. /\ op'[c].kind = op[c].kind /\ op'[c].path = op[c].path
      /\ v.op.kind = op[c].kind
  BY <1>1, <1>5 DEF Advanced, Same, Client
<1>7. RacesNoted'
  BY <1>5, <1>6, RacesStay DEF IInv
<1>8. op[c].kind \in Creates \union Removes /\ Finished(op'[c]) => Carried(c)
  BY <1>1, <1>5, <1>6 DEF Advanced
<1>9. IInv'
  BY <1>5, <1>7 DEF IInv
<1> QED BY <1>5, <1>6, <1>8, <1>9 DEF Answered

\* A round of which this is not the last answer.
LEMMA OneOfRound ==
  ASSUME NEW o \in Ops, NEW n, NEW a, NEW out, ClientState(o, n, a, out), NEW r \in out,
         MachineOf(o).type # "lookup", o.remaining # 1
  PROVE  LET x == [o EXCEPT !.remaining = @ - 1]
         IN /\ ClientState(x, n, a, out \ {r}) /\ x.kind = o.kind /\ x.path = o.path
            /\ x.sm = o.sm /\ x.round = o.round /\ x \in Ops
<1>1. /\ ~Finished(o) /\ Waits(o, out) /\ ClientOK(o, n, a) /\ o.round \in Nat \ {0}
  BY DEF ClientState
<1>2. PICK m : m = MachineOf(o)
  OBVIOUS
<1>3. /\ o.round \in 1..Len(Rounds(m)) /\ IsFiniteSet(out) /\ o.remaining = Cardinality(out)
      /\ \A s \in out : s.req \in Reqs /\ AsSent(s.req) \in Rounds(m)[o.round]
      /\ \A s, y \in out : AsSent(s.req) = AsSent(y.req) => s = y
  BY <1>1, <1>2 DEF Waits
<1>4. PICK left : left = out \ {r}
  OBVIOUS
<1>5. IsFiniteSet(left) /\ Cardinality(left) = Cardinality(out) - 1 /\ Cardinality(left) \in Nat
  BY <1>3, <1>4, FS_RemoveElement, FS_CardinalityType
<1>6. PICK k \in Nat : k = o.remaining - 1 /\ k # 0 /\ k = Cardinality(left)
  BY <1>3, <1>5 DEF Ops
<1>7. left # {}
  BY <1>6, FS_EmptySet
<1>8. PICK x : x = [o EXCEPT !.remaining = k]
  OBVIOUS
<1>9. /\ x \in Ops /\ x.kind = o.kind /\ x.path = o.path /\ x.sm = o.sm /\ x.round = o.round
      /\ x.resolved = o.resolved /\ x.remaining = k
  BY <1>8 DEF Ops
<1>10. ~Finished(x) /\ MachineOf(x) = m
  BY <1>1, <1>2, <1>9 DEF Finished, MachineOf
<1>11. ClientOK(x, n, a)
  BY <1>1, <1>9, <1>10 DEF ClientOK, OpOK, OpTyped, OpFound, Finished
<1>12. Waits(x, left)
  BY <1>2, <1>3, <1>4, <1>5, <1>6, <1>7, <1>9, <1>10 DEF Waits
<1>13. ClientState(x, n, a, left)
  BY <1>1, <1>9, <1>10, <1>11, <1>12 DEF ClientState
<1>14. [o EXCEPT !.remaining = @ - 1] = x
  BY <1>6, <1>8 DEF Ops
<1> QED BY <1>4, <1>9, <1>13, <1>14

\* The client as it gets the answer.
LEMMA ClientIs ==
  ASSUME NEW c \in Clients, ClientInv(c)
  PROVE  /\ Client(c) \in Handlers /\ Client(c).op = op[c] /\ Client(c).sends = {}
         /\ Client(c).names = names[c] /\ Client(c).attrs = attrs[c]
         /\ ClientOK(op[c], names[c], attrs[c])
BY DEF Client, Handlers, ClientInv, ClientState, ClientOK, OpOK, OpTyped, CacheOK

LEMMA LookupResponse ==
  ASSUME IInv, NEW c \in Clients, NEW r \in requests, r.client = c, r.req.at = "client",
         r.req.type = "lookup",
         \E t \in Advance(LookupAnswered(Client(c), r.req)) : Handled(c, t, {r}),
         UNCHANGED <<objects, entries, raced, started>>
  PROVE  Answered(c)
<1> DEFINE m == MachineOf(op[c])
<1>1. Typed /\ \A d \in Clients : ClientInv(d)
  BY DEF IInv
<1>2. ~Finished(op[c]) /\ m.type = "lookup" /\ LookupOK(r.req, m.path) /\ Out(c) = {r}
  BY <1>1, RequestIs
<1>3. PICK v : v = LookupAnswered(Client(c), r.req)
  OBVIOUS
<1>4. Moves(Client(c), v)
  BY <1>1, <1>2, <1>3, ClientIs, LookupIsAnswered
<1>5. (Ready(v) \/ Waiting(v)) /\ Same(Client(c), v) /\ (Waiting(v) => v.op.round = 1)
  BY <1>4, WaitingHasSent DEF Moves, Ready
<1>6. Waiting(v) => EarlierEffects(v)
  <2>1. 1..1 - 1 = {}
    OBVIOUS
  <2> QED BY <1>5, <2>1 DEF EarlierEffects
<1>7. op[c].kind \in Creates \union Removes => ~Finished(v.op)
  BY <1>1, <1>4, ClientIs DEF Moves, Waiting
<1>8. \E t \in Advance(v) : Handled(c, t, {r})
  BY <1>3
<1> QED BY <1>2, <1>5, <1>6, <1>7, <1>8, AnswerAdvances

LEMMA PartOfRoundResponse ==
  ASSUME IInv, NEW c \in Clients, NEW r \in requests, r.client = c, r.req.at = "client",
         ~Finished(op[c]), MachineOf(op[c]).type # "lookup", op[c].remaining # 1,
         \E t \in Advance([Client(c) EXCEPT !.op.remaining = @ - 1]) : Handled(c, t, {r}),
         UNCHANGED <<objects, entries, raced, started>>
  PROVE  Answered(c)
<1>1. Typed /\ \A d \in Clients : ClientInv(d) /\ EffectsKept(d)
  BY DEF IInv
<1>2. PICK x : x = [op[c] EXCEPT !.remaining = @ - 1]
  OBVIOUS
<1>3. PICK v : v = [Client(c) EXCEPT !.op.remaining = @ - 1]
  OBVIOUS
<1>4. /\ Client(c) \in Handlers /\ Client(c).op = op[c] /\ Client(c).sends = {}
      /\ Client(c).names = names[c] /\ Client(c).attrs = attrs[c] /\ op[c] \in Ops
  BY <1>1, ClientIs DEF Handlers
<1>5. r \in Out(c) /\ ClientState(op[c], names[c], attrs[c], Out(c))
  BY <1>1 DEF Out, ClientInv
<1>6. /\ ClientState(x, names[c], attrs[c], Out(c) \ {r}) /\ x.kind = op[c].kind
      /\ x.path = op[c].path /\ x.sm = op[c].sm /\ x.round = op[c].round /\ x \in Ops
  BY <1>2, <1>4, <1>5, OneOfRound
<1>7. /\ v \in Handlers /\ v.op = x /\ v.names = names[c] /\ v.attrs = attrs[c] /\ v.sends = {}
  BY <1>2, <1>3, <1>4, <1>6 DEF Handlers
<1>8. Advance(v) = {v}
  <2>1. v.op.round # 0
    BY <1>5, <1>6, <1>7 DEF ClientState
  <2>2. Step(v) = v
    BY <2>1 DEF Step
  <2> QED BY <2>2, StepsOfOne DEF Advance
<1>9. Handled(c, v, {r})
  BY <1>3, <1>8
<1>10. /\ DOMAIN op' = Clients /\ DOMAIN names' = Clients /\ DOMAIN attrs' = Clients
       /\ op'[c] = x /\ names'[c] = names[c] /\ attrs'[c] = attrs[c]
       /\ \A d \in Clients \ {c} : /\ op'[d] = op[d] /\ names'[d] = names[d]
                                   /\ attrs'[d] = attrs[d] /\ Out(d)' = Out(d)
       /\ Out(c)' = (Out(c) \ {r}) \union SentFor(c, v.sends)
       /\ \A s \in requests' : s.client \in Clients /\ s.req \in Reqs
                               /\ s = [client |-> s.client, req |-> s.req]
  BY <1>1, <1>5, <1>7, <1>9, HandledIs
<1>11. Out(c)' = Out(c) \ {r}
  BY <1>7, <1>10 DEF SentFor
<1>12. Typed'
  BY <1>1, <1>10 DEF Typed
<1>13. ASSUME NEW d \in Clients PROVE ClientInv(d)'
  <2>1. CASE d = c
    BY <1>6, <1>10, <1>11, <2>1 DEF ClientInv
  <2>2. CASE d # c
    BY <1>1, <1>10, <2>2 DEF ClientInv
  <2> QED BY <2>1, <2>2
<1>14. RacesNoted'
  BY <1>6, <1>10, RacesStay DEF IInv
<1>15. ASSUME NEW d \in Clients PROVE EffectsKept(d)'
  <2>1. MachineOf(op[d])' = MachineOf(op[d]) /\ op'[d].round = op[d].round
        /\ (Finished(op'[d]) <=> Finished(op[d]))
    BY <1>6, <1>10 DEF MachineOf, Finished
  <2>2. Alone(d)' => Alone(d)
    BY <2>1 DEF Alone, Finished
  <2>3. \A q : Pending(d, q) => Pending(d, q)'
    <3>1. CASE d = c
      BY <1>11, <3>1 DEF Pending
    <3>2. CASE d # c
      BY <1>10, <3>2 DEF Pending
    <3> QED BY <3>1, <3>2
  <2>4. \A p, q : Effect(p, q) => Effect(p, q)'
    BY DEF Effect
  <2> QED BY <1>1, <2>1, <2>2, <2>3, <2>4 DEF EffectsKept
<1>16. EntriesNameWholeFiles'
  BY DEF EntriesNameWholeFiles, IInv
<1>17. ~Finished(op'[c])
  BY <1>6, <1>10 DEF Finished
<1>18. IInv'
  BY <1>12, <1>13, <1>14, <1>15, <1>16 DEF IInv
<1> QED BY <1>6, <1>10, <1>17, <1>18 DEF Answered

LEMMA RoundResponse ==
  ASSUME IInv, NEW c \in Clients, NEW r \in requests, r.client = c, r.req.at = "client",
         ~Finished(op[c]), MachineOf(op[c]).type # "lookup", op[c].remaining = 1,
         \E t \in Advance(RoundAnswered(Client(c))) : Handled(c, t, {r}),
         UNCHANGED <<objects, entries, raced, started>>
  PROVE  Answered(c)
<1>1. PICK m : m = MachineOf(op[c])
  OBVIOUS
<1>2. PICK v : v = RoundAnswered(Client(c))
  OBVIOUS
<1>3. Typed /\ ClientInv(c)
  BY DEF IInv
<1>4. /\ Client(c) \in Handlers /\ Client(c).op = op[c] /\ Client(c).sends = {}
      /\ ClientOK(op[c], Client(c).names, Client(c).attrs)
  BY <1>3, ClientIs
<1>5. op[c].round \in 1..Len(Rounds(m)) /\ Len(Rounds(m)) \in 1..4
  BY <1>1, <1>3, RoundInRange
<1>6. Out(c) = {r}
  <2>1. r \in Out(c) /\ IsFiniteSet(Out(c)) /\ Cardinality(Out(c)) = 1
    BY <1>3 DEF Out, ClientInv, ClientState, Waits
  <2>2. PICK x : Out(c) = {x}
    BY <2>1, FS_Singleton
  <2> QED BY <2>1, <2>2
<1>7. /\ op[c].round # Len(Rounds(m)) =>
           Waiting(v) /\ Same(Client(c), v) /\ v.op.sm = op[c].sm /\ v.op.round = op[c].round + 1
      /\ op[c].round = Len(Rounds(m)) =>
           Ready(v) /\ Same(Client(c), v) /\ v.op.sm = op[c].sm + 1
  BY <1>1, <1>2, <1>4, <1>5, RoundIsAnswered
<1>8. \E t \in Advance(v) : Handled(c, t, {r})
  BY <1>2
<1>9. CASE op[c].round # Len(Rounds(m))
  <2>1. MachineOf(v.op) = m /\ ~Finished(v.op)
    BY <1>1, <1>4, <1>7, <1>9 DEF Same, MachineOf, Finished
  <2>2. EarlierEffects(v)
    <3> SUFFICES ASSUME m.type \in {"create", "createDir", "remove"}, m.path \notin raced,
                        NEW j \in 1..v.op.round - 1, NEW q \in Rounds(m)[j]
                 PROVE  Effect(m.path, q)
      BY <2>1 DEF EarlierEffects
    <3>1. Alone(c)
      BY <1>1 DEF Alone
    <3>2. j \in 1..op[c].round
      BY <1>5, <1>7, <1>9
    <3> QED BY <1>1, <1>6, <3>1, <3>2, AllAnswered
  <2> QED BY <1>6, <1>7, <1>8, <1>9, <2>1, <2>2, AnswerAdvances
<1>10. CASE op[c].round = Len(Rounds(m))
  <2>1. ~Waiting(v)
    BY <1>7, <1>10, WaitingHasSent DEF Ready
  <2>2. ASSUME Finished(v.op) PROVE Carried(c)
    <3>1. op[c].sm + 1 = Len(Machines(op[c].kind, op[c].path))
      BY <1>4, <1>7, <1>10, <2>2 DEF Finished, Same
    <3>2. Alone(c) => \A j \in 1..Len(Rounds(m)) : \A q \in Rounds(m)[j] : Effect(m.path, q)
      BY <1>1, <1>6, <1>10, AllAnswered
    <3> QED BY <1>1, <3>1, <3>2 DEF Carried
  <2> QED BY <1>6, <1>7, <1>8, <1>10, <2>1, <2>2, AnswerAdvances
<1> QED BY <1>9, <1>10

LEMMA ResponseStep ==
  ASSUME IInv, NEW c \in Clients, Response(c)
  PROVE  Answered(c)
<1>1. PICK r \in requests :
        /\ r.client = c /\ r.req.at = "client"
        /\ \E t \in Advance(IF r.req.type = "lookup" THEN LookupAnswered(Client(c), r.req)
                                                     ELSE RoundAnswered(Client(c))) :
             Handled(c, t, {r})
        /\ UNCHANGED <<objects, entries, raced, started>>
  BY DEF Response
<1>2. CASE r.req.type = "lookup"
  BY <1>1, <1>2, LookupResponse
<1>3. CASE r.req.type # "lookup"
  <2>1. Typed /\ \A d \in Clients : ClientInv(d)
    BY DEF IInv
  <2>2. ~Finished(op[c]) /\ MachineOf(op[c]).type # "lookup" /\ r \in Out(c)
    BY <1>1, <1>3, <2>1, RequestIs DEF LookupOK
  <2>3. \E t \in Advance(RoundAnswered(Client(c))) : Handled(c, t, {r})
    BY <1>1, <1>3
  <2>4. CASE op[c].remaining = 1
    BY <1>1, <2>2, <2>3, <2>4, RoundResponse
  <2>5. CASE op[c].remaining # 1
    <3>1. op[c].remaining \in Nat \ {0}
      <4>1. /\ Out(c) # {} /\ IsFiniteSet(Out(c)) /\ op[c].remaining = Cardinality(Out(c))
        BY <2>1, <2>2 DEF ClientInv, ClientState, Waits
      <4> QED BY <4>1, FS_CardinalityType, FS_EmptySet
    <3>2. op[c].round \in 1..Len(Rounds(MachineOf(op[c])))
      BY <2>1, <2>2, RoundInRange
    <3>3. /\ Client(c) \in Handlers /\ Client(c).op = op[c] /\ Client(c).sends = {}
          /\ ClientOK(op[c], Client(c).names, Client(c).attrs)
      BY <2>1, ClientIs
    <3>4. RoundAnswered(Client(c)) = [Client(c) EXCEPT !.op.remaining = @ - 1]
      BY <2>2, <2>5, <3>1, <3>2, <3>3, RoundIsAnswered
    <3> QED BY <1>1, <2>2, <2>3, <2>5, <3>4, PartOfRoundResponse
  <2> QED BY <2>4, <2>5
<1> QED BY <1>2, <1>3

-----------------------------------------------------------------------------
\* The invariant holds.
LEMMA InitIInv == Init => IInv
<1> SUFFICES ASSUME Init PROVE IInv
  OBVIOUS
<1> DEFINE o == [kind |-> "close", path |-> <<>>, sm |-> 0, round |-> 0, remaining |-> 0,
                 resolved |-> 1]
<1>1. /\ op = [c \in Clients |-> o] /\ names = [c \in Clients |-> <<>>]
      /\ attrs = [c \in Clients |-> <<>>] /\ requests = {} /\ raced = {} /\ started = 0
  BY DEF Init
<1>2. PICK present \in SUBSET Files :
        /\ entries = (Directories \union present) \ {<<>>}
        /\ objects = UNION {{Meta(p)} \union Data(p) : p \in Directories \union present}
  BY DEF Init
<1>3. /\ o.kind = "close" /\ o.path = <<>> /\ o.sm = 0 /\ o.round = 0 /\ o.resolved = 1
      /\ o.remaining = 0
  OBVIOUS
<1>4. o \in Ops
  <2>1. <<>> \in Paths
    BY NameOperationsAssumption DEF Paths, Known
  <2> QED BY <2>1 DEF Ops, Kinds
<1> HIDE DEF o
<1>5. Len(Machines(o.kind, o.path)) = 0
  BY <1>3 DEF Machines
<1>6. Finished(o)
  BY <1>3, <1>5 DEF Finished
<1>7. OpOK(o)
  BY <1>3, <1>4, <1>5 DEF OpOK, OpTyped, OpFound
<1>8. \A capacity \in Nat : CacheOK(<<>>, capacity)
  BY DEF CacheOK, IsInjective
<1>9. ClientOK(o, <<>>, <<>>)
  BY <1>3, <1>7, <1>8, NameOperationsAssumption DEF ClientOK, Removes
<1>10. ASSUME NEW c \in Clients PROVE ClientInv(c) /\ EffectsKept(c)
  <2>1. op[c] = o /\ names[c] = <<>> /\ attrs[c] = <<>> /\ Out(c) = {}
    BY <1>1 DEF Out
  <2> QED BY <1>6, <1>9, <2>1 DEF ClientInv, ClientState, EffectsKept, Alone
<1>11. objects \subseteq Objects /\ entries \subseteq Known
  BY <1>2 DEF Objects, Known
<1>12. Typed
  BY <1>1, <1>11, NameOperationsAssumption DEF Typed
<1>13. RacesNoted
  BY <1>1, <1>6 DEF RacesNoted
<1>14. EntriesNameWholeFiles
  BY <1>2 DEF EntriesNameWholeFiles, ObjectsOf
<1> QED BY <1>10, <1>12, <1>13, <1>14 DEF IInv

LEMMA NextIInv == IInv /\ [Next]_vars => IInv'
<1> SUFFICES ASSUME IInv, [Next]_vars PROVE IInv'
  OBVIOUS
<1>1. ASSUME NEW c \in Clients, NEW kind \in Kinds, NEW p \in PathsOf(kind), Start(c, kind, p)
      PROVE  IInv'
  BY <1>1, StartStep
<1>2. ASSUME NEW c \in Clients, Response(c) PROVE IInv'
  BY <1>2, ResponseStep DEF Answered
<1>3. ASSUME NEW r \in requests, ServerRequest(r) PROVE IInv'
  BY <1>3, ServerRequestStep
<1>4. ASSUME NEW r \in requests, Lookup(r) PROVE IInv'
  BY <1>4, LookupStep
<1>5. ASSUME NEW r \in requests, GetAttr(r) \/ SetAttr(r) \/ ReadDir(r) PROVE IInv'
  BY <1>5, ReadsStep
<1>6. ASSUME NEW r \in requests, CreateObject(r) PROVE IInv'
  BY <1>6, CreateObjectStep
<1>7. ASSUME NEW r \in requests, RemoveObject(r) PROVE IInv'
  BY <1>7, RemoveObjectStep
<1>8. ASSUME NEW r \in requests, CreateDirEnt(r) PROVE IInv'
  BY <1>8, CreateDirEntStep
<1>9. ASSUME NEW r \in requests, RemoveDirEnt(r) PROVE IInv'
  BY <1>9, RemoveDirEntStep
<1>10. CASE UNCHANGED vars
  BY <1>10 DEF vars, IInv, Typed, ClientInv, RacesNoted, EffectsKept, EntriesNameWholeFiles,
               Out, Alone, Pending, Effect, Finished, MachineOf
<1> QED BY <1>1, <1>2, <1>3, <1>4, <1>5, <1>6, <1>7, <1>8, <1>9, <1>10 DEF Next, Asks, Runs

LEMMA InvariantHolds == Spec => []IInv
BY InitIInv, NextIInv, PTL DEF Spec

LEMMA IInvImplies == IInv => ServersConsistent
<1> SUFFICES ASSUME IInv PROVE ServersConsistent
  OBVIOUS
<1>1. Typed /\ (\A c \in Clients : ClientInv(c)) /\ EntriesNameWholeFiles
  BY DEF IInv
<1>2. ASSUME NEW c \in Clients
      PROVE  /\ op[c].kind \in Kinds /\ op[c].path \in Paths
             /\ op[c].sm \in 0..Len(Machines(op[c].kind, op[c].path))
             /\ op[c].resolved \in 1..Len(op[c].path) + 1
             /\ ToSet(names[c]) \subseteq Known /\ ToSet(attrs[c]) \subseteq Known
             /\ IsInjective(names[c]) /\ IsInjective(attrs[c])
             /\ Len(names[c]) <= MaxNames /\ Len(attrs[c]) <= MaxAttrs
  <2>1. ClientOK(op[c], names[c], attrs[c])
    BY <1>1 DEF ClientInv, ClientState
  <2>2. ASSUME NEW s \in Seq(Known) PROVE ToSet(s) \subseteq Known
    BY DEF ToSet
  <2> QED BY <2>1, <2>2 DEF ClientOK, OpOK, OpTyped, Ops, CacheOK
<1>3. ASSUME NEW r \in requests
      PROVE  /\ r.client \in Clients /\ r.req.type \in RequestTypes
             /\ r.req.object \in Objects /\ r.req.path \in Paths
             /\ r.req.at \in {"server", "storage", "client"}
             /\ r.req.status \in {"none", "FOUND", "PARTIAL", "NOTFOUND"}
  BY <1>1 DEF Typed, Reqs, Places, Statuses
<1>4. TypeOK
  BY <1>1, <1>2, <1>3 DEF TypeOK, Typed
<1>5. ASSUME NEW r \in requests, r.req.at = "storage", r.req.type = "lookup"
      PROVE  LET dir == Prefix(r.req.path, r.req.resolved - 1)
             IN dir \in Directories /\ DataServers[dir][1] = ServerOf(r.req.object)
  <2>1. LookupOK(r.req, MachineOf(op[r.client]).path)
    BY <1>1, <1>5, RequestIs
  <2> QED BY <1>5, <2>1 DEF LookupOK, Reached
<1>6. LookupsReadOwnDirectory
  BY <1>5 DEF LookupsReadOwnDirectory
<1> QED BY <1>1, <1>4, <1>6 DEF ServersConsistent

\* At every moment, however requests and answers interleave and whatever is in
\* the clients' caches: an entry stands for a path all of whose objects are
\* stored, unless a creation and a removal of it overlapped; a server reads for
\* a lookup only directories of its own that exist; caches and operations keep
\* their bounds (FSCreateSM, FSRemoveSM, FSLookupNameSM, Lookup).
THEOREM ServersStayConsistent == Spec => []ServersConsistent
BY InvariantHolds, IInvImplies, PTL

-----------------------------------------------------------------------------
\* What the end of an operation promises.
LEMMA CarriedEffects ==
  ASSUME IInv, NEW c \in Clients, ~Finished(op[c]), Carried(c),
         op[c].kind \in Creates \union Removes, op[c].path \notin raced
  PROVE  LET p == op[c].path
         IN /\ op[c].kind \in Creates => p \in entries /\ ObjectsOf(p) \subseteq objects
            /\ op[c].kind \in Removes =>
                 p \notin entries /\ (ObjectsOf(p) \ {FirstHandle}) \intersect objects = {}
<1>1. PICK m : m = MachineOf(op[c])
  OBVIOUS
<1>2. PICK p : p = op[c].path
  OBVIOUS
<1>3. OpTyped(op[c])
  BY DEF IInv, ClientInv, ClientState, ClientOK, OpOK
<1>4. MachineOK(m) /\ PlaceOK(op[c].kind, p, op[c].sm + 1)
  BY <1>1, <1>2, <1>3, CurrentMachine
<1>5. /\ op[c].kind \in Creates => m.type \in {"create", "createDir"}
      /\ op[c].kind \in Removes => m.type = "remove"
  BY <1>1, <1>2, <1>4 DEF PlaceOK, Carried, MachineOf, Creates
<1>6. m.path = p /\ p \in Known \ {<<>>}
  BY <1>1, <1>2, <1>4, <1>5 DEF PlaceOK, MachineOf, MachineOK
<1>7. Alone(c)
  BY <1>1, <1>2, <1>5, <1>6 DEF Alone
<1>8. \A j \in 1..Len(Rounds(m)) : \A q \in Rounds(m)[j] : Effect(p, q)
  BY <1>1, <1>6, <1>7 DEF Carried
<1>9. ASSUME NEW o \in ObjectsOf(p)
      PROVE  \A type \in {"create", "remove"} : To(type, o).type = type /\ To(type, o).object = o
                                                /\ o.path = p
  <2>1. o \in Objects /\ o.path = p
    BY <1>6, ObjectsAre DEF ObjectsOf
  <2>2. {"create", "remove"} \subseteq RequestTypes \ {"lookup"}
    BY DEF RequestTypes
  <2> QED BY <2>1, <2>2, RequestTo
<1>10. ASSUME op[c].kind \in Creates PROVE p \in entries /\ ObjectsOf(p) \subseteq objects
  <2>1. /\ Len(Rounds(m)) = 4 /\ Entry("createDirEnt", p) \in Rounds(m)[4]
        /\ \A o \in ObjectsOf(p) : \E j \in 1..3 : To("create", o) \in Rounds(m)[j]
    BY <1>4, <1>5, <1>6, <1>10, CreationSends
  <2>2. Effect(p, Entry("createDirEnt", p))
    BY <1>8, <2>1
  <2>3. p \in entries
    BY <1>6, <2>2, RequestEntry DEF Effect
  <2>4. ASSUME NEW o \in ObjectsOf(p) PROVE o \in objects
    <3>1. PICK j \in 1..3 : To("create", o) \in Rounds(m)[j]
      BY <2>1
    <3>2. j \in 1..Len(Rounds(m))
      BY <2>1
    <3>3. Effect(p, To("create", o))
      BY <1>8, <3>1, <3>2
    <3> QED BY <1>9, <3>3 DEF Effect
  <2> QED BY <2>3, <2>4
<1>11. ASSUME op[c].kind \in Removes
       PROVE  p \notin entries /\ (ObjectsOf(p) \ {FirstHandle}) \intersect objects = {}
  <2>1. /\ Len(Rounds(m)) = 3 /\ Entry("removeDirEnt", p) \in Rounds(m)[1]
        /\ \A o \in ObjectsOf(p) : \E j \in 1..3 : To("remove", o) \in Rounds(m)[j]
    BY <1>4, <1>5, <1>6, <1>11, RemovalSends
  <2>2. Effect(p, Entry("removeDirEnt", p))
    BY <1>8, <2>1
  <2>3. p \notin entries
    BY <1>6, <2>2, RequestEntry DEF Effect
  <2>4. ASSUME NEW o \in ObjectsOf(p), o # FirstHandle PROVE o \notin objects
    <3>1. PICK j \in 1..3 : To("remove", o) \in Rounds(m)[j]
      BY <2>1
    <3>2. Effect(p, To("remove", o))
      BY <1>8, <2>1, <3>1
    <3> QED BY <1>9, <2>4, <3>2 DEF Effect
  <2> QED BY <2>3, <2>4
<1> QED BY <1>2, <1>10, <1>11

LEMMA PromiseKept ==
  ASSUME IInv, NEW c \in Clients, Response(c), Idle(c)'
  PROVE  Promised(c)'
<1>1. Answered(c)
  BY ResponseStep
<1>2. Finished(op'[c])
  BY DEF Idle, Finished
<1>3. PICK o : o = op'[c]
  OBVIOUS
<1>4. /\ ClientOK(o, names'[c], attrs'[c]) /\ Out(c)' = {} /\ o.kind = op[c].kind
      /\ o.path = op[c].path /\ ~Finished(op[c]) /\ UNCHANGED <<objects, entries, raced>>
  BY <1>1, <1>2, <1>3 DEF Answered, IInv, ClientInv, ClientState
<1>5. \A r \in requests' : r.client # c
  BY <1>4 DEF Out
<1>6. ASSUME o.kind \in Creates \union Removes, o.path \notin raced'
      PROVE  /\ o.kind \in Creates => o.path \in entries' /\ ObjectsOf(o.path) \subseteq objects'
             /\ o.kind \in Removes =>
                  /\ o.path \notin entries'
                  /\ (ObjectsOf(o.path) \ {FirstHandle}) \intersect objects' = {}
  <2>1. Carried(c)
    BY <1>1, <1>2, <1>4, <1>6 DEF Answered
  <2> QED BY <1>4, <1>6, <2>1, CarriedEffects
<1>7. o.kind \in Removes => o.path \notin ToSet(names'[c]) \union ToSet(attrs'[c])
  BY <1>2, <1>3, <1>4 DEF ClientOK
<1>8. o.kind \in {"open", "stat"} => o.resolved = LongestKnown(o.path) + 1
  <2>1. OpFound(o) /\ Finished(o)
    BY <1>2, <1>3, <1>4 DEF ClientOK, OpOK
  <2>2. o.kind = "stat" => o.sm = 4
    BY <2>1 DEF Finished, Machines, StatMachines, Removes
  <2> QED BY <2>1, <2>2 DEF OpFound
<1> QED BY <1>3, <1>5, <1>6, <1>7, <1>8 DEF Promised

LEMMA StepKeepsPromise ==
  ASSUME IInv, [Next]_vars, NEW c \in Clients, ~Idle(c), Idle(c)'
  PROVE  Promised(c)'
<1>1. op'[c] # op[c]
  BY DEF Idle
<1>2. ASSUME NEW d \in Clients, NEW kind \in Kinds, NEW p \in PathsOf(kind), Start(d, kind, p)
      PROVE  FALSE
  <2>1. Idle(d) /\ d # c
    BY <1>2 DEF Start
  <2>2. PICK o : op' = [op EXCEPT ![d] = o]
    BY <1>2 DEF Start, Handled
  <2> QED BY <1>1, <2>1, <2>2
<1>3. ASSUME NEW d \in Clients, Response(d) PROVE d = c
  BY <1>1, <1>3, ResponseStep DEF Answered
<1>4. ASSUME NEW r \in requests,
             \/ ServerRequest(r) \/ Lookup(r) \/ GetAttr(r) \/ SetAttr(r) \/ ReadDir(r)
             \/ CreateObject(r) \/ RemoveObject(r) \/ CreateDirEnt(r) \/ RemoveDirEnt(r)
      PROVE  FALSE
  BY <1>1, <1>4 DEF ServerRequest, Lookup, GetAttr, SetAttr, ReadDir, CreateObject,
                    RemoveObject, CreateDirEnt, RemoveDirEnt, Stored
<1>5. Next
  BY <1>1 DEF vars
<1>6. Response(c)
  BY <1>2, <1>3, <1>4, <1>5 DEF Next, Asks, Runs
<1> QED BY <1>6, PromiseKept

\* When an operation ends, nothing it sent is under way; what it created is all
\* there and what it removed is all gone, unless the two overlapped; a removed
\* path is in none of the client's caches; a lookup has resolved the longest
\* path that exists, whatever the cache held and however many servers had a
\* part in it (FSOperation::processMessage and the machines of client/).
THEOREM AnswersAreTrue == Spec => AnswersKeepPromise
<1>1. IInv /\ [Next]_vars =>
        [\A c \in Clients : ~Idle(c) /\ Idle(c)' => Promised(c)']_vars
  BY StepKeepsPromise
<1> QED BY <1>1, InvariantHolds, PTL DEF Spec, AnswersKeepPromise
=============================================================================
