------------------------------ MODULE CacheProofs ------------------------------
(***************************************************************************)
(* Theorems about the LRUCache class and about the paged middleware cache  *)
(* that keeps its pages in one.                                            *)
(*                                                                         *)
(* LRUCache keeps its list, its map and its entry counter in step, and it  *)
(* implements RecencyCache, for every set of keys and values, every        *)
(* capacity and every counter width.                                       *)
(*                                                                         *)
(* For any number of processes, files and regions, any capacity and any    *)
(* order of the file system's answers, the cache of DirectPagedCache holds *)
(* pages of open files only and requests wait only for what is on its way  *)
(* (CacheConsistent), and a dirty page stays until a write of it was sent  *)
(* (NoDirtyPageLost).  The second part of the module proves in this order: *)
(* that a finite set of keys has an order and what the loops over it do,   *)
(* the loops of a lookup, an update, a flush and the write-backs; what     *)
(* handling a request and an answer do to the requests, the messages and   *)
(* the pending pages; that every action keeps the invariant; the two       *)
(* theorems.                                                               *)
(***************************************************************************)
EXTENDS LRUCache, DirectPagedCache, LRUCacheOpsProofs, FiniteSetTheorems, FunctionTheorems,
        SequenceTheorems, WellFoundedInduction, TLAPS

-----------------------------------------------------------------------------
(* LRUCache.                                                               *)

LRUInv == Consistent(cache, Keys, Values, maxEntries) /\ result \in Results

LEMMA LRUInvImplies == LRUInv => LRUTypeOK /\ ListMatchesMap
<1> SUFFICES ASSUME LRUInv PROVE LRUTypeOK /\ ListMatchesMap
  OBVIOUS
<1>1. cache.lruList \in Seq(Keys) /\ Len(cache.lruList) \in Nat /\ Len(cache.lruList) <= maxEntries
  BY DEF LRUInv, Consistent
<1>2. cache.numEntries \in 0 .. SizeMod - 1
  BY <1>1, CapacityAssumption, SizeModAssumption DEF LRUInv, Consistent
<1>3. IsInjective(cache.lruList)
  BY <1>1 DEF LRUInv, Consistent, Distinct, IsInjective
<1> QED BY <1>1, <1>2, <1>3 DEF LRUInv, Consistent, EntriesOf, Entries, LRUTypeOK, ListMatchesMap

-----------------------------------------------------------------------------
LEMMA LRUInvInit == LRUInit => LRUInv
<1> SUFFICES ASSUME LRUInit PROVE LRUInv
  OBVIOUS
<1>1. cache = [keyEntryMap |-> [k \in {} |-> k], lruList |-> << >>,
               numEntries |-> 0, numDirtyEntries |-> 0]
  BY DEF LRUInit, EmptyCache
<1>2. << >> \in Seq(Keys) /\ Len(<< >>) = 0 /\ ToSet(<< >>) = {} /\ Distinct(<< >>)
  BY DEF ToSet, Distinct
<1>3. DOMAIN [k \in {} |-> k] = {} /\ [k \in {} |-> k] \in [{} -> Entries]
  OBVIOUS
<1>4. 0 \in 0 .. SizeMod - 1 /\ 0 <= maxEntries
  BY SizeModAssumption, CapacityAssumption
<1>5. Consistent(cache, Keys, Values, maxEntries)
  BY <1>1, <1>2, <1>3, <1>4, CapacityAssumption DEF Consistent, EntriesOf, Entries
<1> QED BY <1>5 DEF LRUInit, LRUInv, Results, Returned

LEMMA LRUInvNext == LRUInv /\ [LRUNext]_lruVars => LRUInv'
<1> SUFFICES ASSUME LRUInv, [LRUNext]_lruVars PROVE LRUInv'
  OBVIOUS
<1>0. Consistent(cache, Keys, Values, maxEntries) /\ result \in Results
  BY DEF LRUInv
<1> SUFFICES Consistent(cache', Keys, Values, maxEntries) /\ result' \in Results
  BY DEF LRUInv, Consistent, Distinct
<1>1. ASSUME NEW k \in Keys, NEW v \in Values, NEW d \in BOOLEAN, insert(k, v, d)
      PROVE  Consistent(cache', Keys, Values, maxEntries) /\ result' \in Results
  BY <1>0, <1>1, InsertKeeps DEF insert, Results
<1>2. ASSUME NEW k \in Keys, NEW v \in Values, NEW d \in BOOLEAN, insertAndRecall(k, v, d)
      PROVE  Consistent(cache', Keys, Values, maxEntries) /\ result' \in Results
  <2>1. Consistent(cache', Keys, Values, maxEntries)
    BY <1>0, <1>2, InsertKeeps DEF insertAndRecall
  <2>2. CASE ~InsertEvicts(cache, maxEntries, k)
    BY <1>2, <2>1, <2>2 DEF insertAndRecall, Results
  <2>3. CASE InsertEvicts(cache, maxEntries, k)
    <3>1. LRUKey(cache) \in DOMAIN cache.keyEntryMap
      BY <1>0, <2>3, LRUKeyCached DEF InsertEvicts
    <3>2. LRUKey(cache) \in Keys /\ cache.keyEntryMap[LRUKey(cache)] \in Entries
      BY <1>0, <3>1 DEF Consistent, EntriesOf, Entries
    <3>3. Recalled(LRUKey(cache), cache.keyEntryMap[LRUKey(cache)]) \in Results
      BY <3>2 DEF Recalled, Results, Entries
    <3> QED BY <1>2, <2>1, <2>3, <3>3 DEF insertAndRecall
  <2> QED BY <2>2, <2>3
<1>3. ASSUME NEW k \in Keys, remove(k)
      PROVE  Consistent(cache', Keys, Values, maxEntries) /\ result' \in Results
  BY <1>0, <1>3, RemoveEntryKeeps DEF remove, Exists, Results
<1>4. ASSUME NEW k \in Keys, lookup(k)
      PROVE  Consistent(cache', Keys, Values, maxEntries) /\ result' \in Results
  <2>1. CASE ~Exists(cache, k)
    BY <1>0, <1>4, <2>1 DEF lookup, Results
  <2>2. CASE Exists(cache, k)
    <3>1. cache' = Lookup(cache, k) /\ result' = Found(cache.keyEntryMap[k].data)
      BY <1>4, <2>2 DEF lookup
    <3>2. cache.keyEntryMap[k] \in Entries
      BY <1>0, <2>2 DEF Consistent, EntriesOf, Entries, Exists
    <3>3. Found(cache.keyEntryMap[k].data) \in Results
      BY <3>2 DEF Found, Results, Entries
    <3> QED BY <1>0, <2>2, <3>1, <3>3, LookupKeeps DEF Exists
  <2> QED BY <2>1, <2>2
<1>5. ASSUME NEW k \in Keys, NEW d \in BOOLEAN, setDirtyBit(k, d)
      PROVE  Consistent(cache', Keys, Values, maxEntries) /\ result' \in Results
  BY <1>0, <1>5, SetDirtyBitKeeps DEF setDirtyBit, Exists, Results
<1>6. CASE UNCHANGED lruVars
  BY <1>0, <1>6 DEF lruVars
<1> QED BY <1>1, <1>2, <1>3, <1>4, <1>5, <1>6 DEF LRUNext

\* After any sequence of calls the members have their types, and the list, the
\* map and the entry counter of the LRU cache agree and respect the capacity.
THEOREM CacheStaysConsistent == LRUSpec => [](LRUTypeOK /\ ListMatchesMap)
<1>1. LRUSpec => []LRUInv
  BY LRUInvInit, LRUInvNext, PTL DEF LRUSpec
<1> QED BY <1>1, LRUInvImplies, PTL
-----------------------------------------------------------------------------
\* A pair is in the order of a list when the list has its parts in turn.
LEMMA RecencyPairs ==
  ASSUME NEW S, NEW list \in Seq(S)
  PROVE  /\ \A a, b : <<a, b>> \in RecencyOf(list) <=>
              \E i, j \in 1 .. Len(list) : i < j /\ a = list[i] /\ b = list[j]
         /\ \A p \in RecencyOf(list) : p = <<p[1], p[2]>>
<1> DEFINE P == {q \in (DOMAIN list) \X (DOMAIN list) : q[1] < q[2]}
<1>1. DOMAIN list = 1 .. Len(list)
  OBVIOUS
<1>2. ASSUME NEW a, NEW b, <<a, b>> \in RecencyOf(list)
      PROVE  \E i, j \in 1 .. Len(list) : i < j /\ a = list[i] /\ b = list[j]
  <2>1. PICK q \in P : <<a, b>> = <<list[q[1]], list[q[2]]>>
    BY <1>2 DEF RecencyOf
  <2> QED BY <1>1, <2>1
<1>3. ASSUME NEW i \in 1 .. Len(list), NEW j \in 1 .. Len(list), i < j
      PROVE  <<list[i], list[j]>> \in RecencyOf(list)
  <2>1. <<i, j>> \in P /\ <<i, j>>[1] = i /\ <<i, j>>[2] = j
    BY <1>1, <1>3
  <2> QED BY <2>1 DEF RecencyOf
<1>4. ASSUME NEW p \in RecencyOf(list) PROVE p = <<p[1], p[2]>>
  <2>1. PICK q \in P : p = <<list[q[1]], list[q[2]]>>
    BY DEF RecencyOf
  <2> QED BY <2>1
<1> QED BY <1>2, <1>3, <1>4

\* Erasing a key leaves the order of the others.
LEMMA EraseRefOrder ==
  ASSUME NEW S, NEW list \in Seq(S), NEW k \in ToSet(list), Distinct(list)
  PROVE  RecencyOf(EraseRef(list, k)) = {p \in RecencyOf(list) : p[1] # k /\ p[2] # k}
<1> DEFINE r == RefOf(list, k)
           e == EraseRef(list, k)
<1>1. r \in 1 .. Len(list) /\ list[r] = k /\ Len(list) \in Nat
  BY RefOfPoints
<1>2. /\ e \in Seq(S) /\ Len(e) = Len(list) - 1
      /\ \A i \in 1 .. Len(list) - 1 : e[i] = IF i < r THEN list[i] ELSE list[i + 1]
  BY EraseRefShifts
<1> HIDE DEF r, e
<1>3. /\ \A a, b : <<a, b>> \in RecencyOf(e) <=>
           \E i, j \in 1 .. Len(e) : i < j /\ a = e[i] /\ b = e[j]
      /\ \A p \in RecencyOf(e) : p = <<p[1], p[2]>>
  BY <1>2, RecencyPairs
<1>4. /\ \A a, b : <<a, b>> \in RecencyOf(list) <=>
           \E i, j \in 1 .. Len(list) : i < j /\ a = list[i] /\ b = list[j]
      /\ \A p \in RecencyOf(list) : p = <<p[1], p[2]>>
  BY RecencyPairs
<1>5. ASSUME NEW a, NEW b, <<a, b>> \in RecencyOf(e)
      PROVE  <<a, b>> \in RecencyOf(list) /\ a # k /\ b # k
  <2>1. PICK i \in 1 .. Len(e), j \in 1 .. Len(e) : i < j /\ a = e[i] /\ b = e[j]
    BY <1>3, <1>5
  <2> DEFINE m == IF i < r THEN i ELSE i + 1
             n == IF j < r THEN j ELSE j + 1
  <2>2. /\ m \in 1 .. Len(list) /\ n \in 1 .. Len(list) /\ m < n /\ m # r /\ n # r
        /\ a = list[m] /\ b = list[n]
    BY <1>1, <1>2, <2>1
  <2> HIDE DEF m, n
  <2>3. list[m] # k /\ list[n] # k
    BY <1>1, <2>2 DEF Distinct
  <2> QED BY <1>4, <2>2, <2>3
<1>6. ASSUME NEW a, NEW b, <<a, b>> \in RecencyOf(list), a # k, b # k
      PROVE  <<a, b>> \in RecencyOf(e)
  <2>1. PICK i \in 1 .. Len(list), j \in 1 .. Len(list) : i < j /\ a = list[i] /\ b = list[j]
    BY <1>4, <1>6
  <2>2. i # r /\ j # r
    BY <1>1, <1>6, <2>1
  <2> DEFINE m == IF i < r THEN i ELSE i - 1
             n == IF j < r THEN j ELSE j - 1
  <2>3. m \in 1 .. Len(e) /\ n \in 1 .. Len(e) /\ m < n
    BY <1>1, <1>2, <2>1, <2>2
  <2>4. (m < r => m = i) /\ (~(m < r) => m + 1 = i) /\ (n < r => n = j) /\ (~(n < r) => n + 1 = j)
    BY <1>1, <2>1, <2>2
  <2>5. m \in 1 .. Len(list) - 1 /\ n \in 1 .. Len(list) - 1
    BY <1>2, <2>3
  <2> HIDE DEF m, n
  <2>6. a = e[m]
    <3>1. e[m] = IF m < r THEN list[m] ELSE list[m + 1] BY <1>2, <2>5
    <3> QED BY <2>1, <2>4, <3>1
  <2>7. b = e[n]
    <3>1. e[n] = IF n < r THEN list[n] ELSE list[n + 1] BY <1>2, <2>5
    <3> QED BY <2>1, <2>4, <3>1
  <2> QED BY <1>3, <2>3, <2>6, <2>7
<1>7. ASSUME NEW p PROVE p \in RecencyOf(e) <=> p \in RecencyOf(list) /\ p[1] # k /\ p[2] # k
  <2>1. ASSUME p \in RecencyOf(e) PROVE p \in RecencyOf(list) /\ p[1] # k /\ p[2] # k
    <3>1. p = <<p[1], p[2]>> BY <1>3, <2>1
    <3> QED BY <1>5, <2>1, <3>1
  <2>2. ASSUME p \in RecencyOf(list), p[1] # k, p[2] # k PROVE p \in RecencyOf(e)
    <3>1. p = <<p[1], p[2]>> BY <1>4, <2>2
    <3> QED BY <1>6, <2>2, <3>1
  <2> QED BY <2>1, <2>2
<1> QED BY <1>7 DEF e

\* A key pushed to the front comes before the others.
LEMMA PushFrontOrder ==
  ASSUME NEW S, NEW list \in Seq(S), NEW k \in S
  PROVE  RecencyOf(PushFront(list, k)) = RecencyOf(list) \union {<<k, j>> : j \in ToSet(list)}
<1> DEFINE p == PushFront(list, k)
<1>1. /\ p \in Seq(S) /\ Len(p) = Len(list) + 1 /\ Len(list) \in Nat
      /\ p[1] = k /\ \A i \in 1 .. Len(list) : p[i + 1] = list[i]
  BY DEF PushFront
<1> HIDE DEF p
<1>2. \A i \in 2 .. Len(p) : p[i] = list[i - 1] /\ i - 1 \in 1 .. Len(list)
  BY <1>1
<1>3. /\ \A a, b : <<a, b>> \in RecencyOf(p) <=>
           \E i, j \in 1 .. Len(p) : i < j /\ a = p[i] /\ b = p[j]
      /\ \A q \in RecencyOf(p) : q = <<q[1], q[2]>>
  BY <1>1, RecencyPairs
<1>4. /\ \A a, b : <<a, b>> \in RecencyOf(list) <=>
           \E i, j \in 1 .. Len(list) : i < j /\ a = list[i] /\ b = list[j]
      /\ \A q \in RecencyOf(list) : q = <<q[1], q[2]>>
  BY RecencyPairs
<1>5. ASSUME NEW a, NEW b, <<a, b>> \in RecencyOf(p)
      PROVE  <<a, b>> \in RecencyOf(list) \/ (a = k /\ b \in ToSet(list))
  <2>1. PICK i \in 1 .. Len(p), j \in 1 .. Len(p) : i < j /\ a = p[i] /\ b = p[j]
    BY <1>3, <1>5
  <2>2. j \in 2 .. Len(p) /\ b = list[j - 1] /\ j - 1 \in 1 .. Len(list)
    BY <1>1, <1>2, <2>1
  <2>3. CASE i = 1
    BY <1>1, <2>1, <2>2, <2>3 DEF ToSet
  <2>4. CASE i # 1
    <3>1. i \in 2 .. Len(p) /\ a = list[i - 1] /\ i - 1 \in 1 .. Len(list) /\ i - 1 < j - 1
      BY <1>1, <1>2, <2>1, <2>4
    <3> QED BY <1>4, <2>2, <3>1
  <2> QED BY <2>3, <2>4
<1>6. ASSUME NEW a, NEW b, <<a, b>> \in RecencyOf(list) PROVE <<a, b>> \in RecencyOf(p)
  <2>1. PICK i \in 1 .. Len(list), j \in 1 .. Len(list) : i < j /\ a = list[i] /\ b = list[j]
    BY <1>4, <1>6
  <2>2. /\ i + 1 \in 1 .. Len(p) /\ j + 1 \in 1 .. Len(p) /\ i + 1 < j + 1
        /\ a = p[i + 1] /\ b = p[j + 1]
    BY <1>1, <2>1
  <2> QED BY <1>3, <2>2
<1>7. ASSUME NEW b \in ToSet(list) PROVE <<k, b>> \in RecencyOf(p)
  <2>1. PICK j \in 1 .. Len(list) : b = list[j]
    BY DEF ToSet
  <2>2. 1 \in 1 .. Len(p) /\ j + 1 \in 1 .. Len(p) /\ 1 < j + 1 /\ b = p[j + 1]
    BY <1>1, <2>1
  <2> QED BY <1>1, <1>3, <2>2
<1> DEFINE N == {<<k, j>> : j \in ToSet(list)}
<1>8. ASSUME NEW q PROVE q \in RecencyOf(p) <=> q \in RecencyOf(list) \/ q \in N
  <2>1. ASSUME q \in RecencyOf(p) PROVE q \in RecencyOf(list) \/ q \in N
    <3>1. q = <<q[1], q[2]>> BY <1>3, <2>1
    <3> QED BY <1>5, <2>1, <3>1
  <2>2. ASSUME q \in RecencyOf(list) PROVE q \in RecencyOf(p)
    <3>1. q = <<q[1], q[2]>> BY <1>4, <2>2
    <3> QED BY <1>6, <2>2, <3>1
  <2>3. ASSUME q \in N PROVE q \in RecencyOf(p)
    BY <1>7, <2>3
  <2> QED BY <2>1, <2>2, <2>3
<1> QED BY <1>8 DEF p

-----------------------------------------------------------------------------
\* A list of different keys is as long as there are keys in it.
LEMMA DistinctLength ==
  ASSUME NEW S, NEW list \in Seq(S), Distinct(list)
  PROVE  IsFiniteSet(ToSet(list)) /\ Cardinality(ToSet(list)) = Len(list)
<1>1. Len(list) \in Nat /\ DOMAIN list = 1 .. Len(list)
  OBVIOUS
<1>2. list \in [1 .. Len(list) -> ToSet(list)]
  BY DEF ToSet
<1>3. list \in Bijection(1 .. Len(list), ToSet(list))
  BY <1>1, <1>2, Fun_IsBij DEF Distinct, ToSet
<1>4. ExistsBijection(1 .. Len(list), ToSet(list))
  BY <1>3 DEF ExistsBijection
<1> QED BY <1>1, <1>4, FS_CountingElements, FS_NatBijection

\* What is in the order of a list is in the list.
LEMMA RecencyInside ==
  ASSUME NEW S, NEW list \in Seq(S), NEW p \in RecencyOf(list)
  PROVE  p[1] \in ToSet(list) /\ p[2] \in ToSet(list)
<1>1. <<p[1], p[2]>> \in RecencyOf(list)
  BY RecencyPairs
<1>2. PICK i \in 1 .. Len(list), j \in 1 .. Len(list) : p[1] = list[i] /\ p[2] = list[j]
  BY <1>1, RecencyPairs
<1> QED BY <1>2 DEF ToSet

\* The order after key k was used and the keys of S are left.
Used(order, k, S) == {p \in order : p[1] \in S \ {k} /\ p[2] \in S \ {k}}
                     \union {<<k, j>> : j \in S \ {k}}

\* A list from which key k is missing gets it at its front.
LEMMA PushFrontUses ==
  ASSUME NEW T, NEW list \in Seq(T), NEW k \in T, k \notin ToSet(list)
  PROVE  RecencyOf(PushFront(list, k)) = Used(RecencyOf(list), k, ToSet(list))
<1>1. ToSet(list) \ {k} = ToSet(list)
  OBVIOUS
<1>2. RecencyOf(list) = {p \in RecencyOf(list) : p[1] \in ToSet(list) /\ p[2] \in ToSet(list)}
  BY RecencyInside
<1> QED BY <1>1, <1>2, PushFrontOrder DEF Used

\* Erasing e and then using k, another key.
LEMMA ErasedThenUsed ==
  ASSUME NEW T, NEW list \in Seq(T), NEW e \in ToSet(list), Distinct(list), NEW k
  PROVE  Used(RecencyOf(EraseRef(list, e)), k, ToSet(list) \ {e})
           = Used(RecencyOf(list), k, ToSet(list) \ {e})
<1> DEFINE S == ToSet(list) \ {e}
           R == RecencyOf(list)
<1>1. RecencyOf(EraseRef(list, e)) = {p \in R : p[1] # e /\ p[2] # e}
  BY EraseRefOrder
<1>2. {p \in {q \in R : q[1] # e /\ q[2] # e} : p[1] \in S \ {k} /\ p[2] \in S \ {k}}
        = {p \in R : p[1] \in S \ {k} /\ p[2] \in S \ {k}}
  OBVIOUS
<1> QED BY <1>1, <1>2 DEF Used

\* Moving a key to the front is using it.
LEMMA RefreshUses ==
  ASSUME NEW T, NEW list \in Seq(T), NEW k \in ToSet(list), Distinct(list)
  PROVE  RecencyOf(Refresh(list, k)) = Used(RecencyOf(list), k, ToSet(list))
<1> DEFINE e == EraseRef(list, k)
<1>1. e \in Seq(T) /\ ToSet(e) = ToSet(list) \ {k}
  BY EraseRefShifts, EraseRefRemoves
<1>6. k \in T
  BY DEF ToSet
<1> HIDE DEF e
<1>2. RecencyOf(PushFront(e, k)) = Used(RecencyOf(e), k, ToSet(list) \ {k})
  BY <1>1, <1>6, PushFrontUses
<1>3. Used(RecencyOf(e), k, ToSet(list) \ {k}) = Used(RecencyOf(list), k, ToSet(list) \ {k})
  BY ErasedThenUsed DEF e
<1>4. (ToSet(list) \ {k}) \ {k} = ToSet(list) \ {k}
  OBVIOUS
<1>5. Used(RecencyOf(list), k, ToSet(list) \ {k}) = Used(RecencyOf(list), k, ToSet(list))
  BY <1>4 DEF Used
<1> QED BY <1>2, <1>3, <1>5 DEF Refresh, e

\* Every other key of a full cache was used after the one at the list's end.
LEMMA LRUKeyLeastRecent ==
  ASSUME NEW K, NEW V, NEW cap, NEW c,
         Consistent(c, K, V, cap), IsFull(c, cap),
         NEW j \in DOMAIN c.keyEntryMap \ {LRUKey(c)}
  PROVE  <<j, LRUKey(c)>> \in RecencyOf(c.lruList)
<1>1. c.lruList \in Seq(K) /\ Len(c.lruList) \in Nat /\ 0 < Len(c.lruList)
  BY DEF Consistent, IsFull
<1>2. LRUKey(c) = c.lruList[Len(c.lruList)]
  BY DEF LRUKey, Last
<1>3. PICK i \in 1 .. Len(c.lruList) : j = c.lruList[i]
  BY DEF Consistent, ToSet
<1>4. i < Len(c.lruList)
  BY <1>1, <1>2, <1>3
<1>5. Len(c.lruList) \in 1 .. Len(c.lruList)
  BY <1>1
<1> QED BY <1>1, <1>2, <1>3, <1>4, <1>5, RecencyPairs

\* What insert does to the map and to the order, whichever branch it takes.
LEMMA InsertUses ==
  ASSUME NEW K, NEW V, NEW cap, NEW c, NEW k \in K, NEW v \in V, NEW d \in BOOLEAN,
         Consistent(c, K, V, cap),
         NEW S, S = DOMAIN c.keyEntryMap \ EvictedBy(c, cap, k)
  PROVE  /\ Insert(c, cap, k, v, d).keyEntryMap =
              [j \in S \union {k} |-> IF j = k THEN [data |-> v, dirty |-> d] ELSE c.keyEntryMap[j]]
         /\ RecencyOf(Insert(c, cap, k, v, d).lruList) = Used(RecencyOf(c.lruList), k, S)
<1> DEFINE m(T) == [j \in T \union {k} |-> IF j = k THEN [data |-> v, dirty |-> d]
                                                    ELSE c.keyEntryMap[j]]
<1>0. c.lruList \in Seq(K) /\ Distinct(c.lruList) /\ ToSet(c.lruList) = DOMAIN c.keyEntryMap
  BY DEF Consistent
<1>1. CASE Exists(c, k)
  <2>1. /\ Insert(c, cap, k, v, d) = UpdateEntry(c, k, v, d)
        /\ S = DOMAIN c.keyEntryMap /\ k \in DOMAIN c.keyEntryMap
    BY <1>1 DEF Insert, EvictedBy, InsertEvicts, Exists
  <2>2. UpdateEntry(c, k, v, d).keyEntryMap = m(S)
    <3>1. S \union {k} = DOMAIN c.keyEntryMap
      BY <2>1
    <3>2. c.keyEntryMap \in [S \union {k} -> EntriesOf(V)]
      BY <3>1 DEF Consistent
    <3>3. [c.keyEntryMap EXCEPT ![k] = [data |-> v, dirty |-> d]] = m(S)
      BY <3>1, <3>2
    <3> QED BY <3>3 DEF UpdateEntry
  <2>3. UpdateEntry(c, k, v, d).lruList = Refresh(c.lruList, k)
    BY DEF UpdateEntry
  <2> QED BY <1>0, <2>1, <2>2, <2>3, RefreshUses
<1>2. CASE ~Exists(c, k) /\ IsFull(c, cap)
  <2> DEFINE l == LRUKey(c)
             e == RemoveEntry(c, l)
  <2>1. l \in DOMAIN c.keyEntryMap
    BY <1>2, LRUKeyCached
  <2>2. Insert(c, cap, k, v, d) = AddEntry(e, k, v, d) /\ S = DOMAIN c.keyEntryMap \ {l}
    BY <1>2 DEF Insert, MakeRoom, EvictedBy, InsertEvicts
  <2>3. /\ e.keyEntryMap = [j \in DOMAIN c.keyEntryMap \ {l} |-> c.keyEntryMap[j]]
        /\ e.lruList = EraseRef(c.lruList, l)
    BY DEF RemoveEntry
  <2>4. /\ AddEntry(e, k, v, d).keyEntryMap =
             [j \in DOMAIN e.keyEntryMap \union {k} |->
                IF j = k THEN [data |-> v, dirty |-> d] ELSE e.keyEntryMap[j]]
        /\ AddEntry(e, k, v, d).lruList = PushFront(e.lruList, k)
    BY DEF AddEntry
  <2> HIDE DEF e, l
  <2>5. AddEntry(e, k, v, d).keyEntryMap = m(S)
    BY <2>2, <2>3, <2>4
  <2>6. EraseRef(c.lruList, l) \in Seq(K) /\ ToSet(EraseRef(c.lruList, l)) = S
    BY <1>0, <2>1, <2>2, EraseRefShifts, EraseRefRemoves
  <2>7. k \notin S
    BY <1>2, <2>2 DEF Exists
  <2>8. RecencyOf(PushFront(EraseRef(c.lruList, l), k)) = Used(RecencyOf(EraseRef(c.lruList, l)), k, S)
    BY <2>6, <2>7, PushFrontUses
  <2>9. Used(RecencyOf(EraseRef(c.lruList, l)), k, S) = Used(RecencyOf(c.lruList), k, S)
    BY <1>0, <2>1, <2>2, ErasedThenUsed
  <2> QED BY <2>2, <2>3, <2>4, <2>5, <2>8, <2>9
<1>3. CASE ~Exists(c, k) /\ ~IsFull(c, cap)
  <2>1. Insert(c, cap, k, v, d) = AddEntry(c, k, v, d) /\ S = DOMAIN c.keyEntryMap /\ k \notin S
    BY <1>3 DEF Insert, MakeRoom, EvictedBy, InsertEvicts, Exists
  <2>2. AddEntry(c, k, v, d).keyEntryMap = m(S) /\ AddEntry(c, k, v, d).lruList = PushFront(c.lruList, k)
    BY <2>1 DEF AddEntry
  <2> QED BY <1>0, <2>1, <2>2, PushFrontUses
<1> QED BY <1>1, <1>2, <1>3

-----------------------------------------------------------------------------
\* The abstract cache is full when the counter has reached the capacity.
LEMMA FullAgrees == LRUInv => (Abstract!Full <=> IsFull(cache, maxEntries))
<1> SUFFICES ASSUME LRUInv PROVE Abstract!Full <=> IsFull(cache, maxEntries)
  OBVIOUS
<1>1. /\ cache.lruList \in Seq(Keys) /\ Distinct(cache.lruList)
      /\ ToSet(cache.lruList) = DOMAIN cache.keyEntryMap
      /\ cache.numEntries = Len(cache.lruList)
  BY DEF LRUInv, Consistent
<1>2. Cardinality(DOMAIN cache.keyEntryMap) = Len(cache.lruList)
  BY <1>1, DistinctLength
<1>3. \A S : Abstract!Cardinality(S) = Cardinality(S)
  BY DEF Abstract!Cardinality, Cardinality
<1> QED BY <1>1, <1>2, <1>3 DEF Abstract!Full, Abstract!Cached, IsFull

\* An insertion is the abstract one: the same keys survive it, with the same
\* contents and in the same order.
LEMMA InsertRefines ==
  ASSUME LRUInv, NEW k \in Keys, NEW v \in Values, NEW d \in BOOLEAN,
         cache' = Insert(cache, maxEntries, k, v, d),
         NEW S, S = DOMAIN cache.keyEntryMap \ EvictedBy(cache, maxEntries, k)
  PROVE  S \in SUBSET Abstract!Cached /\ Abstract!Survivors(k, S) /\ Abstract!Put(k, v, d, S)
<1>1. Consistent(cache, Keys, Values, maxEntries)
  BY DEF LRUInv
<1>2. Abstract!Survivors(k, S)
  <2>1. CASE ~InsertEvicts(cache, maxEntries, k)
    <3>1. S = Abstract!Cached /\ (k \in Abstract!Cached \/ ~Abstract!Full)
      BY <2>1, FullAgrees DEF EvictedBy, InsertEvicts, Exists, Abstract!Cached
    <3> QED BY <3>1 DEF Abstract!Survivors
  <2>2. CASE InsertEvicts(cache, maxEntries, k)
    <3>1. ~(k \in Abstract!Cached \/ ~Abstract!Full) /\ S = Abstract!Cached \ {LRUKey(cache)}
      BY <2>2, FullAgrees DEF EvictedBy, InsertEvicts, Exists, Abstract!Cached
    <3>2. LRUKey(cache) \in Abstract!Cached
      BY <1>1, <2>2, LRUKeyCached DEF InsertEvicts, Abstract!Cached
    <3>3. \A j \in Abstract!Cached \ {LRUKey(cache)} : <<j, LRUKey(cache)>> \in RecencyOf(cache.lruList)
      BY <1>1, <2>2, LRUKeyLeastRecent DEF InsertEvicts, Abstract!Cached
    <3>4. Abstract!LeastRecent(LRUKey(cache))
      BY <3>2, <3>3 DEF Abstract!LeastRecent
    <3> QED BY <3>1, <3>2, <3>4 DEF Abstract!Survivors
  <2> QED BY <2>1, <2>2
<1>3. /\ cache'.keyEntryMap = [j \in S \union {k} |-> IF j = k THEN [data |-> v, dirty |-> d]
                                                               ELSE cache.keyEntryMap[j]]
      /\ RecencyOf(cache'.lruList) = Used(RecencyOf(cache.lruList), k, S)
  <2> DEFINE new == Insert(cache, maxEntries, k, v, d)
             old == EvictedBy(cache, maxEntries, k)
  <2>1. S = DOMAIN cache.keyEntryMap \ old
    OBVIOUS
  <2>2. /\ new.keyEntryMap = [j \in S \union {k} |-> IF j = k THEN [data |-> v, dirty |-> d]
                                                    ELSE cache.keyEntryMap[j]]
        /\ RecencyOf(new.lruList) = Used(RecencyOf(cache.lruList), k, S)
    BY <1>1, <2>1, InsertUses
  <2> HIDE DEF new
  <2>3. cache' = new
    BY DEF new
  <2> QED BY <2>2, <2>3
<1>4. Used(RecencyOf(cache.lruList), k, S) = Abstract!UseNow(k, S \union {k})
  <2>1. (S \union {k}) \ {k} = S \ {k}
    OBVIOUS
  <2> QED BY <2>1 DEF Used, Abstract!UseNow
<1>5. RecencyOf(cache.lruList)' = RecencyOf(cache'.lruList)
  BY DEF RecencyOf
<1> QED BY <1>2, <1>3, <1>4, <1>5 DEF Abstract!Put, Abstract!Cached

LEMMA InitRefines == LRUInit => Abstract!Init
<1> SUFFICES ASSUME LRUInit PROVE Abstract!Init
  OBVIOUS
<1>1. RecencyOf(<< >>) = {}
  BY DEF RecencyOf
<1> QED BY <1>1 DEF LRUInit, EmptyCache, Returned, Abstract!Init

LEMMA NextRefines == LRUInv /\ [LRUNext]_lruVars => [Abstract!Next]_(Abstract!vars)
<1> SUFFICES ASSUME LRUInv, [LRUNext]_lruVars PROVE [Abstract!Next]_(Abstract!vars)
  OBVIOUS
<1> DEFINE list == cache.lruList
           Evicted(k) == EvictedBy(cache, maxEntries, k)
<1>0. /\ Consistent(cache, Keys, Values, maxEntries)
      /\ list \in Seq(Keys) /\ Distinct(list) /\ ToSet(list) = DOMAIN cache.keyEntryMap
      /\ Abstract!Cached = DOMAIN cache.keyEntryMap
  BY DEF LRUInv, Consistent, Abstract!Cached
<1>1. ASSUME NEW k \in Keys, NEW v \in Values, NEW d \in BOOLEAN, insert(k, v, d)
      PROVE  Abstract!Next
  <2> DEFINE S == DOMAIN cache.keyEntryMap \ Evicted(k)
  <2>1. S \in SUBSET Abstract!Cached /\ Abstract!Survivors(k, S) /\ Abstract!Put(k, v, d, S)
    BY <1>1, InsertRefines DEF insert
  <2>2. result' = [kind |-> "returned"]
    BY <1>1 DEF insert, Returned
  <2>3. Abstract!Inserting(k, v, d)
    BY <2>1, <2>2 DEF Abstract!Inserting
  <2> QED BY <2>3 DEF Abstract!Next
<1>2. ASSUME NEW k \in Keys, NEW v \in Values, NEW d \in BOOLEAN, insertAndRecall(k, v, d)
      PROVE  Abstract!Next
  <2> DEFINE S == DOMAIN cache.keyEntryMap \ Evicted(k)
  <2>1. S \in SUBSET Abstract!Cached /\ Abstract!Survivors(k, S) /\ Abstract!Put(k, v, d, S)
    BY <1>2, InsertRefines DEF insertAndRecall
  <2>2. CASE ~InsertEvicts(cache, maxEntries, k)
    <3>1. S = Abstract!Cached /\ result' = [kind |-> "NoSuchEntry"]
      BY <1>0, <1>2, <2>2 DEF insertAndRecall, EvictedBy, NoSuchEntry
    <3>2. Abstract!InsertingAndRecalling(k, v, d)
      BY <2>1, <3>1 DEF Abstract!InsertingAndRecalling
    <3> QED BY <3>2 DEF Abstract!Next
  <2>3. CASE InsertEvicts(cache, maxEntries, k)
    <3> DEFINE e == LRUKey(cache)
    <3>1. e \in DOMAIN cache.keyEntryMap
      BY <1>0, <2>3, LRUKeyCached DEF InsertEvicts
    <3>2. S # Abstract!Cached /\ e \in Abstract!Cached \ S
      BY <1>0, <2>3, <3>1 DEF EvictedBy
    <3>3. result' = [kind |-> "recalled", key |-> e, data |-> cache.keyEntryMap[e].data,
                     dirty |-> cache.keyEntryMap[e].dirty]
      BY <1>2, <2>3 DEF insertAndRecall, Recalled
    <3> HIDE DEF e
    <3>4. Abstract!InsertingAndRecalling(k, v, d)
      BY <2>1, <3>2, <3>3 DEF Abstract!InsertingAndRecalling
    <3> QED BY <3>4 DEF Abstract!Next
  <2> QED BY <2>2, <2>3
<1>3. ASSUME NEW k \in Keys, remove(k) PROVE Abstract!Next
  <2>1. CASE ~Exists(cache, k)
    <3>1. Abstract!Missing(k)
      BY <1>0, <1>3, <2>1 DEF remove, Exists, NoSuchEntry, Abstract!Missing
    <3> QED BY <3>1 DEF Abstract!Next
  <2>2. CASE Exists(cache, k)
    <3>1. cache' = RemoveEntry(cache, k) /\ result' = [kind |-> "returned"] /\ k \in ToSet(list)
      BY <1>0, <1>3, <2>2 DEF remove, Exists, Returned
    <3>2. /\ cache'.keyEntryMap = [j \in DOMAIN cache.keyEntryMap \ {k} |-> cache.keyEntryMap[j]]
          /\ cache'.lruList = EraseRef(list, k)
      BY <3>1 DEF RemoveEntry
    <3>3. RecencyOf(cache.lruList)' = {p \in RecencyOf(list) : p[1] # k /\ p[2] # k}
      <4>1. RecencyOf(cache.lruList)' = RecencyOf(cache'.lruList)
        BY DEF RecencyOf
      <4> QED BY <1>0, <3>1, <3>2, <4>1, EraseRefOrder
    <3>4. Abstract!Removing(k)
      BY <1>0, <3>1, <3>2, <3>3 DEF Abstract!Removing
    <3> QED BY <3>4 DEF Abstract!Next
  <2> QED BY <2>1, <2>2
<1>4. ASSUME NEW k \in Keys, lookup(k) PROVE Abstract!Next
  <2>1. CASE ~Exists(cache, k)
    <3>1. Abstract!Missing(k)
      BY <1>0, <1>4, <2>1 DEF lookup, Exists, NoSuchEntry, Abstract!Missing
    <3> QED BY <3>1 DEF Abstract!Next
  <2>2. CASE Exists(cache, k)
    <3>1. /\ cache' = Lookup(cache, k) /\ k \in ToSet(list)
          /\ result' = [kind |-> "found", data |-> cache.keyEntryMap[k].data]
      BY <1>0, <1>4, <2>2 DEF lookup, Exists, Found
    <3>2. cache'.keyEntryMap = cache.keyEntryMap /\ cache'.lruList = Refresh(list, k)
      BY <1>0, <3>1 DEF Lookup, Consistent
    <3>3. RecencyOf(cache.lruList)' = Used(RecencyOf(list), k, ToSet(list))
      <4>1. RecencyOf(cache.lruList)' = RecencyOf(cache'.lruList)
        BY DEF RecencyOf
      <4> QED BY <1>0, <3>1, <3>2, <4>1, RefreshUses
    <3>4. Abstract!LookingUp(k)
      BY <1>0, <3>1, <3>2, <3>3 DEF Abstract!LookingUp, Abstract!UseNow, Used
    <3> QED BY <3>4 DEF Abstract!Next
  <2> QED BY <2>1, <2>2
<1>5. ASSUME NEW k \in Keys, NEW d \in BOOLEAN, setDirtyBit(k, d) PROVE Abstract!Next
  <2>1. CASE ~Exists(cache, k)
    <3>1. Abstract!Missing(k)
      BY <1>0, <1>5, <2>1 DEF setDirtyBit, Exists, NoSuchEntry, Abstract!Missing
    <3> QED BY <3>1 DEF Abstract!Next
  <2>2. CASE Exists(cache, k)
    <3>1. cache' = SetDirtyBit(cache, k, d) /\ result' = [kind |-> "returned"]
      BY <1>5, <2>2 DEF setDirtyBit, Returned
    <3>2. /\ cache'.keyEntryMap = [cache.keyEntryMap EXCEPT ![k].dirty = d]
          /\ cache'.lruList = cache.lruList
      BY <1>0, <3>1 DEF SetDirtyBit, Consistent
    <3>3. RecencyOf(cache.lruList)' = RecencyOf(cache.lruList)
      BY <3>2 DEF RecencyOf
    <3>4. Abstract!Marking(k, d)
      BY <1>0, <2>2, <3>1, <3>2, <3>3 DEF Abstract!Marking, Exists
    <3> QED BY <3>4 DEF Abstract!Next
  <2> QED BY <2>1, <2>2
<1>6. CASE UNCHANGED lruVars
  BY <1>6 DEF lruVars, Abstract!vars, RecencyOf
<1> QED BY <1>1, <1>2, <1>3, <1>4, <1>5, <1>6 DEF LRUNext

\* The cache is the bounded map with least-recently-used eviction its users
\* take it for: after any calls it has the keys, contents and order of use of
\* the abstract one, evicts the key that was used least recently and tells the
\* caller of insertAndRecall exactly that entry.
THEOREM CacheImplementsRecency == LRUSpec => ImplementsRecencyCache
<1>1. LRUSpec => []LRUInv
  BY LRUInvInit, LRUInvNext, PTL DEF LRUSpec
<1>2. LRUInit => Abstract!Init
  BY InitRefines
<1>3. LRUInv /\ [LRUNext]_lruVars => [Abstract!Next]_(Abstract!vars)
  BY NextRefines
<1>4. LRUSpec => Abstract!Init /\ [][Abstract!Next]_(Abstract!vars)
  BY <1>1, <1>2, <1>3, PTL DEF LRUSpec
<1> QED BY <1>4 DEF ImplementsRecencyCache, Abstract!Spec
-----------------------------------------------------------------------------
(* DirectPagedCache.                                                       *)

(* A finite set of keys in order.                                          *)

LEMMA LeastNat ==
  ASSUME NEW T \in SUBSET Nat, T # {}
  PROVE  \E x \in T : \A y \in T : x <= y
<1>1. IsWellFoundedOn(OpToRel(<, Nat), Nat)
  BY NatLessThanWellFounded
<1>2. PICK x \in T : \A y \in T : ~(<<y, x>> \in OpToRel(<, Nat))
  BY <1>1, WFMin
<1>3. ASSUME NEW y \in T, ~(x <= y) PROVE FALSE
  <2>1. <<y, x>> \in Nat \X Nat /\ y < x
    BY <1>3
  <2>2. <<y, x>> \in {ss \in Nat \X Nat : ss[1] < ss[2]}
    BY <2>1
  <2>3. <<y, x>> \in OpToRel(<, Nat)
    BY <2>2 DEF OpToRel
  <2> QED BY <1>2, <2>3
<1> QED BY <1>3

LEMMA KeysAre ==
  /\ \A k \in Key : k = [filename |-> k.filename, key |-> k.key] /\ k.filename \in Files /\ k.key \in Nat
  /\ \A k \in Key : k.filename \in Nat
  /\ \A f, P : \A k : k \in KeysOf(f, P) <=> k = [filename |-> f, key |-> k.key] /\ k.key \in P
<1>1. ASSUME NEW k \in Key
      PROVE k = [filename |-> k.filename, key |-> k.key] /\ k.filename \in Files /\ k.key \in Nat
            /\ k.filename \in Nat
  <2>1. PICK g \in Regions : k \in KeysOf(g.file, g.pages)
    BY DEF Key
  <2>2. PICK p \in g.pages : k = [filename |-> g.file, key |-> p]
    BY <2>1 DEF KeysOf
  <2>3. g.file \in Files /\ p \in Nat /\ Files \subseteq Nat
    BY <2>2, DirectPagedAssumption
  <2> QED BY <2>2, <2>3
<1>2. \A f, P : \A k : k \in KeysOf(f, P) <=> k = [filename |-> f, key |-> k.key] /\ k.key \in P
  BY DEF KeysOf
<1> QED BY <1>1, <1>2

LEMMA FirstKey ==
  ASSUME NEW S \in SUBSET Key, S # {}
  PROVE  \E k \in S : \A j \in S \ {k} : KeyLess(k, j)
<1> DEFINE pages == {k.key : k \in S}
<1>1. pages \in SUBSET Nat /\ pages # {}
  BY KeysAre
<1>2. PICK p \in pages : \A q \in pages : p <= q
  BY <1>1, LeastNat
<1> DEFINE names == {k.filename : k \in {j \in S : j.key = p}}
<1>3. names \in SUBSET Nat /\ names # {}
  <2>1. \A k \in S : k.filename \in Nat
    BY KeysAre
  <2>2. \E k \in S : k.key = p
    BY <1>2
  <2> QED BY <2>1, <2>2
<1>4. PICK f \in names : \A g \in names : f <= g
  BY <1>3, LeastNat
<1>5. PICK k \in S : k.key = p /\ k.filename = f
  BY <1>4
<1>6. ASSUME NEW j \in S \ {k} PROVE KeyLess(k, j)
  <2>1. p <= j.key /\ p \in Nat /\ j.key \in Nat /\ f \in Nat /\ j.filename \in Nat
    BY <1>1, <1>2, <1>3, <1>4, KeysAre
  <2>2. CASE j.key # p
    BY <1>5, <2>1, <2>2 DEF KeyLess
  <2>3. CASE j.key = p
    <3>1. f <= j.filename
      BY <1>4, <2>3
    <3>2. j.filename # f
      BY <1>5, <2>3, KeysAre
    <3> QED BY <1>5, <2>1, <2>3, <3>1, <3>2 DEF KeyLess
  <2> QED BY <2>2, <2>3
<1> QED BY <1>6

\* s visits every key of S once, in order.
Visits(s, S) ==
  /\ s \in [1 .. Cardinality(S) -> S]
  /\ \A i, j \in DOMAIN s : i < j => KeyLess(s[i], s[j])

LEMMA SomeOrder ==
  ASSUME NEW S \in SUBSET Key, IsFiniteSet(S)
  PROVE  \E s : Visits(s, S) /\ \A k \in S : \E i \in DOMAIN s : s[i] = k
<1> DEFINE Ordered(s, T) == Visits(s, T) /\ \A k \in T : \E i \in DOMAIN s : s[i] = k
           Bad == {n \in Nat : \E T \in SUBSET Key : /\ IsFiniteSet(T) /\ Cardinality(T) = n
                                                   /\ ~\E s : Ordered(s, T)}
<1>1. ASSUME NEW n \in Bad, \A m \in Bad : n <= m PROVE FALSE
  <2>1. PICK T \in SUBSET Key : IsFiniteSet(T) /\ Cardinality(T) = n /\ ~\E s : Ordered(s, T)
    BY <1>1
  <2>2. T # {}
    <3>1. ASSUME T = {} PROVE FALSE
      <4>1. Cardinality(T) = 0
        BY <3>1, FS_EmptySet
      <4>2. Ordered(<<>>, T)
        BY <3>1, <4>1 DEF Visits
      <4> QED BY <2>1, <4>2
    <3> QED BY <3>1
  <2>3. PICK k \in T : \A j \in T \ {k} : KeyLess(k, j)
    BY <2>2, FirstKey
  <2> DEFINE U == T \ {k}
  <2>4. IsFiniteSet(U) /\ Cardinality(U) = n - 1 /\ n \in Nat /\ n # 0
    <3>1. IsFiniteSet(U) /\ Cardinality(U) = n - 1
      BY <2>1, <2>3, FS_RemoveElement
    <3>2. Cardinality(T) # 0
      BY <2>1, <2>2, FS_EmptySet
    <3> QED BY <2>1, <3>1, <3>2, FS_CardinalityType
  <2>5. PICK t : Ordered(t, U)
    <3>1. n - 1 \in Nat /\ ~(n <= n - 1)
      BY <2>4
    <3>2. n - 1 \notin Bad
      <4> HIDE DEF Bad
      <4> QED BY <1>1, <3>1
    <3> HIDE DEF Ordered
    <3> QED BY <2>4, <3>1, <3>2
  <2>6. /\ t \in [1 .. n - 1 -> U]
        /\ \A i, j \in 1 .. n - 1 : i < j => KeyLess(t[i], t[j])
        /\ \A j \in U : \E i \in 1 .. n - 1 : t[i] = j
    BY <2>4, <2>5 DEF Visits
  <2> DEFINE s == [i \in 1 .. n |-> IF i = 1 THEN k ELSE t[i - 1]]
  <2>7. \A i \in 1 .. n : i # 1 => i - 1 \in 1 .. n - 1 /\ s[i] = t[i - 1]
    BY <2>4
  <2>8. s \in [1 .. n -> T] /\ s[1] = k
    BY <2>3, <2>4, <2>6, <2>7
  <2>9. \A i, j \in 1 .. n : i < j => KeyLess(s[i], s[j])
    <3> SUFFICES ASSUME NEW i \in 1 .. n, NEW j \in 1 .. n, i < j PROVE KeyLess(s[i], s[j])
      OBVIOUS
    <3>1. j # 1 /\ j - 1 \in 1 .. n - 1 /\ s[j] = t[j - 1]
      BY <2>7
    <3>2. CASE i = 1
      BY <2>3, <2>6, <2>8, <3>1, <3>2
    <3>3. CASE i # 1
      <4>1. i - 1 \in 1 .. n - 1 /\ s[i] = t[i - 1] /\ i - 1 < j - 1
        BY <2>7, <3>3
      <4> HIDE DEF s
      <4> QED BY <2>6, <3>1, <4>1
    <3> QED BY <3>2, <3>3
  <2>10. \A j \in T : \E i \in 1 .. n : s[i] = j
    <3> SUFFICES ASSUME NEW j \in T PROVE \E i \in 1 .. n : s[i] = j
      OBVIOUS
    <3>1. CASE j = k
      BY <2>4, <2>8, <3>1
    <3>2. CASE j # k
      <4>1. PICK i \in 1 .. n - 1 : t[i] = j
        BY <2>6, <3>2
      <4>2. i + 1 \in 1 .. n /\ i + 1 # 1 /\ i + 1 - 1 = i
        BY <2>4
      <4>3. s[i + 1] = j
        BY <2>7, <4>1, <4>2
      <4> QED BY <4>2, <4>3
    <3> QED BY <3>1, <3>2
  <2>11. Ordered(s, T)
    <3> HIDE DEF s
    <3> QED BY <2>1, <2>8, <2>9, <2>10 DEF Visits
  <2> QED
    <3> HIDE DEF s, Ordered
    <3> QED BY <2>1, <2>11
<1>2. Cardinality(S) \notin Bad
  <2>1. Bad \in SUBSET Nat
    OBVIOUS
  <2> HIDE DEF Bad
  <2> QED BY <1>1, <2>1, LeastNat
<1>3. Cardinality(S) \in Nat
  BY FS_CardinalityType
<1> HIDE DEF Ordered
<1>4. \E s : Ordered(s, S)
  BY <1>2, <1>3
<1> QED BY <1>4 DEF Ordered

\* operator< is irreflexive, so that no key is visited twice.
LEMMA InOrderVisits ==
  ASSUME NEW S \in SUBSET Key, IsFiniteSet(S)
  PROVE  /\ Cardinality(S) \in Nat /\ InOrder(S) \in [1 .. Cardinality(S) -> S]
         /\ \A i, j \in 1 .. Cardinality(S) : InOrder(S)[i] = InOrder(S)[j] => i = j
         /\ \A k \in S : \E i \in 1 .. Cardinality(S) : InOrder(S)[i] = k
<1> DEFINE n == Cardinality(S)
           s == InOrder(S)
<1>1. n \in Nat
  BY FS_CardinalityType
<1>2. s \in [1 .. n -> S] /\ \A i, j \in 1 .. n : i < j => KeyLess(s[i], s[j])
  <2>1. PICK t \in [1 .. n -> S] : \A i, j \in DOMAIN t : i < j => KeyLess(t[i], t[j])
    BY SomeOrder DEF Visits
  <2>2. s \in [1 .. n -> S] /\ \A i, j \in DOMAIN s : i < j => KeyLess(s[i], s[j])
    BY <2>1 DEF InOrder
  <2> HIDE DEF s, n
  <2> QED BY <2>2
<1> HIDE DEF n, s
<1>3. \A k \in Key : ~KeyLess(k, k)
  BY KeysAre DEF KeyLess
<1>4. ASSUME NEW i \in 1 .. n, NEW j \in 1 .. n, s[i] = s[j] PROVE i = j
  <2>1. s[i] \in Key /\ s[j] \in Key
    BY <1>2
  <2>2. ~(i < j) /\ ~(j < i)
    BY <1>2, <1>3, <1>4, <2>1
  <2> QED BY <1>1, <2>2
<1>5. s \in Injection(1 .. n, S)
  BY <1>2, <1>4 DEF Injection, IsInjective
<1>6. IsFiniteSet(1 .. n) /\ Cardinality(1 .. n) = n
  BY <1>1, FS_Interval
<1>7. s \in Surjection(1 .. n, S)
  BY <1>5, <1>6, FS_Injection DEF n
<1>8. \A k \in S : \E i \in 1 .. n : s[i] = k
  BY <1>7 DEF Surjection
<1> QED BY <1>1, <1>2, <1>4, <1>8 DEF n, s

-----------------------------------------------------------------------------
(* The loops over a set of keys.                                           *)

\* What holds at first and is kept by every turn of a loop holds at its end.
LEMMA EveryTurn ==
  ASSUME NEW n \in Nat, NEW T, 0 \in T, \A i \in 1 .. n : i - 1 \in T => i \in T
  PROVE  \A i \in 0 .. n : i \in T
<1> DEFINE Bad == {i \in 0 .. n : i \notin T}
<1>1. ASSUME NEW i \in Bad, \A j \in Bad : i <= j PROVE FALSE
  <2>1. i \in 1 .. n /\ i - 1 \in 0 .. n /\ ~(i <= i - 1)
    OBVIOUS
  <2>2. i - 1 \in T
    BY <1>1, <2>1
  <2> QED BY <2>1, <2>2
<1>2. Bad \in SUBSET Nat
  OBVIOUS
<1>3. Bad = {}
  <2> HIDE DEF Bad
  <2> QED BY <1>1, <1>2, LeastNat
<1> QED BY <1>3

LEMMA MaxIsLast ==
  ASSUME NEW k \in Nat, NEW s \in SUBSET (1 .. k), k \in s
  PROVE  Max(s) = k
<1>1. \A y \in s : k >= y
  OBVIOUS
<1>2. \A x \in s : (\A y \in s : x >= y) => x = k
  OBVIOUS
<1> QED BY <1>1, <1>2 DEF Max

\* One turn of each loop; a says which loop it is.
LookupOne(store, k) == IF Exists(store, k) THEN Lookup(store, k) ELSE store
UpdateOne(isDirty, s, k) ==
  IF ~Overwrites(s.lru, k, isDirty) THEN s ELSE
  [lru |-> Insert(s.lru, pageCapacity, k, k.key, isDirty),
   out |-> IF InsertEvicts(s.lru, pageCapacity, k) /\ GetDirtyBit(s.lru, LRUKey(s.lru))
           THEN s.out \union {LRUKey(s.lru)} ELSE s.out]
WriteOne(c, parent, s, k) ==
  IF s # << >> /\ \A j \in Last(s).keys : j.filename = k.filename
  THEN Append(Front(s), ToFs(c, "write", Last(s).keys \union {k}, parent))
  ELSE Append(s, ToFs(c, "write", {k}, parent))
Do(a, x, k) ==
  IF a.loop = "lookup" THEN LookupOne(x, k)
  ELSE IF a.loop = "update" THEN UpdateOne(a.isDirty, x, k)
  ELSE IF a.loop = "flush" THEN RemoveEntry(x, k)
  ELSE WriteOne(a.cache, a.parent, x, k)

\* The function FoldLeft is defined by, on sets of positions.
Folds(f, a, base, n, q) ==
  f = [s \in SUBSET (1 .. n) |->
         IF s = {} THEN base ELSE Do(a, f[s \ {Max(s)}], q[Max(s)])]

LEMMA LoopEnds ==
  ASSUME NEW a, NEW base, NEW n \in Nat, NEW q
  PROVE  \E f : Folds(f, a, base, n, q)
<1> DEFINE T == {k \in 0 .. n : \E f : Folds(f, a, base, k, q)}
<1>1. 0 \in T
  <2> DEFINE f == [s \in SUBSET (1 .. 0) |-> base]
  <2>1. \A s \in SUBSET (1 .. 0) : s = {}
    OBVIOUS
  <2>2. Folds(f, a, base, 0, q)
    <3>1. \A s \in SUBSET (1 .. 0) :
            f[s] = IF s = {} THEN base ELSE Do(a, f[s \ {Max(s)}], q[Max(s)])
      BY <2>1
    <3>2. f = [s \in SUBSET (1 .. 0) |-> f[s]]
      OBVIOUS
    <3> HIDE DEF f
    <3> QED BY ONLY <3>1, <3>2 DEF Folds
  <2>3. 0 \in 0 .. n
    OBVIOUS
  <2> HIDE DEF f
  <2> QED BY <2>2, <2>3
<1>2. ASSUME NEW k \in 1 .. n, k - 1 \in T PROVE k \in T
  <2>1. PICK f : Folds(f, a, base, k - 1, q)
    BY <1>2
  <2> DEFINE S == SUBSET (1 .. k - 1)
             g == [s \in SUBSET (1 .. k) |-> IF k \in s THEN Do(a, f[s \ {k}], q[k]) ELSE f[s]]
  <2>2. \A s \in S : f[s] = IF s = {} THEN base ELSE Do(a, f[s \ {Max(s)}], q[Max(s)])
    BY <2>1 DEF Folds
  <2>3. ASSUME NEW s \in SUBSET (1 .. k)
        PROVE g[s] = IF s = {} THEN base ELSE Do(a, g[s \ {Max(s)}], q[Max(s)])
    <3>1. CASE k \in s
      <4>1. Max(s) = k
        BY <3>1, MaxIsLast
      <4>2. s # {} /\ s \ {k} \in SUBSET (1 .. k) /\ k \notin s \ {k}
        BY <3>1
      <4>3. g[s] = Do(a, f[s \ {k}], q[k]) /\ g[s \ {k}] = f[s \ {k}]
        BY <3>1, <4>2
      <4> HIDE DEF g
      <4> QED BY <4>1, <4>2, <4>3
    <3>2. CASE k \notin s
      <4>1. s \in S /\ s \ {Max(s)} \in SUBSET (1 .. k) /\ k \notin s \ {Max(s)}
        <5>1. \A x \in 1 .. k : x # k => x \in 1 .. k - 1
          OBVIOUS
        <5> QED BY <3>2, <5>1
      <4>2. g[s] = f[s] /\ g[s \ {Max(s)}] = f[s \ {Max(s)}]
        BY <3>2, <4>1
      <4> HIDE DEF g, S
      <4> QED BY <2>2, <4>1, <4>2
    <3> QED BY <3>1, <3>2
  <2>4. Folds(g, a, base, k, q)
    <3>1. g = [s \in SUBSET (1 .. k) |-> g[s]]
      OBVIOUS
    <3> HIDE DEF g
    <3> QED BY ONLY <2>3, <3>1 DEF Folds
  <2>5. k \in 0 .. n
    OBVIOUS
  <2> HIDE DEF g
  <2> QED BY <2>4, <2>5
<1>3. n \in 0 .. n
  OBVIOUS
<1>4. n \in T
  <2> HIDE DEF T
  <2> QED BY <1>1, <1>2, <1>3, EveryTurn
<1> QED BY <1>4

\* The states a loop goes through.
Runs(g, a, base, n, q) == g[0] = base /\ \A i \in 1 .. n : g[i] = Do(a, g[i - 1], q[i])

LEMMA FoldRuns ==
  ASSUME NEW a, NEW base, NEW n \in Nat, NEW q, NEW f, Folds(f, a, base, n, q)
  PROVE  \E g : Runs(g, a, base, n, q) /\ g[n] = f[1 .. n]
<1> DEFINE g == [k \in 0 .. n |-> f[1 .. k]]
<1>1. \A s \in SUBSET (1 .. n) : f[s] = IF s = {} THEN base ELSE Do(a, f[s \ {Max(s)}], q[Max(s)])
  BY DEF Folds
<1>2. g[0] = base
  <2>1. 1 .. 0 = {} /\ 0 \in 0 .. n
    OBVIOUS
  <2>2. g[0] = f[{}]
    BY <2>1
  <2> QED BY <1>1, <2>2
<1>3. ASSUME NEW i \in 1 .. n PROVE g[i] = Do(a, g[i - 1], q[i])
  <2>1. 1 .. i \in SUBSET (1 .. n) /\ i \in 1 .. i /\ (1 .. i) \ {i} = 1 .. (i - 1) /\ i \in Nat
    OBVIOUS
  <2>2. Max(1 .. i) = i
    BY <2>1, MaxIsLast
  <2>3. f[1 .. i] = Do(a, f[1 .. (i - 1)], q[i])
    BY <1>1, <2>1, <2>2
  <2>4. i \in 0 .. n /\ i - 1 \in 0 .. n
    OBVIOUS
  <2>5. g[i] = f[1 .. i] /\ g[i - 1] = f[1 .. (i - 1)]
    BY <2>4
  <2> HIDE DEF g
  <2> QED BY <2>3, <2>5
<1>4. g[n] = f[1 .. n]
  OBVIOUS
<1> HIDE DEF g
<1> QED BY <1>2, <1>3, <1>4 DEF Runs

LookupLoop == [loop |-> "lookup"]
UpdateLoop(isDirty) == [loop |-> "update", isDirty |-> isDirty]
FlushLoop == [loop |-> "flush"]
WriteLoop(c, parent) == [loop |-> "write", cache |-> c, parent |-> parent]

LEMMA LookupRuns ==
  ASSUME NEW store, NEW keys \in SUBSET Key, IsFiniteSet(keys)
  PROVE  \E g : /\ Runs(g, LookupLoop, store, Cardinality(keys), InOrder(keys))
                /\ LookupPages(store, keys) = g[Cardinality(keys)]
<1> DEFINE q == InOrder(keys)
           n == Cardinality(keys)
           Rec(f) == f = [s \in SUBSET (DOMAIN q) |->
                            IF s = {} THEN store
                            ELSE IF Exists(f[s \ {Max(s)}], q[Max(s)])
                                 THEN Lookup(f[s \ {Max(s)}], q[Max(s)]) ELSE f[s \ {Max(s)}]]
           f == CHOOSE h : Rec(h)
<1>1. n \in Nat /\ DOMAIN q = 1 .. n
  BY InOrderVisits
<1>2. LookupPages(store, keys) = f[DOMAIN q]
  BY DEF LookupPages, FoldLeft, MapThenFoldSet
<1>3. \A x, k : Do(LookupLoop, x, k) = IF Exists(x, k) THEN Lookup(x, k) ELSE x
  BY DEF Do, LookupLoop, LookupOne
<1> HIDE DEF q, n
<1>4. \A h : Rec(h) <=> Folds(h, LookupLoop, store, n, q)
  BY <1>1, <1>3 DEF Folds
<1> HIDE DEF Rec
<1>5. Folds(f, LookupLoop, store, n, q)
  <2>1. \E h : Rec(h)
    BY <1>1, <1>4, LoopEnds
  <2> QED BY <1>4, <2>1
<1> HIDE DEF f
<1>6. PICK g : Runs(g, LookupLoop, store, n, q) /\ g[n] = f[1 .. n]
  BY <1>1, <1>5, FoldRuns
<1> QED BY <1>1, <1>2, <1>6 DEF q, n

LEMMA UpdateRuns ==
  ASSUME NEW store, NEW keys \in SUBSET Key, IsFiniteSet(keys), NEW d
  PROVE  \E g : /\ Runs(g, UpdateLoop(d), [lru |-> store, out |-> {}], Cardinality(keys), InOrder(keys))
                /\ UpdateCache(store, keys, d) = g[Cardinality(keys)]
<1> DEFINE q == InOrder(keys)
           n == Cardinality(keys)
           base == [lru |-> store, out |-> {}]
           One(s, k) ==
             IF ~Overwrites(s.lru, k, d) THEN s ELSE
             [lru |-> Insert(s.lru, pageCapacity, k, k.key, d),
              out |-> IF InsertEvicts(s.lru, pageCapacity, k) /\ GetDirtyBit(s.lru, LRUKey(s.lru))
                      THEN s.out \union {LRUKey(s.lru)} ELSE s.out]
           Rec(f) == f = [s \in SUBSET (DOMAIN q) |->
                            IF s = {} THEN base ELSE One(f[s \ {Max(s)}], q[Max(s)])]
           f == CHOOSE h : Rec(h)
<1>1. n \in Nat /\ DOMAIN q = 1 .. n
  BY InOrderVisits
<1>2. UpdateCache(store, keys, d) = f[DOMAIN q]
  BY DEF UpdateCache, FoldLeft, MapThenFoldSet
<1>3. \A x, k : Do(UpdateLoop(d), x, k) = One(x, k)
  BY DEF Do, UpdateLoop, UpdateOne
<1> HIDE DEF q, n, One, base
<1>4. \A h : Rec(h) <=> Folds(h, UpdateLoop(d), base, n, q)
  BY <1>1, <1>3 DEF Folds
<1> HIDE DEF Rec
<1>5. Folds(f, UpdateLoop(d), base, n, q)
  <2>1. \E h : Rec(h)
    BY <1>1, <1>4, LoopEnds
  <2> QED BY <1>4, <2>1
<1> HIDE DEF f
<1>6. PICK g : Runs(g, UpdateLoop(d), base, n, q) /\ g[n] = f[1 .. n]
  BY <1>1, <1>5, FoldRuns
<1> QED BY <1>1, <1>2, <1>6 DEF q, n, base

LEMMA FlushRuns ==
  ASSUME NEW f0, NEW keys \in SUBSET Key, IsFiniteSet(keys),
         keys = {k \in DOMAIN lruCache.keyEntryMap : k.filename = f0}
  PROVE  \E g : /\ Runs(g, FlushLoop, lruCache, Cardinality(keys), InOrder(keys))
                /\ FlushCache(f0) = g[Cardinality(keys)]
<1> DEFINE q == InOrder(keys)
           n == Cardinality(keys)
           Rec(f) == f = [s \in SUBSET (DOMAIN q) |->
                            IF s = {} THEN lruCache ELSE RemoveEntry(f[s \ {Max(s)}], q[Max(s)])]
           f == CHOOSE h : Rec(h)
<1>1. n \in Nat /\ DOMAIN q = 1 .. n
  BY InOrderVisits
<1>2. FlushCache(f0) = f[DOMAIN q]
  BY DEF FlushCache, FoldLeft, MapThenFoldSet
<1>3. \A x, k : Do(FlushLoop, x, k) = RemoveEntry(x, k)
  BY DEF Do, FlushLoop
<1> HIDE DEF q, n
<1>4. \A h : Rec(h) <=> Folds(h, FlushLoop, lruCache, n, q)
  BY <1>1, <1>3 DEF Folds
<1> HIDE DEF Rec
<1>5. Folds(f, FlushLoop, lruCache, n, q)
  <2>1. \E h : Rec(h)
    BY <1>1, <1>4, LoopEnds
  <2> QED BY <1>4, <2>1
<1> HIDE DEF f
<1>6. PICK g : Runs(g, FlushLoop, lruCache, n, q) /\ g[n] = f[1 .. n]
  BY <1>1, <1>5, FoldRuns
<1> QED BY <1>1, <1>2, <1>6 DEF q, n

LEMMA WriteRuns ==
  ASSUME NEW c, NEW parent, NEW keys \in SUBSET Key, IsFiniteSet(keys)
  PROVE  \E g : /\ Runs(g, WriteLoop(c, parent), << >>, Cardinality(keys), InOrder(keys))
                /\ Writebacks(c, keys, parent) = g[Cardinality(keys)]
<1> DEFINE q == InOrder(keys)
           n == Cardinality(keys)
           One(s, k) ==
             IF s # << >> /\ \A j \in Last(s).keys : j.filename = k.filename
             THEN Append(Front(s), ToFs(c, "write", Last(s).keys \union {k}, parent))
             ELSE Append(s, ToFs(c, "write", {k}, parent))
           Rec(f) == f = [s \in SUBSET (DOMAIN q) |->
                            IF s = {} THEN << >> ELSE One(f[s \ {Max(s)}], q[Max(s)])]
           f == CHOOSE h : Rec(h)
<1>1. n \in Nat /\ DOMAIN q = 1 .. n
  BY InOrderVisits
<1>2. Writebacks(c, keys, parent) = f[DOMAIN q]
  BY DEF Writebacks, FoldLeft, MapThenFoldSet
<1>3. \A x, k : Do(WriteLoop(c, parent), x, k) = One(x, k)
  BY DEF Do, WriteLoop, WriteOne
<1> HIDE DEF q, n, One
<1>4. \A h : Rec(h) <=> Folds(h, WriteLoop(c, parent), << >>, n, q)
  BY <1>1, <1>3 DEF Folds
<1> HIDE DEF Rec
<1>5. Folds(f, WriteLoop(c, parent), << >>, n, q)
  <2>1. \E h : Rec(h)
    BY <1>1, <1>4, LoopEnds
  <2> QED BY <1>4, <2>1
<1> HIDE DEF f
<1>6. PICK g : Runs(g, WriteLoop(c, parent), << >>, n, q) /\ g[n] = f[1 .. n]
  BY <1>1, <1>5, FoldRuns
<1> QED BY <1>1, <1>2, <1>6 DEF q, n

-----------------------------------------------------------------------------
(* What the loops leave.                                                   *)

Good(store) == Consistent(store, Key, Nat, pageCapacity)

LEMMA CachedFinite ==
  ASSUME NEW store, Good(store)
  PROVE  IsFiniteSet(DOMAIN store.keyEntryMap) /\ DOMAIN store.keyEntryMap \in SUBSET Key
         /\ Len(store.lruList) = Cardinality(DOMAIN store.keyEntryMap)
<1> DEFINE q == store.lruList
           D == DOMAIN store.keyEntryMap
<1>1. q \in Seq(Key) /\ Distinct(q) /\ ToSet(q) = D /\ D \in SUBSET Key
  BY DEF Good, Consistent
<1>2. Len(q) \in Nat /\ DOMAIN q = 1 .. Len(q) /\ q \in [1 .. Len(q) -> Key]
  BY <1>1
<1>3. D = {q[i] : i \in 1 .. Len(q)}
  BY <1>1, <1>2 DEF ToSet
<1> HIDE DEF q, D
<1>4. q \in Surjection(1 .. Len(q), D) /\ q \in Injection(1 .. Len(q), D)
  BY <1>1, <1>2, <1>3 DEF Surjection, Injection, IsInjective, Distinct
<1>5. IsFiniteSet(1 .. Len(q)) /\ Cardinality(1 .. Len(q)) = Len(q)
  BY <1>2, FS_Interval
<1>6. IsFiniteSet(D) /\ Cardinality(D) = Len(q)
  BY <1>4, <1>5, FS_Surjection
<1> QED BY <1>1, <1>6 DEF q, D

LEMMA LookupLeaves ==
  ASSUME NEW store, Good(store), NEW keys \in SUBSET Key, IsFiniteSet(keys)
  PROVE  Good(LookupPages(store, keys)) /\ LookupPages(store, keys).keyEntryMap = store.keyEntryMap
<1> DEFINE q == InOrder(keys)
           n == Cardinality(keys)
<1>1. n \in Nat /\ q \in [1 .. n -> keys]
  BY InOrderVisits
<1>2. PICK g : Runs(g, LookupLoop, store, n, q) /\ LookupPages(store, keys) = g[n]
  BY LookupRuns
<1> HIDE DEF n, q
<1> DEFINE T == {i \in 0 .. n : Good(g[i]) /\ g[i].keyEntryMap = store.keyEntryMap}
<1>3. 0 \in T
  BY <1>1, <1>2 DEF Runs
<1>4. ASSUME NEW i \in 1 .. n, i - 1 \in T PROVE i \in T
  <2> DEFINE c == g[i - 1]
             k == q[i]
  <2>1. g[i] = IF Exists(c, k) THEN Lookup(c, k) ELSE c
    BY <1>2 DEF Runs, Do, LookupLoop, LookupOne
  <2>2. Good(c) /\ c.keyEntryMap = store.keyEntryMap /\ i \in 0 .. n
    BY <1>4
  <2> HIDE DEF c, k
  <2>3. CASE Exists(c, k)
    <3>1. Good(Lookup(c, k))
      BY <2>2, <2>3, LookupKeeps DEF Good, Exists
    <3>2. Lookup(c, k).keyEntryMap = c.keyEntryMap
      BY <2>2 DEF Lookup, Good, Consistent
    <3> QED BY <2>1, <2>2, <2>3, <3>1, <3>2
  <2>4. CASE ~Exists(c, k)
    BY <2>1, <2>2, <2>4
  <2> QED BY <2>3, <2>4
<1>5. n \in T
  <2>1. n \in 0 .. n
    BY <1>1
  <2> HIDE DEF T
  <2> QED BY <1>1, <1>3, <1>4, <2>1, EveryTurn
<1> QED BY <1>2, <1>5

\* What is pushed out of the cache dirty is handed back, and nothing clean takes
\* the place of what is dirty.
LEMMA UpdateLeaves ==
  ASSUME NEW store, Good(store), NEW keys \in SUBSET Key, IsFiniteSet(keys), NEW d \in BOOLEAN
  PROVE  LET u == UpdateCache(store, keys, d)
         IN  /\ Good(u.lru) /\ u.out \in SUBSET Key /\ IsFiniteSet(u.out)
             /\ DOMAIN u.lru.keyEntryMap \subseteq DOMAIN store.keyEntryMap \cup keys
             /\ GetDirtyEntries(store) \subseteq GetDirtyEntries(u.lru) \cup u.out
<1> DEFINE q == InOrder(keys)
           n == Cardinality(keys)
           Right(s) == /\ Good(s.lru) /\ s.out \in SUBSET Key /\ IsFiniteSet(s.out)
                       /\ DOMAIN s.lru.keyEntryMap \subseteq DOMAIN store.keyEntryMap \cup keys
                       /\ GetDirtyEntries(store) \subseteq GetDirtyEntries(s.lru) \cup s.out
<1>1. n \in Nat /\ q \in [1 .. n -> keys]
  BY InOrderVisits
<1>2. PICK g : Runs(g, UpdateLoop(d), [lru |-> store, out |-> {}], n, q) /\ UpdateCache(store, keys, d) = g[n]
  BY UpdateRuns
<1> HIDE DEF n, q
<1> DEFINE T == {i \in 0 .. n : Right(g[i])}
<1>3. 0 \in T
  <2>1. g[0] = [lru |-> store, out |-> {}]
    BY <1>2 DEF Runs
  <2>2. g[0].lru = store /\ g[0].out = {} /\ IsFiniteSet({})
    BY <2>1, FS_EmptySet
  <2>3. Right(g[0])
    <3>1. Good(store) /\ {} \in SUBSET Key
      OBVIOUS
    <3> QED BY ONLY <2>2, <3>1
  <2>4. 0 \in 0 .. n
    BY <1>1
  <2> HIDE DEF Right
  <2> QED BY <2>3, <2>4
<1>4. ASSUME NEW i \in 1 .. n, i - 1 \in T PROVE i \in T
  <2> DEFINE s == g[i - 1]
             k == q[i]
             c == s.lru
  <2>1. g[i] = UpdateOne(d, s, k) /\ k \in Key /\ k \in keys /\ k.key \in Nat
    BY <1>1, <1>2, KeysAre DEF Runs, Do, UpdateLoop
  <2>2. Right(s) /\ i \in 0 .. n
    BY <1>4
  <2> HIDE DEF s, k, Right
  <2>3. CASE ~Overwrites(c, k, d)
    BY <2>1, <2>2, <2>3 DEF UpdateOne
  <2>4. CASE Overwrites(c, k, d)
    <3> DEFINE new == Insert(c, pageCapacity, k, k.key, d)
               gone == IF InsertEvicts(c, pageCapacity, k) /\ GetDirtyBit(c, LRUKey(c))
                       THEN {LRUKey(c)} ELSE {}
    <3>1. g[i].lru = new /\ g[i].out = s.out \cup gone
      BY <2>1, <2>4 DEF UpdateOne
    <3>2. Good(c) /\ s.out \in SUBSET Key /\ IsFiniteSet(s.out)
          /\ DOMAIN c.keyEntryMap \subseteq DOMAIN store.keyEntryMap \cup keys
          /\ GetDirtyEntries(store) \subseteq GetDirtyEntries(c) \cup s.out
      BY <2>2 DEF Right
    <3>3. Good(new)
      BY <2>1, <3>2, InsertKeeps DEF Good
    <3>4. /\ DOMAIN new.keyEntryMap = (DOMAIN c.keyEntryMap \ EvictedBy(c, pageCapacity, k)) \union {k}
          /\ GetDirtyEntries(new) =
               (GetDirtyEntries(c) \ (EvictedBy(c, pageCapacity, k) \union {k}))
                 \union (IF d THEN {k} ELSE {})
      BY InsertDirty
    <3>5. InsertEvicts(c, pageCapacity, k) => LRUKey(c) \in Key /\ LRUKey(c) \in DOMAIN c.keyEntryMap
      <4>1. InsertEvicts(c, pageCapacity, k) => LRUKey(c) \in DOMAIN c.keyEntryMap
        BY <3>2, LRUKeyCached DEF Good, InsertEvicts
      <4> QED BY <3>2, <4>1, CachedFinite
    <3>6. s.out \cup gone \in SUBSET Key /\ IsFiniteSet(s.out \cup gone)
      <4>1. CASE gone = {}
        BY <3>2, <4>1
      <4>2. CASE gone # {}
        BY <3>2, <3>5, <4>2, FS_AddElement
      <4> QED BY <4>1, <4>2
    <3>7. DOMAIN new.keyEntryMap \subseteq DOMAIN store.keyEntryMap \cup keys
      <4> HIDE DEF new
      <4> QED BY <2>1, <3>2, <3>4
    <3>8. ASSUME NEW x \in GetDirtyEntries(c) PROVE x \in GetDirtyEntries(new) \cup gone
      <4>1. x \in DOMAIN c.keyEntryMap /\ GetDirtyBit(c, x)
        BY DEF GetDirtyEntries, GetDirtyBit
      <4>2. CASE x \in EvictedBy(c, pageCapacity, k)
        BY <4>1, <4>2 DEF EvictedBy
      <4>3. CASE x = k
        <5>1. d
          BY <2>4, <4>1, <4>3 DEF Overwrites, Exists
        <5> HIDE DEF new
        <5> QED BY <3>4, <4>3, <5>1
      <4>4. CASE x \notin EvictedBy(c, pageCapacity, k) /\ x # k
        <5> HIDE DEF new
        <5> QED BY <3>4, <4>4
      <4> QED BY <4>2, <4>3, <4>4
    <3>9. Right(g[i])
      <4> HIDE DEF new, gone, c
      <4> QED BY <3>1, <3>2, <3>3, <3>6, <3>7, <3>8 DEF Right
    <3> QED BY <2>2, <3>9
  <2> QED BY <2>3, <2>4
<1>5. n \in T
  <2>1. n \in 0 .. n
    BY <1>1
  <2> HIDE DEF T
  <2> QED BY <1>1, <1>3, <1>4, <2>1, EveryTurn
<1>6. Right(UpdateCache(store, keys, d))
  BY <1>2, <1>5
<1> QED BY <1>6

\* A flush takes the pages of its file, and no others, out of the cache.
LEMMA FlushLeaves ==
  ASSUME NEW f, Good(lruCache)
  PROVE  /\ Good(FlushCache(f))
         /\ DOMAIN FlushCache(f).keyEntryMap = {k \in DOMAIN lruCache.keyEntryMap : k.filename # f}
         /\ GetDirtyEntries(FlushCache(f)) = {k \in GetDirtyEntries(lruCache) : k.filename # f}
<1> DEFINE D == DOMAIN lruCache.keyEntryMap
           keys == {k \in D : k.filename = f}
           q == InOrder(keys)
           n == Cardinality(keys)
           Taken(i) == {q[j] : j \in 1 .. i}
<1>1. keys \in SUBSET Key /\ IsFiniteSet(keys)
  BY CachedFinite, FS_Subset
<1>2. /\ n \in Nat /\ q \in [1 .. n -> keys]
      /\ \A i, j \in 1 .. n : q[i] = q[j] => i = j
      /\ \A k \in keys : \E i \in 1 .. n : q[i] = k
  BY <1>1, InOrderVisits
<1>3. PICK g : Runs(g, FlushLoop, lruCache, n, q) /\ FlushCache(f) = g[n]
  BY <1>1, FlushRuns
<1> HIDE DEF n, q
<1> DEFINE Right(i) == /\ Good(g[i]) /\ DOMAIN g[i].keyEntryMap = D \ Taken(i)
                       /\ GetDirtyEntries(g[i]) = GetDirtyEntries(lruCache) \ Taken(i)
           T == {i \in 0 .. n : Right(i)}
<1>4. 0 \in T
  <2>1. Taken(0) = {} /\ g[0] = lruCache
    BY <1>3 DEF Runs
  <2> QED BY <1>2, <2>1
<1>5. ASSUME NEW i \in 1 .. n, i - 1 \in T PROVE i \in T
  <2> DEFINE k == q[i]
             c == g[i - 1]
  <2>1. g[i] = RemoveEntry(c, k)
    BY <1>3 DEF Runs, Do, FlushLoop
  <2>2. Right(i - 1)
    BY <1>5
  <2>3. k \in D /\ k \notin Taken(i - 1)
    BY <1>2
  <2>4. Taken(i) = Taken(i - 1) \cup {k}
    <3>1. 1 .. i = (1 .. (i - 1)) \cup {i}
      OBVIOUS
    <3> QED BY <3>1
  <2>5. k \in DOMAIN c.keyEntryMap
    BY <2>2, <2>3
  <2>6. /\ DOMAIN RemoveEntry(c, k).keyEntryMap = DOMAIN c.keyEntryMap \ {k}
        /\ GetDirtyEntries(RemoveEntry(c, k)) = GetDirtyEntries(c) \ {k}
    BY RemoveEntryDirty
  <2>7. Good(RemoveEntry(c, k))
    BY <2>2, <2>5, RemoveEntryKeeps DEF Good
  <2>8. Right(i)
    <3> HIDE DEF Taken, c, k, D
    <3> QED BY <2>1, <2>2, <2>4, <2>6, <2>7 DEF c
  <2> HIDE DEF Right
  <2> QED BY <2>8
<1>6. n \in T
  <2>1. n \in 0 .. n
    BY <1>2
  <2> HIDE DEF T
  <2> QED BY <1>2, <1>4, <1>5, <2>1, EveryTurn
<1>7. Taken(n) = keys
  BY <1>2
<1>8. GetDirtyEntries(lruCache) \subseteq D
  BY DEF GetDirtyEntries
<1> HIDE DEF Taken
<1> QED BY <1>3, <1>6, <1>7, <1>8

\* The write-backs are writes of the keys and of no others.
Writes(W, c, keys, parent) ==
  /\ W \in Seq([cache : {c}, kind : {"write"}, keys : SUBSET keys, parent : {parent}])
  /\ \A k \in keys : \E i \in 1 .. Len(W) : k \in W[i].keys

LEMMA WritebacksLeave ==
  ASSUME NEW c, NEW parent, NEW keys \in SUBSET Key, IsFiniteSet(keys)
  PROVE  Writes(Writebacks(c, keys, parent), c, keys, parent)
<1> DEFINE q == InOrder(keys)
           n == Cardinality(keys)
           M == [cache : {c}, kind : {"write"}, keys : SUBSET keys, parent : {parent}]
           Has(s, k) == \E m \in 1 .. Len(s) : k \in s[m].keys
<1>1. n \in Nat /\ q \in [1 .. n -> keys] /\ \A k \in keys : \E i \in 1 .. n : q[i] = k
  BY InOrderVisits
<1>2. PICK g : Runs(g, WriteLoop(c, parent), << >>, n, q) /\ Writebacks(c, keys, parent) = g[n]
  BY WriteRuns
<1> HIDE DEF n, q
<1> DEFINE T == {i \in 0 .. n : g[i] \in Seq(M) /\ \A j \in 1 .. i : Has(g[i], q[j])}
<1>3. 0 \in T
  <2>1. g[0] = << >> /\ << >> \in Seq(M) /\ 1 .. 0 = {}
    BY <1>2 DEF Runs
  <2>2. 0 \in 0 .. n
    BY <1>1
  <2>3. g[0] \in Seq(M) /\ \A j \in 1 .. 0 : Has(g[0], q[j])
    <3> HIDE DEF M, Has
    <3> QED BY <2>1
  <2> HIDE DEF M, Has
  <2> QED BY <2>2, <2>3
<1>4. ASSUME NEW i \in 1 .. n, i - 1 \in T PROVE i \in T
  <2> DEFINE s == g[i - 1]
             k == q[i]
  <2>1. g[i] = WriteOne(c, parent, s, k) /\ k \in keys
    BY <1>1, <1>2 DEF Runs, Do, WriteLoop
  <2>2. s \in Seq(M) /\ \A j \in 1 .. i - 1 : Has(s, q[j])
    BY <1>4
  <2> HIDE DEF s, k
  <2>3. ASSUME NEW e \in M, NEW t \in Seq(M), k \in e.keys, g[i] = Append(t, e),
               \A x : Has(s, x) => Has(t, x) \/ x \in e.keys
        PROVE  i \in T
    <3>1. Len(t) \in Nat /\ Len(g[i]) = Len(t) + 1 /\ g[i] \in Seq(M)
      BY <2>3
    <3>2. g[i][Len(t) + 1] = e /\ \A m \in 1 .. Len(t) : g[i][m] = t[m]
      BY <2>3
    <3>3. \A x : Has(t, x) \/ x \in e.keys => Has(g[i], x)
      <4>1. Len(t) + 1 \in 1 .. Len(g[i]) /\ \A m \in 1 .. Len(t) : m \in 1 .. Len(g[i])
        BY <3>1
      <4> QED BY <3>2, <4>1
    <3>4. \A j \in 1 .. i : j = i \/ j \in 1 .. i - 1
      OBVIOUS
    <3>5. \A j \in 1 .. i : Has(g[i], q[j])
      <4> HIDE DEF Has
      <4> QED BY <2>2, <2>3, <3>3, <3>4 DEF k
    <3>6. i \in 0 .. n
      OBVIOUS
    <3> QED BY <3>1, <3>5, <3>6
  <2>4. CASE s # << >> /\ \A j \in Last(s).keys : j.filename = k.filename
    <3> DEFINE e == ToFs(c, "write", Last(s).keys \union {k}, parent)
               t == Front(s)
    <3>1. g[i] = Append(t, e)
      BY <2>1, <2>4 DEF WriteOne
    <3>2. Len(s) \in Nat /\ Len(s) # 0 /\ s[Len(s)] \in M
      <4> HIDE DEF M
      <4>1. Len(s) \in Nat /\ Len(s) # 0
        BY <2>2, <2>4, EmptySeq
      <4> QED BY <2>2, <4>1
    <3>3. t \in Seq(M) /\ Len(t) = Len(s) - 1 /\ \A m \in 1 .. Len(s) - 1 : t[m] = s[m]
      <4>1. Len(s) - 1 \in Nat /\ 1 \in Int /\ \A m \in 1 .. Len(s) - 1 : m \in 1 .. Len(s)
        BY <3>2
      <4> HIDE DEF M, T
      <4>2. s \in Seq(M)
        BY <2>2
      <4>3. t = SubSeq(s, 1, Len(s) - 1)
        BY DEF Front
      <4>6. 1 \in 1 .. Len(s) + 1 /\ Len(s) - 1 \in 1 - 1 .. Len(s) /\ Len(s) - 1 - 1 + 1 = Len(s) - 1
        BY <3>2
      <4>4. t \in Seq(M) /\ Len(t) = Len(s) - 1
        <5>1. SubSeq(s, 1, Len(s) - 1) \in Seq(M)
          BY <4>2, <4>6, SubSeqProperties
        <5>2. Len(SubSeq(s, 1, Len(s) - 1)) = Len(s) - 1
          BY <3>2, <4>2, <4>6, SubSeqProperties
        <5> QED BY <4>3, <5>1, <5>2
      <4>5. \A m \in 1 .. Len(s) - 1 : t[m] = s[m]
        BY <4>1, <4>2, <4>3, SubSeqProperties
      <4> QED BY <4>4, <4>5
    <3>4. e \in M /\ k \in e.keys /\ \A x \in s[Len(s)].keys : x \in e.keys
      BY <2>1, <3>2 DEF ToFs, Last
    <3>5. \A x : Has(s, x) => Has(t, x) \/ x \in e.keys
      <4> SUFFICES ASSUME NEW x, NEW m \in 1 .. Len(s), x \in s[m].keys PROVE Has(t, x) \/ x \in e.keys
        OBVIOUS
      <4>1. m = Len(s) \/ m \in 1 .. Len(s) - 1
        BY <3>2
      <4> HIDE DEF e, t
      <4> QED BY <3>3, <3>4, <4>1
    <3> HIDE DEF e, t, M, T, Has
    <3> QED BY <2>3, <3>1, <3>3, <3>4, <3>5
  <2>5. CASE ~(s # << >> /\ \A j \in Last(s).keys : j.filename = k.filename)
    <3> DEFINE e == ToFs(c, "write", {k}, parent)
    <3>1. g[i] = Append(s, e)
      BY <2>1, <2>5 DEF WriteOne
    <3>2. e \in M /\ k \in e.keys
      BY <2>1 DEF ToFs
    <3> HIDE DEF e, M, T, Has
    <3> QED BY <2>2, <2>3, <3>1, <3>2
  <2> QED BY <2>4, <2>5
<1>5. n \in T
  <2>1. n \in 0 .. n
    BY <1>1
  <2> HIDE DEF T
  <2> QED BY <1>1, <1>3, <1>4, <2>1, EveryTurn
<1>6. g[n] \in Seq(M) /\ \A k \in keys : Has(g[n], k)
  <2>1. g[n] \in Seq(M) /\ \A j \in 1 .. n : Has(g[n], q[j])
    <3> HIDE DEF M, Has
    <3> QED BY <1>5
  <2> HIDE DEF M, Has
  <2> QED BY <1>1, <2>1
<1> QED BY <1>2, <1>6 DEF Writes

-----------------------------------------------------------------------------
(* The invariant.                                                          *)

Kinds == {"open", "close", "read", "write"}
MsgKinds == {"open", "close", "bypass", "read", "write"}
PassedOn(m) == m.kind \in {"open", "close", "bypass"}
Message(n) == [cache : Caches, kind : MsgKinds, keys : SUBSET Key, parent : 0 .. n]

\* The requests that are not answered, of which n were issued; a read or a write
\* is of a file its process has open.
ReqOK(q, open) ==
  /\ q \in [cache : Caches, kind : Kinds, file : Files, keys : SUBSET Key]
  /\ IsFiniteSet(q.keys) /\ \A k \in q.keys : k.filename = q.file
  /\ q.kind \in {"read", "write"} => q.file \in open[q.cache]
Reqs(asks, n, open) ==
  /\ asks = [r \in DOMAIN asks |-> asks[r]]
  /\ DOMAIN asks \subseteq 1 .. n
  /\ \A r \in DOMAIN asks : ReqOK(asks[r], open)

\* A message at the file system.  One that is passed on belongs to a request
\* that waits for nothing else, and a read to one of its file.
MsgOK(m, asks) ==
  /\ IsFiniteSet(m.keys)
  /\ PassedOn(m) => /\ m.parent \in DOMAIN asks /\ asks[m.parent].cache = m.cache
                    /\ (m.kind = "open") <=> (asks[m.parent].kind = "open")
  /\ m.kind = "read" /\ m.parent \in DOMAIN asks =>
       /\ asks[m.parent].cache = m.cache /\ asks[m.parent].kind \in {"read", "write"}
       /\ \A k \in m.keys : k.filename = asks[m.parent].file
Msgs(msgs, asks, n) ==
  /\ msgs \in Seq(Message(n))
  /\ \A i \in 1 .. Len(msgs) : MsgOK(msgs[i], asks)
  /\ \A i, j \in 1 .. Len(msgs) : PassedOn(msgs[i]) /\ i # j => msgs[j].parent # msgs[i].parent

\* The pending pages of one module: its own requests, none of them one whose
\* message is passed on.
PendOK(c, pend, asks) ==
  /\ pend = [r \in DOMAIN pend |-> pend[r]]
  /\ \A r \in DOMAIN pend :
       /\ pend[r] \in [readPages : SUBSET Key, writePages : SUBSET Key]
       /\ r # NoParent => r \in DOMAIN asks /\ asks[r].cache = c /\ asks[r].kind # "open"
PassedFree(msgs, pend) ==
  \A i \in 1 .. Len(msgs) : PassedOn(msgs[i]) => msgs[i].parent \notin DOMAIN pend

\* Every page waited for is in a message of the kind.
Sent(c, kind, k, msgs) ==
  \E i \in 1 .. Len(msgs) : msgs[i].cache = c /\ msgs[i].kind = kind /\ k \in msgs[i].keys
Waits(c, pend, msgs) ==
  \A r \in DOMAIN pend : /\ \A k \in pend[r].readPages : Sent(c, "read", k, msgs)
                         /\ \A k \in pend[r].writePages : Sent(c, "write", k, msgs)
ModuleOK(c, pend, asks, msgs) == PendOK(c, pend, asks) /\ PassedFree(msgs, pend) /\ Waits(c, pend, msgs)

\* The processes that have a file open or are opening it.
Opens(q, c, f) == q.cache = c /\ q.kind = "open" /\ q.file = f
Holders(f, asks, open) ==
  {c \in Caches : f \in open[c] \/ \E r \in DOMAIN asks : Opens(asks[r], c, f)}

\* The requests, the messages and the pending pages agree, p being those of c
\* and the other modules' as they are.
Agree(asks, n, open, msgs, c, p) ==
  /\ Reqs(asks, n, open) /\ Msgs(msgs, asks, n)
  /\ ModuleOK(c, p, asks, msgs)
  /\ \A b \in Caches \ {c} : ModuleOK(b, pendingPages[b], asks, msgs)

\* The counts of opens, and the cache that follows them.
Counted(counts, asks, open) == counts = [f \in Files |-> Cardinality(Holders(f, asks, open))]
CacheOpen(store, counts) == Good(store) /\ \A k \in DOMAIN store.keyEntryMap : counts[k.filename] # 0

DPInv ==
  /\ issued \in Nat /\ failed \in {"no", "assert", "deleted"}
  /\ isOpen \in [Caches -> SUBSET Files]
  /\ pendingPages = [c \in Caches |-> pendingPages[c]]
  /\ Reqs(live, issued, isOpen) /\ Msgs(fs, live, issued)
  /\ \A c \in Caches : ModuleOK(c, pendingPages[c], live, fs)
  /\ Counted(openFileCounts, live, isOpen)
  /\ CacheOpen(lruCache, openFileCounts)

-----------------------------------------------------------------------------
(* What handling a request or an answer does to them.                      *)

LEMMA InvAgrees ==
  ASSUME DPInv, NEW c \in Caches
  PROVE  Agree(live, issued, isOpen, fs, c, pendingPages[c])
BY DEF DPInv, Agree

\* completeRequests answers requests that wait for nothing and are no opens.
LEMMA Completes ==
  ASSUME NEW asks, NEW n, NEW open, NEW msgs, NEW c \in Caches, NEW p,
         Agree(asks, n, open, msgs, c, p)
  PROVE  LET done == Completed(p, asks)
         IN  /\ Agree(Without(asks, done), n, open, msgs, c, Without(p, done))
             /\ \A f : Holders(f, Without(asks, done), open) = Holders(f, asks, open)
<1> DEFINE done == Completed(p, asks)
           asks2 == Without(asks, done)
           p2 == Without(p, done)
<1>1. /\ Reqs(asks, n, open) /\ Msgs(msgs, asks, n) /\ ModuleOK(c, p, asks, msgs)
      /\ \A b \in Caches \ {c} : ModuleOK(b, pendingPages[b], asks, msgs)
  BY DEF Agree
<1>2. done \subseteq DOMAIN p \ {NoParent}
  BY DEF Completed
<1>3. \A r \in done : r \in DOMAIN asks /\ asks[r].cache = c /\ asks[r].kind # "open"
  BY <1>1, <1>2 DEF ModuleOK, PendOK
<1>4. /\ DOMAIN asks2 = DOMAIN asks \ done /\ \A r \in DOMAIN asks2 : asks2[r] = asks[r]
      /\ asks2 = [r \in DOMAIN asks2 |-> asks2[r]]
  BY DEF Without
<1>5. /\ DOMAIN p2 = DOMAIN p \ done /\ \A r \in DOMAIN p2 : p2[r] = p[r]
      /\ p2 = [r \in DOMAIN p2 |-> p2[r]]
  BY DEF Without
<1> HIDE DEF done, asks2, p2
<1>6. Reqs(asks2, n, open)
  BY <1>1, <1>4 DEF Reqs
<1>7. Msgs(msgs, asks2, n)
  <2>1. \A i \in 1 .. Len(msgs) : PassedOn(msgs[i]) => msgs[i].parent \notin done
    BY <1>1, <1>2 DEF ModuleOK, PassedFree
  <2>2. \A i \in 1 .. Len(msgs) : MsgOK(msgs[i], asks2)
    BY <1>1, <1>4, <2>1 DEF Msgs, MsgOK
  <2> QED BY <1>1, <2>2 DEF Msgs
<1>8. ModuleOK(c, p2, asks2, msgs)
  <2>1. PendOK(c, p2, asks2)
    BY <1>1, <1>4, <1>5 DEF ModuleOK, PendOK
  <2> QED BY <1>1, <1>5, <2>1 DEF ModuleOK, PassedFree, Waits
<1>9. ASSUME NEW b \in Caches \ {c} PROVE ModuleOK(b, pendingPages[b], asks2, msgs)
  <2>1. ModuleOK(b, pendingPages[b], asks, msgs)
    BY <1>1
  <2>2. PendOK(b, pendingPages[b], asks2)
    BY <1>3, <1>4, <2>1 DEF ModuleOK, PendOK
  <2> QED BY <2>1, <2>2 DEF ModuleOK
<1>10. \A f : Holders(f, asks2, open) = Holders(f, asks, open)
  BY <1>3, <1>4 DEF Holders, Opens
<1> QED BY <1>6, <1>7, <1>8, <1>9, <1>10 DEF Agree, done, asks2, p2

LEMMA Concludes ==
  ASSUME DPInv, NEW asks, NEW n \in Nat, NEW open \in [Caches -> SUBSET Files], NEW msgs, NEW c \in Caches, NEW p,
         Agree(asks, n, open, msgs, c, p), CompleteRequests(c, p, asks),
         issued' = n, isOpen' = open, fs' = msgs, failed' = failed,
         Counted(openFileCounts', asks, open), CacheOpen(lruCache', openFileCounts')
  PROVE  DPInv'
<1>1. PICK done : /\ done = Completed(p, asks)
                  /\ pendingPages' = [pendingPages EXCEPT ![c] = Without(p, done)]
                  /\ live' = Without(asks, done)
  BY DEF CompleteRequests
<1>2. /\ Agree(Without(asks, done), n, open, msgs, c, Without(p, done))
      /\ \A f : Holders(f, Without(asks, done), open) = Holders(f, asks, open)
  BY <1>1, Completes
<1>3. /\ pendingPages'[c] = Without(p, done) /\ \A b \in Caches \ {c} : pendingPages'[b] = pendingPages[b]
      /\ pendingPages' = [b \in Caches |-> pendingPages'[b]]
  BY <1>1 DEF DPInv
<1>4. /\ Reqs(live, issued, isOpen)' /\ Msgs(fs, live, issued)'
      /\ \A b \in Caches : ModuleOK(b, pendingPages'[b], live', fs')
  BY <1>1, <1>2, <1>3 DEF Agree, Reqs, Msgs, ModuleOK, PendOK, PassedFree, Waits, Sent, MsgOK, Message
<1>5. Counted(openFileCounts, live, isOpen)'
  BY <1>1, <1>2 DEF Counted
<1>6. CacheOpen(lruCache, openFileCounts)'
  BY DEF CacheOpen, Good, Consistent
<1> QED BY <1>3, <1>4, <1>5, <1>6 DEF DPInv

LEMMA SeqAt ==
  ASSUME NEW S, NEW s \in Seq(S)
  PROVE  Len(s) \in Nat /\ DOMAIN s = 1 .. Len(s) /\ \A i \in 1 .. Len(s) : s[i] \in S
OBVIOUS

LEMMA MessageIs ==
  ASSUME NEW n, NEW m \in Message(n)
  PROVE  m.cache \in Caches /\ m.kind \in MsgKinds /\ m.keys \in SUBSET Key /\ m.parent \in 0 .. n
BY DEF Message

LEMMA MessageMade ==
  ASSUME NEW n, NEW c \in Caches, NEW kind \in MsgKinds, NEW keys \in SUBSET Key, NEW parent \in 0 .. n
  PROVE  [cache |-> c, kind |-> kind, keys |-> keys, parent |-> parent] \in Message(n)
BY DEF Message

\* A new request has a number of its own.
NewAsk(asks, c, kind, f, keys, open) ==
  /\ Id \in Nat /\ Id # NoParent /\ Agree(asks, Id, open, fs, c, pendingPages[c])
  /\ asks[Id] = [cache |-> c, kind |-> kind, file |-> f, keys |-> keys]
  /\ DOMAIN asks = DOMAIN live \cup {Id} /\ Id \notin DOMAIN live
  /\ \A b \in Caches : Id \notin DOMAIN pendingPages[b]
  /\ \A i \in 1 .. Len(fs) : fs[i].parent # Id

LEMMA Asks ==
  ASSUME DPInv, NEW open \in [Caches -> SUBSET Files], Reqs(live, issued, open),
         NEW c \in Caches, NEW kind \in Kinds, NEW f \in Files, NEW keys \in SUBSET Key,
         IsFiniteSet(keys), \A k \in keys : k.filename = f,
         kind \in {"read", "write"} => f \in open[c]
  PROVE  NewAsk(Asked(c, kind, f, keys), c, kind, f, keys, open)
<1> DEFINE asks == Asked(c, kind, f, keys)
           q == [cache |-> c, kind |-> kind, file |-> f, keys |-> keys]
<1>1. /\ issued \in Nat /\ Reqs(live, issued, open) /\ Msgs(fs, live, issued)
      /\ \A b \in Caches : ModuleOK(b, pendingPages[b], live, fs)
  BY DEF DPInv
<1>2. /\ Id \in Nat /\ Id # NoParent /\ 1 .. issued \subseteq 1 .. Id /\ Id \in 1 .. Id /\ Id \notin 1 .. issued
      /\ 0 .. issued \subseteq 0 .. Id /\ Id \notin 0 .. issued /\ NoParent \in 0 .. issued
  BY <1>1 DEF Id, NoParent
<1>3. Id \notin DOMAIN live
  BY <1>1, <1>2 DEF Reqs
<1>4. /\ DOMAIN asks = DOMAIN live \cup {Id} /\ asks[Id] = q
      /\ \A r \in DOMAIN live : asks[r] = live[r]
      /\ asks = [r \in DOMAIN asks |-> asks[r]]
  BY <1>3 DEF Asked
<1> HIDE DEF asks
<1>5. Reqs(asks, Id, open)
  <2>1. ReqOK(q, open)
    BY DEF ReqOK
  <2> HIDE DEF q
  <2> QED BY <1>1, <1>2, <1>4, <2>1 DEF Reqs
<1>6. \A i \in 1 .. Len(fs) : fs[i] \in Message(issued) /\ fs[i].parent \in 0 .. issued
  <2>1. fs \in Seq(Message(issued))
    BY <1>1 DEF Msgs
  <2>2. \A i \in 1 .. Len(fs) : fs[i] \in Message(issued)
    BY <2>1, SeqAt
  <2> QED BY <2>2, MessageIs
<1>7. Msgs(fs, asks, Id)
  <2>1. fs \in Seq(Message(Id))
    <3>1. Message(issued) \subseteq Message(Id)
      BY <1>2 DEF Message
    <3> QED BY <1>1, <3>1 DEF Msgs
  <2>2. \A i \in 1 .. Len(fs) : MsgOK(fs[i], asks)
    BY <1>1, <1>2, <1>4, <1>6 DEF Msgs, MsgOK
  <2> QED BY <1>1, <2>1, <2>2 DEF Msgs
<1>8. ASSUME NEW b \in Caches PROVE ModuleOK(b, pendingPages[b], asks, fs) /\ Id \notin DOMAIN pendingPages[b]
  <2>1. ModuleOK(b, pendingPages[b], live, fs)
    BY <1>1
  <2>2. PendOK(b, pendingPages[b], asks)
    BY <1>4, <2>1 DEF ModuleOK, PendOK
  <2> QED BY <1>2, <1>3, <2>1, <2>2 DEF ModuleOK, PendOK
<1> QED BY <1>2, <1>3, <1>4, <1>5, <1>6, <1>7, <1>8 DEF NewAsk, Agree, asks

\* Nothing that waits loses its message when others join.
LEMMA ModuleGrows ==
  ASSUME NEW S, NEW msgs \in Seq(S), NEW new \in Seq(S), NEW asks, NEW b, NEW p,
         ModuleOK(b, p, asks, msgs),
         \A i \in 1 .. Len(new) : PassedOn(new[i]) => new[i].parent \notin DOMAIN p
  PROVE  ModuleOK(b, p, asks, msgs \o new)
<1> DEFINE all == msgs \o new
<1>1. /\ Len(msgs) \in Nat /\ Len(new) \in Nat /\ Len(all) = Len(msgs) + Len(new)
      /\ \A i \in 1 .. Len(all) : all[i] = IF i <= Len(msgs) THEN msgs[i] ELSE new[i - Len(msgs)]
  OBVIOUS
<1> HIDE DEF all
<1>2. \A i \in 1 .. Len(msgs) : i \in 1 .. Len(all) /\ all[i] = msgs[i]
  BY <1>1
<1>3. \A i \in 1 .. Len(all) : (i \in 1 .. Len(msgs) /\ all[i] = msgs[i])
                              \/ (i - Len(msgs) \in 1 .. Len(new) /\ all[i] = new[i - Len(msgs)])
  BY <1>1
<1>4. PassedFree(all, p)
  BY <1>3 DEF ModuleOK, PassedFree
<1>5. \A kind, k : Sent(b, kind, k, msgs) => Sent(b, kind, k, all)
  BY <1>2 DEF Sent
<1>6. Waits(b, p, all)
  BY <1>5 DEF ModuleOK, Waits
<1> QED BY <1>4, <1>6 DEF ModuleOK, all

\* Messages join those at the file system: write-backs, or a single one.
LEMMA MsgsJoin ==
  ASSUME NEW asks, NEW n \in Nat, NEW open, NEW msgs, NEW c \in Caches, NEW p,
         Agree(asks, n, open, msgs, c, p), NEW new \in Seq(Message(n)),
         \A i \in 1 .. Len(new) :
           /\ MsgOK(new[i], asks)
           /\ new[i].parent = NoParent \/ \A j \in 1 .. Len(msgs) : msgs[j].parent # new[i].parent
           /\ PassedOn(new[i]) => /\ Len(new) = 1 /\ new[i].parent \notin DOMAIN p
                                  /\ \A b \in Caches \ {c} : new[i].parent \notin DOMAIN pendingPages[b]
  PROVE  Agree(asks, n, open, msgs \o new, c, p)
<1> DEFINE all == msgs \o new
<1>1. /\ Reqs(asks, n, open) /\ Msgs(msgs, asks, n) /\ ModuleOK(c, p, asks, msgs)
      /\ \A b \in Caches \ {c} : ModuleOK(b, pendingPages[b], asks, msgs)
  BY DEF Agree
<1>2. msgs \in Seq(Message(n))
  BY <1>1 DEF Msgs
<1>3. /\ Len(msgs) \in Nat /\ Len(new) \in Nat /\ all \in Seq(Message(n))
      /\ Len(all) = Len(msgs) + Len(new)
      /\ \A i \in 1 .. Len(all) : all[i] = IF i <= Len(msgs) THEN msgs[i] ELSE new[i - Len(msgs)]
  BY <1>2
<1> HIDE DEF all
<1> DEFINE Old(i) == i \in 1 .. Len(msgs) /\ all[i] = msgs[i]
           New(i) == i - Len(msgs) \in 1 .. Len(new) /\ all[i] = new[i - Len(msgs)]
<1>4. \A i \in 1 .. Len(all) : Old(i) \/ New(i)
  BY <1>3
<1>5. \A i \in 1 .. Len(all) : MsgOK(all[i], asks)
  BY <1>1, <1>4 DEF Msgs
<1>6. \A i \in 1 .. Len(msgs) : PassedOn(msgs[i]) => msgs[i].parent # NoParent
  BY <1>1 DEF Msgs, MsgOK, Reqs, NoParent
<1>7. ASSUME NEW i \in 1 .. Len(all), NEW j \in 1 .. Len(all), PassedOn(all[i]), i # j
      PROVE  all[j].parent # all[i].parent
  <2>1. CASE Old(i) /\ Old(j)
    BY <1>1, <1>7, <2>1 DEF Msgs
  <2>2. CASE Old(i) /\ New(j)
    BY <1>6, <1>7, <2>2
  <2>3. CASE New(i) /\ Old(j)
    <3>1. all[i].parent # NoParent
      BY <1>1, <1>5, <1>7 DEF MsgOK, Reqs, NoParent
    <3> QED BY <2>3, <3>1
  <2>4. CASE New(i) /\ New(j)
    <3>1. Len(new) = 1
      BY <1>7, <2>4
    <3> QED BY <1>3, <1>7, <2>4, <3>1
  <2> QED BY <1>4, <2>1, <2>2, <2>3, <2>4
<1>8. Msgs(all, asks, n)
  BY <1>3, <1>5, <1>7 DEF Msgs
<1>9. ModuleOK(c, p, asks, all) /\ \A b \in Caches \ {c} : ModuleOK(b, pendingPages[b], asks, all)
  <2>1. ModuleOK(c, p, asks, all)
    BY <1>1, <1>2, ModuleGrows DEF all
  <2>2. ASSUME NEW b \in Caches \ {c} PROVE ModuleOK(b, pendingPages[b], asks, all)
    BY <1>1, <1>2, ModuleGrows DEF all
  <2> QED BY <2>1, <2>2
<1> QED BY <1>1, <1>8, <1>9 DEF Agree, all

LEMMA OneJoins ==
  ASSUME NEW asks, NEW n \in Nat, NEW open, NEW msgs, NEW c \in Caches, NEW p,
         Agree(asks, n, open, msgs, c, p), NEW m \in Message(n), MsgOK(m, asks),
         \A j \in 1 .. Len(msgs) : msgs[j].parent # m.parent,
         PassedOn(m) => /\ m.parent \notin DOMAIN p
                        /\ \A b \in Caches \ {c} : m.parent \notin DOMAIN pendingPages[b]
  PROVE  Agree(asks, n, open, Append(msgs, m), c, p)
<1>1. /\ <<m>> \in Seq(Message(n)) /\ Len(<<m>>) = 1 /\ \A i \in 1 .. 1 : <<m>>[i] = m
  OBVIOUS
<1>2. Agree(asks, n, open, msgs \o <<m>>, c, p)
  <2> DEFINE new == <<m>>
  <2> HIDE DEF new
  <2>1. new \in Seq(Message(n)) /\ Len(new) = 1 /\ \A i \in 1 .. 1 : new[i] = m
    BY <1>1 DEF new
  <2>2. Agree(asks, n, open, msgs \o new, c, p)
    BY <2>1, MsgsJoin
  <2> QED BY <2>2 DEF new
<1>3. Append(msgs, m) = msgs \o <<m>>
  BY DEF Agree, Msgs
<1> QED BY <1>2, <1>3

\* Write-backs of evictions, or of a close that has just been issued.
LEMMA WritesJoin ==
  ASSUME NEW asks, NEW n \in Nat, NEW open, NEW msgs, NEW c \in Caches, NEW p,
         Agree(asks, n, open, msgs, c, p), NEW keys \in SUBSET Key, IsFiniteSet(keys),
         NEW parent \in 0 .. n, parent = NoParent \/ \A j \in 1 .. Len(msgs) : msgs[j].parent # parent
  PROVE  /\ Agree(asks, n, open, msgs \o Writebacks(c, keys, parent), c, p)
         /\ \A k \in keys : Sent(c, "write", k, msgs \o Writebacks(c, keys, parent))
<1> DEFINE W == Writebacks(c, keys, parent)
           all == msgs \o W
<1>1. /\ W \in Seq([cache : {c}, kind : {"write"}, keys : SUBSET keys, parent : {parent}])
      /\ \A k \in keys : \E i \in 1 .. Len(W) : k \in W[i].keys
  BY WritebacksLeave DEF Writes
<1> HIDE DEF W
<1>2. \A i \in 1 .. Len(W) : /\ W[i] \in [cache : {c}, kind : {"write"}, keys : SUBSET keys, parent : {parent}]
                             /\ W[i].cache = c /\ W[i].kind = "write" /\ W[i].parent = parent
                             /\ W[i].keys \in SUBSET keys
  <2> DEFINE M == [cache : {c}, kind : {"write"}, keys : SUBSET keys, parent : {parent}]
  <2>1. \A m \in M : m.cache = c /\ m.kind = "write" /\ m.parent = parent /\ m.keys \in SUBSET keys
    OBVIOUS
  <2> HIDE DEF M
  <2>2. W \in Seq(M)
    BY <1>1 DEF M
  <2>3. \A i \in 1 .. Len(W) : W[i] \in M
    BY <2>2, SeqAt
  <2>4. \A i \in 1 .. Len(W) : W[i] \in [cache : {c}, kind : {"write"}, keys : SUBSET keys, parent : {parent}]
    BY <2>3 DEF M
  <2> QED BY <2>1, <2>3, <2>4
<1>3. [cache : {c}, kind : {"write"}, keys : SUBSET keys, parent : {parent}] \subseteq Message(n)
  <2>1. ASSUME NEW m \in [cache : {c}, kind : {"write"}, keys : SUBSET keys, parent : {parent}]
        PROVE  m \in Message(n)
    <3>1. m = [cache |-> c, kind |-> "write", keys |-> m.keys, parent |-> parent]
      BY <2>1
    <3>2. m.keys \in SUBSET Key /\ "write" \in MsgKinds
      BY <2>1 DEF MsgKinds
    <3>3. [cache |-> c, kind |-> "write", keys |-> m.keys, parent |-> parent] \in Message(n)
      BY <3>2, MessageMade
    <3> QED BY ONLY <3>1, <3>3
  <2> QED BY <2>1
<1>4. W \in Seq(Message(n))
  <2> DEFINE M == [cache : {c}, kind : {"write"}, keys : SUBSET keys, parent : {parent}]
  <2>1. W \in Seq(M) /\ M \subseteq Message(n)
    BY <1>1, <1>3
  <2> HIDE DEF M
  <2> QED BY <2>1
<1>5. \A i \in 1 .. Len(W) : MsgOK(W[i], asks) /\ ~PassedOn(W[i])
  BY <1>2, FS_Subset DEF MsgOK, PassedOn
<1>6. Agree(asks, n, open, all, c, p)
  BY <1>2, <1>4, <1>5, MsgsJoin
<1>7. msgs \in Seq(Message(n))
  BY DEF Agree, Msgs
<1>8. ASSUME NEW k \in keys PROVE Sent(c, "write", k, all)
  <2>1. PICK i \in 1 .. Len(W) : k \in W[i].keys
    BY <1>1
  <2>2. Len(msgs) \in Nat /\ Len(W) \in Nat
    BY <1>4, <1>7
  <2>3. Len(msgs) + i \in 1 .. Len(all) /\ all[Len(msgs) + i] = W[i]
    BY <1>4, <1>7, <2>2
  <2> HIDE DEF all
  <2> QED BY <1>2, <2>1, <2>3 DEF Sent
<1> QED BY <1>6, <1>8 DEF all, W

\* Pages are noted for a request whose message is not passed on, or for none.
LEMMA Registers ==
  ASSUME NEW asks, NEW n \in Nat, NEW open, NEW msgs, NEW c \in Caches, NEW p,
         Agree(asks, n, open, msgs, c, p), NEW reads \in SUBSET Key, NEW writes \in SUBSET Key,
         \A k \in reads : Sent(c, "read", k, msgs), \A k \in writes : Sent(c, "write", k, msgs),
         NEW r, \/ r = NoParent
                \/ /\ r \in DOMAIN asks /\ asks[r].cache = c /\ asks[r].kind # "open"
                   /\ \A i \in 1 .. Len(msgs) : PassedOn(msgs[i]) => msgs[i].parent # r
  PROVE  Agree(asks, n, open, msgs, c, RegisterPending(p, r, reads, writes))
<1> DEFINE old == IF r \in DOMAIN p THEN p[r] ELSE [readPages |-> {}, writePages |-> {}]
           new == [readPages |-> old.readPages \union reads, writePages |-> old.writePages \union writes]
           p2 == RegisterPending(p, r, reads, writes)
<1>1. /\ PendOK(c, p, asks) /\ PassedFree(msgs, p) /\ Waits(c, p, msgs)
      /\ Reqs(asks, n, open) /\ Msgs(msgs, asks, n)
  BY DEF Agree, ModuleOK
<1>2. /\ old.readPages \in SUBSET Key /\ old.writePages \in SUBSET Key
      /\ \A k \in old.readPages : Sent(c, "read", k, msgs)
      /\ \A k \in old.writePages : Sent(c, "write", k, msgs)
  <2>1. CASE r \in DOMAIN p
    <3>1. old = p[r]
      BY <2>1
    <3>2. p[r] \in [readPages : SUBSET Key, writePages : SUBSET Key]
      BY <1>1, <2>1 DEF PendOK
    <3>3. /\ \A k \in p[r].readPages : Sent(c, "read", k, msgs)
          /\ \A k \in p[r].writePages : Sent(c, "write", k, msgs)
      BY <1>1, <2>1 DEF Waits
    <3> QED BY <3>1, <3>2, <3>3
  <2>2. CASE r \notin DOMAIN p
    BY <2>2
  <2> QED BY <2>1, <2>2
<1>3. /\ new \in [readPages : SUBSET Key, writePages : SUBSET Key]
      /\ new.readPages = old.readPages \union reads /\ new.writePages = old.writePages \union writes
  <2> HIDE DEF old
  <2> QED BY <1>2
<1>4. /\ DOMAIN p2 = DOMAIN p \union {r} /\ p2[r] = new
      /\ \A x \in DOMAIN p \ {r} : p2[x] = p[x]
      /\ p2 = [x \in DOMAIN p2 |-> p2[x]]
  BY DEF RegisterPending
<1> HIDE DEF p2, new, old
<1>5. PendOK(c, p2, asks)
  <2>1. \A x \in DOMAIN p2 : x # r => x \in DOMAIN p /\ p2[x] = p[x]
    BY <1>4
  <2> QED BY <1>1, <1>3, <1>4, <2>1 DEF PendOK
<1>6. PassedFree(msgs, p2)
  <2>1. \A i \in 1 .. Len(msgs) : PassedOn(msgs[i]) => msgs[i].parent # NoParent
    BY <1>1 DEF Msgs, MsgOK, Reqs, NoParent
  <2>2. \A i \in 1 .. Len(msgs) : PassedOn(msgs[i]) => msgs[i].parent # r
    BY <2>1
  <2> QED BY <1>1, <1>4, <2>2 DEF PassedFree
<1>7. Waits(c, p2, msgs)
  <2>1. \A k \in new.readPages : Sent(c, "read", k, msgs)
    BY <1>2, <1>3
  <2>2. \A k \in new.writePages : Sent(c, "write", k, msgs)
    BY <1>2, <1>3
  <2>3. \A x \in DOMAIN p2 : x # r => x \in DOMAIN p /\ p2[x] = p[x]
    BY <1>4
  <2> QED BY <1>1, <1>4, <2>1, <2>2, <2>3 DEF Waits
<1> QED BY <1>5, <1>6, <1>7 DEF Agree, ModuleOK, p2

\* The entries of p, with fewer pages.
Fewer(p2, p) ==
  /\ DOMAIN p2 = DOMAIN p /\ p2 = [r \in DOMAIN p2 |-> p2[r]]
  /\ \A r \in DOMAIN p : /\ p2[r] \in [readPages : SUBSET Key, writePages : SUBSET Key]
                         /\ p2[r].readPages \subseteq p[r].readPages
                         /\ p2[r].writePages \subseteq p[r].writePages

LEMMA ResolvedReads ==
  ASSUME NEW c, NEW p, NEW asks, PendOK(c, p, asks), NEW keys
  PROVE  /\ Fewer(ResolveReads(p, keys), p)
         /\ \A r \in DOMAIN p : /\ ResolveReads(p, keys)[r].readPages = p[r].readPages \ keys
                                /\ ResolveReads(p, keys)[r].writePages = p[r].writePages
<1> DEFINE p2 == ResolveReads(p, keys)
<1>1. DOMAIN p2 = DOMAIN p /\ p2 = [r \in DOMAIN p2 |-> p2[r]]
  BY DEF ResolveReads
<1>2. ASSUME NEW r \in DOMAIN p
      PROVE  /\ p2[r] \in [readPages : SUBSET Key, writePages : SUBSET Key]
             /\ p2[r].readPages = p[r].readPages \ keys /\ p2[r].writePages = p[r].writePages
  <2>1. p[r] \in [readPages : SUBSET Key, writePages : SUBSET Key]
    BY DEF PendOK
  <2>2. p2[r] = [p[r] EXCEPT !.readPages = p[r].readPages \ keys]
    BY DEF ResolveReads
  <2> HIDE DEF p2
  <2> QED BY <2>1, <2>2
<1> HIDE DEF p2
<1>3. Fewer(p2, p)
  BY <1>1, <1>2 DEF Fewer
<1> QED BY <1>2, <1>3 DEF p2

LEMMA ResolvedWrites ==
  ASSUME NEW c, NEW p, NEW asks, PendOK(c, p, asks), NEW keys
  PROVE  /\ Fewer(ResolveWrites(p, keys), p)
         /\ \A r \in DOMAIN p : /\ ResolveWrites(p, keys)[r].writePages = p[r].writePages \ keys
                                /\ ResolveWrites(p, keys)[r].readPages = p[r].readPages
<1> DEFINE p2 == ResolveWrites(p, keys)
<1>1. DOMAIN p2 = DOMAIN p /\ p2 = [r \in DOMAIN p2 |-> p2[r]]
  BY DEF ResolveWrites
<1>2. ASSUME NEW r \in DOMAIN p
      PROVE  /\ p2[r] \in [readPages : SUBSET Key, writePages : SUBSET Key]
             /\ p2[r].writePages = p[r].writePages \ keys /\ p2[r].readPages = p[r].readPages
  <2>1. p[r] \in [readPages : SUBSET Key, writePages : SUBSET Key]
    BY DEF PendOK
  <2>2. p2[r] = [p[r] EXCEPT !.writePages = p[r].writePages \ keys]
    BY DEF ResolveWrites
  <2> HIDE DEF p2
  <2> QED BY <2>1, <2>2
<1> HIDE DEF p2
<1>3. Fewer(p2, p)
  BY <1>1, <1>2 DEF Fewer
<1> QED BY <1>2, <1>3 DEF p2

\* Pages may be resolved that no message answers.
LEMMA ReadsResolved ==
  ASSUME NEW asks, NEW n, NEW open, NEW msgs, NEW c \in Caches, NEW p,
         Agree(asks, n, open, msgs, c, p), NEW keys
  PROVE  Agree(asks, n, open, msgs, c, ResolveReads(p, keys))
<1>1. ModuleOK(c, p, asks, msgs)
  BY DEF Agree
<1>2. Fewer(ResolveReads(p, keys), p)
  BY <1>1, ResolvedReads DEF ModuleOK
<1>3. ModuleOK(c, ResolveReads(p, keys), asks, msgs)
  <2>1. PendOK(c, ResolveReads(p, keys), asks)
    BY <1>1, <1>2 DEF ModuleOK, PendOK, Fewer
  <2> QED BY <1>1, <1>2, <2>1 DEF ModuleOK, PassedFree, Waits, Fewer
<1> QED BY <1>3 DEF Agree

\* A page that is wanted and not trimmed is being read already.
LEMMA TrimmedSent ==
  ASSUME NEW asks, NEW n, NEW open, NEW msgs, NEW c \in Caches, NEW p,
         Agree(asks, n, open, msgs, c, p), NEW keys, NEW k \in keys, k \notin TrimPending(p, keys)
  PROVE  Sent(c, "read", k, msgs)
<1>1. PendOK(c, p, asks) /\ Waits(c, p, msgs)
  BY DEF Agree, ModuleOK
<1>2. p # << >> /\ k \notin UNION {keys \ p[r].readPages : r \in DOMAIN p}
  BY DEF TrimPending
<1>3. DOMAIN p # {}
  <2>1. DOMAIN p = {} => p = << >>
    <3>1. p = [r \in DOMAIN p |-> p[r]]
      BY <1>1 DEF PendOK
    <3>2. << >> = [r \in {} |-> p[r]]
      OBVIOUS
    <3> QED BY <3>1, <3>2
  <2> QED BY <1>2, <2>1
<1>4. PICK r \in DOMAIN p : k \notin keys \ p[r].readPages
  BY <1>2, <1>3
<1> QED BY <1>1, <1>4 DEF Waits

-----------------------------------------------------------------------------
(* A message leaves the file system.                                       *)

\* Where position j of the rest was.
Was(i, j) == IF j < i THEN j ELSE j + 1

\* What is left of s without its position i.
RestOf(S, s, i) ==
  /\ RemoveAt(s, i) \in Seq(S) /\ Len(RemoveAt(s, i)) = Len(s) - 1
  /\ \A j \in 1 .. Len(s) - 1 : RemoveAt(s, i)[j] = s[Was(i, j)]
  /\ \A j \in 1 .. Len(s) - 1 : Was(i, j) \in 1 .. Len(s) /\ Was(i, j) # i
  /\ \A j \in 1 .. Len(s) : j # i => \E x \in 1 .. Len(s) - 1 : Was(i, x) = j

LEMMA RemoveAtIs ==
  ASSUME NEW S, NEW s \in Seq(S), NEW i \in 1 .. Len(s)
  PROVE  RestOf(S, s, i)
<1>1. Len(s) \in Nat /\ i \in Nat /\ i >= 1 /\ i <= Len(s)
  OBVIOUS
<1> DEFINE a == SubSeq(s, 1, i - 1)
           b == SubSeq(s, i + 1, Len(s))
<1>2. a \in Seq(S) /\ Len(a) = i - 1 /\ \A j \in 1 .. i - 1 : a[j] = s[j]
  <2>1. \A j \in 1 .. i - 1 : s[j] \in S
    BY <1>1
  <2>2. 1 \in Int /\ i - 1 \in Int
    BY <1>1
  <2>3. a \in Seq(S)
    BY <2>1, <2>2, SubSeqProperties
  <2>4. Len(a) = IF 1 <= i - 1 THEN i - 1 - 1 + 1 ELSE 0
    BY <2>1, <2>2, SubSeqProperties
  <2>5. \A j \in 1 .. i - 1 - 1 + 1 : a[j] = s[1 + j - 1]
    BY <2>1, <2>2, SubSeqProperties
  <2> QED BY <1>1, <2>3, <2>4, <2>5
<1>3. b \in Seq(S) /\ Len(b) = Len(s) - i /\ \A j \in 1 .. Len(s) - i : b[j] = s[i + j]
  <2>1. \A j \in i + 1 .. Len(s) : s[j] \in S
    BY <1>1
  <2>2. i + 1 \in Int /\ Len(s) \in Int
    BY <1>1
  <2>3. b \in Seq(S)
    BY <2>1, <2>2, SubSeqProperties
  <2>4. Len(b) = IF i + 1 <= Len(s) THEN Len(s) - (i + 1) + 1 ELSE 0
    BY <2>1, <2>2, SubSeqProperties
  <2>5. \A j \in 1 .. Len(s) - (i + 1) + 1 : b[j] = s[i + 1 + j - 1]
    BY <2>1, <2>2, SubSeqProperties
  <2> QED BY <1>1, <2>3, <2>4, <2>5
<1> HIDE DEF a, b
<1>4. RemoveAt(s, i) = a \o b
  BY DEF RemoveAt, a, b
<1>5. a \o b \in Seq(S) /\ Len(a \o b) = Len(s) - 1
  <2>1. a \o b \in Seq(S) /\ Len(a \o b) = Len(a) + Len(b)
    BY <1>2, <1>3, ConcatProperties
  <2> QED BY <1>1, <1>2, <1>3, <2>1
<1>6. \A j \in 1 .. Len(s) - 1 : (a \o b)[j] = IF j <= i - 1 THEN a[j] ELSE b[j - (i - 1)]
  BY <1>1, <1>2, <1>3
<1>7. \A j \in 1 .. Len(s) - 1 : (a \o b)[j] = s[Was(i, j)]
  <2> TAKE j \in 1 .. Len(s) - 1
  <2>1. CASE j <= i - 1
    BY <1>1, <1>2, <1>6, <2>1 DEF Was
  <2>2. CASE ~(j <= i - 1)
    <3>1. j - (i - 1) \in 1 .. Len(s) - i /\ i + (j - (i - 1)) = j + 1 /\ ~(j < i)
      BY <1>1, <2>2
    <3> QED BY <1>3, <1>6, <2>2, <3>1 DEF Was
  <2> QED BY <2>1, <2>2
<1>8. ASSUME NEW j \in 1 .. Len(s), j # i PROVE \E x \in 1 .. Len(s) - 1 : Was(i, x) = j
  <2>1. CASE j < i
    BY <1>1, <2>1 DEF Was
  <2>2. CASE ~(j < i)
    <3>1. j - 1 \in 1 .. Len(s) - 1 /\ Was(i, j - 1) = j
      BY <1>1, <1>8, <2>2 DEF Was
    <3> QED BY <3>1
  <2> QED BY <2>1, <2>2
<1>9. \A j \in 1 .. Len(s) - 1 : Was(i, j) \in 1 .. Len(s) /\ Was(i, j) # i
  BY <1>1 DEF Was
<1> QED BY <1>4, <1>5, <1>7, <1>8, <1>9 DEF RestOf

\* What stays when one message goes.
Left(i) == RemoveAt(fs, i)

LEMMA MsgsLeft ==
  ASSUME DPInv, NEW i \in 1 .. Len(fs)
  PROVE  /\ Len(fs) \in Nat /\ fs[i] \in Message(issued) /\ MsgOK(fs[i], live)
         /\ Msgs(Left(i), live, issued)
         /\ \A j \in 1 .. Len(Left(i)) : \E x \in 1 .. Len(fs) : x # i /\ Left(i)[j] = fs[x]
         /\ \A x \in 1 .. Len(fs) : x # i => \E j \in 1 .. Len(Left(i)) : Left(i)[j] = fs[x]
<1>1. fs \in Seq(Message(issued)) /\ Msgs(fs, live, issued)
  BY DEF DPInv, Msgs
<1>2. Len(fs) \in Nat /\ fs[i] \in Message(issued) /\ MsgOK(fs[i], live)
  BY <1>1, SeqAt DEF Msgs
<1>3. /\ Left(i) \in Seq(Message(issued)) /\ Len(Left(i)) = Len(fs) - 1
      /\ \A j \in 1 .. Len(fs) - 1 : Left(i)[j] = fs[Was(i, j)]
      /\ \A j \in 1 .. Len(fs) - 1 : Was(i, j) \in 1 .. Len(fs) /\ Was(i, j) # i
      /\ \A j \in 1 .. Len(fs) : j # i => \E x \in 1 .. Len(fs) - 1 : Was(i, x) = j
  <2>1. RestOf(Message(issued), fs, i)
    BY <1>1, RemoveAtIs
  <2> QED BY <2>1 DEF RestOf, Left
<1>4. \A j \in 1 .. Len(Left(i)) : MsgOK(Left(i)[j], live)
  BY <1>1, <1>3 DEF Msgs
<1>5. \A j, x \in 1 .. Len(Left(i)) : j # x => Was(i, j) # Was(i, x)
  BY <1>2, <1>3 DEF Was
<1>6. \A j, x \in 1 .. Len(Left(i)) : PassedOn(Left(i)[j]) /\ j # x => Left(i)[x].parent # Left(i)[j].parent
  BY <1>1, <1>3, <1>5 DEF Msgs
<1>7. Msgs(Left(i), live, issued)
  BY <1>3, <1>4, <1>6 DEF Msgs
<1> QED BY <1>2, <1>3, <1>7

\* A module whose own messages all stay still waits for them.
LEMMA OthersLeft ==
  ASSUME DPInv, NEW i \in 1 .. Len(fs), NEW b \in Caches, fs[i].cache # b \/ PassedOn(fs[i])
  PROVE  ModuleOK(b, pendingPages[b], live, Left(i))
<1>1. ModuleOK(b, pendingPages[b], live, fs)
  BY DEF DPInv
<1>5. /\ \A j \in 1 .. Len(Left(i)) : \E x \in 1 .. Len(fs) : x # i /\ Left(i)[j] = fs[x]
      /\ \A x \in 1 .. Len(fs) : x # i => \E j \in 1 .. Len(Left(i)) : Left(i)[j] = fs[x]
  BY MsgsLeft
<1>2. PassedFree(Left(i), pendingPages[b])
  BY <1>1, <1>5 DEF ModuleOK, PassedFree
<1>3. \A k : \A kind \in {"read", "write"} : Sent(b, kind, k, fs) => Sent(b, kind, k, Left(i))
  <2> TAKE k
  <2> TAKE kind \in {"read", "write"}
  <2> SUFFICES ASSUME NEW x \in 1 .. Len(fs), fs[x].cache = b, fs[x].kind = kind, k \in fs[x].keys
               PROVE Sent(b, kind, k, Left(i))
    BY DEF Sent
  <2>1. x # i
    BY DEF PassedOn
  <2>2. PICK j \in 1 .. Len(Left(i)) : Left(i)[j] = fs[x]
    BY <1>5, <2>1
  <2> QED BY <2>2 DEF Sent
<1>4. Waits(b, pendingPages[b], Left(i))
  BY <1>1, <1>3 DEF ModuleOK, Waits
<1> QED BY <1>1, <1>2, <1>4 DEF ModuleOK

\* The answer to a read resolves the pages it brought.
LEMMA ReadLeft ==
  ASSUME DPInv, NEW i \in 1 .. Len(fs), fs[i].kind = "read"
  PROVE  LET c == fs[i].cache
         IN  Agree(live, issued, isOpen, Left(i), c, ResolveReads(pendingPages[c], fs[i].keys))
<1> DEFINE c == fs[i].cache
           p == pendingPages[c]
           p2 == ResolveReads(p, fs[i].keys)
<1>1. c \in Caches
  BY MsgsLeft, MessageIs
<1>2. ModuleOK(c, p, live, fs)
  BY <1>1 DEF DPInv
<1> HIDE DEF c, p
<1>3. /\ Fewer(p2, p)
      /\ \A r \in DOMAIN p : p2[r].readPages = p[r].readPages \ fs[i].keys /\ p2[r].writePages = p[r].writePages
  BY <1>2, ResolvedReads DEF ModuleOK
<1> HIDE DEF p2
<1>10. /\ \A j \in 1 .. Len(Left(i)) : \E x \in 1 .. Len(fs) : x # i /\ Left(i)[j] = fs[x]
      /\ \A x \in 1 .. Len(fs) : x # i => \E j \in 1 .. Len(Left(i)) : Left(i)[j] = fs[x]
  BY MsgsLeft
<1>4. \A k : /\ Sent(c, "read", k, fs) /\ k \notin fs[i].keys => Sent(c, "read", k, Left(i))
             /\ Sent(c, "write", k, fs) => Sent(c, "write", k, Left(i))
  <2>1. ASSUME NEW k, NEW kind, NEW x \in 1 .. Len(fs), x # i, fs[x].cache = c, fs[x].kind = kind,
               k \in fs[x].keys
        PROVE  Sent(c, kind, k, Left(i))
    <3>1. PICK j \in 1 .. Len(Left(i)) : Left(i)[j] = fs[x]
      BY <1>10, <2>1
    <3> QED BY <2>1, <3>1 DEF Sent
  <2>2. ASSUME NEW k, Sent(c, "read", k, fs), k \notin fs[i].keys PROVE Sent(c, "read", k, Left(i))
    <3>1. PICK x \in 1 .. Len(fs) : fs[x].cache = c /\ fs[x].kind = "read" /\ k \in fs[x].keys
      BY <2>2 DEF Sent
    <3> QED BY <2>1, <2>2, <3>1
  <2>3. ASSUME NEW k, Sent(c, "write", k, fs) PROVE Sent(c, "write", k, Left(i))
    <3>1. PICK x \in 1 .. Len(fs) : fs[x].cache = c /\ fs[x].kind = "write" /\ k \in fs[x].keys
      BY <2>3 DEF Sent
    <3>2. x # i
      BY <3>1
    <3> QED BY <2>1, <3>1, <3>2
  <2> QED BY <2>2, <2>3
<1>5. PendOK(c, p2, live)
  BY <1>2, <1>3 DEF ModuleOK, PendOK, Fewer
<1>6. PassedFree(Left(i), p2)
  BY <1>2, <1>3, <1>10 DEF ModuleOK, PassedFree, Fewer
<1>7. Waits(c, p2, Left(i))
  BY <1>2, <1>3, <1>4 DEF ModuleOK, Waits, Fewer
<1>8. \A b \in Caches \ {c} : ModuleOK(b, pendingPages[b], live, Left(i))
  BY OthersLeft DEF c
<1>9. Reqs(live, issued, isOpen) /\ Msgs(Left(i), live, issued)
  BY MsgsLeft DEF DPInv
<1> QED BY <1>5, <1>6, <1>7, <1>8, <1>9 DEF Agree, ModuleOK, c, p, p2

\* The answer to a write-back resolves the pages it wrote.
LEMMA WriteLeft ==
  ASSUME DPInv, NEW i \in 1 .. Len(fs), fs[i].kind = "write"
  PROVE  LET c == fs[i].cache
         IN  Agree(live, issued, isOpen, Left(i), c, ResolveWrites(pendingPages[c], fs[i].keys))
<1> DEFINE c == fs[i].cache
           p == pendingPages[c]
           p2 == ResolveWrites(p, fs[i].keys)
<1>1. c \in Caches
  BY MsgsLeft, MessageIs
<1>2. ModuleOK(c, p, live, fs)
  BY <1>1 DEF DPInv
<1> HIDE DEF c, p
<1>3. /\ Fewer(p2, p)
      /\ \A r \in DOMAIN p : p2[r].writePages = p[r].writePages \ fs[i].keys /\ p2[r].readPages = p[r].readPages
  BY <1>2, ResolvedWrites DEF ModuleOK
<1> HIDE DEF p2
<1>10. /\ \A j \in 1 .. Len(Left(i)) : \E x \in 1 .. Len(fs) : x # i /\ Left(i)[j] = fs[x]
      /\ \A x \in 1 .. Len(fs) : x # i => \E j \in 1 .. Len(Left(i)) : Left(i)[j] = fs[x]
  BY MsgsLeft
<1>4. \A k : /\ Sent(c, "write", k, fs) /\ k \notin fs[i].keys => Sent(c, "write", k, Left(i))
             /\ Sent(c, "read", k, fs) => Sent(c, "read", k, Left(i))
  <2>1. ASSUME NEW k, NEW kind, NEW x \in 1 .. Len(fs), x # i, fs[x].cache = c, fs[x].kind = kind,
               k \in fs[x].keys
        PROVE  Sent(c, kind, k, Left(i))
    <3>1. PICK j \in 1 .. Len(Left(i)) : Left(i)[j] = fs[x]
      BY <1>10, <2>1
    <3> QED BY <2>1, <3>1 DEF Sent
  <2>2. ASSUME NEW k, Sent(c, "write", k, fs), k \notin fs[i].keys PROVE Sent(c, "write", k, Left(i))
    <3>1. PICK x \in 1 .. Len(fs) : fs[x].cache = c /\ fs[x].kind = "write" /\ k \in fs[x].keys
      BY <2>2 DEF Sent
    <3> QED BY <2>1, <2>2, <3>1
  <2>3. ASSUME NEW k, Sent(c, "read", k, fs) PROVE Sent(c, "read", k, Left(i))
    <3>1. PICK x \in 1 .. Len(fs) : fs[x].cache = c /\ fs[x].kind = "read" /\ k \in fs[x].keys
      BY <2>3 DEF Sent
    <3>2. x # i
      BY <3>1
    <3> QED BY <2>1, <3>1, <3>2
  <2> QED BY <2>2, <2>3
<1>5. PendOK(c, p2, live)
  BY <1>2, <1>3 DEF ModuleOK, PendOK, Fewer
<1>6. PassedFree(Left(i), p2)
  BY <1>2, <1>3, <1>10 DEF ModuleOK, PassedFree, Fewer
<1>7. Waits(c, p2, Left(i))
  BY <1>2, <1>3, <1>4 DEF ModuleOK, Waits, Fewer
<1>8. \A b \in Caches \ {c} : ModuleOK(b, pendingPages[b], live, Left(i))
  BY OthersLeft DEF c
<1>9. Reqs(live, issued, isOpen) /\ Msgs(Left(i), live, issued)
  BY MsgsLeft DEF DPInv
<1> QED BY <1>5, <1>6, <1>7, <1>8, <1>9 DEF Agree, ModuleOK, c, p, p2

-----------------------------------------------------------------------------
(* The counts of opens.                                                    *)

LEMMA HoldersFinite ==
  ASSUME NEW f, NEW asks, NEW open
  PROVE  /\ IsFiniteSet(Holders(f, asks, open)) /\ Cardinality(Holders(f, asks, open)) \in Nat
         /\ Cardinality(Holders(f, asks, open)) <= Cardinality(Caches)
         /\ Cardinality(Holders(f, asks, open)) = 0 <=> Holders(f, asks, open) = {}
<1>1. IsFiniteSet(Caches) /\ Holders(f, asks, open) \subseteq Caches
  BY DirectPagedAssumption DEF Holders
<1> QED BY <1>1, FS_Subset, FS_CardinalityType, FS_EmptySet

\* A file a process has open is counted.
LEMMA OpenCounted ==
  ASSUME NEW counts, NEW asks, NEW open, Counted(counts, asks, open),
         NEW c \in Caches, NEW f \in Files, f \in open[c]
  PROVE  counts[f] # 0
<1>1. c \in Holders(f, asks, open) /\ counts[f] = Cardinality(Holders(f, asks, open))
  BY DEF Holders, Counted
<1> QED BY <1>1, HoldersFinite

\* A process joins those that hold a file, or leaves them.
LEMMA HolderJoins ==
  ASSUME DPInv, NEW asks, NEW open, NEW f \in Files, NEW c \in Caches,
         c \notin Holders(f, live, isOpen), Holders(f, asks, open) = Holders(f, live, isOpen) \cup {c},
         \A g \in Files \ {f} : Holders(g, asks, open) = Holders(g, live, isOpen)
  PROVE  LET counts == [openFileCounts EXCEPT ![f] = @ + 1]
         IN  Counted(counts, asks, open) /\ \A g \in Files : openFileCounts[g] # 0 => counts[g] # 0
<1> DEFINE H == Holders(f, live, isOpen)
           counts == [openFileCounts EXCEPT ![f] = @ + 1]
<1>1. Counted(openFileCounts, live, isOpen)
  BY DEF DPInv
<1>2. /\ IsFiniteSet(H) /\ Cardinality(H) \in Nat /\ openFileCounts[f] = Cardinality(H)
  BY <1>1, HoldersFinite DEF Counted
<1> HIDE DEF H
<1>3. Cardinality(H \cup {c}) = Cardinality(H) + 1
  BY <1>2, FS_AddElement DEF H
<1>4. /\ counts = [g \in Files |-> counts[g]] /\ counts[f] = openFileCounts[f] + 1
      /\ \A g \in Files \ {f} : counts[g] = openFileCounts[g]
  BY <1>1 DEF Counted
<1> HIDE DEF counts
<1>5. \A g \in Files : counts[g] = Cardinality(Holders(g, asks, open))
  BY <1>1, <1>2, <1>3, <1>4 DEF Counted, H
<1>6. Counted(counts, asks, open)
  BY <1>4, <1>5 DEF Counted
<1>7. \A g \in Files : openFileCounts[g] # 0 => counts[g] # 0
  BY <1>2, <1>4
<1> QED BY <1>6, <1>7 DEF counts

LEMMA HolderLeaves ==
  ASSUME DPInv, NEW asks, NEW open, NEW f \in Files, NEW c \in Caches,
         c \in Holders(f, live, isOpen), Holders(f, asks, open) = Holders(f, live, isOpen) \ {c},
         \A g \in Files \ {f} : Holders(g, asks, open) = Holders(g, live, isOpen)
  PROVE  LET counts == [openFileCounts EXCEPT ![f] = @ - 1]
         IN  Counted(counts, asks, open) /\ \A g \in Files \ {f} : counts[g] = openFileCounts[g]
<1> DEFINE H == Holders(f, live, isOpen)
           counts == [openFileCounts EXCEPT ![f] = @ - 1]
<1>1. Counted(openFileCounts, live, isOpen)
  BY DEF DPInv
<1>2. /\ IsFiniteSet(H) /\ Cardinality(H) \in Nat /\ openFileCounts[f] = Cardinality(H)
  BY <1>1, HoldersFinite DEF Counted
<1> HIDE DEF H
<1>3. Cardinality(H \ {c}) = Cardinality(H) - 1
  BY <1>2, FS_RemoveElement DEF H
<1>4. /\ counts = [g \in Files |-> counts[g]] /\ counts[f] = openFileCounts[f] - 1
      /\ \A g \in Files \ {f} : counts[g] = openFileCounts[g]
  BY <1>1 DEF Counted
<1> HIDE DEF counts
<1>5. \A g \in Files : counts[g] = Cardinality(Holders(g, asks, open))
  BY <1>1, <1>2, <1>3, <1>4 DEF Counted, H
<1>6. Counted(counts, asks, open)
  BY <1>4, <1>5 DEF Counted
<1> QED BY <1>4, <1>6 DEF counts

-----------------------------------------------------------------------------
(* Every action keeps the invariant.                                       *)

\* Evictions are written back for no request.
LEMMA Evicts ==
  ASSUME NEW asks, NEW n \in Nat, NEW open, NEW msgs, NEW c \in Caches, NEW p,
         Agree(asks, n, open, msgs, c, p), NEW keys \in SUBSET Key, IsFiniteSet(keys)
  PROVE  LET all == msgs \o Writebacks(c, keys, NoParent)
         IN  /\ Agree(asks, n, open, all, c, AddWritebacks(p, keys, NoParent))
             /\ \A k \in keys : Sent(c, "write", k, all)
<1> DEFINE all == msgs \o Writebacks(c, keys, NoParent)
<1>1. NoParent \in 0 .. n
  BY DEF NoParent
<1>2. Agree(asks, n, open, all, c, p) /\ \A k \in keys : Sent(c, "write", k, all)
  BY <1>1, WritesJoin
<1> HIDE DEF all
<1>3. Agree(asks, n, open, all, c, RegisterPending(p, NoParent, {}, keys))
  BY <1>2, Registers
<1>4. Agree(asks, n, open, all, c, AddWritebacks(p, keys, NoParent))
  BY <1>2, <1>3 DEF AddWritebacks
<1> QED BY <1>2, <1>4 DEF all

\* Pages of files that are open come into the cache.
LEMMA CacheUpdated ==
  ASSUME NEW store, NEW counts, CacheOpen(store, counts), NEW keys \in SUBSET Key, IsFiniteSet(keys),
         NEW d \in BOOLEAN, \A k \in keys : counts[k.filename] # 0
  PROVE  LET u == UpdateCache(store, keys, d)
         IN  CacheOpen(u.lru, counts) /\ u.out \in SUBSET Key /\ IsFiniteSet(u.out)
<1> DEFINE u == UpdateCache(store, keys, d)
<1>1. /\ Good(u.lru) /\ u.out \in SUBSET Key /\ IsFiniteSet(u.out)
      /\ DOMAIN u.lru.keyEntryMap \subseteq DOMAIN store.keyEntryMap \cup keys
  BY UpdateLeaves DEF CacheOpen
<1> HIDE DEF u
<1>2. CacheOpen(u.lru, counts)
  BY <1>1 DEF CacheOpen
<1> QED BY <1>1, <1>2 DEF u

\* A read or a write is of a file that is open.
LEMMA RequestOpen ==
  ASSUME NEW asks, NEW n, NEW open, NEW counts, Reqs(asks, n, open), Counted(counts, asks, open),
         NEW r \in DOMAIN asks, asks[r].kind \in {"read", "write"}
  PROVE  /\ asks[r].file \in Files /\ asks[r].keys \in SUBSET Key /\ IsFiniteSet(asks[r].keys)
         /\ asks[r].cache \in Caches /\ counts[asks[r].file] # 0
         /\ \A k \in asks[r].keys : k.filename = asks[r].file
<1> DEFINE q == asks[r]
<1>1. ReqOK(q, open) /\ q.kind \in {"read", "write"}
  BY DEF Reqs
<1> HIDE DEF q
<1>2. q.cache \in Caches /\ q.file \in Files /\ q.keys \in SUBSET Key /\ IsFiniteSet(q.keys)
      /\ q.file \in open[q.cache] /\ \A k \in q.keys : k.filename = q.file
  BY <1>1 DEF ReqOK
<1>3. counts[q.file] # 0
  BY <1>2, OpenCounted
<1> QED BY <1>2, <1>3 DEF q

\* A write takes its pages into the cache, at once or when the pages it had to
\* read are there.
LEMMA WriteUpdates ==
  ASSUME DPInv, NEW asks, NEW n \in Nat, NEW msgs, NEW c \in Caches, NEW p, NEW r \in DOMAIN asks,
         Agree(asks, n, isOpen, msgs, c, p), asks[r].cache = c, asks[r].kind = "write",
         \A i \in 1 .. Len(msgs) : PassedOn(msgs[i]) => msgs[i].parent # r,
         NEW store, CacheOpen(store, openFileCounts), Counted(openFileCounts, asks, isOpen),
         UpdateWithWrite(c, store, p, r, asks, msgs), issued' = n,
         UNCHANGED <<openFileCounts, isOpen, failed>>
  PROVE  DPInv'
<1> DEFINE keys == asks[r].keys
           u == UpdateCache(store, keys, TRUE)
           p1 == ResolveReads(p, keys)
           p2 == AddWritebacks(p1, u.out, NoParent)
           p3 == RegisterPending(p2, r, {}, u.out)
           all == msgs \o Writebacks(c, u.out, NoParent)
<1>1. lruCache' = u.lru /\ fs' = all /\ CompleteRequests(c, p3, asks)
  BY DEF UpdateWithWrite
<1>2. Reqs(asks, n, isOpen)
  BY DEF Agree
<1>3. /\ keys \in SUBSET Key /\ IsFiniteSet(keys) /\ \A k \in keys : openFileCounts[k.filename] # 0
  <2>1. asks[r].kind \in {"read", "write"}
    OBVIOUS
  <2> QED BY <1>2, <2>1, RequestOpen
<1> HIDE DEF keys
<1>4. CacheOpen(u.lru, openFileCounts) /\ u.out \in SUBSET Key /\ IsFiniteSet(u.out)
  BY <1>3, CacheUpdated
<1> HIDE DEF u
<1>5. Agree(asks, n, isOpen, msgs, c, p1)
  BY ReadsResolved
<1> HIDE DEF p1
<1>6. Agree(asks, n, isOpen, all, c, p2) /\ \A k \in u.out : Sent(c, "write", k, all)
  BY <1>4, <1>5, Evicts
<1>7. \A i \in 1 .. Len(all) : PassedOn(all[i]) => all[i].parent # r
  <2> DEFINE W == Writebacks(c, u.out, NoParent)
             M == [cache : {c}, kind : {"write"}, keys : SUBSET u.out, parent : {NoParent}]
  <2>1. W \in Seq(M)
    BY <1>4, WritebacksLeave DEF Writes
  <2>2. \A m \in M : m.kind = "write"
    OBVIOUS
  <2> HIDE DEF M, W
  <2>3. \A i \in 1 .. Len(W) : ~PassedOn(W[i])
    BY <2>1, <2>2, SeqAt DEF PassedOn
  <2>4. msgs \in Seq(Message(n))
    BY <1>5 DEF Agree, Msgs
  <2>5. \A i \in 1 .. Len(msgs \o W) : (i \in 1 .. Len(msgs) /\ (msgs \o W)[i] = msgs[i])
                                       \/ (i - Len(msgs) \in 1 .. Len(W) /\ (msgs \o W)[i] = W[i - Len(msgs)])
    BY <2>1, <2>4
  <2> QED BY <2>3, <2>5 DEF W
<1> HIDE DEF p2, all
<1>8. Agree(asks, n, isOpen, all, c, p3)
  <2>1. asks[r].kind # "open"
    OBVIOUS
  <2> QED BY <1>4, <1>6, <1>7, <2>1, Registers
<1> HIDE DEF p3
<1>9. isOpen \in [Caches -> SUBSET Files]
  BY DEF DPInv
<1> QED BY <1>1, <1>4, <1>8, <1>9, Concludes

\* The answers.
LEMMA ReadDoneKeeps ==
  ASSUME DPInv, NEW i \in 1 .. Len(fs), ReadDone(i)
  PROVE  DPInv'
<1> DEFINE m == fs[i]
           c == m.cache
           u == UpdateCache(lruCache, m.keys, FALSE)
           p1 == ResolveReads(pendingPages[c], m.keys)
           p2 == AddWritebacks(p1, u.out, NoParent)
           all == Left(i) \o Writebacks(c, u.out, NoParent)
<1>1. /\ m.kind = "read" /\ m.parent \in DOMAIN live /\ live[m.parent].kind = "read"
      /\ lruCache' = u.lru /\ fs' = all /\ CompleteRequests(c, p2, live)
      /\ UNCHANGED <<openFileCounts, issued, isOpen, failed>>
  BY DEF ReadDone, Left
<1>2. m \in Message(issued) /\ MsgOK(m, live)
  BY MsgsLeft
<1>3. c \in Caches /\ m.keys \in SUBSET Key /\ IsFiniteSet(m.keys)
      /\ \A k \in m.keys : k.filename = live[m.parent].file
  BY <1>1, <1>2, MessageIs DEF MsgOK
<1>4. \A k \in m.keys : openFileCounts[k.filename] # 0
  BY <1>1, <1>3, RequestOpen DEF DPInv
<1>5. Agree(live, issued, isOpen, Left(i), c, p1)
  BY <1>1, ReadLeft
<1> HIDE DEF m, c, p1
<1>6. CacheOpen(u.lru, openFileCounts) /\ u.out \in SUBSET Key /\ IsFiniteSet(u.out)
  BY <1>3, <1>4, CacheUpdated DEF DPInv
<1> HIDE DEF u
<1>7. issued \in Nat /\ isOpen \in [Caches -> SUBSET Files] /\ Counted(openFileCounts, live, isOpen)
  BY DEF DPInv
<1>8. Agree(live, issued, isOpen, all, c, p2)
  BY <1>3, <1>5, <1>6, <1>7, Evicts
<1> HIDE DEF p2, all
<1> QED BY <1>1, <1>3, <1>6, <1>7, <1>8, Concludes

LEMMA PartialReadDoneKeeps ==
  ASSUME DPInv, NEW i \in 1 .. Len(fs), PartialReadDone(i)
  PROVE  DPInv'
<1> DEFINE m == fs[i]
           c == m.cache
           p1 == ResolveReads(pendingPages[c], m.keys)
<1>1. /\ m.kind = "read" /\ m.parent \in DOMAIN live /\ live[m.parent].kind = "write"
      /\ UpdateWithWrite(c, lruCache, p1, m.parent, live, Left(i))
      /\ UNCHANGED <<openFileCounts, issued, isOpen, failed>>
  BY DEF PartialReadDone, Left
<1>2. m \in Message(issued) /\ MsgOK(m, live)
  BY MsgsLeft
<1>3. c \in Caches /\ live[m.parent].cache = c
  BY <1>1, <1>2, MessageIs DEF MsgOK
<1>4. Agree(live, issued, isOpen, Left(i), c, p1)
  BY <1>1, ReadLeft
<1>5. \A j \in 1 .. Len(Left(i)) : PassedOn(Left(i)[j]) => Left(i)[j].parent # m.parent
  <2>1. \A x \in 1 .. Len(fs) : PassedOn(fs[x]) /\ x # i => fs[i].parent # fs[x].parent
    BY DEF DPInv, Msgs
  <2>2. \A j \in 1 .. Len(Left(i)) : \E x \in 1 .. Len(fs) : x # i /\ Left(i)[j] = fs[x]
    BY MsgsLeft
  <2> QED BY <2>1, <2>2
<1> HIDE DEF m, c, p1
<1>6. issued \in Nat /\ CacheOpen(lruCache, openFileCounts) /\ Counted(openFileCounts, live, isOpen)
  BY DEF DPInv
<1>7. issued' = issued /\ UNCHANGED <<openFileCounts, isOpen, failed>>
  BY <1>1
<1> QED BY <1>1, <1>3, <1>4, <1>5, <1>6, <1>7, WriteUpdates

LEMMA WrittenBackKeeps ==
  ASSUME DPInv, NEW i \in 1 .. Len(fs), WrittenBack(i)
  PROVE  DPInv'
<1> DEFINE m == fs[i]
           c == m.cache
           p1 == ResolveWrites(pendingPages[c], m.keys)
<1>1. /\ m.kind = "write" /\ fs' = Left(i) /\ CompleteRequests(c, p1, live)
      /\ UNCHANGED <<lruCache, openFileCounts, issued, isOpen, failed>>
  BY DEF WrittenBack, Left
<1>2. c \in Caches
  BY MsgsLeft, MessageIs
<1>3. Agree(live, issued, isOpen, Left(i), c, p1)
  BY <1>1, WriteLeft
<1> HIDE DEF m, c, p1
<1>4. /\ issued \in Nat /\ isOpen \in [Caches -> SUBSET Files] /\ Counted(openFileCounts, live, isOpen)
      /\ CacheOpen(lruCache, openFileCounts)
  BY DEF DPInv
<1> QED BY <1>1, <1>2, <1>3, <1>4, Concludes

LEMMA ForwardKeeps ==
  ASSUME DPInv, NEW i \in 1 .. Len(fs), Forward(i)
  PROVE  DPInv'
<1> DEFINE m == fs[i]
           c == m.cache
           r == m.parent
           q == live[r]
<1>1. /\ PassedOn(m) /\ live' = Without(live, {r}) /\ fs' = Left(i)
      /\ isOpen' = IF m.kind = "open" THEN [isOpen EXCEPT ![c] = @ \union {q.file}] ELSE isOpen
      /\ UNCHANGED <<lruCache, openFileCounts, pendingPages, issued, failed>>
  BY DEF Forward, Left, PassedOn
<1>2. m \in Message(issued) /\ MsgOK(m, live)
  BY MsgsLeft
<1>3. /\ c \in Caches /\ r \in DOMAIN live /\ q.cache = c
      /\ (m.kind = "open") <=> (q.kind = "open")
  BY <1>1, <1>2, MessageIs DEF MsgOK
<1>4. \A b \in Caches : r \notin DOMAIN pendingPages[b]
  BY <1>1 DEF DPInv, ModuleOK, PassedFree
<1>5. \A x \in 1 .. Len(fs) : x # i => fs[x].parent # r
  BY <1>1 DEF DPInv, Msgs
<1>6. \A j \in 1 .. Len(Left(i)) : Left(i)[j].parent # r
  <2>1. \A j \in 1 .. Len(Left(i)) : \E x \in 1 .. Len(fs) : x # i /\ Left(i)[j] = fs[x]
    BY MsgsLeft
  <2> QED BY <1>5, <2>1
<1>7. /\ Msgs(Left(i), live, issued)
      /\ \A b \in Caches : ModuleOK(b, pendingPages[b], live, Left(i))
  BY <1>1, MsgsLeft, OthersLeft
<1>8. /\ DOMAIN live' = DOMAIN live \ {r} /\ \A x \in DOMAIN live' : live'[x] = live[x]
      /\ live' = [x \in DOMAIN live' |-> live'[x]]
  BY <1>1 DEF Without
<1>9. Reqs(live, issued, isOpen) /\ isOpen \in [Caches -> SUBSET Files]
  BY DEF DPInv
<1>10. q.file \in Files
  BY <1>3, <1>9 DEF Reqs, ReqOK
<1> HIDE DEF m, c, r, q
<1>11. /\ isOpen' \in [Caches -> SUBSET Files] /\ \A b \in Caches : isOpen[b] \subseteq isOpen'[b]
       /\ \A b \in Caches : \A f : f \in isOpen'[b] => f \in isOpen[b] \/ (m.kind = "open" /\ b = c /\ f = q.file)
       /\ m.kind = "open" => q.file \in isOpen'[c]
  BY <1>1, <1>3, <1>9, <1>10
<1>12. Reqs(live', issued, isOpen')
  <2>1. ASSUME NEW x \in DOMAIN live' PROVE ReqOK(live'[x], isOpen')
    <3> DEFINE v == live[x]
    <3>1. ReqOK(v, isOpen) /\ live'[x] = v
      BY <1>8, <1>9 DEF Reqs
    <3> HIDE DEF v
    <3>2. v.cache \in Caches
      BY <3>1 DEF ReqOK
    <3>3. ReqOK(v, isOpen')
      BY <1>11, <3>1, <3>2 DEF ReqOK
    <3> QED BY <3>1, <3>3
  <2> QED BY <1>8, <1>9, <2>1 DEF Reqs
<1>13. Msgs(Left(i), live', issued)
  <2>1. \A j \in 1 .. Len(Left(i)) : MsgOK(Left(i)[j], live')
    BY <1>6, <1>7, <1>8 DEF Msgs, MsgOK
  <2> QED BY <1>7, <2>1 DEF Msgs
<1>14. ASSUME NEW b \in Caches PROVE ModuleOK(b, pendingPages[b], live', Left(i))
  <2>1. ModuleOK(b, pendingPages[b], live, Left(i)) /\ r \notin DOMAIN pendingPages[b]
    BY <1>4, <1>7
  <2>2. PendOK(b, pendingPages[b], live')
    BY <1>8, <2>1 DEF ModuleOK, PendOK
  <2> QED BY <2>1, <2>2 DEF ModuleOK
<1>15. ASSUME NEW f PROVE Holders(f, live', isOpen') = Holders(f, live, isOpen)
  <2>1. ASSUME NEW b \in Caches, NEW x \in DOMAIN live, Opens(live[x], b, f)
        PROVE  b \in Holders(f, live', isOpen')
    <3>1. CASE x = r
      <4>1. q = live[r]
        BY DEF q
      <4>2. b = c /\ f = q.file /\ m.kind = "open"
        BY <1>3, <2>1, <3>1, <4>1 DEF Opens
      <4> QED BY <1>11, <4>2 DEF Holders
    <3>2. CASE x # r
      BY <1>8, <2>1, <3>2 DEF Holders
    <3> QED BY <3>1, <3>2
  <2>2. ASSUME NEW b \in Caches, f \in isOpen'[b] PROVE b \in Holders(f, live, isOpen)
    <3>1. CASE f \in isOpen[b]
      BY <3>1 DEF Holders
    <3>2. CASE m.kind = "open" /\ b = c /\ f = q.file
      <4>1. Opens(live[r], b, f)
        BY <1>3, <3>2 DEF Opens, q
      <4> QED BY <1>3, <4>1 DEF Holders
    <3> QED BY <1>11, <2>2, <3>1, <3>2
  <2>3. \A b \in Caches, x \in DOMAIN live' : Opens(live'[x], b, f) => b \in Holders(f, live, isOpen)
    BY <1>8 DEF Holders
  <2>4. \A b \in Caches : f \in isOpen[b] => b \in Holders(f, live', isOpen')
    BY <1>11 DEF Holders
  <2> QED BY <2>1, <2>2, <2>3, <2>4 DEF Holders
<1>16. Counted(openFileCounts, live, isOpen)'
  BY <1>1, <1>15 DEF Counted, DPInv
<1>17. CacheOpen(lruCache, openFileCounts)' /\ (issued \in Nat)' /\ (failed \in {"no", "assert", "deleted"})'
       /\ (pendingPages = [b \in Caches |-> pendingPages[b]])'
  BY <1>1 DEF CacheOpen, Good, Consistent, DPInv
<1>18. /\ Reqs(live, issued, isOpen)' /\ Msgs(fs, live, issued)'
       /\ \A b \in Caches : ModuleOK(b, pendingPages'[b], live', fs')
  BY <1>1, <1>12, <1>13, <1>14
<1> QED BY <1>11, <1>16, <1>17, <1>18 DEF DPInv

LEMMA AnswerKeeps ==
  ASSUME DPInv, Answer
  PROVE  DPInv'
<1>1. PICK i \in DOMAIN fs : Forward(i) \/ ReadDone(i) \/ PartialReadDone(i) \/ WrittenBack(i) \/ DanglingContext(i)
  BY DEF Answer
<1>2. i \in 1 .. Len(fs)
  <2>1. fs \in Seq(Message(issued))
    BY DEF DPInv, Msgs
  <2> QED BY <1>1, <2>1, SeqAt
<1>3. CASE DanglingContext(i)
  BY <1>3 DEF DanglingContext, DPInv
<1> QED BY <1>1, <1>2, <1>3, ForwardKeeps, ReadDoneKeeps, PartialReadDoneKeeps, WrittenBackKeeps

LEMMA RegionKeys ==
  ASSUME NEW f \in Files, NEW P \in {g.pages : g \in {h \in Regions : h.file = f}}, NEW Q \in SUBSET P
  PROVE  /\ KeysOf(f, Q) \in SUBSET Key /\ IsFiniteSet(KeysOf(f, Q))
         /\ \A k \in KeysOf(f, Q) : k.filename = f
<1>1. PICK g \in Regions : g.file = f /\ g.pages = P
  OBVIOUS
<1>2. IsFiniteSet(Q)
  BY <1>1, DirectPagedAssumption, FS_Subset
<1> DEFINE K == KeysOf(f, Q)
           F == [p \in Q |-> [filename |-> f, key |-> p]]
<1>3. F \in Surjection(Q, K)
  BY DEF Surjection, KeysOf
<1>4. IsFiniteSet(K)
  <2> HIDE DEF F, K
  <2> QED BY <1>2, <1>3, FS_Surjection
<1>5. K \in SUBSET Key
  BY <1>1 DEF Key, KeysOf
<1> QED BY <1>4, <1>5 DEF KeysOf

LEMMA AskedHolders ==
  ASSUME NEW open, NEW c \in Caches, NEW kind, NEW f, NEW keys, Id \notin DOMAIN live, NEW g
  PROVE  LET H == Holders(g, Asked(c, kind, f, keys), open)
         IN  /\ kind # "open" \/ g # f => H = Holders(g, live, open)
             /\ kind = "open" /\ g = f => H = Holders(g, live, open) \cup {c}
<1> DEFINE asks == Asked(c, kind, f, keys)
           q == [cache |-> c, kind |-> kind, file |-> f, keys |-> keys]
<1>1. DOMAIN asks = DOMAIN live \cup {Id} /\ asks[Id] = q /\ \A r \in DOMAIN live : asks[r] = live[r]
  BY DEF Asked
<1>2. \A b : Opens(q, b, g) <=> kind = "open" /\ g = f /\ b = c
  BY DEF Opens
<1> HIDE DEF asks, q
<1> QED BY <1>1, <1>2 DEF Holders, asks

\* A request that is no open leaves the counts.
SameHolders(asks, open) == \A g : Holders(g, asks, open) = Holders(g, live, open)

LEMMA AskedSame ==
  ASSUME NEW open, NEW c \in Caches, NEW kind, kind # "open", NEW f, NEW keys, Id \notin DOMAIN live
  PROVE  SameHolders(Asked(c, kind, f, keys), open)
<1>1. \A g : Holders(g, Asked(c, kind, f, keys), open) = Holders(g, live, open)
  BY AskedHolders
<1> QED BY <1>1 DEF SameHolders

LEMMA AskedCounted ==
  ASSUME DPInv, NEW c \in Caches, NEW kind, kind # "open", NEW f, NEW keys, Id \notin DOMAIN live
  PROVE  Counted(openFileCounts, Asked(c, kind, f, keys), isOpen)
<1>1. SameHolders(Asked(c, kind, f, keys), isOpen)
  BY AskedSame
<1> QED BY <1>1 DEF DPInv, Counted, SameHolders

LEMMA AsksNoPages ==
  ASSUME DPInv, NEW open \in [Caches -> SUBSET Files], Reqs(live, issued, open),
         NEW c \in Caches, NEW kind \in {"open", "close"}, NEW f \in Files
  PROVE  NewAsk(Asked(c, kind, f, {}), c, kind, f, {}, open)
<1> DEFINE none == {}
<1>1. none \in SUBSET Key /\ IsFiniteSet(none) /\ \A k \in none : k.filename = f
  BY FS_EmptySet
<1>2. kind \in Kinds /\ ~(kind \in {"read", "write"})
  BY DEF Kinds
<1> HIDE DEF none
<1>3. NewAsk(Asked(c, kind, f, none), c, kind, f, none, open)
  BY <1>1, <1>2, Asks
<1> QED BY <1>3 DEF none

LEMMA OpenKeeps ==
  ASSUME DPInv, NEW c \in Caches, NEW f \in Files, Open(c, f)
  PROVE  DPInv'
<1> DEFINE asks == Asked(c, "open", f, {})
           m == ToFs(c, "open", {}, Id)
           counts == [openFileCounts EXCEPT ![f] = @ + 1]
<1>1. /\ issued' = Id /\ f \notin isOpen[c]
      /\ \A r \in DOMAIN live : live[r].cache = c /\ live[r].kind = "open" => live[r].file # f
      /\ openFileCounts' = counts /\ fs' = Append(fs, m)
      /\ CompleteRequests(c, pendingPages[c], asks)
      /\ UNCHANGED <<lruCache, isOpen, failed>>
  BY DEF Open, Issue, Outstanding
<1>2. isOpen \in [Caches -> SUBSET Files] /\ Reqs(live, issued, isOpen)
  BY DEF DPInv
<1>3. "open" \in Kinds /\ IsFiniteSet({}) /\ {} \in SUBSET Key
  BY FS_EmptySet DEF Kinds
<1>4. /\ Id \in Nat /\ Agree(asks, Id, isOpen, fs, c, pendingPages[c])
      /\ asks[Id] = [cache |-> c, kind |-> "open", file |-> f, keys |-> {}]
      /\ DOMAIN asks = DOMAIN live \cup {Id} /\ Id \notin DOMAIN live
      /\ \A b \in Caches : Id \notin DOMAIN pendingPages[b]
      /\ \A i \in 1 .. Len(fs) : fs[i].parent # Id
  BY <1>2, AsksNoPages DEF NewAsk
<1>5. m \in Message(Id) /\ m.cache = c /\ m.kind = "open" /\ m.parent = Id /\ m.keys = {}
  <2>1. "open" \in MsgKinds /\ Id \in 0 .. Id
    BY <1>4 DEF MsgKinds
  <2>2. m \in Message(Id)
    BY <1>3, <2>1, MessageMade DEF ToFs
  <2> QED BY <2>2 DEF ToFs
<1>6. /\ Holders(f, asks, isOpen) = Holders(f, live, isOpen) \cup {c}
      /\ \A g \in Files \ {f} : Holders(g, asks, isOpen) = Holders(g, live, isOpen)
  BY <1>4, AskedHolders
<1> HIDE DEF asks, m, counts
<1>7. MsgOK(m, asks)
  BY <1>3, <1>4, <1>5 DEF MsgOK
<1>8. Agree(asks, Id, isOpen, Append(fs, m), c, pendingPages[c])
  BY <1>4, <1>5, <1>7, OneJoins
<1>9. c \notin Holders(f, live, isOpen)
  BY <1>1 DEF Holders, Opens
<1>10. Counted(counts, asks, isOpen) /\ \A g \in Files : openFileCounts[g] # 0 => counts[g] # 0
  BY <1>6, <1>9, HolderJoins DEF counts
<1>11. CacheOpen(lruCache', counts)
  <2>1. CacheOpen(lruCache, openFileCounts) /\ lruCache' = lruCache
    BY <1>1 DEF DPInv
  <2>2. \A k \in DOMAIN lruCache.keyEntryMap : k.filename \in Files
    BY <2>1, CachedFinite, KeysAre DEF CacheOpen
  <2> QED BY <1>10, <2>1, <2>2 DEF CacheOpen
<1> QED BY <1>1, <1>2, <1>4, <1>8, <1>10, <1>11, Concludes

LEMMA FakeOpenKeeps ==
  ASSUME DPInv, NEW c \in Caches, NEW f \in Files, FakeOpen(c, f)
  PROVE  DPInv'
<1> DEFINE open == [isOpen EXCEPT ![c] = @ \union {f}]
           counts == [openFileCounts EXCEPT ![f] = @ + 1]
<1>1. /\ f \notin isOpen[c] /\ \A r \in DOMAIN live : live[r].cache # c
      /\ openFileCounts' = counts /\ isOpen' = open
      /\ UNCHANGED <<lruCache, pendingPages, fs, live, issued, failed>>
  BY DEF FakeOpen, Outstanding
<1>2. isOpen \in [Caches -> SUBSET Files] /\ Reqs(live, issued, isOpen) /\ CacheOpen(lruCache, openFileCounts)
  BY DEF DPInv
<1>3. /\ open \in [Caches -> SUBSET Files] /\ open[c] = isOpen[c] \cup {f}
      /\ \A b \in Caches \ {c} : open[b] = isOpen[b]
  BY <1>2
<1> HIDE DEF open, counts
<1>4. Reqs(live, issued, open)
  <2>1. ASSUME NEW x \in DOMAIN live PROVE ReqOK(live[x], open)
    <3> DEFINE v == live[x]
    <3>1. ReqOK(v, isOpen)
      BY <1>2 DEF Reqs
    <3> HIDE DEF v
    <3>2. v.cache \in Caches
      BY <3>1 DEF ReqOK
    <3>3. ReqOK(v, open)
      BY <1>3, <3>1, <3>2 DEF ReqOK
    <3> QED BY <3>3 DEF v
  <2> QED BY <1>2, <2>1 DEF Reqs
<1>5. c \notin Holders(f, live, isOpen)
  BY <1>1 DEF Holders, Opens
<1>6. /\ Holders(f, live, open) = Holders(f, live, isOpen) \cup {c}
      /\ \A g \in Files \ {f} : Holders(g, live, open) = Holders(g, live, isOpen)
  BY <1>3 DEF Holders
<1>7. Counted(counts, live, open) /\ \A g \in Files : openFileCounts[g] # 0 => counts[g] # 0
  BY <1>5, <1>6, HolderJoins DEF counts
<1>8. CacheOpen(lruCache, counts)
  <2>1. \A k \in DOMAIN lruCache.keyEntryMap : k.filename \in Files
    BY <1>2, CachedFinite, KeysAre DEF CacheOpen
  <2> QED BY <1>2, <1>7, <2>1 DEF CacheOpen
<1> QED BY <1>1, <1>3, <1>4, <1>7, <1>8 DEF DPInv

LEMMA FlushedOpen ==
  ASSUME NEW f \in Files, NEW counts, CacheOpen(lruCache, openFileCounts),
         \A g \in Files \ {f} : counts[g] = openFileCounts[g]
  PROVE  CacheOpen(FlushCache(f), counts)
<1> DEFINE x == FlushCache(f)
<1>1. Good(x) /\ DOMAIN x.keyEntryMap = {k \in DOMAIN lruCache.keyEntryMap : k.filename # f}
  BY FlushLeaves DEF CacheOpen
<1> HIDE DEF x
<1>2. \A k \in DOMAIN lruCache.keyEntryMap : k.filename \in Files
  BY CachedFinite, KeysAre DEF CacheOpen
<1>3. CacheOpen(x, counts)
  BY <1>1, <1>2 DEF CacheOpen
<1> QED BY <1>3 DEF x

\* A close: the last one writes the dirty pages back and flushes the file,
\* another one is passed on.
LEMMA CloseKeeps ==
  ASSUME DPInv, NEW c \in Caches, NEW f \in Files, Close(c, f)
  PROVE  DPInv'
<1> DEFINE asks == Asked(c, "close", f, {})
           open == [isOpen EXCEPT ![c] = @ \ {f}]
           counts == [openFileCounts EXCEPT ![f] = @ - 1]
           p == pendingPages[c]
           dirty == DirtyPages(f)
           p1 == AddWritebacks(p, dirty, Id)
           p2 == RegisterPending(p1, Id, {}, dirty)
           all == fs \o Writebacks(c, dirty, Id)
           m == ToFs(c, "close", {}, Id)
<1>1. /\ issued' = Id /\ f \in isOpen[c] /\ \A r \in DOMAIN live : live[r].cache = c => live[r].file # f
      /\ openFileCounts' = counts /\ isOpen' = open /\ failed' = failed
      /\ \/ /\ counts[f] = 0
            /\ fs' = all /\ lruCache' = FlushCache(f) /\ CompleteRequests(c, p2, asks)
         \/ /\ counts[f] # 0
            /\ fs' = Append(fs, m) /\ lruCache' = lruCache /\ CompleteRequests(c, p, asks)
  BY DEF Close, Issue, CanClose, Outstanding
<1>2. /\ isOpen \in [Caches -> SUBSET Files] /\ Reqs(live, issued, isOpen) /\ CacheOpen(lruCache, openFileCounts)
      /\ Counted(openFileCounts, live, isOpen)
  BY DEF DPInv
<1>3. /\ open \in [Caches -> SUBSET Files] /\ open[c] = isOpen[c] \ {f}
      /\ \A b \in Caches \ {c} : open[b] = isOpen[b]
  BY <1>2
<1> HIDE DEF open
<1>4. Reqs(live, issued, open)
  <2>1. ASSUME NEW x \in DOMAIN live PROVE ReqOK(live[x], open)
    <3> DEFINE v == live[x]
    <3>1. ReqOK(v, isOpen) /\ (v.cache = c => v.file # f)
      BY <1>1, <1>2 DEF Reqs
    <3> HIDE DEF v
    <3>2. v.cache \in Caches
      BY <3>1 DEF ReqOK
    <3>3. ReqOK(v, open)
      BY <1>3, <3>1, <3>2 DEF ReqOK
    <3> QED BY <3>3 DEF v
  <2> QED BY <1>2, <2>1 DEF Reqs
<1>5. "close" \in Kinds /\ IsFiniteSet({}) /\ {} \in SUBSET Key
  BY FS_EmptySet DEF Kinds
<1>6. /\ Id \in Nat /\ Id # NoParent /\ Agree(asks, Id, open, fs, c, p)
      /\ asks[Id] = [cache |-> c, kind |-> "close", file |-> f, keys |-> {}]
      /\ DOMAIN asks = DOMAIN live \cup {Id} /\ Id \notin DOMAIN live
      /\ \A b \in Caches : Id \notin DOMAIN pendingPages[b]
      /\ \A i \in 1 .. Len(fs) : fs[i].parent # Id
  BY <1>3, <1>4, AsksNoPages DEF NewAsk
<1>7. SameHolders(asks, open)
  BY <1>6, AskedSame
<1> HIDE DEF asks
<1>8. Counted(counts, asks, open) /\ \A g \in Files \ {f} : counts[g] = openFileCounts[g]
  <2>1. c \in Holders(f, live, isOpen)
    BY <1>1 DEF Holders
  <2>2. /\ Holders(f, live, open) = Holders(f, live, isOpen) \ {c}
        /\ \A g \in Files \ {f} : Holders(g, live, open) = Holders(g, live, isOpen)
    BY <1>1, <1>3 DEF Holders, Opens
  <2>3. /\ Holders(f, asks, open) = Holders(f, live, isOpen) \ {c}
        /\ \A g \in Files \ {f} : Holders(g, asks, open) = Holders(g, live, isOpen)
    BY <1>7, <2>2 DEF SameHolders
  <2> QED BY <2>1, <2>3, HolderLeaves
<1> HIDE DEF counts, p
<1>9. CASE fs' = all /\ lruCache' = FlushCache(f) /\ CompleteRequests(c, p2, asks)
  <2>1. dirty \in SUBSET Key /\ IsFiniteSet(dirty)
    <3>1. dirty \subseteq DOMAIN lruCache.keyEntryMap
      BY DEF DirtyPages, GetDirtyEntries
    <3>2. IsFiniteSet(DOMAIN lruCache.keyEntryMap) /\ DOMAIN lruCache.keyEntryMap \in SUBSET Key
      BY <1>2, CachedFinite DEF CacheOpen
    <3> HIDE DEF dirty
    <3> QED BY <3>1, <3>2, FS_Subset
  <2> HIDE DEF dirty
  <2>2. Agree(asks, Id, open, all, c, p) /\ \A k \in dirty : Sent(c, "write", k, all)
    <3>1. Id \in 0 .. Id
      BY <1>6
    <3> QED BY <1>6, <2>1, <3>1, WritesJoin
  <2>3. \A i \in 1 .. Len(all) : PassedOn(all[i]) => all[i].parent # Id
    <3> DEFINE W == Writebacks(c, dirty, Id)
               M == [cache : {c}, kind : {"write"}, keys : SUBSET dirty, parent : {Id}]
    <3>1. W \in Seq(M)
      BY <2>1, WritebacksLeave DEF Writes
    <3>2. \A w \in M : w.kind = "write"
      OBVIOUS
    <3> HIDE DEF M, W
    <3>3. \A i \in 1 .. Len(W) : ~PassedOn(W[i])
      BY <3>1, <3>2, SeqAt DEF PassedOn
    <3>4. fs \in Seq(Message(Id))
      BY <1>6 DEF Agree, Msgs
    <3>5. \A i \in 1 .. Len(fs \o W) : (i \in 1 .. Len(fs) /\ (fs \o W)[i] = fs[i])
                                       \/ (i - Len(fs) \in 1 .. Len(W) /\ (fs \o W)[i] = W[i - Len(fs)])
      BY <3>1, <3>4
    <3> QED BY <1>6, <3>3, <3>5 DEF W
  <2> HIDE DEF all
  <2>4. Id \in DOMAIN asks /\ asks[Id].cache = c /\ asks[Id].kind # "open" /\ {} \in SUBSET Key
    BY <1>6
  <2>5. Agree(asks, Id, open, all, c, p1)
    <3>1. Agree(asks, Id, open, all, c, RegisterPending(p, Id, {}, dirty))
      BY <1>6, <2>1, <2>2, <2>3, <2>4, Registers
    <3> QED BY <2>2, <3>1 DEF AddWritebacks
  <2> HIDE DEF p1
  <2>6. Agree(asks, Id, open, all, c, p2)
    BY <1>6, <2>1, <2>2, <2>3, <2>4, <2>5, Registers
  <2> HIDE DEF p2
  <2>7. CacheOpen(FlushCache(f), counts)
    BY <1>2, <1>8, FlushedOpen
  <2> QED BY <1>1, <1>3, <1>6, <1>8, <1>9, <2>6, <2>7, Concludes
<1>10. CASE counts[f] # 0 /\ fs' = Append(fs, m) /\ lruCache' = lruCache /\ CompleteRequests(c, p, asks)
  <2>1. m \in Message(Id) /\ m.cache = c /\ m.kind = "close" /\ m.parent = Id /\ m.keys = {}
    <3>1. "close" \in MsgKinds /\ Id \in 0 .. Id
      BY <1>6 DEF MsgKinds
    <3>2. m \in Message(Id)
      BY <1>5, <3>1, MessageMade DEF ToFs
    <3> QED BY <3>2 DEF ToFs
  <2> HIDE DEF m
  <2>2. MsgOK(m, asks)
    BY <1>5, <1>6, <2>1 DEF MsgOK
  <2>3. Id \notin DOMAIN p
    BY <1>6 DEF p
  <2>4. Agree(asks, Id, open, Append(fs, m), c, p)
    BY <1>6, <2>1, <2>2, <2>3, OneJoins
  <2>5. CacheOpen(lruCache', counts)
    <3>1. \A k \in DOMAIN lruCache.keyEntryMap : k.filename \in Files
      BY <1>2, CachedFinite, KeysAre DEF CacheOpen
    <3> QED BY <1>2, <1>8, <1>10, <3>1 DEF CacheOpen
  <2> QED BY <1>1, <1>3, <1>6, <1>8, <1>10, <2>4, <2>5, Concludes
<1> QED BY <1>1, <1>9, <1>10

LEMMA TrimmedOf ==
  ASSUME NEW p, NEW keys
  PROVE  TrimPending(p, keys) \subseteq keys
BY DEF TrimPending

\* A request reads what is wanted and not being read, and waits for it all.
LEMMA ReadSent ==
  ASSUME NEW asks, NEW c \in Caches, NEW kind \in {"read", "write"}, NEW f, NEW keys \in SUBSET Key,
         IsFiniteSet(keys), \A k \in keys : k.filename = f,
         NewAsk(asks, c, kind, f, keys, isOpen), NEW wanted \in SUBSET keys
  PROVE  LET p == pendingPages[c]
             m == ToFs(c, "read", TrimPending(p, wanted), Id)
         IN  Agree(asks, Id, isOpen, Append(fs, m), c, RegisterPending(p, Id, wanted, {}))
<1> DEFINE p == pendingPages[c]
           trimmed == TrimPending(p, wanted)
           m == ToFs(c, "read", trimmed, Id)
           q == [cache |-> c, kind |-> kind, file |-> f, keys |-> keys]
           all == Append(fs, m)
<1>1. /\ Id \in Nat /\ Id # NoParent /\ Agree(asks, Id, isOpen, fs, c, p)
      /\ asks[Id] = q
      /\ Id \in DOMAIN asks
      /\ \A b \in Caches : Id \notin DOMAIN pendingPages[b]
      /\ \A i \in 1 .. Len(fs) : fs[i].parent # Id
  BY DEF NewAsk
<1>2. q.cache = c /\ q.kind = kind /\ q.file = f
  OBVIOUS
<1> HIDE DEF q, p
<1>3. trimmed \subseteq wanted
  BY TrimmedOf
<1> HIDE DEF trimmed
<1>4. trimmed \in SUBSET Key /\ IsFiniteSet(trimmed) /\ \A k \in trimmed : k.filename = f
  BY <1>3, FS_Subset
<1>5. m \in Message(Id) /\ m.cache = c /\ m.kind = "read" /\ m.parent = Id /\ m.keys = trimmed
  <2>1. "read" \in MsgKinds /\ Id \in 0 .. Id
    BY <1>1 DEF MsgKinds
  <2>2. m \in Message(Id)
    BY <1>4, <2>1, MessageMade DEF ToFs
  <2> QED BY <2>2 DEF ToFs
<1> HIDE DEF m
<1>6. MsgOK(m, asks) /\ ~PassedOn(m)
  BY <1>1, <1>2, <1>4, <1>5 DEF MsgOK, PassedOn
<1>7. Agree(asks, Id, isOpen, all, c, p)
  BY <1>1, <1>5, <1>6, OneJoins
<1>8. fs \in Seq(Message(Id))
  BY <1>1 DEF Agree, Msgs
<1>9. /\ Len(fs) + 1 \in 1 .. Len(all) /\ all[Len(fs) + 1] = m
      /\ \A i \in 1 .. Len(all) : (i \in 1 .. Len(fs) /\ all[i] = fs[i]) \/ all[i] = m
  BY <1>5, <1>8
<1> HIDE DEF all
<1>10. ASSUME NEW k \in wanted PROVE Sent(c, "read", k, all)
  <2>1. CASE k \in trimmed
    BY <1>5, <1>9, <2>1 DEF Sent
  <2>2. CASE k \notin trimmed
    BY <1>7, <2>2, TrimmedSent DEF trimmed
  <2> QED BY <2>1, <2>2
<1>11. \A i \in 1 .. Len(all) : PassedOn(all[i]) => all[i].parent # Id
  BY <1>1, <1>6, <1>9
<1>12. asks[Id].cache = c /\ asks[Id].kind # "open" /\ wanted \in SUBSET Key /\ {} \in SUBSET Key
  BY <1>1, <1>2
<1>13. Agree(asks, Id, isOpen, all, c, RegisterPending(p, Id, wanted, {}))
  BY <1>1, <1>7, <1>10, <1>11, <1>12, Registers
<1> QED BY <1>13 DEF all, m, p, trimmed

\* A read or a write of pages of an open file.
LEMMA PagesAsked ==
  ASSUME DPInv, NEW c \in Caches, NEW f \in Files, f \in isOpen[c], NEW kind \in {"read", "write"},
         NEW keys \in SUBSET Key, IsFiniteSet(keys), \A k \in keys : k.filename = f
  PROVE  LET asks == Asked(c, kind, f, keys)
         IN  NewAsk(asks, c, kind, f, keys, isOpen) /\ Counted(openFileCounts, asks, isOpen)
<1>1. isOpen \in [Caches -> SUBSET Files] /\ Reqs(live, issued, isOpen)
  BY DEF DPInv
<1>2. kind \in Kinds /\ kind # "open"
  BY DEF Kinds
<1>3. NewAsk(Asked(c, kind, f, keys), c, kind, f, keys, isOpen)
  BY <1>1, <1>2, Asks
<1>4. Id \notin DOMAIN live
  BY <1>3 DEF NewAsk
<1>5. Counted(openFileCounts, Asked(c, kind, f, keys), isOpen)
  BY <1>2, <1>4, AskedCounted
<1> QED BY <1>3, <1>5

LEMMA LookedUp ==
  ASSUME DPInv, NEW keys \in SUBSET Key, IsFiniteSet(keys)
  PROVE  CacheOpen(LookupPages(lruCache, keys), openFileCounts)
<1>1. CacheOpen(lruCache, openFileCounts)
  BY DEF DPInv
<1> QED BY <1>1, LookupLeaves DEF CacheOpen

LEMMA ReadKeeps ==
  ASSUME DPInv, NEW c \in Caches, NEW f \in Files,
         NEW P \in {g.pages : g \in {h \in Regions : h.file = f}}, Read(c, f, P)
  PROVE  DPInv'
<1> DEFINE K == KeysOf(f, P)
           wanted == Uncached(K)
           p == pendingPages[c]
           asks == Asked(c, "read", f, K)
           m == ToFs(c, "read", TrimPending(p, wanted), Id)
           p2 == RegisterPending(p, Id, wanted, {})
<1>1. /\ issued' = Id /\ f \in isOpen[c]
      /\ lruCache' = LookupPages(lruCache, K) /\ fs' = Append(fs, m) /\ CompleteRequests(c, p2, asks)
      /\ UNCHANGED <<openFileCounts, isOpen, failed>>
  BY DEF Read, Issue
<1>2. K \in SUBSET Key /\ IsFiniteSet(K) /\ \A k \in K : k.filename = f
  BY RegionKeys
<1> HIDE DEF K
<1>3. NewAsk(asks, c, "read", f, K, isOpen) /\ Counted(openFileCounts, asks, isOpen)
  BY <1>1, <1>2, PagesAsked
<1> HIDE DEF asks
<1>4. wanted \in SUBSET K
  BY DEF Uncached
<1> HIDE DEF wanted
<1>5. Agree(asks, Id, isOpen, Append(fs, m), c, p2)
  BY <1>2, <1>3, <1>4, ReadSent
<1> HIDE DEF m, p2, p
<1>6. CacheOpen(lruCache', openFileCounts)
  BY <1>1, <1>2, LookedUp
<1>7. Id \in Nat /\ isOpen \in [Caches -> SUBSET Files]
  BY <1>3 DEF NewAsk, DPInv
<1> QED BY <1>1, <1>3, <1>5, <1>6, <1>7, Concludes

LEMMA WriteBypassKeeps ==
  ASSUME DPInv, NEW c \in Caches, NEW f \in Files,
         NEW P \in {g.pages : g \in {h \in Regions : h.file = f}}, WriteBypass(c, f, P)
  PROVE  DPInv'
<1> DEFINE K == KeysOf(f, P)
           p == pendingPages[c]
           asks == Asked(c, "write", f, K)
           m == ToFs(c, "bypass", K, Id)
<1>1. /\ issued' = Id /\ f \in isOpen[c]
      /\ fs' = Append(fs, m) /\ CompleteRequests(c, p, asks)
      /\ UNCHANGED <<lruCache, openFileCounts, isOpen, failed>>
  BY DEF WriteBypass, Issue
<1>2. K \in SUBSET Key /\ IsFiniteSet(K) /\ \A k \in K : k.filename = f
  BY RegionKeys
<1> HIDE DEF K
<1>3. NewAsk(asks, c, "write", f, K, isOpen) /\ Counted(openFileCounts, asks, isOpen)
  BY <1>1, <1>2, PagesAsked
<1> HIDE DEF asks
<1>4. /\ Id \in Nat /\ Agree(asks, Id, isOpen, fs, c, p) /\ Id \in DOMAIN asks
      /\ asks[Id].cache = c /\ asks[Id].kind = "write"
      /\ \A b \in Caches : Id \notin DOMAIN pendingPages[b]
      /\ \A i \in 1 .. Len(fs) : fs[i].parent # Id
  BY <1>3 DEF NewAsk
<1>5. m \in Message(Id) /\ m.cache = c /\ m.kind = "bypass" /\ m.parent = Id /\ m.keys = K
  <2>1. "bypass" \in MsgKinds /\ Id \in 0 .. Id
    BY <1>4 DEF MsgKinds
  <2>2. m \in Message(Id)
    BY <1>2, <2>1, MessageMade DEF ToFs
  <2> QED BY <2>2 DEF ToFs
<1> HIDE DEF m
<1>6. MsgOK(m, asks)
  BY <1>2, <1>4, <1>5 DEF MsgOK
<1>7. Agree(asks, Id, isOpen, Append(fs, m), c, p)
  BY <1>4, <1>5, <1>6, OneJoins
<1> HIDE DEF p
<1>8. isOpen \in [Caches -> SUBSET Files] /\ CacheOpen(lruCache', openFileCounts)
  BY <1>1 DEF DPInv
<1> QED BY <1>1, <1>3, <1>4, <1>7, <1>8, Concludes

LEMMA WriteKeeps ==
  ASSUME DPInv, NEW c \in Caches, NEW f \in Files,
         NEW P \in {g.pages : g \in {h \in Regions : h.file = f}}, NEW partial \in SUBSET P,
         Write(c, f, P, partial)
  PROVE  DPInv'
<1> DEFINE K == KeysOf(f, P)
           Q == KeysOf(f, partial)
           wanted == Uncached(Q)
           p == pendingPages[c]
           trimmed == TrimPending(p, wanted)
           p2 == RegisterPending(p, Id, wanted, {})
           looked == LookupPages(lruCache, Q)
           asks == Asked(c, "write", f, K)
           m == ToFs(c, "read", trimmed, Id)
<1>1. /\ issued' = Id /\ f \in isOpen[c]
      /\ \/ lruCache' = looked /\ fs' = Append(fs, m) /\ CompleteRequests(c, p2, asks)
         \/ trimmed = {} /\ UpdateWithWrite(c, looked, p2, Id, asks, fs)
      /\ UNCHANGED <<openFileCounts, isOpen, failed>>
  BY DEF Write, Issue
<1>2. /\ K \in SUBSET Key /\ IsFiniteSet(K) /\ \A k \in K : k.filename = f
      /\ Q \in SUBSET Key /\ IsFiniteSet(Q) /\ Q \subseteq K
  <2>1. K \in SUBSET Key /\ IsFiniteSet(K) /\ \A k \in K : k.filename = f
    BY RegionKeys
  <2>2. Q \in SUBSET Key /\ IsFiniteSet(Q)
    BY RegionKeys
  <2>3. Q \subseteq K
    BY DEF KeysOf
  <2> QED BY <2>1, <2>2, <2>3
<1>3. wanted \in SUBSET Q
  BY DEF Uncached
<1> HIDE DEF K, Q
<1>4. NewAsk(asks, c, "write", f, K, isOpen) /\ Counted(openFileCounts, asks, isOpen)
  BY <1>1, <1>2, PagesAsked
<1> HIDE DEF asks, wanted
<1>5. CacheOpen(looked, openFileCounts)
  BY <1>2, LookedUp
<1> HIDE DEF looked
<1>6. isOpen \in [Caches -> SUBSET Files]
  BY DEF DPInv
<1>7. /\ Id \in Nat /\ Agree(asks, Id, isOpen, fs, c, p) /\ Id \in DOMAIN asks
      /\ asks[Id].cache = c /\ asks[Id].kind = "write"
      /\ \A i \in 1 .. Len(fs) : fs[i].parent # Id
  BY <1>4 DEF NewAsk
<1>8. CASE lruCache' = looked /\ fs' = Append(fs, m) /\ CompleteRequests(c, p2, asks)
  <2>1. Agree(asks, Id, isOpen, Append(fs, m), c, p2)
    <3>1. wanted \in SUBSET K
      BY <1>2, <1>3
    <3> QED BY <1>2, <1>4, <3>1, ReadSent
  <2> HIDE DEF m, p2, p
  <2> QED BY <1>1, <1>4, <1>5, <1>6, <1>7, <1>8, <2>1, Concludes
<1>9. CASE trimmed = {} /\ UpdateWithWrite(c, looked, p2, Id, asks, fs)
  <2>1. \A k \in wanted : Sent(c, "read", k, fs)
    BY <1>7, <1>9, TrimmedSent
  <2>2. Agree(asks, Id, isOpen, fs, c, p2)
    <3>1. wanted \in SUBSET Key /\ {} \in SUBSET Key /\ asks[Id].kind # "open"
      BY <1>2, <1>3, <1>7
    <3> QED BY <1>7, <2>1, <3>1, Registers
  <2> HIDE DEF p2, p, m, trimmed
  <2>3. UNCHANGED <<openFileCounts, isOpen, failed>> /\ issued' = Id
    BY <1>1
  <2> QED BY <1>4, <1>5, <1>7, <1>9, <2>2, <2>3, WriteUpdates
<1> QED BY <1>1, <1>8, <1>9

LEMMA RequestKeeps ==
  ASSUME DPInv, Request
  PROVE  DPInv'
<1>1. PICK c \in Caches, f \in Files :
        \/ Open(c, f) \/ FakeOpen(c, f) \/ Close(c, f)
        \/ \E P \in {g.pages : g \in {h \in Regions : h.file = f}} :
             \/ Read(c, f, P) \/ ReadAsserts(c, f, P) \/ WriteBypass(c, f, P)
             \/ \E partial \in SUBSET P : Write(c, f, P, partial)
  BY DEF Request
<1>2. CASE Open(c, f) \/ FakeOpen(c, f) \/ Close(c, f)
  BY <1>2, OpenKeeps, FakeOpenKeeps, CloseKeeps
<1>3. ASSUME NEW P \in {g.pages : g \in {h \in Regions : h.file = f}},
             \/ Read(c, f, P) \/ ReadAsserts(c, f, P) \/ WriteBypass(c, f, P)
             \/ \E partial \in SUBSET P : Write(c, f, P, partial)
      PROVE  DPInv'
  <2>1. CASE Read(c, f, P)
    BY <2>1, ReadKeeps
  <2>2. CASE WriteBypass(c, f, P)
    BY <2>2, WriteBypassKeeps
  <2>3. CASE \E partial \in SUBSET P : Write(c, f, P, partial)
    BY <2>3, WriteKeeps
  <2>4. CASE ReadAsserts(c, f, P)
    <3>1. /\ issued \in Nat /\ Reqs(live, issued, isOpen) /\ Msgs(fs, live, issued)
          /\ issued' = issued + 1 /\ failed' = "assert"
          /\ UNCHANGED <<lruCache, openFileCounts, pendingPages, fs, live, isOpen>>
      BY <2>4 DEF ReadAsserts, Issue, Id, DPInv
    <3>2. 1 .. issued \subseteq 1 .. issued' /\ Message(issued) \subseteq Message(issued') /\ issued' \in Nat
      <4>1. 1 .. issued \subseteq 1 .. (issued + 1) /\ 0 .. issued \subseteq 0 .. (issued + 1) /\ issued + 1 \in Nat
        BY <3>1
      <4>2. Message(issued) \subseteq Message(issued + 1)
        BY <4>1 DEF Message
      <4> QED BY <3>1, <4>1, <4>2
    <3>3. Reqs(live, issued', isOpen) /\ Msgs(fs, live, issued')
      <4>1. fs \in Seq(Message(issued'))
        BY <3>1, <3>2 DEF Msgs
      <4> QED BY <3>1, <3>2, <4>1 DEF Reqs, Msgs
    <3> QED BY <3>1, <3>2, <3>3 DEF DPInv
  <2> QED BY <1>3, <2>1, <2>2, <2>3, <2>4
<1> QED BY <1>1, <1>2, <1>3

-----------------------------------------------------------------------------
LEMMA EmptyGood == Good(EmptyCache)
<1> DEFINE e == EmptyCache
<1>1. /\ e = [keyEntryMap     |-> e.keyEntryMap,
              lruList         |-> e.lruList,
              numEntries      |-> e.numEntries,
              numDirtyEntries |-> e.numDirtyEntries]
      /\ DOMAIN e.keyEntryMap = {} /\ e.lruList = << >> /\ e.numEntries = 0 /\ e.numDirtyEntries = 0
      /\ e.keyEntryMap \in [{} -> EntriesOf(Nat)]
  BY DEF EmptyCache
<1> HIDE DEF e
<1>2. << >> \in Seq(Key) /\ Len(<< >>) = 0 /\ Distinct(<< >>) /\ ToSet(<< >>) = {}
  BY DEF Distinct, IsInjective, ToSet
<1>3. pageCapacity \in Nat /\ 0 < pageCapacity /\ pageCapacity < SizeMod /\ 0 \in 0 .. SizeMod - 1
  BY DirectPagedAssumption, SizeModAssumption
<1>4. Good(e)
  BY <1>1, <1>2, <1>3 DEF Good, Consistent
<1> QED BY <1>4 DEF e

LEMMA DPInvInit == Init => DPInv
<1> SUFFICES ASSUME Init PROVE DPInv
  OBVIOUS
<1>1. /\ issued = 0 /\ live = << >> /\ fs = << >> /\ failed = "no"
      /\ isOpen = [c \in Caches |-> {}] /\ pendingPages = [c \in Caches |-> << >>]
      /\ openFileCounts = [f \in Files |-> 0] /\ lruCache = EmptyCache
  BY DEF Init
<1>2. DOMAIN << >> = {} /\ Len(<< >>) = 0 /\ << >> = [r \in DOMAIN << >> |-> << >>[r]]
  OBVIOUS
<1>3. Reqs(live, issued, isOpen)
  BY <1>1, <1>2 DEF Reqs
<1>4. Msgs(fs, live, issued)
  <2>1. \A S : << >> \in Seq(S)
    OBVIOUS
  <2>2. 1 .. Len(<< >>) = {}
    BY <1>2
  <2> QED BY <1>1, <2>1, <2>2 DEF Msgs
<1>5. ASSUME NEW c \in Caches PROVE ModuleOK(c, pendingPages[c], live, fs)
  <2>1. pendingPages[c] = << >>
    BY <1>1
  <2> QED BY <1>1, <1>2, <2>1 DEF ModuleOK, PendOK, PassedFree, Waits
<1>6. Counted(openFileCounts, live, isOpen)
  <2>1. \A f : Holders(f, live, isOpen) = {}
    BY <1>1, <1>2 DEF Holders
  <2> QED BY <1>1, <2>1, FS_EmptySet DEF Counted
<1>7. CacheOpen(lruCache, openFileCounts)
  <2>1. DOMAIN EmptyCache.keyEntryMap = {}
    BY DEF EmptyCache
  <2>2. Good(EmptyCache)
    BY EmptyGood
  <2> QED BY <1>1, <2>1, <2>2 DEF CacheOpen
<1> QED BY <1>1, <1>3, <1>4, <1>5, <1>6, <1>7 DEF DPInv

LEMMA DPInvNext == DPInv /\ [Next]_vars => DPInv'
<1> SUFFICES ASSUME DPInv, [Next]_vars PROVE DPInv'
  OBVIOUS
<1>1. CASE Request
  BY <1>1, RequestKeeps
<1>2. CASE Answer
  BY <1>2, AnswerKeeps
<1>3. CASE UNCHANGED vars
  BY <1>3 DEF vars, DPInv
<1> QED BY <1>1, <1>2, <1>3 DEF Next, Ended

LEMMA DPInvTypes == DPInv => TypeOK
<1> SUFFICES ASSUME DPInv PROVE TypeOK
  OBVIOUS
<1>1. /\ DOMAIN lruCache.keyEntryMap \subseteq Key
      /\ lruCache.numEntries = Cardinality(DOMAIN lruCache.keyEntryMap)
      /\ lruCache.numEntries <= pageCapacity
  <2>1. Good(lruCache)
    BY DEF DPInv, CacheOpen
  <2>2. lruCache.numEntries = Len(lruCache.lruList) /\ Len(lruCache.lruList) <= pageCapacity
    BY <2>1 DEF Good, Consistent
  <2> QED BY <2>1, <2>2, CachedFinite
<1>2. ASSUME NEW f \in Files PROVE openFileCounts[f] \in 0 .. 2 * Cardinality(Caches)
  <2> DEFINE h == Cardinality(Holders(f, live, isOpen))
             n == Cardinality(Caches)
  <2>1. openFileCounts[f] = h
    BY DEF DPInv, Counted
  <2>2. h \in Nat /\ h <= n
    BY HoldersFinite
  <2>3. n \in Nat
    BY DirectPagedAssumption, FS_CardinalityType
  <2> HIDE DEF h, n
  <2>4. openFileCounts[f] \in 0 .. 2 * n
    BY <2>1, <2>2, <2>3
  <2> QED BY <2>4 DEF n
<1>3. \A c \in Caches : DOMAIN pendingPages[c] \subseteq DOMAIN live \union {NoParent}
  BY DEF DPInv, ModuleOK, PendOK
<1> QED BY <1>1, <1>2, <1>3 DEF DPInv, Reqs, TypeOK

LEMMA DPInvPending == DPInv => PendingIsAtFs
<1> SUFFICES ASSUME DPInv, NEW c \in Caches, NEW r \in DOMAIN pendingPages[c]
             PROVE  LET AtFs(kind) == UNION {fs[i].keys : i \in {j \in DOMAIN fs : fs[j].cache = c /\ fs[j].kind = kind}}
                    IN  /\ pendingPages[c][r].readPages \subseteq AtFs("read")
                        /\ pendingPages[c][r].writePages \subseteq AtFs("write")
  BY DEF PendingIsAtFs
<1> DEFINE AtFs(kind) == UNION {fs[i].keys : i \in {j \in DOMAIN fs : fs[j].cache = c /\ fs[j].kind = kind}}
<1>1. Waits(c, pendingPages[c], fs)
  BY DEF DPInv, ModuleOK
<1>2. DOMAIN fs = 1 .. Len(fs)
  BY SeqAt DEF DPInv, Msgs
<1>3. ASSUME NEW kind, NEW k, Sent(c, kind, k, fs) PROVE k \in AtFs(kind)
  BY <1>2, <1>3 DEF Sent
<1> HIDE DEF AtFs
<1>4. /\ \A k \in pendingPages[c][r].readPages : Sent(c, "read", k, fs)
      /\ \A k \in pendingPages[c][r].writePages : Sent(c, "write", k, fs)
  BY <1>1 DEF Waits
<1>5. pendingPages[c][r].readPages \subseteq AtFs("read") /\ pendingPages[c][r].writePages \subseteq AtFs("write")
  BY <1>3, <1>4
<1> QED BY <1>5 DEF AtFs

LEMMA DPInvClosed == DPInv => ClosedFileNotCached
BY DEF DPInv, CacheOpen, ClosedFileNotCached

\* The cache holds no more pages than it may, none of a file no process of the
\* node has open or is opening, and whatever a module waits for is in a message
\* of its own at the file system: in every behaviour, of any number of
\* processes, files, regions and requests, any capacity and any order of the
\* answers.
THEOREM DirectPagedConsistent == Spec => []CacheConsistent
<1>1. DPInv => CacheConsistent
  BY DPInvTypes, DPInvPending, DPInvClosed DEF CacheConsistent
<1> QED BY DPInvInit, DPInvNext, <1>1, PTL DEF Spec

-----------------------------------------------------------------------------
(* No dirty page is lost.                                                  *)

WritesIn(msgs, k) == {i \in 1 .. Len(msgs) : msgs[i].kind = "write" /\ k \in msgs[i].keys}

\* More messages of new write the page than of old.
More(new, old, k) ==
  /\ Cardinality(WritesIn(new, k)) \in Nat /\ Cardinality(WritesIn(old, k)) \in Nat
  /\ Cardinality(WritesIn(new, k)) > Cardinality(WritesIn(old, k))

LEMMA MoreWrites ==
  ASSUME NEW S, NEW msgs \in Seq(S), NEW c, NEW keys \in SUBSET Key, IsFiniteSet(keys), NEW parent, NEW k \in keys
  PROVE  More(msgs \o Writebacks(c, keys, parent), msgs, k)
<1> DEFINE W == Writebacks(c, keys, parent)
           M == [cache : {c}, kind : {"write"}, keys : SUBSET keys, parent : {parent}]
           all == msgs \o W
           A == WritesIn(msgs, k)
           B == WritesIn(all, k)
<1>1. W \in Seq(M) /\ \E i \in 1 .. Len(W) : k \in W[i].keys
  BY WritebacksLeave DEF Writes
<1>2. \A m \in M : m.kind = "write"
  OBVIOUS
<1> HIDE DEF M, W
<1>3. PICK i \in 1 .. Len(W) : k \in W[i].keys /\ W[i].kind = "write"
  BY <1>1, <1>2, SeqAt
<1>4. /\ Len(msgs) \in Nat /\ Len(all) \in Nat
      /\ Len(msgs) + i \in 1 .. Len(all) /\ all[Len(msgs) + i] = W[i]
      /\ \A j \in 1 .. Len(msgs) : j \in 1 .. Len(all) /\ all[j] = msgs[j]
  BY <1>1
<1> HIDE DEF all
<1>5. A \subseteq B /\ Len(msgs) + i \in B /\ Len(msgs) + i \notin A
  BY <1>3, <1>4 DEF WritesIn
<1>6. IsFiniteSet(B) /\ IsFiniteSet(A)
  <2>1. IsFiniteSet(1 .. Len(all)) /\ IsFiniteSet(1 .. Len(msgs))
    BY <1>4, FS_Interval
  <2>2. B \subseteq 1 .. Len(all) /\ A \subseteq 1 .. Len(msgs)
    BY DEF WritesIn
  <2> HIDE DEF A, B
  <2> QED BY <2>1, <2>2, FS_Subset
<1> HIDE DEF A, B
<1>7. Cardinality(A \cup {Len(msgs) + i}) = Cardinality(A) + 1
  BY <1>5, <1>6, FS_AddElement
<1>8. A \cup {Len(msgs) + i} \subseteq B
  BY <1>5
<1>9. Cardinality(A \cup {Len(msgs) + i}) <= Cardinality(B)
  BY <1>6, <1>8, FS_Subset
<1>10. Cardinality(A) \in Nat /\ Cardinality(B) \in Nat
  BY <1>6, FS_CardinalityType
<1>11. Cardinality(B) > Cardinality(A)
  BY <1>7, <1>9, <1>10
<1> QED BY <1>10, <1>11 DEF More, A, B, all, W

\* The answer to a read takes no write with it.
LEMMA WritesStay ==
  ASSUME DPInv, NEW i \in 1 .. Len(fs), fs[i].kind # "write", NEW k
  PROVE  /\ Cardinality(WritesIn(fs, k)) <= Cardinality(WritesIn(Left(i), k))
         /\ Cardinality(WritesIn(fs, k)) \in Nat
<1> DEFINE A == WritesIn(Left(i), k)
           B == WritesIn(fs, k)
           F == [j \in A |-> Was(i, j)]
<1>1. fs \in Seq(Message(issued)) /\ Len(fs) \in Nat
  BY SeqAt DEF DPInv, Msgs
<1>2. /\ Len(Left(i)) = Len(fs) - 1
      /\ \A j \in 1 .. Len(fs) - 1 : Left(i)[j] = fs[Was(i, j)]
      /\ \A j \in 1 .. Len(fs) - 1 : Was(i, j) \in 1 .. Len(fs)
      /\ \A j \in 1 .. Len(fs) : j # i => \E x \in 1 .. Len(fs) - 1 : Was(i, x) = j
  <2>1. RestOf(Message(issued), fs, i)
    BY <1>1, RemoveAtIs
  <2> QED BY <2>1 DEF RestOf, Left
<1>3. \A j \in A : F[j] \in B
  BY <1>2 DEF WritesIn
<1>4. ASSUME NEW j \in B PROVE \E x \in A : F[x] = j
  <2>1. j \in 1 .. Len(fs) /\ j # i /\ fs[j].kind = "write" /\ k \in fs[j].keys
    BY DEF WritesIn
  <2>2. PICK x \in 1 .. Len(fs) - 1 : Was(i, x) = j
    BY <1>2, <2>1
  <2>3. x \in A
    BY <1>2, <2>1, <2>2 DEF WritesIn
  <2> QED BY <2>2, <2>3
<1>5. IsFiniteSet(A)
  <2>1. A \subseteq 1 .. Len(Left(i)) /\ Len(Left(i)) \in Int
    BY <1>1, <1>2 DEF WritesIn
  <2> HIDE DEF A
  <2>2. IsFiniteSet(1 .. Len(Left(i)))
    BY <2>1, FS_Interval
  <2> QED BY <2>1, <2>2, FS_Subset
<1>6. F \in Surjection(A, B)
  <2> HIDE DEF A, B
  <2> QED BY <1>3, <1>4 DEF Surjection
<1> HIDE DEF A, B, F
<1>7. IsFiniteSet(B) /\ Cardinality(B) <= Cardinality(A)
  BY <1>5, <1>6, FS_Surjection
<1> QED BY <1>7, FS_CardinalityType DEF A, B

\* The pages that are dirty and go are written.
DirtyGone == GetDirtyEntries(lruCache) \ GetDirtyEntries(lruCache)'

LEMMA EvictedWritten ==
  ASSUME NEW store, Good(store), GetDirtyEntries(store) = GetDirtyEntries(lruCache),
         NEW keys \in SUBSET Key, IsFiniteSet(keys), NEW d \in BOOLEAN, NEW S, NEW rest \in Seq(S), NEW c,
         lruCache' = UpdateCache(store, keys, d).lru,
         fs' = rest \o Writebacks(c, UpdateCache(store, keys, d).out, NoParent)
  PROVE  \A k \in DirtyGone : More(fs', rest, k)
<1> DEFINE u == UpdateCache(store, keys, d)
<1>1. u.out \in SUBSET Key /\ IsFiniteSet(u.out) /\ GetDirtyEntries(store) \subseteq GetDirtyEntries(u.lru) \cup u.out
  BY UpdateLeaves
<1> HIDE DEF u
<1>2. GetDirtyEntries(lruCache)' = GetDirtyEntries(u.lru) /\ fs' = rest \o Writebacks(c, u.out, NoParent)
  BY DEF u, GetDirtyEntries
<1>3. \A k \in DirtyGone : k \in u.out
  BY <1>1, <1>2 DEF DirtyGone
<1> QED BY <1>1, <1>2, <1>3, MoreWrites

LEMMA DirtyOf ==
  ASSUME NEW a, NEW b, a.keyEntryMap = b.keyEntryMap
  PROVE  GetDirtyEntries(a) = GetDirtyEntries(b)
BY DEF GetDirtyEntries

LEMMA AnswerWrites ==
  ASSUME DPInv, NEW i \in 1 .. Len(fs), ReadDone(i) \/ PartialReadDone(i)
  PROVE  \A k \in DirtyGone : More(fs', fs, k)
<1> DEFINE m == fs[i]
<1>1. Good(lruCache) /\ Reqs(live, issued, isOpen)
  BY DEF DPInv, CacheOpen
<1>2. /\ m.kind = "read" /\ m.parent \in DOMAIN live
      /\ \E keys, d : /\ keys = m.keys \/ keys = live[m.parent].keys
                      /\ d \in BOOLEAN
                      /\ lruCache' = UpdateCache(lruCache, keys, d).lru
                      /\ fs' = Left(i) \o Writebacks(m.cache, UpdateCache(lruCache, keys, d).out, NoParent)
  <2>1. CASE ReadDone(i)
    BY <2>1 DEF ReadDone, Left
  <2>2. CASE PartialReadDone(i)
    BY <2>2 DEF PartialReadDone, UpdateWithWrite, Left
  <2> QED BY <2>1, <2>2
<1>3. m.keys \in SUBSET Key /\ IsFiniteSet(m.keys)
  BY MsgsLeft, MessageIs DEF MsgOK
<1>4. live[m.parent].keys \in SUBSET Key /\ IsFiniteSet(live[m.parent].keys)
  BY <1>1, <1>2 DEF Reqs, ReqOK
<1>5. PICK keys, d : /\ keys \in SUBSET Key /\ IsFiniteSet(keys) /\ d \in BOOLEAN
                     /\ lruCache' = UpdateCache(lruCache, keys, d).lru
                     /\ fs' = Left(i) \o Writebacks(m.cache, UpdateCache(lruCache, keys, d).out, NoParent)
  BY <1>2, <1>3, <1>4
<1>6. Left(i) \in Seq(Message(issued))
  BY MsgsLeft DEF Msgs
<1>7. \A k \in DirtyGone : More(fs', Left(i), k)
  BY <1>1, <1>5, <1>6, EvictedWritten
<1>8. \A k : /\ Cardinality(WritesIn(fs, k)) <= Cardinality(WritesIn(Left(i), k))
            /\ Cardinality(WritesIn(fs, k)) \in Nat
  BY <1>2, WritesStay
<1> QED BY <1>7, <1>8 DEF More

\* The pages that go dirty at a close or when a write takes their place.
LEMMA RequestWrites ==
  ASSUME DPInv, NEW c \in Caches, NEW f \in Files,
         \/ Close(c, f)
         \/ \E P \in {g.pages : g \in {h \in Regions : h.file = f}} :
              Read(c, f, P) \/ \E partial \in SUBSET P : Write(c, f, P, partial)
  PROVE  \A k \in DirtyGone : More(fs', fs, k)
<1>1. Good(lruCache) /\ fs \in Seq(Message(issued)) /\ isOpen \in [Caches -> SUBSET Files]
  BY DEF DPInv, CacheOpen, Msgs
<1>2. CASE Close(c, f)
  <2> DEFINE dirty == DirtyPages(f)
  <2>1. \/ fs' = fs \o Writebacks(c, dirty, Id) /\ lruCache' = FlushCache(f)
        \/ lruCache' = lruCache
    BY <1>2 DEF Close
  <2>2. CASE lruCache' = lruCache
    <3>1. GetDirtyEntries(lruCache)' = GetDirtyEntries(lruCache)
      BY <2>2 DEF GetDirtyEntries
    <3> QED BY <3>1 DEF DirtyGone
  <2>3. CASE fs' = fs \o Writebacks(c, dirty, Id) /\ lruCache' = FlushCache(f)
    <3>1. GetDirtyEntries(lruCache') = {k \in GetDirtyEntries(lruCache) : k.filename # f}
      BY <1>1, <2>3, FlushLeaves
    <3>2. GetDirtyEntries(lruCache)' = GetDirtyEntries(lruCache')
      BY DEF GetDirtyEntries
    <3>3. \A k \in DirtyGone : k \in dirty
      BY <3>1, <3>2 DEF DirtyGone, DirtyPages
    <3>4. dirty \in SUBSET Key /\ IsFiniteSet(dirty)
      <4>1. dirty \subseteq DOMAIN lruCache.keyEntryMap
        BY DEF DirtyPages, GetDirtyEntries
      <4>2. IsFiniteSet(DOMAIN lruCache.keyEntryMap) /\ DOMAIN lruCache.keyEntryMap \in SUBSET Key
        BY <1>1, CachedFinite
      <4> HIDE DEF dirty
      <4> QED BY <4>1, <4>2, FS_Subset
    <3> HIDE DEF dirty
    <3> QED BY <1>1, <2>3, <3>3, <3>4, MoreWrites
  <2> QED BY <2>1, <2>2, <2>3
<1>3. ASSUME NEW P \in {g.pages : g \in {h \in Regions : h.file = f}},
             Read(c, f, P) \/ \E partial \in SUBSET P : Write(c, f, P, partial)
      PROVE  \A k \in DirtyGone : More(fs', fs, k)
  <2>1. PICK Q \in SUBSET P :
          \/ lruCache' = LookupPages(lruCache, KeysOf(f, Q))
          \/ /\ Write(c, f, P, Q)
             /\ UpdateWithWrite(c, LookupPages(lruCache, KeysOf(f, Q)),
                  RegisterPending(pendingPages[c], Id, Uncached(KeysOf(f, Q)), {}), Id,
                  Asked(c, "write", f, KeysOf(f, P)), fs)
    <3>1. CASE Read(c, f, P)
      BY <3>1 DEF Read
    <3>2. CASE \E partial \in SUBSET P : Write(c, f, P, partial)
      BY <3>2 DEF Write
    <3> QED BY <1>3, <3>1, <3>2
  <2> DEFINE looked == LookupPages(lruCache, KeysOf(f, Q))
             keys == KeysOf(f, P)
             asks == Asked(c, "write", f, keys)
             u == UpdateCache(looked, keys, TRUE)
  <2>2. KeysOf(f, Q) \in SUBSET Key /\ IsFiniteSet(KeysOf(f, Q)) /\ keys \in SUBSET Key /\ IsFiniteSet(keys)
    BY RegionKeys
  <2>3. Good(looked) /\ GetDirtyEntries(looked) = GetDirtyEntries(lruCache)
    BY <1>1, <2>2, LookupLeaves, DirtyOf
  <2>4. CASE lruCache' = looked
    <3>1. GetDirtyEntries(lruCache)' = GetDirtyEntries(lruCache)
      BY <2>3, <2>4 DEF GetDirtyEntries
    <3> QED BY <3>1 DEF DirtyGone
  <2>5. CASE UpdateWithWrite(c, looked, RegisterPending(pendingPages[c], Id, Uncached(KeysOf(f, Q)), {}), Id, asks, fs)
    <3>1. asks[Id].keys = keys
      BY DEF Asked
    <3>2. /\ lruCache' = UpdateCache(looked, asks[Id].keys, TRUE).lru
          /\ fs' = fs \o Writebacks(c, UpdateCache(looked, asks[Id].keys, TRUE).out, NoParent)
      BY <2>5 DEF UpdateWithWrite
    <3> HIDE DEF asks, looked, keys
    <3> QED BY <1>1, <2>2, <2>3, <3>1, <3>2, EvictedWritten
  <2> QED BY <2>1, <2>4, <2>5
<1> QED BY <1>2, <1>3

LEMMA OthersKeepCache ==
  ASSUME Next,
         \A i \in DOMAIN fs : ~ReadDone(i) /\ ~PartialReadDone(i),
         \A c \in Caches, f \in Files :
           /\ ~Close(c, f)
           /\ \A P \in {g.pages : g \in {h \in Regions : h.file = f}} :
                ~Read(c, f, P) /\ \A partial \in SUBSET P : ~Write(c, f, P, partial)
  PROVE  lruCache' = lruCache
<1>1. CASE Request
  BY <1>1 DEF Request, Open, FakeOpen, ReadAsserts, WriteBypass
<1>2. CASE Answer
  BY <1>2 DEF Answer, Forward, WrittenBack, DanglingContext
<1>3. CASE Ended
  BY <1>3 DEF Ended, vars
<1> QED BY <1>1, <1>2, <1>3 DEF Next

\* A page that is dirty before a step and not after it is in one more write at
\* the file system after it: no eviction, by whichever process, no flush and no
\* answer of the file system drops what an application has written.
THEOREM DirtyPagesWritten == Spec => NoDirtyPageLost
<1> DEFINE Kept == \A k \in GetDirtyEntries(lruCache) \ GetDirtyEntries(lruCache)' :
                     Cardinality(WritesOf(k)') > Cardinality(WritesOf(k))
<1>1. ASSUME DPInv, [Next]_vars PROVE [Kept]_vars
  <2>1. CASE UNCHANGED vars
    BY <2>1
  <2>2. CASE Next
    <3>1. \A k \in DirtyGone : More(fs', fs, k)
      <4>1. CASE lruCache' = lruCache
        <5>1. GetDirtyEntries(lruCache)' = GetDirtyEntries(lruCache)
          BY <4>1 DEF GetDirtyEntries
        <5> QED BY <5>1 DEF DirtyGone
      <4>2. CASE \E i \in DOMAIN fs : ReadDone(i) \/ PartialReadDone(i)
        <5>1. DOMAIN fs = 1 .. Len(fs)
          BY <1>1, SeqAt DEF DPInv, Msgs
        <5> QED BY <1>1, <4>2, <5>1, AnswerWrites
      <4>3. CASE \E c \in Caches, f \in Files :
                   \/ Close(c, f)
                   \/ \E P \in {g.pages : g \in {h \in Regions : h.file = f}} :
                        Read(c, f, P) \/ \E partial \in SUBSET P : Write(c, f, P, partial)
        BY <1>1, <4>3, RequestWrites
      <4> QED BY <2>2, <4>1, <4>2, <4>3, OthersKeepCache
    <3>2. DPInv'
      BY <1>1, DPInvNext
    <3>3. DOMAIN fs = 1 .. Len(fs) /\ (DOMAIN fs)' = 1 .. Len(fs')
      <4>1. fs \in Seq(Message(issued)) /\ fs' \in Seq(Message(issued'))
        BY <1>1, <3>2 DEF DPInv, Msgs
      <4> QED BY <4>1, SeqAt
    <3>4. \A k : WritesOf(k) = WritesIn(fs, k) /\ WritesOf(k)' = WritesIn(fs', k)
      BY <3>3 DEF WritesOf, WritesIn
    <3> QED BY <3>1, <3>4 DEF DirtyGone, More
  <2> QED BY <1>1, <2>1, <2>2
<1> HIDE DEF Kept
<1>2. Spec => [][Kept]_vars
  BY DPInvInit, DPInvNext, <1>1, PTL DEF Spec
<1> QED BY <1>2 DEF NoDirtyPageLost, Kept
=============================================================================
