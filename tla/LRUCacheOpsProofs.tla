-------------------------- MODULE LRUCacheOpsProofs --------------------------
(***************************************************************************)
(* What the methods of LRUCache preserve and do, for every type of keys    *)
(* and values, every capacity and every counter width.                     *)
(***************************************************************************)
EXTENDS LRUCacheOps, TLAPS

\* A list whose keys are pairwise different.
Distinct(list) == \A i, j \in 1 .. Len(list) : list[i] = list[j] => i = j

\* The iterator of a key in the list points at the key.
LEMMA RefOfPoints ==
  ASSUME NEW S, NEW list \in Seq(S), NEW k \in ToSet(list)
  PROVE  RefOf(list, k) \in 1 .. Len(list) /\ list[RefOf(list, k)] = k
<1>1. \E i \in DOMAIN list : list[i] = k
  BY DEF ToSet
<1>2. RefOf(list, k) \in DOMAIN list /\ list[RefOf(list, k)] = k
  BY <1>1 DEF RefOf
<1> QED BY <1>2

\* Erasing a list node keeps the order of the others.
LEMMA EraseRefShifts ==
  ASSUME NEW S, NEW list \in Seq(S), NEW k \in ToSet(list)
  PROVE  /\ EraseRef(list, k) \in Seq(S)
         /\ Len(EraseRef(list, k)) = Len(list) - 1
         /\ \A i \in 1 .. Len(list) - 1 :
              EraseRef(list, k)[i] = IF i < RefOf(list, k) THEN list[i] ELSE list[i + 1]
<1> DEFINE r == RefOf(list, k)
           a == SubSeq(list, 1, r - 1)
           b == SubSeq(list, r + 1, Len(list))
<1>1. r \in 1 .. Len(list) /\ Len(list) \in Nat
  BY RefOfPoints
<1>2. /\ a \in Seq(S) /\ Len(a) = r - 1
      /\ \A i \in 1 .. r - 1 : a[i] = list[i]
  BY <1>1
<1>3. /\ b \in Seq(S) /\ Len(b) = Len(list) - r
      /\ \A i \in 1 .. Len(list) - r : b[i] = list[r + i]
  BY <1>1
<1>4. EraseRef(list, k) = a \o b
  BY DEF EraseRef, RemoveAt
<1> HIDE DEF a, b, r
<1>5. a \o b \in Seq(S) /\ Len(a \o b) = Len(list) - 1
  <2>1. a \o b \in Seq(S) BY <1>2, <1>3
  <2>2. Len(a \o b) = Len(a) + Len(b) BY SMTT(30), <1>2, <1>3
  <2>3. Len(a \o b) = (r - 1) + (Len(list) - r) BY <1>2, <1>3, <2>2
  <2>4. (r - 1) + (Len(list) - r) = Len(list) - 1 BY <1>1
  <2> QED BY <2>1, <2>3, <2>4
<1>6. ASSUME NEW i \in 1 .. Len(list) - 1
      PROVE  (a \o b)[i] = IF i < r THEN list[i] ELSE list[i + 1]
  <2>1. CASE i < r
    <3>1. (a \o b)[i] = a[i] BY <1>1, <1>2, <1>3, <2>1
    <3> QED BY <1>1, <1>2, <2>1, <3>1
  <2>2. CASE ~(i < r)
    <3>1. (a \o b)[i] = b[i - (r - 1)] BY <1>1, <1>2, <1>3, <2>2
    <3>2. i - (r - 1) \in 1 .. Len(list) - r BY <1>1, <2>2
    <3>3. b[i - (r - 1)] = list[r + (i - (r - 1))] BY <1>3, <3>2
    <3>4. r + (i - (r - 1)) = i + 1 BY <1>1
    <3> QED BY <2>2, <3>1, <3>3, <3>4
  <2> QED BY <2>1, <2>2
<1> QED BY <1>4, <1>5, <1>6 DEF r

\* Erasing a key from a list of different keys removes it, and only it.
LEMMA EraseRefRemoves ==
  ASSUME NEW S, NEW list \in Seq(S), NEW k \in ToSet(list), Distinct(list)
  PROVE  /\ Distinct(EraseRef(list, k))
         /\ ToSet(EraseRef(list, k)) = ToSet(list) \ {k}
<1> DEFINE r == RefOf(list, k)
           e == EraseRef(list, k)
<1>1. r \in 1 .. Len(list) /\ list[r] = k /\ Len(list) \in Nat
  BY RefOfPoints
<1>2. /\ e \in Seq(S) /\ Len(e) = Len(list) - 1
      /\ \A i \in 1 .. Len(list) - 1 : e[i] = IF i < r THEN list[i] ELSE list[i + 1]
  BY EraseRefShifts
<1> HIDE DEF r, e
<1>3. Distinct(e)
  BY <1>1, <1>2 DEF Distinct
<1>4. \A x : x \in ToSet(e) => x \in ToSet(list) \ {k}
  <2> SUFFICES ASSUME NEW i \in 1 .. Len(e) PROVE e[i] \in ToSet(list) \ {k}
    BY <1>2 DEF ToSet
  <2>1. PICK j \in 1 .. Len(list) : j # r /\ e[i] = list[j]
    <3>1. CASE i < r BY <1>1, <1>2, <3>1
    <3>2. CASE ~(i < r)
      <4>1. i + 1 \in 1 .. Len(list) /\ i + 1 # r /\ e[i] = list[i + 1]
        BY <1>1, <1>2, <3>2
      <4> QED BY <4>1
    <3> QED BY <3>1, <3>2
  <2>2. list[j] # k BY <1>1, <2>1 DEF Distinct
  <2> QED BY <2>1, <2>2 DEF ToSet
<1>5. \A x : x \in ToSet(list) \ {k} => x \in ToSet(e)
  <2> SUFFICES ASSUME NEW i \in 1 .. Len(list), list[i] # k PROVE list[i] \in ToSet(e)
    BY DEF ToSet
  <2>1. i # r BY <1>1
  <2>2. CASE i < r
    <3>1. i \in DOMAIN e /\ e[i] = list[i] BY <1>1, <1>2, <2>2
    <3> QED BY <3>1 DEF ToSet
  <2>3. CASE i > r
    <3>1. i - 1 \in DOMAIN e /\ e[i - 1] = list[i] BY <1>1, <1>2, <2>3
    <3> QED BY <3>1 DEF ToSet
  <2> QED BY <1>1, <2>1, <2>2, <2>3
<1> QED BY <1>3, <1>4, <1>5 DEF e

\* Pushing a new key to the front of a list of different keys.
LEMMA PushFrontAdds ==
  ASSUME NEW S, NEW list \in Seq(S), NEW k \in S, k \notin ToSet(list), Distinct(list)
  PROVE  /\ PushFront(list, k) \in Seq(S)
         /\ Len(PushFront(list, k)) = Len(list) + 1
         /\ Distinct(PushFront(list, k))
         /\ ToSet(PushFront(list, k)) = ToSet(list) \union {k}
<1> DEFINE p == PushFront(list, k)
<1>1. /\ p \in Seq(S) /\ Len(p) = Len(list) + 1 /\ Len(list) \in Nat
      /\ p[1] = k /\ \A i \in 1 .. Len(list) : p[i + 1] = list[i]
  BY DEF PushFront
<1> HIDE DEF p
<1>2. \A i \in 2 .. Len(p) : p[i] = list[i - 1] /\ i - 1 \in 1 .. Len(list)
  BY <1>1
<1>3. \A i \in 1 .. Len(list) : list[i] # k
  BY DEF ToSet
<1>4. Distinct(p)
  BY SMTT(30), <1>1, <1>2, <1>3 DEF Distinct
<1>5. \A x : x \in ToSet(p) => x \in ToSet(list) \union {k}
  <2> SUFFICES ASSUME NEW i \in 1 .. Len(p) PROVE p[i] \in ToSet(list) \union {k}
    BY <1>1 DEF ToSet
  <2> QED BY <1>1, <1>2 DEF ToSet
<1>6. \A x : x \in ToSet(list) \union {k} => x \in ToSet(p)
  <2>1. k \in ToSet(p) BY <1>1 DEF ToSet
  <2> SUFFICES ASSUME NEW i \in 1 .. Len(list) PROVE list[i] \in ToSet(p)
    BY <2>1 DEF ToSet
  <2>2. i + 1 \in DOMAIN p /\ p[i + 1] = list[i] BY <1>1
  <2> QED BY <2>2 DEF ToSet
<1> QED BY <1>1, <1>4, <1>5, <1>6 DEF p
-----------------------------------------------------------------------------
EntriesOf(V) == [data : V, dirty : BOOLEAN]

\* What the methods of a cache from K to V with capacity cap rely on: the
\* members have their types and agree.
Consistent(c, K, V, cap) ==
  /\ cap \in Nat /\ 0 < cap /\ cap < SizeMod
  /\ c = [keyEntryMap     |-> c.keyEntryMap,
          lruList         |-> c.lruList,
          numEntries      |-> c.numEntries,
          numDirtyEntries |-> c.numDirtyEntries]
  /\ DOMAIN c.keyEntryMap \subseteq K
  /\ c.keyEntryMap \in [DOMAIN c.keyEntryMap -> EntriesOf(V)]
  /\ c.lruList \in Seq(K)
  /\ c.numEntries = Len(c.lruList)
  /\ c.numDirtyEntries \in 0 .. SizeMod - 1
  /\ Distinct(c.lruList)
  /\ ToSet(c.lruList) = DOMAIN c.keyEntryMap
  /\ Len(c.lruList) <= cap

\* What remove(key) leaves in the map.
LEMMA RemoveEntryDirty ==
  ASSUME NEW c, NEW k
  PROVE  /\ DOMAIN RemoveEntry(c, k).keyEntryMap = DOMAIN c.keyEntryMap \ {k}
         /\ GetDirtyEntries(RemoveEntry(c, k)) = GetDirtyEntries(c) \ {k}
<1> DEFINE m == [j \in DOMAIN c.keyEntryMap \ {k} |-> c.keyEntryMap[j]]
<1>1. RemoveEntry(c, k).keyEntryMap = m
  BY DEF RemoveEntry
<1>2. /\ DOMAIN m = DOMAIN c.keyEntryMap \ {k}
      /\ \A j \in DOMAIN m : m[j] = c.keyEntryMap[j]
  OBVIOUS
<1> HIDE DEF m
<1> QED BY <1>1, <1>2 DEF GetDirtyEntries

\* remove(key) on a key that is cached.
LEMMA RemoveEntryKeeps ==
  ASSUME NEW K, NEW V, NEW cap, NEW c, NEW k,
         Consistent(c, K, V, cap),
         k \in DOMAIN c.keyEntryMap
  PROVE  Consistent(RemoveEntry(c, k), K, V, cap)
<1> DEFINE d == RemoveEntry(c, k)
<1>1. k \in ToSet(c.lruList) /\ c.lruList \in Seq(K) /\ Distinct(c.lruList)
  BY DEF Consistent
<1>2. /\ EraseRef(c.lruList, k) \in Seq(K)
      /\ Len(EraseRef(c.lruList, k)) = Len(c.lruList) - 1
  BY <1>1, EraseRefShifts
<1>3. /\ Distinct(EraseRef(c.lruList, k))
      /\ ToSet(EraseRef(c.lruList, k)) = ToSet(c.lruList) \ {k}
  BY <1>1, EraseRefRemoves
<1>4. /\ d.lruList = EraseRef(c.lruList, k)
      /\ d.numEntries = (c.numEntries - 1) % SizeMod
      /\ d.numDirtyEntries = IF GetDirtyBit(c, k) THEN (c.numDirtyEntries - 1) % SizeMod
                                                  ELSE c.numDirtyEntries
      /\ d.keyEntryMap = [j \in DOMAIN c.keyEntryMap \ {k} |-> c.keyEntryMap[j]]
      /\ d = [keyEntryMap |-> d.keyEntryMap, lruList |-> d.lruList,
              numEntries |-> d.numEntries, numDirtyEntries |-> d.numDirtyEntries]
  BY DEF RemoveEntry
<1> HIDE DEF d
<1>5. d.numEntries = Len(d.lruList)
  <2>1. Len(c.lruList) \in Nat /\ Len(EraseRef(c.lruList, k)) \in Nat
    BY <1>1, <1>2
  <2>2. c.numEntries - 1 \in 0 .. SizeMod - 1
    BY <1>2, <2>1, SizeModAssumption DEF Consistent
  <2>3. (c.numEntries - 1) % SizeMod = c.numEntries - 1
    BY <2>2, SizeModAssumption
  <2> QED BY <1>2, <1>4, <2>3 DEF Consistent
<1>6. d.numDirtyEntries \in 0 .. SizeMod - 1
  <2>1. (c.numDirtyEntries - 1) % SizeMod \in 0 .. SizeMod - 1
    BY SizeModAssumption DEF Consistent
  <2> QED BY <1>4, <2>1 DEF Consistent
<1>7. Len(d.lruList) <= cap
  BY <1>1, <1>2, <1>4 DEF Consistent
<1>8. /\ DOMAIN d.keyEntryMap = DOMAIN c.keyEntryMap \ {k}
      /\ d.keyEntryMap \in [DOMAIN d.keyEntryMap -> EntriesOf(V)]
  BY <1>4 DEF Consistent
<1>9. Consistent(d, K, V, cap)
  BY <1>2, <1>3, <1>4, <1>5, <1>6, <1>7, <1>8 DEF Consistent
<1> QED BY <1>2, <1>4, <1>8, <1>9 DEF d

\* Moving a cached key to the front of the list.
LEMMA RefreshKeeps ==
  ASSUME NEW K, NEW V, NEW cap, NEW c, NEW k,
         Consistent(c, K, V, cap),
         k \in DOMAIN c.keyEntryMap
  PROVE  /\ Refresh(c.lruList, k) \in Seq(K)
         /\ Len(Refresh(c.lruList, k)) = Len(c.lruList)
         /\ Distinct(Refresh(c.lruList, k))
         /\ ToSet(Refresh(c.lruList, k)) = ToSet(c.lruList)
<1> DEFINE e == EraseRef(c.lruList, k)
<1>1. k \in ToSet(c.lruList) /\ c.lruList \in Seq(K) /\ Distinct(c.lruList) /\ k \in K
  BY DEF Consistent
<1>2. e \in Seq(K) /\ Len(e) = Len(c.lruList) - 1
  BY <1>1, EraseRefShifts
<1>3. Distinct(e) /\ ToSet(e) = ToSet(c.lruList) \ {k}
  BY <1>1, EraseRefRemoves
<1> HIDE DEF e
<1>4. k \notin ToSet(e)
  BY <1>3
<1>5. /\ PushFront(e, k) \in Seq(K) /\ Len(PushFront(e, k)) = Len(e) + 1
      /\ Distinct(PushFront(e, k)) /\ ToSet(PushFront(e, k)) = ToSet(e) \union {k}
  BY <1>1, <1>2, <1>3, <1>4, PushFrontAdds
<1>6. Len(e) + 1 = Len(c.lruList)
  BY <1>1, <1>2
<1>7. ToSet(e) \union {k} = ToSet(c.lruList)
  BY <1>1, <1>3
<1> QED BY <1>5, <1>6, <1>7 DEF Refresh, e

\* lookup(key) on a key that is cached.
LEMMA LookupKeeps ==
  ASSUME NEW K, NEW V, NEW cap, NEW c, NEW k,
         Consistent(c, K, V, cap),
         k \in DOMAIN c.keyEntryMap
  PROVE  Consistent(Lookup(c, k), K, V, cap)
<1>1. Lookup(c, k) = [keyEntryMap     |-> c.keyEntryMap,
                      lruList         |-> Refresh(c.lruList, k),
                      numEntries      |-> c.numEntries,
                      numDirtyEntries |-> c.numDirtyEntries]
  BY DEF Lookup, Consistent
<1> QED BY <1>1, RefreshKeeps DEF Consistent

\* setDirtyBit(key, value) on a key that is cached.
LEMMA SetDirtyBitKeeps ==
  ASSUME NEW K, NEW V, NEW cap, NEW c, NEW k, NEW d,
         Consistent(c, K, V, cap),
         k \in DOMAIN c.keyEntryMap, d \in BOOLEAN
  PROVE  Consistent(SetDirtyBit(c, k, d), K, V, cap)
<1> DEFINE m == [c.keyEntryMap EXCEPT ![k].dirty = d]
<1>1. SetDirtyBit(c, k, d) = [keyEntryMap     |-> m,
                              lruList         |-> c.lruList,
                              numEntries      |-> c.numEntries,
                              numDirtyEntries |-> c.numDirtyEntries]
  BY SMTT(30) DEF SetDirtyBit, Consistent
<1>2. DOMAIN m = DOMAIN c.keyEntryMap /\ m \in [DOMAIN m -> EntriesOf(V)]
  BY DEF Consistent, EntriesOf
<1> HIDE DEF m
<1> QED BY <1>1, <1>2 DEF Consistent

\* insert of a key that is cached.
LEMMA UpdateEntryKeeps ==
  ASSUME NEW K, NEW V, NEW cap, NEW c, NEW k, NEW v, NEW d,
         Consistent(c, K, V, cap),
         k \in DOMAIN c.keyEntryMap, v \in V, d \in BOOLEAN
  PROVE  Consistent(UpdateEntry(c, k, v, d), K, V, cap)
<1> DEFINE m == [c.keyEntryMap EXCEPT ![k] = [data |-> v, dirty |-> d]]
           n == IF d /\ ~GetDirtyBit(c, k)
                THEN (c.numDirtyEntries + 1) % SizeMod ELSE c.numDirtyEntries
<1>1. UpdateEntry(c, k, v, d) = [keyEntryMap     |-> m,
                                 lruList         |-> Refresh(c.lruList, k),
                                 numEntries      |-> c.numEntries,
                                 numDirtyEntries |-> n]
  BY DEF UpdateEntry
<1>2. DOMAIN m = DOMAIN c.keyEntryMap /\ m \in [DOMAIN m -> EntriesOf(V)]
  BY DEF Consistent, EntriesOf
<1>3. n \in 0 .. SizeMod - 1
  <2>1. (c.numDirtyEntries + 1) % SizeMod \in 0 .. SizeMod - 1
    BY SizeModAssumption DEF Consistent
  <2> QED BY <2>1 DEF Consistent
<1> HIDE DEF m, n
<1> QED BY <1>1, <1>2, <1>3, RefreshKeeps DEF Consistent

\* A new entry, with room for it.
LEMMA AddEntryKeeps ==
  ASSUME NEW K, NEW V, NEW cap, NEW c, NEW k, NEW v, NEW d,
         Consistent(c, K, V, cap),
         k \in K, k \notin DOMAIN c.keyEntryMap, Len(c.lruList) < cap,
         v \in V, d \in BOOLEAN
  PROVE  Consistent(AddEntry(c, k, v, d), K, V, cap)
<1> DEFINE m == [j \in DOMAIN c.keyEntryMap \union {k} |->
                   IF j = k THEN [data |-> v, dirty |-> d] ELSE c.keyEntryMap[j]]
           p == PushFront(c.lruList, k)
           q == (c.numEntries + 1) % SizeMod
           n == IF d THEN (c.numDirtyEntries + 1) % SizeMod ELSE c.numDirtyEntries
<1>1. AddEntry(c, k, v, d) =
        [keyEntryMap |-> m, lruList |-> p, numEntries |-> q, numDirtyEntries |-> n]
  BY DEF AddEntry
<1>2. DOMAIN m = DOMAIN c.keyEntryMap \union {k} /\ m \in [DOMAIN m -> EntriesOf(V)]
  BY DEF Consistent, EntriesOf
<1>3. n \in 0 .. SizeMod - 1
  <2>1. (c.numDirtyEntries + 1) % SizeMod \in 0 .. SizeMod - 1
    BY SizeModAssumption DEF Consistent
  <2> QED BY <2>1 DEF Consistent
<1>4. /\ p \in Seq(K) /\ Len(p) = Len(c.lruList) + 1 /\ Distinct(p)
      /\ ToSet(p) = ToSet(c.lruList) \union {k}
  <2>1. c.lruList \in Seq(K) /\ k \notin ToSet(c.lruList) /\ Distinct(c.lruList)
    BY DEF Consistent
  <2> QED BY <2>1, PushFrontAdds
<1>5. q = Len(p) /\ Len(p) <= cap
  <2>1. /\ Len(c.lruList) \in Nat /\ Len(p) = Len(c.lruList) + 1 /\ c.numEntries = Len(c.lruList)
        /\ cap \in Nat /\ cap < SizeMod
    BY <1>4 DEF Consistent
  <2> HIDE DEF p
  <2>2. c.numEntries + 1 \in 0 .. SizeMod - 1
    BY <2>1, SizeModAssumption
  <2>3. q = c.numEntries + 1
    BY <2>2, SizeModAssumption
  <2> QED BY <2>1, <2>3
<1> HIDE DEF m, n, p, q
<1> QED BY <1>1, <1>2, <1>3, <1>4, <1>5 DEF Consistent

\* A full cache is not empty: its list has a last element, which is a key.
LEMMA LRUKeyCached ==
  ASSUME NEW K, NEW V, NEW cap, NEW c,
         Consistent(c, K, V, cap),
         IsFull(c, cap)
  PROVE  LRUKey(c) \in DOMAIN c.keyEntryMap
<1>1. Len(c.lruList) \in 1 .. Len(c.lruList) /\ c.lruList \in Seq(K)
  BY DEF Consistent, IsFull
<1>2. LRUKey(c) \in ToSet(c.lruList)
  BY <1>1 DEF LRUKey, Last, ToSet
<1> QED BY <1>2 DEF Consistent

\* insert, whichever of its three branches it takes.
LEMMA InsertKeeps ==
  ASSUME NEW K, NEW V, NEW cap, NEW c, NEW k, NEW v, NEW d,
         Consistent(c, K, V, cap),
         k \in K, v \in V, d \in BOOLEAN
  PROVE  Consistent(Insert(c, cap, k, v, d), K, V, cap)
<1>1. CASE Exists(c, k)
  BY <1>1, UpdateEntryKeeps DEF Insert, Exists
<1>2. CASE ~Exists(c, k) /\ IsFull(c, cap)
  <2> DEFINE l == LRUKey(c)
             e == RemoveEntry(c, l)
  <2>1. l \in DOMAIN c.keyEntryMap
    BY <1>2, LRUKeyCached
  <2> HIDE DEF l
  <2>2. Consistent(e, K, V, cap)
    BY <2>1, RemoveEntryKeeps
  <2>3. Len(e.lruList) < cap
    <3>1. c.lruList \in Seq(K) /\ l \in ToSet(c.lruList) /\ Len(c.lruList) \in Nat
      BY <2>1 DEF Consistent
    <3>2. Len(e.lruList) = Len(c.lruList) - 1
      BY <3>1, EraseRefShifts DEF RemoveEntry
    <3>3. Len(c.lruList) <= cap /\ cap \in Nat
      BY DEF Consistent
    <3> HIDE DEF e
    <3> QED BY <3>1, <3>2, <3>3
  <2>5. k \notin DOMAIN e.keyEntryMap
    BY <1>2, RemoveEntryDirty DEF Exists
  <2>4. Insert(c, cap, k, v, d) = AddEntry(e, k, v, d)
    BY <1>2 DEF Insert, MakeRoom, l
  <2> HIDE DEF e
  <2> QED BY <2>2, <2>3, <2>4, <2>5, AddEntryKeeps
<1>3. CASE ~Exists(c, k) /\ ~IsFull(c, cap)
  <2>1. Len(c.lruList) < cap
    <3>1. Len(c.lruList) \in Nat /\ Len(c.lruList) <= cap /\ Len(c.lruList) # cap /\ cap \in Nat
      BY <1>3 DEF Consistent, IsFull
    <3> QED BY <3>1
  <2>2. Insert(c, cap, k, v, d) = AddEntry(c, k, v, d)
    BY <1>3 DEF Insert, MakeRoom
  <2> QED BY <1>3, <2>1, <2>2, AddEntryKeeps DEF Exists
<1> QED BY <1>1, <1>2, <1>3
-----------------------------------------------------------------------------
\* The entry an insertion of k pushes out of the cache.
EvictedBy(c, cap, k) == IF InsertEvicts(c, cap, k) THEN {LRUKey(c)} ELSE {}

\* What is cached and what is dirty after the other two steps of an insertion.
LEMMA UpdateEntryDirty ==
  ASSUME NEW c, NEW k \in DOMAIN c.keyEntryMap, NEW v, NEW d \in BOOLEAN
  PROVE  /\ DOMAIN UpdateEntry(c, k, v, d).keyEntryMap = DOMAIN c.keyEntryMap
         /\ GetDirtyEntries(UpdateEntry(c, k, v, d)) =
              (GetDirtyEntries(c) \ {k}) \union (IF d THEN {k} ELSE {})
<1> DEFINE m == [c.keyEntryMap EXCEPT ![k] = [data |-> v, dirty |-> d]]
<1>1. UpdateEntry(c, k, v, d).keyEntryMap = m
  BY DEF UpdateEntry
<1>2. /\ DOMAIN m = DOMAIN c.keyEntryMap /\ m[k].dirty = d
      /\ \A j \in DOMAIN m \ {k} : m[j] = c.keyEntryMap[j]
  OBVIOUS
<1> HIDE DEF m
<1>3. {j \in DOMAIN m : m[j].dirty} =
        ({j \in DOMAIN c.keyEntryMap : c.keyEntryMap[j].dirty} \ {k}) \union (IF d THEN {k} ELSE {})
  BY <1>2
<1> QED BY <1>1, <1>2, <1>3 DEF GetDirtyEntries

\* A new entry is added to the map, dirty or clean.
LEMMA AddEntryDirty ==
  ASSUME NEW c, NEW k, k \notin DOMAIN c.keyEntryMap, NEW v, NEW d \in BOOLEAN
  PROVE  /\ DOMAIN AddEntry(c, k, v, d).keyEntryMap = DOMAIN c.keyEntryMap \union {k}
         /\ GetDirtyEntries(AddEntry(c, k, v, d)) =
              GetDirtyEntries(c) \union (IF d THEN {k} ELSE {})
<1> DEFINE m == [j \in DOMAIN c.keyEntryMap \union {k} |->
                   IF j = k THEN [data |-> v, dirty |-> d] ELSE c.keyEntryMap[j]]
<1>1. AddEntry(c, k, v, d).keyEntryMap = m
  BY DEF AddEntry
<1>2. /\ DOMAIN m = DOMAIN c.keyEntryMap \union {k} /\ m[k].dirty = d
      /\ \A j \in DOMAIN c.keyEntryMap : m[j] = c.keyEntryMap[j]
  OBVIOUS
<1> HIDE DEF m
<1>3. {j \in DOMAIN m : m[j].dirty} =
        {j \in DOMAIN c.keyEntryMap : c.keyEntryMap[j].dirty} \union (IF d THEN {k} ELSE {})
  BY <1>2
<1> QED BY <1>1, <1>2, <1>3 DEF GetDirtyEntries

\* An insertion leaves the new entry and the old ones but the evicted one.
LEMMA InsertDirty ==
  ASSUME NEW c, NEW cap, NEW k, NEW v, NEW d \in BOOLEAN
  PROVE  /\ DOMAIN Insert(c, cap, k, v, d).keyEntryMap =
              (DOMAIN c.keyEntryMap \ EvictedBy(c, cap, k)) \union {k}
         /\ GetDirtyEntries(Insert(c, cap, k, v, d)) =
              (GetDirtyEntries(c) \ (EvictedBy(c, cap, k) \union {k}))
                \union (IF d THEN {k} ELSE {})
<1>1. CASE Exists(c, k)
  <2>1. Insert(c, cap, k, v, d) = UpdateEntry(c, k, v, d) /\ EvictedBy(c, cap, k) = {}
    BY <1>1 DEF Insert, EvictedBy, InsertEvicts
  <2>2. k \in DOMAIN c.keyEntryMap
    BY <1>1 DEF Exists
  <2> QED BY <2>1, <2>2, UpdateEntryDirty
<1>2. CASE ~Exists(c, k)
  <2>1. k \notin DOMAIN c.keyEntryMap /\ k \notin GetDirtyEntries(c)
    BY <1>2 DEF Exists, GetDirtyEntries
  <2>2. CASE IsFull(c, cap)
    <3> DEFINE e == RemoveEntry(c, LRUKey(c))
    <3>1. Insert(c, cap, k, v, d) = AddEntry(e, k, v, d) /\ EvictedBy(c, cap, k) = {LRUKey(c)}
      BY <1>2, <2>2 DEF Insert, MakeRoom, EvictedBy, InsertEvicts
    <3>2. /\ DOMAIN e.keyEntryMap = DOMAIN c.keyEntryMap \ {LRUKey(c)}
          /\ GetDirtyEntries(e) = GetDirtyEntries(c) \ {LRUKey(c)}
      BY RemoveEntryDirty
    <3> HIDE DEF e
    <3>3. k \notin DOMAIN e.keyEntryMap
      BY <2>1, <3>2
    <3> QED BY <2>1, <3>1, <3>2, <3>3, AddEntryDirty
  <2>3. CASE ~IsFull(c, cap)
    <3>1. Insert(c, cap, k, v, d) = AddEntry(c, k, v, d) /\ EvictedBy(c, cap, k) = {}
      BY <1>2, <2>3 DEF Insert, MakeRoom, EvictedBy, InsertEvicts
    <3> QED BY <2>1, <3>1, AddEntryDirty
  <2> QED BY <2>2, <2>3
<1> QED BY <1>1, <1>2
=============================================================================
