-------------------------- MODULE BufferCacheProofs --------------------------
(***************************************************************************)
(* The buffer cache loses no write, joins concurrent misses and never      *)
(* miscounts its dirty entries downwards, for every number of requests,    *)
(* blocks and entries and every threshold; and each of its steps is one a  *)
(* device service may take.                                                *)
(***************************************************************************)
EXTENDS BufferCache, LRUCacheOpsProofs, FiniteSetTheorems

\* A list of different keys has as many keys as it is long.
LEMMA DistinctCardinality ==
  ASSUME NEW S, NEW list \in Seq(S), Distinct(list)
  PROVE  IsFiniteSet(ToSet(list)) /\ Cardinality(ToSet(list)) = Len(list)
<1>1. Len(list) \in Nat /\ DOMAIN list = 1 .. Len(list)
  OBVIOUS
<1>2. list \in Bijection(1 .. Len(list), ToSet(list))
  <2>1. list \in [1 .. Len(list) -> ToSet(list)]
    BY <1>1 DEF ToSet
  <2>2. \A t \in ToSet(list) : \E s \in 1 .. Len(list) : list[s] = t
    BY <1>1 DEF ToSet
  <2>3. IsInjective(list)
    BY <1>1 DEF Distinct, IsInjective
  <2> QED BY <2>1, <2>2, <2>3 DEF Bijection, Injection, Surjection
<1>3. ExistsBijection(1 .. Len(list), ToSet(list))
  BY <1>2 DEF ExistsBijection
<1>4. IsFiniteSet(1 .. Len(list)) /\ Cardinality(1 .. Len(list)) = Len(list)
  BY <1>1, FS_Interval
<1> QED BY <1>3, <1>4, FS_Bijection
-----------------------------------------------------------------------------
\* The counter is exact until it passes the threshold.  Only then can a dirty
\* entry be overwritten clean, which leaves it too high; it keeps that value
\* until the cache is full, because only an eviction lowers it.  A threshold
\* equal to the capacity is never passed.
CountOK(c) ==
  /\ Cardinality(GetDirtyEntries(c)) <= c.numDirtyEntries
  /\ c.numDirtyEntries <= dirtyLimit + 1
  /\ c.numDirtyEntries <= c.numEntries
  /\ c.numEntries < maxEntries =>
       \/ c.numDirtyEntries = Cardinality(GetDirtyEntries(c))
       \/ c.numDirtyEntries = dirtyLimit + 1
  /\ dirtyLimit = maxEntries => c.numDirtyEntries = Cardinality(GetDirtyEntries(c))

CacheOK(c) == Consistent(c, Blocks, {0}, maxEntries)

\* The dirty entries are some of the entries, which numEntries counts.
LEMMA DirtyCardinality ==
  ASSUME NEW c, CacheOK(c)
  PROVE  /\ IsFiniteSet(GetDirtyEntries(c))
         /\ Cardinality(GetDirtyEntries(c)) \in Nat
         /\ c.numEntries \in Nat /\ c.numDirtyEntries \in Nat
         /\ c.numEntries <= maxEntries
         /\ Cardinality(GetDirtyEntries(c)) <= c.numEntries
         /\ \A k \in DOMAIN c.keyEntryMap \ GetDirtyEntries(c) :
              Cardinality(GetDirtyEntries(c)) + 1 <= c.numEntries
<1> DEFINE all == DOMAIN c.keyEntryMap
           dirty == GetDirtyEntries(c)
<1>1. c.lruList \in Seq(Blocks) /\ Distinct(c.lruList) /\ ToSet(c.lruList) = all
  BY DEF CacheOK, Consistent
<1>2. IsFiniteSet(all) /\ Cardinality(all) = Len(c.lruList)
  BY <1>1, DistinctCardinality
<1>3. /\ c.numEntries = Len(c.lruList) /\ Len(c.lruList) <= maxEntries /\ Len(c.lruList) \in Nat
      /\ c.numDirtyEntries \in 0 .. SizeMod - 1
  BY DEF CacheOK, Consistent
<1>4. dirty \subseteq all
  BY DEF GetDirtyEntries
<1> HIDE DEF all, dirty
<1>5. IsFiniteSet(dirty) /\ Cardinality(dirty) <= Cardinality(all) /\ Cardinality(dirty) \in Nat
  BY <1>2, <1>4, FS_Subset, FS_CardinalityType
<1>6. ASSUME NEW k \in all \ dirty PROVE Cardinality(dirty) + 1 <= Cardinality(all)
  <2>1. Cardinality(dirty \union {k}) = Cardinality(dirty) + 1 /\ IsFiniteSet(dirty \union {k})
    BY <1>5, FS_AddElement
  <2>2. dirty \union {k} \subseteq all
    BY <1>4
  <2>3. Cardinality(dirty \union {k}) <= Cardinality(all)
    BY <1>2, <2>2, FS_Subset
  <2> QED BY <2>1, <2>3
<1> QED BY <1>2, <1>3, <1>5, <1>6, SizeModAssumption DEF all, dirty

\* evictCacheEntry writes back just the entry that insert then pushes out, if
\* it is dirty.
LEMMA WrittenBackIsEvictedDirty ==
  ASSUME NEW b, CacheOK(cache)
  PROVE  WrittenBack(b) = EvictedBy(cache, maxEntries, b) \intersect GetDirtyEntries(cache)
<1>1. CASE IsFull(cache, maxEntries) /\ ~Exists(cache, b)
  <2>1. LRUKey(cache) \in DOMAIN cache.keyEntryMap
    BY <1>1, LRUKeyCached DEF CacheOK
  <2>2. EvictedBy(cache, maxEntries, b) = {LRUKey(cache)}
    BY <1>1 DEF EvictedBy, InsertEvicts
  <2>3. WrittenBack(b) = {e \in DOMAIN cache.keyEntryMap :
                            e = LRUKey(cache) /\ cache.keyEntryMap[e].dirty}
    BY <1>1 DEF WrittenBack, IsCached, GetDirtyBit
  <2> QED BY <2>1, <2>2, <2>3 DEF GetDirtyEntries
<1>2. CASE ~(IsFull(cache, maxEntries) /\ ~Exists(cache, b))
  BY <1>2 DEF WrittenBack, EvictedBy, InsertEvicts, IsCached
<1> QED BY <1>1, <1>2

\* The counters of the steps of an insertion, where they do not wrap around.
LEMMA UpdateEntryCounts ==
  ASSUME NEW c, CacheOK(c), NEW k \in DOMAIN c.keyEntryMap, NEW d \in BOOLEAN,
         c.numDirtyEntries <= maxEntries
  PROVE  /\ UpdateEntry(c, k, 0, d).numEntries = c.numEntries
         /\ UpdateEntry(c, k, 0, d).numDirtyEntries =
              IF d /\ k \notin GetDirtyEntries(c) THEN c.numDirtyEntries + 1 ELSE c.numDirtyEntries
<1>1. c.numDirtyEntries \in Nat
  BY SizeModAssumption DEF CacheOK, Consistent
<1>2. (c.numDirtyEntries + 1) % SizeMod = c.numDirtyEntries + 1
  <2>1. c.numDirtyEntries + 1 \in 0 .. SizeMod - 1
    BY <1>1, BufferAssumption, SizeModAssumption
  <2> QED BY <2>1, SizeModAssumption
<1>3. k \in GetDirtyEntries(c) <=> GetDirtyBit(c, k)
  BY DEF GetDirtyEntries, GetDirtyBit
<1> QED BY <1>2, <1>3 DEF UpdateEntry

\* The same for a new entry.
LEMMA AddEntryCounts ==
  ASSUME NEW c, CacheOK(c), NEW k, NEW d \in BOOLEAN,
         c.numDirtyEntries <= maxEntries
  PROVE  /\ AddEntry(c, k, 0, d).numEntries = c.numEntries + 1
         /\ AddEntry(c, k, 0, d).numDirtyEntries =
              IF d THEN c.numDirtyEntries + 1 ELSE c.numDirtyEntries
<1>1. c.numDirtyEntries \in Nat /\ c.numEntries \in Nat /\ c.numEntries <= maxEntries
  BY DirtyCardinality
<1>2. (c.numDirtyEntries + 1) % SizeMod = c.numDirtyEntries + 1
  <2>1. c.numDirtyEntries + 1 \in 0 .. SizeMod - 1
    BY <1>1, BufferAssumption, SizeModAssumption
  <2> QED BY <2>1, SizeModAssumption
<1>3. (c.numEntries + 1) % SizeMod = c.numEntries + 1
  <2>1. c.numEntries + 1 \in 0 .. SizeMod - 1
    BY <1>1, BufferAssumption, SizeModAssumption
  <2> QED BY <2>1, SizeModAssumption
<1> QED BY <1>2, <1>3 DEF AddEntry

\* The same for remove, where the dirty counter has not drifted below zero.
LEMMA RemoveEntryCounts ==
  ASSUME NEW c, CacheOK(c), NEW k \in DOMAIN c.keyEntryMap,
         k \in GetDirtyEntries(c) => 0 < c.numDirtyEntries
  PROVE  /\ RemoveEntry(c, k).numEntries = c.numEntries - 1
         /\ RemoveEntry(c, k).numDirtyEntries =
              IF k \in GetDirtyEntries(c) THEN c.numDirtyEntries - 1 ELSE c.numDirtyEntries
<1>1. /\ c.numDirtyEntries \in 0 .. SizeMod - 1 /\ c.numEntries \in Nat /\ c.numEntries <= maxEntries
      /\ 0 < c.numEntries
  <2>1. Len(c.lruList) # 0
    BY DEF CacheOK, Consistent, ToSet
  <2> QED BY <2>1, DirtyCardinality DEF CacheOK, Consistent
<1>2. k \in GetDirtyEntries(c) <=> GetDirtyBit(c, k)
  BY DEF GetDirtyEntries, GetDirtyBit
<1>3. (c.numEntries - 1) % SizeMod = c.numEntries - 1
  <2>1. c.numEntries - 1 \in 0 .. SizeMod - 1
    BY <1>1, BufferAssumption, SizeModAssumption
  <2> QED BY <2>1, SizeModAssumption
<1>4. 0 < c.numDirtyEntries => (c.numDirtyEntries - 1) % SizeMod = c.numDirtyEntries - 1
  <2>1. 0 < c.numDirtyEntries => c.numDirtyEntries - 1 \in 0 .. SizeMod - 1
    BY <1>1, SizeModAssumption
  <2> QED BY <2>1, SizeModAssumption
<1> QED BY <1>2, <1>3, <1>4 DEF RemoveEntry

\* Adding a key to a finite set, or taking one out.
LEMMA OneMore ==
  ASSUME NEW S, IsFiniteSet(S), NEW k
  PROVE  /\ Cardinality(S) \in Nat
         /\ k \notin S => Cardinality(S \union {k}) = Cardinality(S) + 1
         /\ k \in S => Cardinality(S \union {k}) = Cardinality(S)
         /\ k \in S => Cardinality(S \ {k}) = Cardinality(S) - 1 /\ 0 < Cardinality(S)
         /\ k \notin S => Cardinality(S \ {k}) = Cardinality(S)
<1>1. Cardinality(S) \in Nat
  BY FS_CardinalityType
<1>2. k \notin S => Cardinality(S \union {k}) = Cardinality(S) + 1 /\ S \ {k} = S
  BY FS_AddElement
<1>3. k \in S => S \union {k} = S
  OBVIOUS
<1>4. k \in S => Cardinality(S \ {k}) = Cardinality(S) - 1
  BY FS_RemoveElement
<1>5. k \in S => IsFiniteSet(S \ {k}) /\ Cardinality(S \ {k}) \in Nat
  BY FS_Subset, FS_CardinalityType
<1>6. k \in S => 0 < Cardinality(S)
  BY <1>1, <1>4, <1>5
<1> QED BY <1>1, <1>2, <1>3, <1>4, <1>6

\* What a write may do to the counter: a dirty insertion happens only below
\* the threshold, and a clean one overwrites a dirty entry only above it.
Permitted(c, b, d) ==
  /\ d => c.numDirtyEntries <= dirtyLimit
  /\ ~d /\ b \in GetDirtyEntries(c) => c.numDirtyEntries = dirtyLimit + 1

\* A block that is cached is inserted again.
LEMMA UpdateKeepsCounts ==
  ASSUME NEW c, CacheOK(c), CountOK(c), NEW b \in DOMAIN c.keyEntryMap, NEW d \in BOOLEAN,
         Permitted(c, b, d)
  PROVE  CountOK(UpdateEntry(c, b, 0, d))
<1> DEFINE u == UpdateEntry(c, b, 0, d)
           D == GetDirtyEntries(c)
           D2 == GetDirtyEntries(u)
<1>1. /\ IsFiniteSet(D) /\ Cardinality(D) \in Nat
      /\ c.numEntries \in Nat /\ c.numDirtyEntries \in Nat
      /\ c.numEntries <= maxEntries
      /\ b \notin D => Cardinality(D) + 1 <= c.numEntries
  BY DirtyCardinality
<1>2. /\ Cardinality(D) <= c.numDirtyEntries
      /\ c.numDirtyEntries <= dirtyLimit + 1
      /\ c.numDirtyEntries <= c.numEntries
      /\ c.numEntries < maxEntries =>
           c.numDirtyEntries = Cardinality(D) \/ c.numDirtyEntries = dirtyLimit + 1
      /\ dirtyLimit = maxEntries => c.numDirtyEntries = Cardinality(D)
  BY DEF CountOK
<1>3. /\ d => c.numDirtyEntries <= dirtyLimit
      /\ ~d /\ b \in D => c.numDirtyEntries = dirtyLimit + 1
  BY DEF Permitted
<1>4. dirtyLimit \in Nat /\ dirtyLimit <= maxEntries /\ maxEntries \in Nat
  BY BufferAssumption
<1>5. D2 = (D \ {b}) \union (IF d THEN {b} ELSE {})
  BY UpdateEntryDirty
<1>6. /\ u.numEntries = c.numEntries
      /\ u.numDirtyEntries = IF d /\ b \notin D THEN c.numDirtyEntries + 1 ELSE c.numDirtyEntries
  <2>1. c.numDirtyEntries <= maxEntries
    BY <1>1, <1>2, <1>4
  <2> QED BY <2>1, UpdateEntryCounts
<1> SUFFICES CountOK(u)
  OBVIOUS
<1> HIDE DEF u, D, D2
<1>7. Cardinality(D2) = IF d THEN IF b \in D THEN Cardinality(D) ELSE Cardinality(D) + 1
                             ELSE IF b \in D THEN Cardinality(D) - 1 ELSE Cardinality(D)
  <2>1. d => D2 = D \union {b}
    BY <1>5
  <2>2. ~d => D2 = D \ {b}
    BY <1>5
  <2> QED BY <1>1, <2>1, <2>2, OneMore
<1>8. CASE d /\ b \notin D
  BY <1>1, <1>2, <1>3, <1>4, <1>6, <1>7, <1>8 DEF CountOK, D2
<1>9. CASE d /\ b \in D
  BY <1>1, <1>2, <1>4, <1>6, <1>7, <1>9 DEF CountOK, D2
<1>10. CASE ~d
  BY <1>1, <1>2, <1>3, <1>4, <1>6, <1>7, <1>10 DEF CountOK, D2
<1> QED BY <1>8, <1>9, <1>10

\* A new block where there is room.
LEMMA AddKeepsCounts ==
  ASSUME NEW c, CacheOK(c), CountOK(c), NEW b, NEW d \in BOOLEAN,
         b \notin DOMAIN c.keyEntryMap, ~IsFull(c, maxEntries), Permitted(c, b, d)
  PROVE  CountOK(AddEntry(c, b, 0, d))
<1> DEFINE u == AddEntry(c, b, 0, d)
           D == GetDirtyEntries(c)
           D2 == GetDirtyEntries(u)
<1>1. /\ IsFiniteSet(D) /\ Cardinality(D) \in Nat
      /\ c.numEntries \in Nat /\ c.numDirtyEntries \in Nat
      /\ c.numEntries < maxEntries
  BY DirtyCardinality, BufferAssumption DEF IsFull
<1>2. /\ Cardinality(D) <= c.numDirtyEntries
      /\ c.numDirtyEntries <= dirtyLimit + 1
      /\ c.numDirtyEntries <= c.numEntries
      /\ c.numDirtyEntries = Cardinality(D) \/ c.numDirtyEntries = dirtyLimit + 1
      /\ dirtyLimit = maxEntries => c.numDirtyEntries = Cardinality(D)
  BY <1>1 DEF CountOK
<1>3. d => c.numDirtyEntries <= dirtyLimit
  BY DEF Permitted
<1>4. dirtyLimit \in Nat /\ dirtyLimit <= maxEntries /\ maxEntries \in Nat
  BY BufferAssumption
<1>5. D2 = D \union (IF d THEN {b} ELSE {}) /\ b \notin D
  BY AddEntryDirty DEF GetDirtyEntries
<1>6. /\ u.numEntries = c.numEntries + 1
      /\ u.numDirtyEntries = IF d THEN c.numDirtyEntries + 1 ELSE c.numDirtyEntries
  <2>1. c.numDirtyEntries <= maxEntries
    BY <1>1, <1>2, <1>4
  <2> QED BY <2>1, AddEntryCounts
<1> SUFFICES CountOK(u)
  OBVIOUS
<1> HIDE DEF u, D, D2
<1>7. Cardinality(D2) = IF d THEN Cardinality(D) + 1 ELSE Cardinality(D)
  <2>1. d => D2 = D \union {b}
    BY <1>5
  <2>2. ~d => D2 = D
    BY <1>5
  <2> QED BY <1>1, <1>5, <2>1, <2>2, OneMore
<1>8. CASE d
  BY <1>1, <1>2, <1>3, <1>4, <1>6, <1>7, <1>8 DEF CountOK, D2
<1>9. CASE ~d
  BY <1>1, <1>2, <1>4, <1>6, <1>7, <1>9 DEF CountOK, D2
<1> QED BY <1>8, <1>9

\* A new block into a full cache: remove(rbegin()), then the new entry.
LEMMA ReplaceKeepsCounts ==
  ASSUME NEW c, CacheOK(c), CountOK(c), NEW b, NEW d \in BOOLEAN,
         b \notin DOMAIN c.keyEntryMap, IsFull(c, maxEntries), Permitted(c, b, d)
  PROVE  CountOK(AddEntry(RemoveEntry(c, LRUKey(c)), b, 0, d))
<1> DEFINE l == LRUKey(c)
           e == RemoveEntry(c, l)
           u == AddEntry(e, b, 0, d)
           D == GetDirtyEntries(c)
           D1 == GetDirtyEntries(e)
           D2 == GetDirtyEntries(u)
<1>1. /\ IsFiniteSet(D) /\ Cardinality(D) \in Nat
      /\ c.numEntries \in Nat /\ c.numDirtyEntries \in Nat
      /\ c.numEntries = maxEntries
  BY DirtyCardinality DEF IsFull
<1>2. /\ Cardinality(D) <= c.numDirtyEntries
      /\ c.numDirtyEntries <= dirtyLimit + 1
      /\ c.numDirtyEntries <= c.numEntries
      /\ dirtyLimit = maxEntries => c.numDirtyEntries = Cardinality(D)
  BY DEF CountOK
<1>3. d => c.numDirtyEntries <= dirtyLimit
  BY DEF Permitted
<1>4. dirtyLimit \in Nat /\ dirtyLimit <= maxEntries /\ maxEntries \in Nat /\ 0 < maxEntries
  BY BufferAssumption
<1>5. l \in DOMAIN c.keyEntryMap
  BY LRUKeyCached DEF CacheOK
<1>6. l \notin D => Cardinality(D) + 1 <= c.numEntries
  BY <1>5, DirtyCardinality
<1> HIDE DEF l
<1>7. CacheOK(e) /\ D1 = D \ {l} /\ b \notin D1 /\ b \notin DOMAIN e.keyEntryMap
  <2>1. CacheOK(e)
    BY <1>5, RemoveEntryKeeps DEF CacheOK
  <2>2. D1 = D \ {l} /\ DOMAIN e.keyEntryMap = DOMAIN c.keyEntryMap \ {l}
    BY RemoveEntryDirty
  <2> QED BY <2>1, <2>2 DEF GetDirtyEntries
<1>8. l \in D => 0 < Cardinality(D) /\ 0 < c.numDirtyEntries
  <2>1. l \in D => 0 < Cardinality(D)
    BY <1>1, OneMore
  <2> HIDE DEF D
  <2> QED BY <1>1, <1>2, <2>1
<1>9. /\ e.numEntries = c.numEntries - 1
      /\ e.numDirtyEntries = IF l \in D THEN c.numDirtyEntries - 1 ELSE c.numDirtyEntries
  BY <1>5, <1>8, RemoveEntryCounts
<1>10. D2 = D1 \union (IF d THEN {b} ELSE {})
  BY <1>7, AddEntryDirty
<1>11. /\ u.numEntries = e.numEntries + 1
       /\ u.numDirtyEntries = IF d THEN e.numDirtyEntries + 1 ELSE e.numDirtyEntries
  <2> HIDE DEF e, D
  <2>1. e.numDirtyEntries <= maxEntries
    BY <1>1, <1>2, <1>4, <1>9
  <2> QED BY <1>7, <2>1, AddEntryCounts
<1> SUFFICES CountOK(u)
  BY DEF l
<1> HIDE DEF e, u, D, D1, D2
<1>12. /\ IsFiniteSet(D1)
       /\ Cardinality(D1) = IF l \in D THEN Cardinality(D) - 1 ELSE Cardinality(D)
  <2>1. IsFiniteSet(D \ {l})
    BY <1>1, FS_Subset
  <2>2. Cardinality(D \ {l}) = IF l \in D THEN Cardinality(D) - 1 ELSE Cardinality(D)
    BY <1>1, OneMore
  <2> QED BY <1>7, <2>1, <2>2
<1>13. Cardinality(D2) = IF d THEN Cardinality(D1) + 1 ELSE Cardinality(D1)
  <2>1. d => D2 = D1 \union {b}
    BY <1>10
  <2>2. ~d => D2 = D1
    BY <1>10
  <2>3. IsFiniteSet(D1) /\ b \notin D1
    BY <1>7, <1>12
  <2>4. Cardinality(D1 \union {b}) = Cardinality(D1) + 1
    BY <2>3, OneMore
  <2> QED BY <2>1, <2>2, <2>4
<1>14. CASE d /\ l \in D
  BY <1>1, <1>2, <1>3, <1>4, <1>9, <1>11, <1>12, <1>13, <1>14 DEF CountOK, D2
<1>15. CASE d /\ l \notin D
  BY <1>1, <1>2, <1>3, <1>4, <1>6, <1>9, <1>11, <1>12, <1>13, <1>15 DEF CountOK, D2
<1>16. CASE ~d /\ l \in D
  BY <1>1, <1>2, <1>4, <1>8, <1>9, <1>11, <1>12, <1>13, <1>16 DEF CountOK, D2
<1>17. CASE ~d /\ l \notin D
  BY <1>1, <1>2, <1>4, <1>9, <1>11, <1>12, <1>13, <1>17 DEF CountOK, D2
<1> QED BY <1>14, <1>15, <1>16, <1>17

\* Every insertion the cache makes keeps its counters within their bounds.
LEMMA InsertKeepsCounts ==
  ASSUME NEW c, CacheOK(c), CountOK(c), NEW b \in Blocks, NEW d \in BOOLEAN, Permitted(c, b, d)
  PROVE  /\ CacheOK(Insert(c, maxEntries, b, 0, d))
         /\ CountOK(Insert(c, maxEntries, b, 0, d))
<1>1. CacheOK(Insert(c, maxEntries, b, 0, d))
  BY InsertKeeps DEF CacheOK
<1>2. CASE Exists(c, b)
  BY <1>1, <1>2, UpdateKeepsCounts DEF Insert, Exists
<1>3. CASE ~Exists(c, b) /\ IsFull(c, maxEntries)
  BY <1>1, <1>3, ReplaceKeepsCounts DEF Insert, MakeRoom, Exists
<1>4. CASE ~Exists(c, b) /\ ~IsFull(c, maxEntries)
  BY <1>1, <1>4, AddKeepsCounts DEF Insert, MakeRoom, Exists
<1> QED BY <1>2, <1>3, <1>4
-----------------------------------------------------------------------------
\* What the cache owes: its dirty entries are the writes it acknowledged and
\* has not sent on, and a block that is written through is never among them.
CacheInv ==
  /\ CacheOK(cache) /\ CountOK(cache)
  /\ writebacks \in [Blocks -> Nat]
  /\ overtaken \subseteq Blocks
  /\ owed = GetDirtyEntries(cache)
  /\ owed \cap ThroughBlocks = {}

\* Where the messages are: one that waits is neither answered nor a write at
\* the disk.
MessagesOK ==
  /\ request \in [Requests -> Messages \union {None}]
  /\ diskReads \subseteq pending /\ pending \subseteq Asked
  /\ diskThroughs \subseteq Asked /\ answered \subseteq Asked
  /\ pending \cap diskThroughs = {}
  /\ (pending \union diskThroughs) \cap answered = {}

\* Every waiting reader has one read of its block at the disk.
FillsOK ==
  /\ \A r \in pending : \E s \in diskReads : request[s].lba = request[r].lba
  /\ \A r, s \in diskReads : request[r].lba = request[s].lba => r = s

IInv == CacheInv /\ MessagesOK /\ FillsOK

\* The empty cache and no messages.
LEMMA InitIInv == Init => IInv
<1> SUFFICES ASSUME Init PROVE IInv
  OBVIOUS
<1>1. cache = [keyEntryMap |-> [k \in {} |-> k], lruList |-> << >>,
               numEntries |-> 0, numDirtyEntries |-> 0]
  BY DEF Init, EmptyCache
<1>2. DOMAIN cache.keyEntryMap = {} /\ cache.lruList = << >> /\ cache.numEntries = 0
      /\ cache.numDirtyEntries = 0
  BY <1>1
<1>3. Consistent(cache, Blocks, {0}, maxEntries)
  <2>1. cache.keyEntryMap \in [{} -> EntriesOf({0})]
    BY <1>1
  <2>2. Distinct(<< >>) /\ ToSet(<< >>) = {} /\ Len(<< >>) = 0
    BY DEF Distinct, ToSet
  <2>3. maxEntries \in Nat /\ 0 < maxEntries /\ maxEntries < SizeMod
    BY BufferAssumption, SizeModAssumption
  <2>4. cache = [keyEntryMap |-> cache.keyEntryMap, lruList |-> cache.lruList,
                 numEntries |-> cache.numEntries, numDirtyEntries |-> cache.numDirtyEntries]
    BY <1>1
  <2>5. /\ Distinct(cache.lruList) /\ ToSet(cache.lruList) = DOMAIN cache.keyEntryMap
        /\ cache.numEntries = Len(cache.lruList) /\ Len(cache.lruList) <= maxEntries
    BY <1>2, <2>2, <2>3
  <2>6. cache.numDirtyEntries \in 0 .. SizeMod - 1 /\ cache.lruList \in Seq(Blocks)
    BY <1>2, SizeModAssumption
  <2> QED BY <1>2, <2>1, <2>3, <2>4, <2>5, <2>6 DEF Consistent
<1>4. GetDirtyEntries(cache) = {}
  BY <1>2 DEF GetDirtyEntries
<1>5. Cardinality(GetDirtyEntries(cache)) = 0
  BY <1>4, FS_EmptySet
<1>6. CountOK(cache)
  BY <1>2, <1>5, BufferAssumption DEF CountOK
<1>7. CacheInv
  BY <1>3, <1>4, <1>6 DEF CacheInv, CacheOK, Init
<1>8. MessagesOK /\ FillsOK
  BY DEF MessagesOK, FillsOK, Init, Asked, Messages
<1> QED BY <1>7, <1>8 DEF IInv

\* evictCacheEntry and insert: the entries that stop being dirty are the one
\* written back and the one overwritten.
LEMMA EvictAndInsertKeeps ==
  ASSUME CacheInv, NEW b \in Blocks, NEW d \in BOOLEAN, Permitted(cache, b, d),
         EvictAndInsert(b, d)
  PROVE  /\ CacheOK(cache') /\ CountOK(cache')
         /\ writebacks' \in [Blocks -> Nat]
         /\ GetDirtyEntries(cache') =
              (owed \ (WrittenBack(b) \union {b})) \union (IF d THEN {b} ELSE {})
<1>1. cache' = Insert(cache, maxEntries, b, 0, d)
  BY DEF EvictAndInsert
<1>2. CacheOK(cache) /\ CountOK(cache) /\ owed = GetDirtyEntries(cache)
  BY DEF CacheInv
<1>3. CacheOK(cache') /\ CountOK(cache')
  BY <1>1, <1>2, InsertKeepsCounts
<1>4. writebacks' \in [Blocks -> Nat]
  BY DEF EvictAndInsert, CacheInv
<1>5. GetDirtyEntries(cache') =
        (GetDirtyEntries(cache) \ (EvictedBy(cache, maxEntries, b) \union {b}))
          \union (IF d THEN {b} ELSE {})
  BY <1>1, InsertDirty
<1>6. WrittenBack(b) = EvictedBy(cache, maxEntries, b) \intersect GetDirtyEntries(cache)
  BY <1>2, WrittenBackIsEvictedDirty
<1> QED BY <1>2, <1>3, <1>4, <1>5, <1>6

\* A lookup touches the list alone.
LEMMA LookupKeepsAll ==
  ASSUME CacheInv, NEW b, IsCached(b), cache' = Lookup(cache, b)
  PROVE  CacheOK(cache') /\ CountOK(cache') /\ GetDirtyEntries(cache') = owed
<1>1. CacheOK(cache) /\ CountOK(cache) /\ owed = GetDirtyEntries(cache)
  BY DEF CacheInv
<1>2. CacheOK(cache')
  BY <1>1, LookupKeeps DEF CacheOK, IsCached, Exists
<1>3. /\ cache'.keyEntryMap = cache.keyEntryMap
      /\ cache'.numEntries = cache.numEntries
      /\ cache'.numDirtyEntries = cache.numDirtyEntries
  BY <1>1 DEF Lookup, CacheOK, Consistent
<1>4. GetDirtyEntries(cache') = GetDirtyEntries(cache)
  BY <1>3 DEF GetDirtyEntries
<1> QED BY <1>1, <1>2, <1>3, <1>4 DEF CountOK

\* A message that has arrived has its kind and its block.
LEMMA AskedHasBlock ==
  ASSUME MessagesOK, NEW r \in Asked
  PROVE  r \in Requests /\ request[r] \in Messages /\ request[r].lba \in Blocks
BY DEF MessagesOK, Asked, Messages

\* Each step keeps the cache's side of the invariant.
LEMMA CacheStep ==
  ASSUME CacheInv, MessagesOK, [Next]_vars
  PROVE  CacheInv'
<1>1. /\ CacheOK(cache) /\ CountOK(cache)
      /\ writebacks \in [Blocks -> Nat]
      /\ overtaken \subseteq Blocks
      /\ owed = GetDirtyEntries(cache)
      /\ owed \cap ThroughBlocks = {}
  BY DEF CacheInv
<1> DEFINE Kept == /\ CacheOK(cache') /\ CountOK(cache')
                   /\ writebacks' \in [Blocks -> Nat]
                   /\ overtaken' \subseteq Blocks
                   /\ owed' = GetDirtyEntries(cache')
                   /\ owed' \cap ThroughBlocks = {}
<1> SUFFICES Kept
  BY DEF CacheInv, CacheOK, Consistent, Distinct, CountOK
<1>2. ASSUME NEW r \in Requests, NEW b \in Blocks, ReadHit(r, b)
      PROVE  Kept
  BY <1>1, <1>2, LookupKeepsAll DEF ReadHit
<1>3. ASSUME NEW r \in Requests, NEW b \in Blocks, WriteBehind(r, b)
      PROVE  Kept
  <2>1. cache.numDirtyEntries <= dirtyLimit /\ b \notin ThroughBlocks
    BY <1>1, <1>3, DirtyCardinality, BufferAssumption DEF WriteBehind, GoesThrough
  <2>2. Permitted(cache, b, TRUE)
    BY <2>1 DEF Permitted
  <2>3. EvictAndInsert(b, TRUE) /\ owed' = (owed \ WrittenBack(b)) \union {b}
    BY <1>3 DEF WriteBehind
  <2>4. /\ CacheOK(cache') /\ CountOK(cache') /\ writebacks' \in [Blocks -> Nat]
        /\ GetDirtyEntries(cache') = (owed \ (WrittenBack(b) \union {b})) \union {b}
    BY <2>2, <2>3, EvictAndInsertKeeps
  <2>5. overtaken' \subseteq Blocks
    BY <1>1, <1>3 DEF WriteBehind, Overtake
  <2> QED BY <1>1, <2>1, <2>3, <2>4, <2>5
<1>4. ASSUME NEW r \in Requests, NEW b \in Blocks, WriteThrough(r, b)
      PROVE  Kept
  <2>1. b \in GetDirtyEntries(cache) => cache.numDirtyEntries > dirtyLimit
    BY <1>1, <1>4 DEF WriteThrough, GoesThrough
  <2>2. Permitted(cache, b, FALSE)
    <3>1. cache.numDirtyEntries \in Nat /\ cache.numDirtyEntries <= dirtyLimit + 1
      BY <1>1, DirtyCardinality DEF CountOK
    <3> QED BY <2>1, <3>1, BufferAssumption DEF Permitted
  <2>3. EvictAndInsert(b, FALSE) /\ owed' = owed \ (WrittenBack(b) \union {b})
    BY <1>4 DEF WriteThrough
  <2>4. /\ CacheOK(cache') /\ CountOK(cache') /\ writebacks' \in [Blocks -> Nat]
        /\ GetDirtyEntries(cache') = owed \ (WrittenBack(b) \union {b})
    BY <2>2, <2>3, EvictAndInsertKeeps
  <2>5. overtaken' \subseteq Blocks
    BY <1>1, <1>4 DEF WriteThrough, Overtake
  <2> QED BY <1>1, <2>3, <2>4, <2>5
<1>5. ASSUME NEW r \in Requests, ReadResponse(r)
      PROVE  Kept
  <2> DEFINE b == request[r].lba
  <2>1. b \in Blocks
    BY <1>5, AskedHasBlock DEF ReadResponse, MessagesOK
  <2>2. overtaken' \subseteq Blocks
    BY <1>1, <1>5 DEF ReadResponse
  <2>3. CASE IsCached(b)
    <3>1. cache' = Lookup(cache, b) /\ UNCHANGED <<writebacks, owed>>
      BY <1>5, <2>3 DEF ReadResponse
    <3> HIDE DEF b
    <3> QED BY <1>1, <2>2, <2>3, <3>1, LookupKeepsAll
  <2>4. CASE ~IsCached(b)
    <3>1. EvictAndInsert(b, FALSE) /\ owed' = owed \ WrittenBack(b)
      BY <1>5, <2>4 DEF ReadResponse
    <3> HIDE DEF b
    <3>2. b \notin owed
      BY <1>1, <2>4 DEF IsCached, Exists, GetDirtyEntries
    <3>3. Permitted(cache, b, FALSE)
      BY <1>1, <3>2 DEF Permitted
    <3>4. /\ CacheOK(cache') /\ CountOK(cache') /\ writebacks' \in [Blocks -> Nat]
          /\ GetDirtyEntries(cache') = owed \ (WrittenBack(b) \union {b})
      BY <2>1, <3>1, <3>3, EvictAndInsertKeeps
    <3> QED BY <1>1, <2>2, <3>1, <3>2, <3>4
  <2> QED BY <2>3, <2>4
<1>6. ASSUME NEW b \in Blocks, WriteBackResponse(b)
      PROVE  Kept
  <2>1. writebacks' = [writebacks EXCEPT ![b] = @ - 1] /\ writebacks[b] > 0
    BY <1>6 DEF WriteBackResponse
  <2>2. writebacks' \in [Blocks -> Nat]
    BY <1>1, <2>1
  <2> QED BY <1>1, <1>6, <2>2 DEF WriteBackResponse
<1>7. ASSUME UNCHANGED <<cache, writebacks, owed, overtaken>>
      PROVE  Kept
  BY <1>1, <1>7
<1>8. \A r, b : ReadPending(r, b) \/ ReadMiss(r, b) => UNCHANGED <<cache, writebacks, owed, overtaken>>
  BY DEF ReadPending, ReadMiss
<1>9. \A r : WriteThroughResponse(r) => UNCHANGED <<cache, writebacks, owed, overtaken>>
  BY DEF WriteThroughResponse
<1>10. Quiescent \/ UNCHANGED vars => UNCHANGED <<cache, writebacks, owed, overtaken>>
  BY DEF Quiescent, vars, cacheVars
<1> QED BY <1>2, <1>3, <1>4, <1>5, <1>6, <1>7, <1>8, <1>9, <1>10 DEF Next, Request, Response

\* A request that arrives is one that was not asked before.
LEMMA ReceiveAsks ==
  ASSUME MessagesOK, NEW r \in Requests, NEW b \in Blocks, NEW kind \in {"read", "write"},
         Receive(r, kind, b)
  PROVE  /\ r \notin Asked /\ Asked' = Asked \union {r}
         /\ request' \in [Requests -> Messages \union {None}]
         /\ request'[r].lba = b
         /\ \A q \in Asked : request'[q] = request[q]
<1>1. /\ request \in [Requests -> Messages \union {None}]
      /\ request[r] = None
      /\ request' = [request EXCEPT ![r] = [kind |-> kind, lba |-> b]]
  BY DEF MessagesOK, Receive
<1>2. [kind |-> kind, lba |-> b] \in Messages /\ [kind |-> kind, lba |-> b] # None
  BY DEF Messages, None
<1>3. \A q \in Requests : request'[q] = IF q = r THEN [kind |-> kind, lba |-> b] ELSE request[q]
  BY <1>1
<1>4. r \notin Asked /\ Asked' = Asked \union {r}
  BY <1>1, <1>2, <1>3 DEF Asked
<1>5. \A q \in Asked : request'[q] = request[q]
  BY <1>3, <1>4 DEF Asked
<1> QED BY <1>1, <1>2, <1>3, <1>4, <1>5

\* Each step keeps the messages' side of the invariant, and is a step of the
\* device service or none.
LEMMA MessageStep ==
  ASSUME MessagesOK, FillsOK, [Next]_vars
  PROVE  MessagesOK' /\ FillsOK' /\ [Device!Next]_(Device!vars)
<1>1. /\ request \in [Requests -> Messages \union {None}]
      /\ diskReads \subseteq pending /\ pending \subseteq Asked
      /\ diskThroughs \subseteq Asked /\ answered \subseteq Asked
      /\ pending \cap diskThroughs = {}
      /\ (pending \union diskThroughs) \cap answered = {}
  BY DEF MessagesOK
<1>2. /\ \A r \in pending : \E s \in diskReads : request[s].lba = request[r].lba
      /\ \A r, s \in diskReads : request[r].lba = request[s].lba => r = s
  BY DEF FillsOK
<1>3. Asked \subseteq Requests
  BY DEF Asked
<1> DEFINE Kept == /\ request' \in [Requests -> Messages \union {None}]
                   /\ diskReads' \subseteq pending' /\ pending' \subseteq Asked'
                   /\ diskThroughs' \subseteq Asked' /\ answered' \subseteq Asked'
                   /\ pending' \cap diskThroughs' = {}
                   /\ (pending' \union diskThroughs') \cap answered' = {}
                   /\ \A r \in pending' : \E s \in diskReads' : request'[s].lba = request'[r].lba
                   /\ \A r, s \in diskReads' : request'[r].lba = request'[s].lba => r = s
           Asks(r) == r \notin Asked /\ Asked' = Asked \union {r} /\ answered' = answered
           AsksAnswered(r) == /\ r \notin Asked /\ Asked' = Asked \union {r}
                              /\ answered' = answered \union {r}
           Answers(S) == /\ S # {} /\ S \cap answered = {} /\ S \subseteq Asked
                         /\ Asked' = Asked /\ answered' = answered \union S
           Served == \/ \E r \in Requests : Asks(r) \/ AsksAnswered(r)
                     \/ \E S \in SUBSET Requests : Answers(S)
                     \/ Asked' = Asked /\ answered' = answered
<1> SUFFICES Kept /\ Served
  BY DEF MessagesOK, FillsOK, Device!Next, Device!Ask, Device!AskAnswered, Device!Answer, Device!vars
<1>4. ASSUME NEW r \in Requests, NEW b \in Blocks,
             ReadHit(r, b) \/ WriteBehind(r, b)
      PROVE  Kept /\ Served
  <2>1. /\ UNCHANGED <<pending, diskReads, diskThroughs>>
        /\ answered' = answered \union {r}
    BY <1>4 DEF ReadHit, WriteBehind
  <2>2. /\ r \notin Asked /\ Asked' = Asked \union {r}
        /\ request' \in [Requests -> Messages \union {None}]
        /\ \A q \in Asked : request'[q] = request[q]
    BY <1>4, ReceiveAsks DEF ReadHit, WriteBehind
  <2>3. Kept
    BY <1>1, <1>2, <2>1, <2>2
  <2> QED BY <2>1, <2>2, <2>3
<1>5. ASSUME NEW r \in Requests, NEW b \in Blocks, ReadPending(r, b)
      PROVE  Kept /\ Served
  <2>1. /\ UNCHANGED <<diskReads, diskThroughs, answered>>
        /\ pending' = pending \union {r}
        /\ \E q \in pending : request[q].lba = b
    BY <1>5 DEF ReadPending, IsPending, Of
  <2>2. /\ r \notin Asked /\ Asked' = Asked \union {r}
        /\ request' \in [Requests -> Messages \union {None}]
        /\ request'[r].lba = b
        /\ \A q \in Asked : request'[q] = request[q]
    BY <1>5, ReceiveAsks DEF ReadPending
  <2>3. Kept
    <3>1. \E s \in diskReads : request[s].lba = b
      BY <1>2, <2>1
    <3> QED BY <1>1, <1>2, <2>1, <2>2, <3>1
  <2> QED BY <2>1, <2>2, <2>3
<1>6. ASSUME NEW r \in Requests, NEW b \in Blocks, ReadMiss(r, b)
      PROVE  Kept /\ Served
  <2>1. /\ UNCHANGED <<diskThroughs, answered>>
        /\ pending' = pending \union {r} /\ diskReads' = diskReads \union {r}
        /\ \A q \in pending : request[q].lba # b
    BY <1>6 DEF ReadMiss, IsPending, Of
  <2>2. /\ r \notin Asked /\ Asked' = Asked \union {r}
        /\ request' \in [Requests -> Messages \union {None}]
        /\ request'[r].lba = b
        /\ \A q \in Asked : request'[q] = request[q]
    BY <1>6, ReceiveAsks DEF ReadMiss
  <2>3. Kept
    BY <1>1, <1>2, <2>1, <2>2
  <2> QED BY <2>1, <2>2, <2>3
<1>7. ASSUME NEW r \in Requests, NEW b \in Blocks, WriteThrough(r, b)
      PROVE  Kept /\ Served
  <2>1. /\ UNCHANGED <<pending, diskReads, answered>>
        /\ diskThroughs' = diskThroughs \union {r}
    BY <1>7 DEF WriteThrough
  <2>2. /\ r \notin Asked /\ Asked' = Asked \union {r}
        /\ request' \in [Requests -> Messages \union {None}]
        /\ \A q \in Asked : request'[q] = request[q]
    BY <1>7, ReceiveAsks DEF WriteThrough
  <2>3. Kept
    BY <1>1, <1>2, <2>1, <2>2
  <2> QED BY <2>1, <2>2, <2>3
<1>8. ASSUME NEW r \in Requests, ReadResponse(r)
      PROVE  Kept /\ Served
  <2> DEFINE S == {q \in pending : request[q].lba = request[r].lba}
  <2>1. /\ UNCHANGED <<request, diskThroughs>> /\ Asked' = Asked
        /\ diskReads' = diskReads \ {r} /\ r \in diskReads
        /\ pending' = pending \ S /\ answered' = answered \union S
    BY <1>8 DEF ReadResponse, SatisfyPending, Of, Asked
  <2>2. /\ S \subseteq pending /\ r \in S
        /\ \A q \in pending \ S : request[q].lba # request[r].lba
        /\ \A q \in S : request[q].lba = request[r].lba
    BY <1>1, <2>1
  <2> HIDE DEF S
  <2>3. Kept
    BY <1>1, <1>2, <2>1, <2>2
  <2>4. S \in SUBSET Requests /\ Answers(S)
    BY <1>1, <1>3, <2>1, <2>2
  <2> QED BY <2>3, <2>4
<1>9. ASSUME NEW r \in Requests, WriteThroughResponse(r)
      PROVE  Kept /\ Served
  <2>1. /\ UNCHANGED <<request, pending, diskReads>> /\ Asked' = Asked
        /\ diskThroughs' = diskThroughs \ {r} /\ r \in diskThroughs
        /\ answered' = answered \union {r}
    BY <1>9 DEF WriteThroughResponse, Asked
  <2>2. Kept
    BY <1>1, <1>2, <2>1
  <2>3. {r} \in SUBSET Requests /\ Answers({r})
    BY <1>1, <2>1
  <2> QED BY <2>2, <2>3
<1>10. ASSUME UNCHANGED <<request, pending, diskReads, diskThroughs, answered>>
       PROVE  Kept /\ Served
  BY <1>1, <1>2, <1>10 DEF Asked
<1>11. \A b : WriteBackResponse(b) =>
                UNCHANGED <<request, pending, diskReads, diskThroughs, answered>>
  BY DEF WriteBackResponse
<1>12. Quiescent \/ UNCHANGED vars =>
         UNCHANGED <<request, pending, diskReads, diskThroughs, answered>>
  BY DEF Quiescent, vars, cacheVars
<1> HIDE DEF Kept, Served
<1> QED BY <1>4, <1>5, <1>6, <1>7, <1>8, <1>9, <1>10, <1>11, <1>12 DEF Next, Request, Response

\* The two halves of the invariant together are inductive.
LEMMA NextIInv == IInv /\ [Next]_vars => IInv'
BY CacheStep, MessageStep DEF IInv

\* What the invariant says of a state: the checked properties.
LEMMA IInvImplies ==
  IInv => TypeOK /\ OneReadPerPendingBlock /\ NoDirtyBlockLost /\ DirtyBounded
<1> SUFFICES ASSUME IInv
             PROVE  TypeOK /\ OneReadPerPendingBlock /\ NoDirtyBlockLost /\ DirtyBounded
  OBVIOUS
<1>1. CacheInv /\ MessagesOK /\ FillsOK /\ CacheOK(cache) /\ CountOK(cache)
  BY DEF IInv, CacheInv
<1>2. TypeOK
  <2>1. DOMAIN cache.keyEntryMap \subseteq Blocks /\ cache.lruList \in Seq(Blocks)
    BY <1>1 DEF CacheOK, Consistent
  <2>2. GetDirtyEntries(cache) \subseteq Blocks
    BY <2>1 DEF GetDirtyEntries
  <2> QED BY <1>1, <2>1, <2>2 DEF TypeOK, CacheInv, MessagesOK
<1>3. OneReadPerPendingBlock
  <2> SUFFICES ASSUME NEW b \in Blocks
               PROVE  /\ Of(pending, b) # {} <=> Of(diskReads, b) # {}
                      /\ Cardinality(Of(diskReads, b)) <= 1
                      /\ Of(diskReads, b) \subseteq Of(pending, b)
    BY DEF OneReadPerPendingBlock
  <2>1. Of(diskReads, b) \subseteq Of(pending, b)
    BY <1>1 DEF MessagesOK, Of
  <2>2. Of(pending, b) # {} => Of(diskReads, b) # {}
    BY <1>1 DEF FillsOK, Of
  <2>3. Of(diskReads, b) = {} \/ \E r : Of(diskReads, b) = {r}
    BY <1>1 DEF FillsOK, Of
  <2>4. Cardinality(Of(diskReads, b)) <= 1
    <3>1. CASE Of(diskReads, b) = {}
      <4>1. Cardinality(Of(diskReads, b)) = 0
        BY <3>1, FS_EmptySet
      <4> QED BY <4>1
    <3>2. ASSUME NEW r, Of(diskReads, b) = {r}
          PROVE  Cardinality(Of(diskReads, b)) <= 1
      <4>1. Cardinality({r}) = 1
        BY FS_Singleton
      <4> QED BY <3>2, <4>1
    <3> QED BY <2>3, <3>1, <3>2
  <2> QED BY <2>1, <2>2, <2>4
<1>4. NoDirtyBlockLost
  BY <1>1 DEF NoDirtyBlockLost, CacheInv
<1>5. DirtyBounded
  <2>1. /\ cache.numDirtyEntries \in Nat /\ cache.numEntries \in Nat
        /\ cache.numEntries <= maxEntries
    BY <1>1, DirtyCardinality
  <2>2. /\ Cardinality(GetDirtyEntries(cache)) <= cache.numDirtyEntries
        /\ cache.numDirtyEntries <= dirtyLimit + 1
        /\ cache.numDirtyEntries <= cache.numEntries
    BY <1>1 DEF CountOK
  <2>3. cache.numDirtyEntries <= maxEntries
    BY <2>1, <2>2, BufferAssumption
  <2> QED BY <2>2, <2>3 DEF DirtyBounded, PercentDirtyAsserts
<1> QED BY <1>2, <1>3, <1>4, <1>5

\* The inductive invariant holds in every reachable state.
LEMMA AlwaysIInv == Spec => []IInv
BY InitIInv, NextIInv, PTL DEF Spec
-----------------------------------------------------------------------------
\* The variables of the buffer cache keep their types, for every set of
\* requests and of blocks, every capacity and every threshold.
THEOREM TypeCorrect == Spec => []TypeOK
BY AlwaysIInv, IInvImplies, PTL

\* No write is lost: a write acknowledged without a disk write stays dirty in
\* the cache until evictCacheEntry or a write-through sends its block.
THEOREM NoWriteLost == Spec => []NoDirtyBlockLost
BY AlwaysIInv, IInvImplies, PTL

\* Concurrent misses are joined: a block with waiting readers has exactly one
\* read at the disk, and its message is one of those that wait.
THEOREM MissesJoined == Spec => []OneReadPerPendingBlock
BY AlwaysIInv, IInvImplies, PTL

\* The dirty counter errs upwards only, the threshold bounds the dirty
\* entries, and the assertions of percentDirty never fail.
THEOREM DirtyCountOneSided == Spec => []DirtyBounded
BY AlwaysIInv, IInvImplies, PTL

\* Every request of the block translator is answered at most once, and only
\* after it was made: each step of the buffer cache is a step of the device
\* service or leaves it alone.
THEOREM AnsweredAtMostOnce == Spec => Device!Init /\ [][Device!Next]_(Device!vars)
<1>1. Init => Device!Init
  BY DEF Init, Device!Init, Asked
<1>2. IInv /\ [Next]_vars => [Device!Next]_(Device!vars)
  BY MessageStep DEF IInv
<1> QED BY AlwaysIInv, <1>1, <1>2, PTL DEF Spec
=============================================================================
