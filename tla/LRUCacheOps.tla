---------------------------- MODULE LRUCacheOps ----------------------------
(***************************************************************************)
(* LRUCache<KeyType,ValueType> (src/src/common/lru_cache.h) as a value: a  *)
(* record of the class's four data members, and one operator per method.   *)
(* An operator gives the object after the call; the calls that throw       *)
(* NoSuchEntry leave the object alone and are told apart by Exists.        *)
(*                                                                         *)
(*   keyEntryMap   the std::map of entries: data and dirty bit.  The       *)
(*                 entry's list iterator lruRef is the position of its key *)
(*                 in lruList (RefOf)                                      *)
(*   lruList       the std::list of keys, most recently used first         *)
(*   numEntries, numDirtyEntries   the std::size_t counters                *)
(***************************************************************************)
EXTENDS Integers, SequencesExt

\* 2^w for the width w of std::size_t: the counters wrap around at it.  Any
\* SizeMod above every capacity in use shows the same wrap-around at zero.
CONSTANT SizeMod
ASSUME SizeModAssumption == SizeMod \in Nat /\ 1 < SizeMod

EmptyCache == [keyEntryMap     |-> [k \in {} |-> k],
               lruList         |-> << >>,
               numEntries      |-> 0,
               numDirtyEntries |-> 0]

Exists(c, k) == k \in DOMAIN c.keyEntryMap

GetDirtyBit(c, k) == c.keyEntryMap[k].dirty

\* The iterator an entry keeps into the list.
RefOf(list, k) == CHOOSE i \in DOMAIN list : list[i] = k

EraseRef(list, k) == RemoveAt(list, RefOf(list, k))

PushFront(list, k) == <<k>> \o list

\* Mutant of Refresh: the old list node is not erased.
RefreshKeepsOld(list, k) == PushFront(list, k)

\* erase(lruRef), push_front(key), lruRef = begin().
Refresh(list, k) == PushFront(EraseRef(list, k), k)

\* Mutant of LRUKey: the front of the list instead of its back.
LRUKeyFront(c) == c.lruList[1]

\* The key at rbegin(): the next one to go.
LRUKey(c) == Last(c.lruList)

GetLRU(c) == [key |-> LRUKey(c), data |-> c.keyEntryMap[LRUKey(c)].data]

GetDirtyEntries(c) == {k \in DOMAIN c.keyEntryMap : c.keyEntryMap[k].dirty}

IsFull(c, capacity) == c.numEntries = capacity

RemoveEntry(c, k) ==
  [keyEntryMap     |-> [j \in DOMAIN c.keyEntryMap \ {k} |-> c.keyEntryMap[j]],
   lruList         |-> EraseRef(c.lruList, k),
   numEntries      |-> (c.numEntries - 1) % SizeMod,
   numDirtyEntries |-> IF GetDirtyBit(c, k) THEN (c.numDirtyEntries - 1) % SizeMod
                                            ELSE c.numDirtyEntries]

\* The entry exists: data, dirty bit and recency are replaced.  The counter
\* is raised for a clean entry made dirty; nothing lowers it for a dirty
\* entry made clean.
UpdateEntry(c, k, v, isDirty) ==
  [keyEntryMap     |-> [c.keyEntryMap EXCEPT ![k] = [data |-> v, dirty |-> isDirty]],
   lruList         |-> Refresh(c.lruList, k),
   numEntries      |-> c.numEntries,
   numDirtyEntries |-> IF isDirty /\ ~GetDirtyBit(c, k)
                       THEN (c.numDirtyEntries + 1) % SizeMod ELSE c.numDirtyEntries]

AddEntry(c, k, v, isDirty) ==
  [keyEntryMap     |-> [j \in DOMAIN c.keyEntryMap \union {k} |->
                          IF j = k THEN [data |-> v, dirty |-> isDirty]
                                   ELSE c.keyEntryMap[j]],
   lruList         |-> PushFront(c.lruList, k),
   numEntries      |-> (c.numEntries + 1) % SizeMod,
   numDirtyEntries |-> IF isDirty THEN (c.numDirtyEntries + 1) % SizeMod ELSE c.numDirtyEntries]

\* A new key into a full cache first removes the least recently used one.
MakeRoom(c, capacity) == IF IsFull(c, capacity) THEN RemoveEntry(c, LRUKey(c)) ELSE c

Insert(c, capacity, k, v, isDirty) ==
  IF Exists(c, k) THEN UpdateEntry(c, k, v, isDirty)
                  ELSE AddEntry(MakeRoom(c, capacity), k, v, isDirty)

\* insertAndRecall changes the cache as insert does; it also hands back the
\* evicted entry, or throws NoSuchEntry when there was none.
InsertEvicts(c, capacity, k) == ~Exists(c, k) /\ IsFull(c, capacity)

Lookup(c, k) == [c EXCEPT !.lruList = Refresh(c.lruList, k)]

SetDirtyBit(c, k, dirtyValue) == [c EXCEPT !.keyEntryMap[k].dirty = dirtyValue]

\* The two assertions percentDirty makes before it divides.
PercentDirtyAsserts(c, capacity) ==
  /\ c.numDirtyEntries <= capacity
  /\ c.numDirtyEntries <= c.numEntries
=============================================================================
