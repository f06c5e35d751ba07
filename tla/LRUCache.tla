------------------------------ MODULE LRUCache ------------------------------
(***************************************************************************)
(* One LRUCache object (src/src/common/lru_cache.h) and any sequence of    *)
(* calls to its public methods.  The operators are those of LRUCacheOps;   *)
(* `result' is what the last call handed back.                             *)
(***************************************************************************)
EXTENDS LRUCacheOps, FiniteSets

CONSTANTS
  Keys,        \* KeyType
  Values,      \* ValueType
  maxEntries   \* the constructor's capacity

\* The constructor asserts 0 < maxEntries_; a capacity is a size_t.
ASSUME CapacityAssumption == maxEntries \in Nat /\ 0 < maxEntries /\ maxEntries < SizeMod

VARIABLES
  cache,       \* the object
  result       \* [call, ...]: outcome of the last call

lruVars == <<cache, result>>

NoSuchEntry == [kind |-> "NoSuchEntry"]
Returned    == [kind |-> "returned"]
Recalled(k, e) == [kind |-> "recalled", key |-> k, data |-> e.data, dirty |-> e.dirty]
Found(v)    == [kind |-> "found", data |-> v]
Results == {NoSuchEntry, Returned}
           \union [kind : {"recalled"}, key : Keys, data : Values, dirty : BOOLEAN]
           \union [kind : {"found"}, data : Values]

Entries == [data : Values, dirty : BOOLEAN]
-----------------------------------------------------------------------------
LRUInit ==
  /\ cache = EmptyCache
  /\ result = Returned

insert(k, v, isDirty) ==
  /\ cache' = Insert(cache, maxEntries, k, v, isDirty)
  /\ result' = Returned

insertAndRecall(k, v, isDirty) ==
  /\ cache' = Insert(cache, maxEntries, k, v, isDirty)
  /\ result' = IF InsertEvicts(cache, maxEntries, k)
               THEN Recalled(LRUKey(cache), cache.keyEntryMap[LRUKey(cache)])
               ELSE NoSuchEntry

remove(k) ==
  \/ /\ Exists(cache, k)
     /\ cache' = RemoveEntry(cache, k)
     /\ result' = Returned
  \/ /\ ~Exists(cache, k)
     /\ result' = NoSuchEntry
     /\ UNCHANGED cache

setDirtyBit(k, dirtyValue) ==
  \/ /\ Exists(cache, k)
     /\ cache' = SetDirtyBit(cache, k, dirtyValue)
     /\ result' = Returned
  \/ /\ ~Exists(cache, k)
     /\ result' = NoSuchEntry
     /\ UNCHANGED cache

lookup(k) ==
  \/ /\ Exists(cache, k)
     /\ cache' = Lookup(cache, k)
     /\ result' = Found(cache.keyEntryMap[k].data)
  \/ /\ ~Exists(cache, k)
     /\ result' = NoSuchEntry
     /\ UNCHANGED cache

LRUNext ==
  \/ \E k \in Keys, v \in Values, d \in BOOLEAN :
       insert(k, v, d) \/ insertAndRecall(k, v, d)
  \/ \E k \in Keys : remove(k) \/ lookup(k)
  \/ \E k \in Keys, d \in BOOLEAN : setDirtyBit(k, d)

LRUSpec == LRUInit /\ [][LRUNext]_lruVars

-----------------------------------------------------------------------------
\* Types of the members, and the counters inside their width.
LRUTypeOK ==
  /\ cache = [keyEntryMap     |-> cache.keyEntryMap,
              lruList         |-> cache.lruList,
              numEntries      |-> cache.numEntries,
              numDirtyEntries |-> cache.numDirtyEntries]
  /\ DOMAIN cache.keyEntryMap \subseteq Keys
  /\ cache.keyEntryMap \in [DOMAIN cache.keyEntryMap -> Entries]
  /\ cache.lruList \in Seq(Keys)
  /\ cache.numEntries \in 0 .. SizeMod - 1
  /\ cache.numDirtyEntries \in 0 .. SizeMod - 1
  /\ result \in Results

\* The list, the map and the entry counter, which every method updates
\* separately, describe the same set of keys after any sequence of calls
\* (size() asserts the two equalities of sizes; erase(lruRef) needs more:
\* each key once, at the position its entry refers to), and insertion never
\* exceeds the capacity.
ListMatchesMap ==
  /\ IsInjective(cache.lruList)
  /\ ToSet(cache.lruList) = DOMAIN cache.keyEntryMap
  /\ cache.numEntries = Len(cache.lruList)
  /\ Len(cache.lruList) <= maxEntries

\* The object implements a bounded map with least-recently-used eviction that
\* reports exactly the entry it evicts.
RecencyOf(list) == {<<list[p[1]], list[p[2]]>> :
                      p \in {q \in (DOMAIN list) \X (DOMAIN list) : q[1] < q[2]}}

Abstract == INSTANCE RecencyCache
              WITH content   <- cache.keyEntryMap,
                   usedAfter <- RecencyOf(cache.lruList)

ImplementsRecencyCache == Abstract!Spec
=============================================================================
