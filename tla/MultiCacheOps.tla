--------------------------- MODULE MultiCacheOps ---------------------------
(***************************************************************************)
(* MultiCache (src/src/client/cache/multi_cache.cc): an LRU cache of pages *)
(* in which a page may have a twin, the regions of it that were written    *)
(* since it was read.                                                      *)
(*                                                                         *)
(* The multimap holds at most two entries of a key: the page, clean or     *)
(* dirty, and beside a clean page the dirty twin.  Here a key has one      *)
(* record with the two; the capacity counts entries, as the code does.     *)
(* An insertion that would leave more entries than the capacity evicts     *)
(* every entry of the least recent key and returns the dirty one.          *)
(***************************************************************************)
EXTENDS Naturals, SequencesExt, FiniteSets

EmptyMulti == [entries |-> << >>, lruList |-> << >>]

Cached(m) == DOMAIN m.entries

\* The page and its twin; a region set that is empty is no twin.
Entry(isDirty, regions) == [isDirty |-> isDirty, twin |-> regions]

\* keyEntryMap_.size(): the pages and the twins.
Size(m) == Cardinality(Cached(m)) + Cardinality({k \in Cached(m) : m.entries[k].twin # {}})

\* The key's node goes to the front of the list.
Touch(m, k) == [m EXCEPT !.lruList = <<k>> \o RemoveFirst(@, k)]

PutEntry(m, k, e) ==
  Touch([m EXCEPT !.entries = [j \in Cached(m) \union {k} |-> IF j = k THEN e ELSE m.entries[j]]], k)

RemoveKey(m, k) ==
  [entries |-> [j \in Cached(m) \ {k} |-> m.entries[j]],
   lruList |-> RemoveFirst(m.lruList, k)]

\* lookup refreshes a cached key and throws NoSuchEntry for another.
LookupKey(m, k) == IF k \in Cached(m) THEN Touch(m, k) ELSE m

IsDirtyKey(m, k) == m.entries[k].isDirty \/ m.entries[k].twin # {}

\* getFilteredEntries with the filter of the dirty pages.
DirtyKeys(m) == {k \in Cached(m) : IsDirtyKey(m, k)}

Evicted(m, k) == [key |-> k, isFull |-> m.entries[k].isDirty, regions |-> m.entries[k].twin]

\* The least recent key goes with both of its entries; the dirty one is
\* returned.
PerformEviction(m) ==
  LET k == Last(m.lruList)
  IN  [cache |-> RemoveKey(m, k), out |-> IF IsDirtyKey(m, k) THEN <<Evicted(m, k)>> ELSE << >>]

\* What an insertion returns: the cache, and the dirty entry it recalled.
Recall(m, capacity) ==
  IF Size(m) > capacity THEN PerformEviction(m) ELSE [cache |-> m, out |-> << >>]

\* insertFullPageAndRecall: a dirty page replaces what there is; a clean one
\* only refreshes it.
InsertFullPage(m, capacity, k, isDirty) ==
  LET base == IF isDirty THEN RemoveKey(m, k) ELSE m
  IN  Recall(IF k \in Cached(base) THEN Touch(base, k) ELSE PutEntry(base, k, Entry(isDirty, {})),
             capacity)

\* insertDirtyPartialPageAndRecall asserts that the page is cached.
CanInsertPartial(m, k) == k \in Cached(m)

InsertPartialPage(m, capacity, k, regions) ==
  LET e == m.entries[k]
  IN  Recall(IF e.isDirty THEN Touch(m, k) ELSE PutEntry(m, k, Entry(FALSE, e.twin \union regions)),
             capacity)
=============================================================================
