----------------------- MODULE ProgressivePageCacheOps -----------------------
(***************************************************************************)
(* ProgressivePageCache (src/src/client/cache/progressive_page_cache.cc):  *)
(* an LRU cache with one entry for each page: the regions of it the node   *)
(* has, and a dirty bit.  The regions of an entry come from one read or one*)
(* write, so they are all clean or all dirty; a page that is there in full *)
(* has the region set Whole.                                               *)
(***************************************************************************)
EXTENDS Naturals, SequencesExt, FiniteSets

Whole == {"page"}

EmptyPages == [entries |-> << >>, lruList |-> << >>]

CachedPages(m) == DOMAIN m.entries

MoveToFront(m, k) == [m EXCEPT !.lruList = <<k>> \o RemoveFirst(@, k)]

RemovePage(m, k) ==
  [entries |-> [j \in CachedPages(m) \ {k} |-> m.entries[j]],
   lruList |-> RemoveFirst(m.lruList, k)]

LookupPage(m, k) == IF k \in CachedPages(m) THEN MoveToFront(m, k) ELSE m

\* getFilteredEntries with the filter of a file's dirty pages.
DirtyFilePages(m, f) == {k \in CachedPages(m) : k.filename = f /\ m.entries[k].isDirty}

Recollected(m, k) == [key |-> k, regions |-> m.entries[k].regions]

\* The least recent entry goes; its page is returned when it is dirty.
EvictPage(m) ==
  LET k == Last(m.lruList)
  IN  [cache |-> RemovePage(m, k),
       out |-> IF m.entries[k].isDirty THEN <<Recollected(m, k)>> ELSE << >>]

\* Mutant of MergePage: the entry's dirty bit is that of the last insertion.
MergePageBit(m, k, regions, isDirty) == [MoveToFront(m, k) EXCEPT !.entries[k].isDirty = isDirty]

\* The branch of insertPageAndRecall for a cached key.  The local variable page
\* hides the parameter, and the loop inserts the regions of the cached page
\* into themselves: the page is merged with nothing.  (Each insertion frees
\* the iterator's node and makes a new one, which the allocator puts in its
\* place.)
MergePage(m, k, regions, isDirty) ==
  [MoveToFront(m, k) EXCEPT !.entries[k].isDirty = @ \/ isDirty]

AddPage(m, k, regions, isDirty) ==
  [entries |-> [j \in CachedPages(m) \union {k} |->
                 IF j = k THEN [regions |-> regions, isDirty |-> isDirty] ELSE m.entries[j]],
   lruList |-> <<k>> \o m.lruList]

InsertPageAndRecall(m, capacity, k, regions, isDirty) ==
  LET added == IF k \in CachedPages(m) THEN MergePage(m, k, regions, isDirty)
               ELSE AddPage(m, k, regions, isDirty)
  IN  IF Cardinality(CachedPages(added)) > capacity THEN EvictPage(added)
      ELSE [cache |-> added, out |-> << >>]
=============================================================================
