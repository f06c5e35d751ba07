------------------------ MODULE TwinCacheSinglePages ------------------------
(***************************************************************************)
(* PagedMiddlewareCacheWithTwinNoBlockIndexed and its shared class         *)
(* (src/src/client/cache/paged_middleware_cache_with_twin_no_block_        *)
(* indexed.cc), a copy of the class of TwinCache that sends one message    *)
(* for each page instead of one with a block indexed view, and whose       *)
(* writes go through other states.  What the copy has unchanged has the     *)
(* definition of TwinCache.                                                *)
(***************************************************************************)
EXTENDS TwinCache

(* The copies of the functions that find a request's pages, update the     *)
(* cache and keep the pending maps.                                        *)

SinglePagesAllKeys(a) == AllKeys(a)

SinglePagesFullKeys(a) == FullKeys(a)

SinglePagesPartialKeys(a) == PartialKeys(a)

SinglePagesLookup(cache, keys) == LookupPages(cache, keys)

SinglePagesDirty(f) == DirtyPages(f)

SinglePagesUpdateRead(update, keys) == UpdateWithReadPages(update, keys)

SinglePagesUpdatePartial(update, a, keys) == UpdatePartial(update, a, keys)

SinglePagesUpdateWrite(update, a, partial) == UpdateWithWritePages(update, a, partial)

SinglePagesFlush(f) == FlushCache(f)

SinglePagesRegister(p, r, reads) == RegisterPendingPages(p, r, reads)

SinglePagesRegisterWrites(p, r, out) == RegisterPendingWrites(p, r, out)

SinglePagesResolveReads(p, keys) == ResolveReads(p, keys)

SinglePagesResolveWrites(p, keys) == ResolveWrites(p, keys)

SinglePagesResolvePartial(p, r) == ResolvePartialWrite(p, r)

SinglePagesTrim(pages, keys) == TrimPending(pages, keys)

SinglePagesHasPending(pages, f) == HasPendingPages(pages, f)

SinglePagesPopCompleted(p, asks) ==
  {r \in DOMAIN p.pages :
     /\ p.pages[r] = [readPages |-> {}, writePages |-> {}]
     /\ r \in DOMAIN p.partial => p.partial[r] = 0
     /\ asks[r].kind = "close" => ~SinglePagesHasPending(p.pages, asks[r].access.file)}

SinglePagesComplete(c, p, asks) ==
  \E done \in {SinglePagesPopCompleted(p, asks)} :
    /\ pendingPages' = [pendingPages EXCEPT ![c] = Without(p.pages, done)]
    /\ pendingPartialPages' = [pendingPartialPages EXCEPT ![c] = Without(p.partial, done)]
    /\ live' = Without(asks, done)
-----------------------------------------------------------------------------
(* Requests of the application.                                            *)

\* SharedPagedMiddlewareCacheWithTwinNoBlockIndexed.
SinglePagesShared == SharedResources(EmptyMulti)

SinglePagesOpen(c, f) == Open(c, f)

SinglePagesFakeOpen(c, f) == FakeOpen(c, f)

SinglePagesClose(c, f) ==
  /\ Issue(c)
  /\ CanClose(c, f)
  /\ openFileCounts' = [openFileCounts EXCEPT ![f] = @ - 1]
  /\ isOpen' = [isOpen EXCEPT ![c] = @ \ {f}]
  /\ LET last == openFileCounts'[f] = 0
         out  == IF last THEN SinglePagesDirty(f) ELSE << >>
     IN  /\ fs' = IF last THEN fs (+) SinglePagesWritebacks(c, out, Id)
                  ELSE BagAdd(fs, ToFs(c, "close", {}, {}, Id))
         /\ lruCache' = IF last THEN SinglePagesFlush(f) ELSE lruCache
         /\ SinglePagesComplete(c, IF last THEN SinglePagesRegisterWrites(Pending(c), Id, out)
                                    ELSE Pending(c),
                                 Asked(c, "close", OnFile(f)))
  /\ UNCHANGED <<pendingReadCount, uncached, failed>>

SinglePagesRead(c, a) ==
  /\ Issue(c)
  /\ a.file \in isOpen[c]
  /\ LET wanted == SinglePagesAllKeys(a) \ Cached(lruCache)
         trimmed == SinglePagesTrim(pendingPages[c], wanted)
     IN  IF trimmed = {} THEN Fail("beginRead") ELSE
         /\ lruCache' = SinglePagesLookup(lruCache, SinglePagesAllKeys(a))
         /\ fs' = fs (+) SinglePagesReads(c, trimmed, Id)
         /\ SinglePagesComplete(c, SinglePagesRegister(Pending(c), Id, wanted), Asked(c, "read", a))
         /\ UNCHANGED <<openFileCounts, pendingReadCount, uncached, isOpen, failed>>

SinglePagesBypass(c, a) == WriteBypass(c, a)

\* State BEGIN_WRITEBACK of processFileWrite: only the full pages are
\* written, because every partial page has been.
BeginWriteback(c, r, u, p, asks, rest) ==
  LET a == asks[r].access
  IN  WriteStep(c, r, SinglePagesUpdateWrite(u, a, {}),
                SinglePagesResolveReads(p, SinglePagesFullKeys(a)), asks, {},
                rest)

\* States INIT and UPDATE_CACHED_PAGES, which asserts that writing the cached
\* partial pages recalls nothing, then BEGIN_PARTIAL_PAGE_READ or
\* BEGIN_WRITEBACK.
SinglePagesWrite(c, a) ==
  /\ Issue(c)
  /\ a.file \in isOpen[c]
  /\ Cardinality(SinglePagesAllKeys(a)) <= pageCapacity
  /\ LET partial == SinglePagesPartialKeys(a)
         found == partial \intersect Cached(lruCache)
         missing == partial \ found
         first == SinglePagesUpdatePartial(Update(SinglePagesLookup(lruCache, partial)), a, found)
         asks == Asked(c, "write", a)
     IN  CASE ~first.ok -> Fail("insertDirtyPartialPage")
           [] first.ok /\ first.out # << >> -> Fail("writebackPages")
           [] first.ok /\ first.out = << >> /\ missing = {} ->
                /\ BeginWriteback(c, Id, first, WriteRegistered(c, {}), asks, fs)
                /\ UNCHANGED pendingReadCount
           [] OTHER ->
                /\ lruCache' = first.cache
                /\ fs' = fs (+) SinglePagesReads(c, missing, Id)
                /\ pendingReadCount' = With(pendingReadCount, Id, [state |-> "BEGIN_PARTIAL_PAGE_READ",
                                                                 reads |-> Cardinality(missing)])
                /\ SinglePagesComplete(c, WriteRegistered(c, missing), asks)
                /\ uncached' = With(uncached, Id, SinglePagesAllKeys(a) \ found)
                /\ UNCHANGED <<openFileCounts, isOpen, failed>>

\* The first answer leaves pendingReadCount_ as it is; the others lower it.
ReadsToCome(r) ==
  IF pendingReadCount[r].state = "BEGIN_PARTIAL_PAGE_READ" THEN pendingReadCount[r].reads
  ELSE pendingReadCount[r].reads - 1

\* An answer to one of the page reads of a write: the last one goes to
\* BEGIN_WRITEBACK, the others to UPDATE_CACHE.
SinglePagesReadDone(m) ==
  /\ IsAnswerTo(m, "read", "write")
  /\ LET r == m.parent
         p == SinglePagesResolveReads(Pending(m.cache), m.keys)
     IN
     \E u \in {SinglePagesUpdatePartial(SinglePagesUpdateRead(Update(lruCache), m.keys),
                                        live[r].access, m.keys)} :
         IF ReadsToCome(r) = 1
         THEN /\ IF u.ok THEN BeginWriteback(m.cache, r, u, p, live, BagRemove(fs, m))
                 ELSE Fail("insertDirtyPartialPage") /\ UNCHANGED class
              /\ pendingReadCount' = Without(pendingReadCount, {r})
         ELSE /\ WriteStep(m.cache, r, u, p, live, uncached[r] \ m.keys, BagRemove(fs, m))
              /\ pendingReadCount' = [pendingReadCount EXCEPT
                                        ![r] = [state |-> "UPDATE_CACHE", reads |-> ReadsToCome(r)]]
  /\ UNCHANGED issued

SinglePagesReadRequestDone(m) ==
  /\ IsAnswerTo(m, "read", "read")
  /\ \E u \in {SinglePagesUpdateRead(Update(lruCache), m.keys)} :
       /\ lruCache' = u.cache
       /\ fs' = BagRemove(fs, m) (+) SinglePagesWritebacks(m.cache, u.out, m.parent)
       /\ SinglePagesComplete(m.cache,
            SinglePagesRegisterWrites(SinglePagesResolveReads(Pending(m.cache), m.keys), m.parent, u.out),
            live)
  /\ UNCHANGED <<class, openFileCounts, pendingReadCount, uncached, issued, isOpen, failed>>

SinglePagesWrittenBack(m) ==
  /\ m.kind \in {"partial", "write"} /\ m.parent \in DOMAIN live
  /\ fs' = BagRemove(fs, m)
  /\ SinglePagesComplete(m.cache,
       IF m.kind = "partial" THEN SinglePagesResolvePartial(Pending(m.cache), m.parent)
       ELSE SinglePagesResolveWrites(Pending(m.cache), m.keys), live)
  /\ UNCHANGED <<class, lruCache, openFileCounts, pendingReadCount, uncached, issued, isOpen, failed>>

SinglePagesForward(m) == Forward(m)
-----------------------------------------------------------------------------
BlockIndexed(c, f) ==
  \/ Open(c, f) \/ FakeOpen(c, f) \/ Close(c, f)
  \/ \E a \in AccessesOf(f) :
       Read(c, a) \/ WriteBypass(c, a) \/ BlockIndexedWrite(c, a)

SinglePages(c, f) ==
  \/ SinglePagesOpen(c, f) \/ SinglePagesFakeOpen(c, f) \/ SinglePagesClose(c, f)
  \/ \E a \in AccessesOf(f) :
       SinglePagesRead(c, a) \/ SinglePagesBypass(c, a) \/ SinglePagesWrite(c, a)

BlockIndexedAnswer(m) ==
  Forward(m) \/ ReadDone(m) \/ BlockIndexedReadDone(m) \/ WrittenBack(m)

SinglePagesAnswer(m) ==
  SinglePagesForward(m) \/ SinglePagesReadRequestDone(m) \/ SinglePagesReadDone(m) \/ SinglePagesWrittenBack(m)

TwinRequest(c, f) ==
  \/ class = "blockIndexed" /\ BlockIndexed(c, f)
  \/ class = "singlePages" /\ SinglePages(c, f)

TwinAnswer(m) ==
  \/ class = "blockIndexed" /\ BlockIndexedAnswer(m)
  \/ class = "singlePages" /\ SinglePagesAnswer(m)
  \/ DanglingContext(m)
=============================================================================
