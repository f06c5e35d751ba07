-------------------------- MODULE ProgressiveCache --------------------------
(***************************************************************************)
(* ProgressivePagedMiddlewareCache and its shared class (src/src/client/   *)
(* cache/progressive_paged_middleware_cache.cc): a write puts its regions  *)
(* into the cache without reading the page first, and is answered at once. *)
(*                                                                         *)
(* Here the shared class overrides the functions that are called, so the   *)
(* modules of a node share the map of pending requests too.  The messages  *)
(* that write evicted pages have no parent request and are registered under*)
(* request 0, an entry that is never removed.                              *)
(***************************************************************************)
EXTENDS PageCacheNode, ProgressivePageCacheOps

VARIABLE pendingRequests   \* request, or 0 -> its pages to read and its bag
                           \* of write messages

ProgressiveInit == pendingRequests = << >>

\* The regions of a page that the access writes.
WrittenRegions(a, k) == IF k.key \in a.full THEN Whole ELSE a.part[k.key]

UpdateStep(u, step) == [cache |-> step.cache, out |-> u.out \o step.out]

\* updateCache with pages that were read, and with the pages of a write.
UpdateWithReads(keys) ==
  FoldLeft(LAMBDA u, k : UpdateStep(u, InsertPageAndRecall(u.cache, pageCapacity, k, Whole, FALSE)),
           [cache |-> lruCache, out |-> << >>], InOrder(keys))

UpdateWithWrites(a) ==
  FoldLeft(LAMBDA u, k : UpdateStep(u, InsertPageAndRecall(u.cache, pageCapacity, k, WrittenRegions(a, k), TRUE)),
           [cache |-> lruCache, out |-> << >>], InOrder(AllKeys(a)))

\* lookupPagesInCache: a page that is there in part counts as missing, but its
\* entry is refreshed as well.
MissingPages(keys) ==
  {k \in keys : k \notin CachedPages(lruCache) \/ lruCache.entries[k].regions # Whole}

RefreshPages(keys) == FoldLeft(LookupPage, lruCache, InOrder(keys))

DirtyFileEntries(f) ==
  LET keys == InOrder(DirtyFilePages(lruCache, f))
  IN  [i \in DOMAIN keys |-> Recollected(lruCache, keys[i])]

FlushPages(f) ==
  FoldLeft(RemovePage, lruCache, InOrder({k \in CachedPages(lruCache) : k.filename = f}))
-----------------------------------------------------------------------------
(* Messages.                                                               *)

\* groupPagesByFilename and createPFSWriteRequests: for each file one message
\* with the full pages and one with the regions of the others.
GroupPages(out, f, isFull) ==
  {out[i] : i \in {j \in DOMAIN out : out[j].key.filename = f /\ (out[j].regions = Whole) = isFull}}

\* What a message writes in full.  The count of full pages is their length; the
\* view of the others has all of their regions, but the count is 1, a byte.
RegionsWritten(pages) == {e.key : e \in {x \in pages : x.regions = Whole}} \X Whole

WriteRequests(c, out, parent) ==
  LET groups == {GroupPages(out, f, isFull) :
                   f \in {out[i].key.filename : i \in DOMAIN out}, isFull \in BOOLEAN} \ {{}}
  IN  SetToBag({ToFs(c, "write", {e.key : e \in pages}, RegionsWritten(pages), parent) : pages \in groups})

\* groupPagesByFilename and createPFSReadRequests of the block indexed
\* messages: one for the pages of each file.
PagesByName(keys) == {{k \in keys : k.filename = f} : f \in {k.filename : k \in keys}}

PFSReadRequests(c, keys, parent) ==
  SetToBag({ToFs(c, "read", pages, {}, parent) : pages \in PagesByName(keys)})

ReadRequests(c, keys, parent) == PFSReadRequests(c, keys, parent)
-----------------------------------------------------------------------------
(* The pending map.                                                        *)

PendingData(p, r) == IF r \in DOMAIN p THEN p[r] ELSE [readPages |-> {}, writeRequests |-> EmptyBag]

RegisterReadPages(p, r, keys) == With(p, r, [PendingData(p, r) EXCEPT !.readPages = @ \union keys])

\* Mutant of RegisterWriteRequests: what is not for a request is not registered.
RegisterWriteRequestsOwn(p, r, writes) ==
  IF r = 0 THEN p ELSE With(p, r, [PendingData(p, r) EXCEPT !.writeRequests = @ (+) writes])

RegisterWriteRequests(p, r, writes) ==
  With(p, r, [PendingData(p, r) EXCEPT !.writeRequests = @ (+) writes])

ResolvePages(p, keys) == [r \in DOMAIN p |-> [p[r] EXCEPT !.readPages = @ \ keys]]

\* The message is in the entry of the request it was sent for.
ResolveRequest(p, m) == [p EXCEPT ![m.parent].writeRequests = BagRemove(@, m)]

\* A page goes only when every entry, that of request 0 too, waits to read it.
TrimPendingReads(p, keys) ==
  IF p = << >> THEN keys ELSE UNION {keys \ p[r].readPages : r \in DOMAIN p}

HasPendingData(p, f) ==
  \E r \in DOMAIN p :
    \E k \in p[r].readPages \union UNION {m.keys : m \in BagToSet(p[r].writeRequests)} : k.filename = f

CompletedRequests(p, asks) ==
  {r \in DOMAIN p \ {0} :
     /\ p[r] = [readPages |-> {}, writeRequests |-> EmptyBag]
     /\ asks[r].kind = "close" => ~HasPendingData(p, asks[r].access.file)}

CompletePending(p, asks) ==
  \E done \in {CompletedRequests(p, asks)} :
    /\ pendingRequests' = Without(p, done)
    /\ live' = Without(asks, done)
-----------------------------------------------------------------------------
(* Requests of the application.                                            *)

ProgressiveOpen(c, f) ==
  /\ Issue(c)
  /\ CanOpen(c, f)
  /\ openFileCounts' = [openFileCounts EXCEPT ![f] = @ + 1]
  /\ fs' = BagAdd(fs, ToFs(c, "open", {}, {}, Id))
  /\ CompletePending(pendingRequests, Asked(c, "open", OnFile(f)))
  /\ UNCHANGED <<lruCache, isOpen, failed>>

ProgressiveFakeOpen(c, f) ==
  /\ CanFakeOpen(c, f)
  /\ openFileCounts' = [openFileCounts EXCEPT ![f] = @ + 1]
  /\ isOpen' = [isOpen EXCEPT ![c] = @ \union {f}]
  /\ UNCHANGED <<class, lruCache, pendingRequests, fs, live, issued, failed>>

\* The last close writes the dirty pages and waits for all that is pending for
\* the file; another one goes on to the file system.
ProgressiveClose(c, f) ==
  /\ Issue(c)
  /\ CanClose(c, f)
  /\ openFileCounts' = [openFileCounts EXCEPT ![f] = @ - 1]
  /\ isOpen' = [isOpen EXCEPT ![c] = @ \ {f}]
  /\ IF openFileCounts'[f] = 0
     THEN \E writes \in {WriteRequests(c, DirtyFileEntries(f), Id)} :
            /\ fs' = fs (+) writes
            /\ lruCache' = FlushPages(f)
            /\ CompletePending(RegisterWriteRequests(pendingRequests, Id, writes),
                               Asked(c, "close", OnFile(f)))
     ELSE /\ fs' = BagAdd(fs, ToFs(c, "close", {}, {}, Id))
          /\ CompletePending(pendingRequests, Asked(c, "close", OnFile(f)))
          /\ UNCHANGED lruCache
  /\ UNCHANGED failed

ProgressiveFail(why) ==
  /\ failed' = why
  /\ UNCHANGED <<lruCache, openFileCounts, pendingRequests, fs, live, isOpen>>

\* beginRead asserts that there is a page to read.
ProgressiveRead(c, a) ==
  /\ Issue(c)
  /\ a.file \in isOpen[c]
  /\ LET wanted == MissingPages(AllKeys(a))
         trimmed == TrimPendingReads(pendingRequests, wanted)
     IN  IF trimmed = {} THEN ProgressiveFail("beginRead") ELSE
         /\ lruCache' = RefreshPages(AllKeys(a))
         /\ fs' = fs (+) ReadRequests(c, trimmed, Id)
         /\ CompletePending(RegisterReadPages(pendingRequests, Id, wanted), Asked(c, "read", a))
         /\ UNCHANGED <<openFileCounts, isOpen, failed>>

\* States BEGIN_ and COMPLETE_CACHE_BYPASS_WRITE of processFileWrite.
ProgressiveBypass(c, a) ==
  /\ Issue(c)
  /\ a.file \in isOpen[c]
  /\ Cardinality(AllKeys(a)) > pageCapacity
  /\ fs' = BagAdd(fs, ToFs(c, "bypass", AllKeys(a), {}, Id))
  /\ CompletePending(pendingRequests, Asked(c, "write", a))
  /\ UNCHANGED <<lruCache, openFileCounts, isOpen, failed>>

\* Registers the empty set of pages for the write, then state UPDATE_CACHE;
\* what the write pushes out is written for request 0.
ProgressiveWrite(c, a) ==
  /\ Issue(c)
  /\ a.file \in isOpen[c]
  /\ Cardinality(AllKeys(a)) <= pageCapacity
  /\ \E u \in {UpdateWithWrites(a)} : \E writes \in {WriteRequests(c, u.out, 0)} :
       LET p == RegisterReadPages(pendingRequests, Id, {})
       IN  /\ lruCache' = u.cache
           /\ fs' = fs (+) writes
           /\ CompletePending(IF u.out = << >> THEN p ELSE RegisterWriteRequests(p, 0, writes),
                              Asked(c, "write", a))
  /\ UNCHANGED <<openFileCounts, isOpen, failed>>
-----------------------------------------------------------------------------
(* Answers of the file system.                                             *)

ProgressiveForward(m) ==
  /\ PassedOn(m)
  /\ UNCHANGED <<class, lruCache, openFileCounts, pendingRequests, issued, failed>>

\* The pages are resolved for every request, then inserted.
ProgressiveReadDone(m) ==
  /\ IsAnswerTo(m, "read", "read")
  /\ \E u \in {UpdateWithReads(m.keys)} : \E writes \in {WriteRequests(m.cache, u.out, 0)} :
       LET p == ResolvePages(pendingRequests, m.keys)
       IN  /\ lruCache' = u.cache
           /\ fs' = BagRemove(fs, m) (+) writes
           /\ CompletePending(IF u.out = << >> THEN p ELSE RegisterWriteRequests(p, 0, writes), live)
  /\ UNCHANGED <<class, openFileCounts, issued, isOpen, failed>>

\* processRequest without a request, and processFileClose of an answer.
ProgressiveWrittenBack(m) ==
  /\ m.kind = "write" /\ m.parent \in DOMAIN live \union {0}
  /\ fs' = BagRemove(fs, m)
  /\ CompletePending(ResolveRequest(pendingRequests, m), live)
  /\ UNCHANGED <<class, lruCache, openFileCounts, issued, isOpen, failed>>

ProgressiveDangling(m) ==
  /\ m.parent \notin DOMAIN live \union {0}
  /\ ProgressiveFail("deleted")
  /\ UNCHANGED <<class, issued>>

ProgressiveRequest(c, f) ==
  \/ ProgressiveOpen(c, f) \/ ProgressiveFakeOpen(c, f) \/ ProgressiveClose(c, f)
  \/ \E a \in AccessesOf(f) :
       ProgressiveRead(c, a) \/ ProgressiveBypass(c, a) \/ ProgressiveWrite(c, a)

ProgressiveAnswer(m) ==
  \/ ProgressiveForward(m) \/ ProgressiveReadDone(m)
  \/ ProgressiveWrittenBack(m) \/ ProgressiveDangling(m)
=============================================================================
