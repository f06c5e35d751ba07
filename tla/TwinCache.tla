------------------------------ MODULE TwinCache ------------------------------
(***************************************************************************)
(* PagedMiddlewareCacheWithTwin and its shared class (src/src/client/cache/*)
(* paged_middleware_cache_with_twin.cc): the page cache that keeps, beside *)
(* a clean page, a twin with the regions written to it.                    *)
(*                                                                         *)
(* Each module has pending maps of its own: the shared class overrides     *)
(* createPendingRequestMap, which nobody calls.                            *)
(*                                                                         *)
(* The module is written for that class and for its copy, the class        *)
(* without block indexed views, which sends a message for each page;       *)
(* TwinCacheSinglePages has what is different in the copy.                 *)
(***************************************************************************)
EXTENDS MultiCacheOps, PageCacheNode

VARIABLES
  pendingPages,        \* module -> (request -> pages it waits for)
  pendingPartialPages, \* module -> (request -> regions it waits to see written)
  pendingReadCount,    \* write -> its state and page reads (the other class)
  uncached             \* write -> its pages that have not reached the cache

pend == <<pendingPages, pendingPartialPages>>
twinVars == <<pend, pendingReadCount, uncached>>

TwinInit ==
  /\ pendingPages = [c \in Caches |-> << >>]
  /\ pendingPartialPages = [c \in Caches |-> << >>]
  /\ pendingReadCount = << >>
  /\ uncached = << >>
-----------------------------------------------------------------------------
(* The cache.  An update of it is a record of the cache, the dirty entries *)
(* it recalled, and whether the assertions held so far.                    *)

Update(cache) == [cache |-> cache, out |-> << >>, ok |-> TRUE]

Recalled(u, step) == [u EXCEPT !.cache = step.cache, !.out = @ \o step.out]

\* lookupPagesInCache refreshes the keys it finds and returns them.
LookupPages(cache, keys) == FoldLeft(LookupKey, cache, InOrder(keys))

\* updateCacheWithReadPages inserts clean pages, beside twins too.
UpdateWithReadPages(update, keys) ==
  FoldLeft(LAMBDA u, k : Recalled(u, InsertFullPage(u.cache, pageCapacity, k, FALSE)),
           update, InOrder(keys))

\* updateCacheWithReadPageUpdates writes the access's regions of these pages.
UpdatePartial(update, a, keys) ==
  FoldLeft(LAMBDA u, k :
             IF ~u.ok \/ ~CanInsertPartial(u.cache, k) THEN [u EXCEPT !.ok = FALSE]
             ELSE Recalled(u, InsertPartialPage(u.cache, pageCapacity, k, a.part[k.key])),
           update, InOrder(keys))

\* updateCacheWithWritePages: the full pages, then these partial ones.
UpdateWithWritePages(update, a, partial) ==
  UpdatePartial(FoldLeft(LAMBDA u, k : Recalled(u, InsertFullPage(u.cache, pageCapacity, k, TRUE)),
                         update, InOrder(FullKeys(a))), a, partial)

\* lookupDirtyPagesInCache copies the dirty entries of a file.
DirtyPages(f) ==
  LET keys == InOrder({k \in DirtyKeys(lruCache) : k.filename = f})
  IN  [i \in DOMAIN keys |-> Evicted(lruCache, keys[i])]

FlushCache(f) ==
  FoldLeft(RemoveKey, lruCache, InOrder({k \in Cached(lruCache) : k.filename = f}))
-----------------------------------------------------------------------------
(* The pending maps of one module, [pages, partial].                       *)

Pending(c) == [pages |-> pendingPages[c], partial |-> pendingPartialPages[c]]

Registered(pages, r) == IF r \in DOMAIN pages THEN pages[r] ELSE [readPages |-> {}, writePages |-> {}]

RegisterPendingPages(p, r, reads) ==
  [p EXCEPT !.pages = With(p.pages, r, [Registered(p.pages, r) EXCEPT !.readPages = @ \union reads])]

FullOf(out) == {out[i].key : i \in {j \in DOMAIN out : out[j].isFull}}

\* The regions to write of an entry that is not a full page.
TwinOf(e) == IF e.isFull THEN {} ELSE e.regions

\* Mutant of RegisterPendingWrites: a twin is counted as one write.
RegisterPendingWritesByPage(p, r, out) ==
  [pages |-> With(p.pages, r, [Registered(p.pages, r) EXCEPT !.writePages = @ \union FullOf(out)]),
   partial |-> With(p.partial, r, (IF r \in DOMAIN p.partial THEN p.partial[r] ELSE 0)
                                   + Cardinality({i \in DOMAIN out : ~out[i].isFull}))]

\* registerPendingWritePages: the full pages by key, the twins by the number
\* of their regions.
RegisterPendingWrites(p, r, out) ==
  [pages |-> With(p.pages, r, [Registered(p.pages, r) EXCEPT !.writePages = @ \union FullOf(out)]),
   partial |-> With(p.partial, r, FoldLeft(LAMBDA n, e : n + Cardinality(TwinOf(e)),
                                            IF r \in DOMAIN p.partial THEN p.partial[r] ELSE 0, out))]

ResolveReads(p, keys) ==
  [p EXCEPT !.pages = [r \in DOMAIN p.pages |-> [p.pages[r] EXCEPT !.readPages = @ \ keys]]]

\* Mutant of ResolveWrites: the page is removed from no entry.
ResolveWritesNot(p, keys) == p

ResolveWrites(p, keys) ==
  [p EXCEPT !.pages = [r \in DOMAIN p.pages |-> [p.pages[r] EXCEPT !.writePages = @ \ keys]]]

ResolvePartialWrite(p, r) == [p EXCEPT !.partial[r] = @ - 1]

\* trimPendingReadPages: a page goes only when every entry waits to read it.
TrimPending(pages, keys) ==
  IF pages = << >> THEN keys ELSE UNION {keys \ pages[r].readPages : r \in DOMAIN pages}

\* hasPendingPages does not look at the regions.
HasPendingPages(pages, f) ==
  \E r \in DOMAIN pages : \E k \in pages[r].readPages \union pages[r].writePages : k.filename = f

\* popCompletedRequests, given what the requests ask.
PopCompleted(p, asks) ==
  {r \in DOMAIN p.pages :
     /\ p.pages[r] = [readPages |-> {}, writePages |-> {}]
     /\ r \in DOMAIN p.partial => p.partial[r] = 0
     /\ asks[r].kind = "close" => ~HasPendingPages(p.pages, asks[r].access.file)}

\* completeRequests ends the handling of every message.
CompleteRequests(c, p, asks) ==
  \E done \in {PopCompleted(p, asks)} :
    /\ pendingPages' = [pendingPages EXCEPT ![c] = Without(p.pages, done)]
    /\ pendingPartialPages' = [pendingPartialPages EXCEPT ![c] = Without(p.partial, done)]
    /\ live' = Without(asks, done)
-----------------------------------------------------------------------------
(* Messages to the file system.                                            *)

\* One write for each region of the twins among the recalled entries.
PartialWritebacks(c, out, parent) ==
  FoldLeft(LAMBDA b, e : b (+) SetToBag({ToFs(c, "partial", {e.key}, {g}, parent) : g \in TwinOf(e)}),
           EmptyBag, out)

\* beginWritebackEvictions: besides, one write of the full pages of each file.
BlockIndexedWritebacks(c, out, parent) ==
  PartialWritebacks(c, out, parent) (+)
  SetToBag({ToFs(c, "write", {k \in FullOf(out) : k.filename = f}, {}, parent) :
              f \in {k.filename : k \in FullOf(out)}})

\* The other class: one write for each full page.
SinglePagesWritebacks(c, out, parent) ==
  PartialWritebacks(c, out, parent) (+)
  SetToBag({ToFs(c, "write", {k}, {}, parent) : k \in FullOf(out)})

Writebacks(c, out, parent) ==
  IF class = "blockIndexed" THEN BlockIndexedWritebacks(c, out, parent)
  ELSE SinglePagesWritebacks(c, out, parent)

\* beginRead of one message for the pages, or one for each.
BlockIndexedReads(c, keys, parent) == SetToBag({ToFs(c, "read", keys, {}, parent)})

SinglePagesReads(c, keys, parent) == SetToBag({ToFs(c, "read", {k}, {}, parent) : k \in keys})
-----------------------------------------------------------------------------
(* Requests of the application.                                            *)

Open(c, f) ==
  /\ Issue(c)
  /\ CanOpen(c, f)
  /\ openFileCounts' = [openFileCounts EXCEPT ![f] = @ + 1]
  /\ fs' = BagAdd(fs, ToFs(c, "open", {}, {}, Id))
  /\ CompleteRequests(c, Pending(c), Asked(c, "open", OnFile(f)))
  /\ UNCHANGED <<lruCache, pendingReadCount, uncached, isOpen, failed>>

\* performFakeOpen: every rank but the first of a collective open.
FakeOpen(c, f) ==
  /\ CanFakeOpen(c, f)
  /\ openFileCounts' = [openFileCounts EXCEPT ![f] = @ + 1]
  /\ isOpen' = [isOpen EXCEPT ![c] = @ \union {f}]
  /\ UNCHANGED <<class, lruCache, pend, pendingReadCount, fs, live, uncached, issued, failed>>

\* processFileClose: the last close writes the dirty pages and empties the
\* cache of the file; another one goes on to the file system.
Close(c, f) ==
  /\ Issue(c)
  /\ CanClose(c, f)
  /\ openFileCounts' = [openFileCounts EXCEPT ![f] = @ - 1]
  /\ isOpen' = [isOpen EXCEPT ![c] = @ \ {f}]
  /\ IF openFileCounts'[f] = 0
     THEN /\ fs' = fs (+) BlockIndexedWritebacks(c, DirtyPages(f), Id)
          /\ lruCache' = FlushCache(f)
          /\ CompleteRequests(c, RegisterPendingWrites(Pending(c), Id, DirtyPages(f)),
                              Asked(c, "close", OnFile(f)))
     ELSE /\ fs' = BagAdd(fs, ToFs(c, "close", {}, {}, Id))
          /\ CompleteRequests(c, Pending(c), Asked(c, "close", OnFile(f)))
          /\ UNCHANGED lruCache
  /\ UNCHANGED <<pendingReadCount, uncached, failed>>

\* The program stops at an assertion, or reads a deleted request.
Fail(why) ==
  /\ failed' = why
  /\ UNCHANGED <<lruCache, openFileCounts, pend, pendingReadCount, fs, live, uncached, isOpen>>

\* processFileRead of a request.  beginRead asserts that there is a page to read.
Read(c, a) ==
  /\ Issue(c)
  /\ a.file \in isOpen[c]
  /\ LET wanted == AllKeys(a) \ Cached(lruCache)
         trimmed == TrimPending(pendingPages[c], wanted)
     IN  IF trimmed = {} THEN Fail("beginRead") ELSE
         /\ lruCache' = LookupPages(lruCache, AllKeys(a))
         /\ fs' = fs (+) BlockIndexedReads(c, trimmed, Id)
         /\ CompleteRequests(c, RegisterPendingPages(Pending(c), Id, wanted), Asked(c, "read", a))
         /\ UNCHANGED <<openFileCounts, pendingReadCount, uncached, isOpen, failed>>

\* A write of more pages than the cache has entries goes past it.
WriteBypass(c, a) ==
  /\ Issue(c)
  /\ a.file \in isOpen[c]
  /\ Cardinality(AllKeys(a)) > pageCapacity
  /\ fs' = BagAdd(fs, ToFs(c, "bypass", AllKeys(a), {}, Id))
  /\ CompleteRequests(c, Pending(c), Asked(c, "write", a))
  /\ UNCHANGED <<lruCache, openFileCounts, pendingReadCount, uncached, isOpen, failed>>

\* The end of a state of processFileWrite: update is what it does to the cache, todo
\* the pages of write r that still have not been inserted.
WriteStep(c, r, update, p, asks, todo, rest) ==
  \E u \in {update} :
    IF ~u.ok THEN Fail("insertDirtyPartialPage") /\ UNCHANGED class ELSE
    /\ lruCache' = u.cache
    /\ fs' = rest (+) Writebacks(c, u.out, r)
    /\ CompleteRequests(c, RegisterPendingWrites(p, r, u.out), asks)
    /\ uncached' = IF todo = {} THEN Without(uncached, {r}) ELSE With(uncached, r, todo)
    /\ UNCHANGED <<class, openFileCounts, isOpen, failed>>

\* Mutant of WriteRegistered: the pages to read are not registered.
WriteRegisteredNot(c, missing) == RegisterPendingPages(Pending(c), Id, {})

\* A write waits for its partial pages that are not cached.
WriteRegistered(c, missing) == RegisterPendingPages(Pending(c), Id, missing)

\* States INIT, UPDATE_CACHED_PAGES and then BEGIN_PARTIAL_PAGE_READ or
\* UPDATE_CACHE of processFileWrite.  When every partial page is cached,
\* UPDATE_CACHE writes the partial pages a second time.
BlockIndexedWrite(c, a) ==
  /\ class = "blockIndexed"
  /\ Issue(c)
  /\ a.file \in isOpen[c]
  /\ Cardinality(AllKeys(a)) <= pageCapacity
  /\ LET found == PartialKeys(a) \intersect Cached(lruCache)
         missing == PartialKeys(a) \ found
         first == UpdatePartial(Update(LookupPages(lruCache, PartialKeys(a))), a, found)
     IN  IF missing # {}
         THEN WriteStep(c, Id, first, WriteRegistered(c, missing), Asked(c, "write", a),
                        AllKeys(a) \ found, fs (+) BlockIndexedReads(c, missing, Id))
         ELSE WriteStep(c, Id, UpdateWithWritePages([first EXCEPT !.out = << >>], a, PartialKeys(a)),
                        ResolveReads(RegisterPendingWrites(WriteRegistered(c, {}), Id, first.out),
                                     FullKeys(a)),
                        Asked(c, "write", a), {},
                        fs (+) BlockIndexedWritebacks(c, first.out, Id))
  /\ UNCHANGED pendingReadCount
-----------------------------------------------------------------------------
(* Answers of the file system.                                             *)

Forward(m) ==
  /\ PassedOn(m)
  /\ UNCHANGED <<class, lruCache, openFileCounts, twinVars, issued, failed>>

\* The answer to the read of a read request.
ReadDone(m) ==
  /\ IsAnswerTo(m, "read", "read")
  /\ \E u \in {UpdateWithReadPages(Update(lruCache), m.keys)} :
       /\ lruCache' = u.cache
       /\ fs' = BagRemove(fs, m) (+) BlockIndexedWritebacks(m.cache, u.out, m.parent)
       /\ CompleteRequests(m.cache,
            RegisterPendingWrites(ResolveReads(Pending(m.cache), m.keys), m.parent, u.out), live)
  /\ UNCHANGED <<class, openFileCounts, pendingReadCount, uncached, issued, isOpen, failed>>

\* State UPDATE_CACHE of a write, on the answer to its partial page read: the
\* pages, their regions, then the full pages.
BlockIndexedReadDone(m) ==
  /\ class = "blockIndexed"
  /\ IsAnswerTo(m, "read", "write")
  /\ LET a == live[m.parent].access IN
     \E read \in {UpdatePartial(UpdateWithReadPages(Update(lruCache), m.keys), a, m.keys)} :
       WriteStep(m.cache, m.parent, UpdateWithWritePages(read, a, {}),
                 ResolveReads(Pending(m.cache), m.keys \union FullKeys(a)), live, {},
                 BagRemove(fs, m))
  /\ UNCHANGED <<pendingReadCount, issued>>

\* processWriteback, and the same for a close: a region lowers the count of
\* the request it was written for, a page is resolved for all of them.
WrittenBack(m) ==
  /\ m.kind \in {"partial", "write"} /\ m.parent \in DOMAIN live
  /\ fs' = BagRemove(fs, m)
  /\ CompleteRequests(m.cache,
       IF m.kind = "partial" THEN ResolvePartialWrite(Pending(m.cache), m.parent)
       ELSE ResolveWrites(Pending(m.cache), m.keys), live)
  /\ UNCHANGED <<class, lruCache, openFileCounts, pendingReadCount, uncached, issued, isOpen, failed>>

\* The message's context pointer is a request that was answered.
DanglingContext(m) ==
  /\ m.parent \notin DOMAIN live
  /\ Fail("deleted")
  /\ UNCHANGED <<class, issued>>
=============================================================================
