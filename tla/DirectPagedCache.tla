-------------------------- MODULE DirectPagedCache --------------------------
(***************************************************************************)
(* DirectPagedMiddlewareCache and SharedDirectPagedMiddlewareCache         *)
(* (src/src/client/cache/), the page caches between an application process *)
(* and the file system client.                                             *)
(*                                                                         *)
(* A member of Caches is the cache module of one process.  The modules of  *)
(* one compute node share the page cache and the open counts; each keeps a *)
(* map of pending pages of its own, because createPendingRequestMap does   *)
(* not override createPendingPageMap.  One module in Caches is the         *)
(* unshared class.                                                         *)
(*                                                                         *)
(* A request is a message of the application, numbered in the order of     *)
(* issue.  When it is answered the application deletes it                  *)
(* (IOApplication::handleIOMessage), so a request that is not in the       *)
(* domain of live is gone.  The file system answers what it is sent in any *)
(* order.                                                                  *)
(***************************************************************************)
EXTENDS LRUCacheOps, FiniteSets

CONSTANTS
  Caches,
  Files,           \* numbers, ordered as the file names are
  Regions,         \* [file, pages]: what a read or a write may cover
  pageCapacity,
  MaxRequests,     \* bound: requests issued in a behaviour
  MaxOutstanding   \* bound: requests a process has outstanding; 1 for blocking
                   \* calls, more for IREAD and IWRITE

ASSUME DirectPagedAssumption ==
  /\ IsFiniteSet(Caches)
  /\ Files \subseteq Nat
  /\ \A g \in Regions : g.file \in Files /\ g.pages \subseteq Nat /\ IsFiniteSet(g.pages)
  /\ pageCapacity \in Nat \ {0} /\ pageCapacity < SizeMod
  /\ MaxRequests \in Nat /\ MaxOutstanding \in Nat \ {0}

VARIABLES
  lruCache,        \* Key -> page, shared
  openFileCounts,  \* file -> number of opens, shared
  pendingPages,    \* module -> (request -> pages it waits for); NoParent is
                   \* the entry of the evictions that belong to no request
  fs,              \* messages at the file system
  live,            \* request -> what it asks, until it is answered
  issued,          \* number of requests issued
  isOpen,          \* module -> files its process has open
  failed           \* "no", "assert" or "deleted": how the program stopped

vars == <<lruCache, openFileCounts, pendingPages, fs, live, issued, isOpen, failed>>

NoParent == 0

KeysOf(f, P) == {[filename |-> f, key |-> p] : p \in P}

Key == UNION {KeysOf(g.file, g.pages) : g \in Regions}

Without(g, S) == [x \in DOMAIN g \ S |-> g[x]]

Init ==
  /\ lruCache = EmptyCache
  /\ openFileCounts = [f \in Files |-> 0]
  /\ pendingPages = [c \in Caches |-> << >>]
  /\ fs = << >> /\ live = << >> /\ issued = 0
  /\ isOpen = [c \in Caches |-> {}]
  /\ failed = "no"
-----------------------------------------------------------------------------
(* The page cache.  Sets of keys are visited in the order of operator<:    *)
(* by page, and by name only within a page.                                *)

KeyLess(a, b) == a.key < b.key \/ (a.key = b.key /\ a.filename < b.filename)

InOrder(S) ==
  CHOOSE s \in [1 .. Cardinality(S) -> S] : \A i, j \in DOMAIN s : i < j => KeyLess(s[i], s[j])

DirtyPages(f) == {k \in GetDirtyEntries(lruCache) : k.filename = f}

\* lookupPagesInCache refreshes the pages it finds and leaves the others.
LookupPages(cache, keys) ==
  FoldLeft(LAMBDA c, k : IF Exists(c, k) THEN Lookup(c, k) ELSE c, cache, InOrder(keys))

Uncached(keys) == {k \in keys : ~Exists(lruCache, k)}

\* Mutant of Overwrites: a page read from the file system replaces a dirty one.
OverwritesAlways(cache, k, isDirty) == TRUE

Overwrites(cache, k, isDirty) == isDirty \/ ~Exists(cache, k) \/ ~GetDirtyBit(cache, k)

\* updateCache: the cache afterwards and the dirty pages pushed out of it.
UpdateCache(cache, keys, isDirty) ==
  LET One(s, k) ==
        IF ~Overwrites(s.lru, k, isDirty) THEN s ELSE
        [lru |-> Insert(s.lru, pageCapacity, k, k.key, isDirty),
         out |-> IF InsertEvicts(s.lru, pageCapacity, k) /\ GetDirtyBit(s.lru, LRUKey(s.lru))
                 THEN s.out \union {LRUKey(s.lru)} ELSE s.out]
  IN FoldLeft(One, [lru |-> cache, out |-> {}], InOrder(keys))

\* Mutant of FlushCache: only the dirty pages are removed.
FlushCacheDirty(f) ==
  FoldLeft(RemoveEntry, lruCache, InOrder(DirtyPages(f)))

FlushCache(f) ==
  FoldLeft(RemoveEntry, lruCache, InOrder({k \in DOMAIN lruCache.keyEntryMap : k.filename = f}))
-----------------------------------------------------------------------------
(* The pending pages of one module: a function from requests.              *)

RegisterPending(pend, r, reads, writes) ==
  LET old == IF r \in DOMAIN pend THEN pend[r] ELSE [readPages |-> {}, writePages |-> {}]
  IN  [x \in DOMAIN pend \union {r} |->
         IF x = r THEN [readPages |-> old.readPages \union reads,
                        writePages |-> old.writePages \union writes] ELSE pend[x]]

ResolveReads(pend, keys) == [r \in DOMAIN pend |-> [pend[r] EXCEPT !.readPages = @ \ keys]]

\* Mutant of ResolveWrites: only the evictions without a request are resolved.
ResolveWritesEvictions(pend, keys) ==
  [r \in DOMAIN pend |-> IF r = NoParent THEN [pend[r] EXCEPT !.writePages = @ \ keys] ELSE pend[r]]

ResolveWrites(pend, keys) == [r \in DOMAIN pend |-> [pend[r] EXCEPT !.writePages = @ \ keys]]

\* trimPendingReadPages collects the differences with each entry: a page goes
\* only when every entry is waiting to read it.
TrimPending(pend, keys) ==
  IF pend = << >> THEN keys ELSE UNION {keys \ pend[r].readPages : r \in DOMAIN pend}

HasPendingPages(pend, f) ==
  \E r \in DOMAIN pend : \E k \in pend[r].readPages \union pend[r].writePages : k.filename = f

\* popCompletedRequests, given what the requests ask.
Completed(pend, asks) ==
  {r \in DOMAIN pend \ {NoParent} :
     /\ pend[r].readPages = {} /\ pend[r].writePages = {}
     /\ asks[r].kind = "close" => ~HasPendingPages(pend, asks[r].file)}

\* completeRequests, which ends the handling of every message: the answered
\* requests leave the map and are deleted.
CompleteRequests(c, pend, asks) ==
  \E p \in {pend} : \E done \in {Completed(p, asks)} :
    /\ pendingPages' = [pendingPages EXCEPT ![c] = Without(p, done)]
    /\ live' = Without(asks, done)
-----------------------------------------------------------------------------
(* Messages to the file system.                                            *)

ToFs(c, kind, keys, parent) == [cache |-> c, kind |-> kind, keys |-> keys, parent |-> parent]

\* beginWritebackEvictions: one write for each run of pages of one file.
Writebacks(c, keys, parent) ==
  LET One(s, k) ==
        IF s # << >> /\ \A j \in Last(s).keys : j.filename = k.filename
        THEN Append(Front(s), ToFs(c, "write", Last(s).keys \union {k}, parent))
        ELSE Append(s, ToFs(c, "write", {k}, parent))
  IN FoldLeft(One, << >>, InOrder(keys))

AddWritebacks(pend, keys, parent) ==
  IF keys = {} THEN pend ELSE RegisterPending(pend, parent, {}, keys)
-----------------------------------------------------------------------------
(* Requests of the application.                                            *)

Outstanding(c) == {r \in DOMAIN live : live[r].cache = c}

Id == issued + 1

\* The next request of c, and live with it.
Asked(c, kind, f, keys) ==
  [r \in DOMAIN live \union {Id} |->
     IF r = Id THEN [cache |-> c, kind |-> kind, file |-> f, keys |-> keys] ELSE live[r]]

Issue(c) ==
  /\ failed = "no"
  /\ issued < MaxRequests
  /\ Cardinality(Outstanding(c)) < MaxOutstanding
  /\ issued' = Id

\* processFileOpen.
Open(c, f) ==
  /\ Issue(c)
  /\ f \notin isOpen[c]
  /\ \A r \in Outstanding(c) : live[r].kind = "open" => live[r].file # f
  /\ openFileCounts' = [openFileCounts EXCEPT ![f] = @ + 1]
  /\ fs' = Append(fs, ToFs(c, "open", {}, Id))
  /\ CompleteRequests(c, pendingPages[c], Asked(c, "open", f, {}))
  /\ UNCHANGED <<lruCache, isOpen, failed>>

\* performFakeOpen: every rank but the first of a collective open.
FakeOpen(c, f) ==
  /\ failed = "no"
  /\ issued < MaxRequests
  /\ f \notin isOpen[c] /\ Outstanding(c) = {}
  /\ openFileCounts' = [openFileCounts EXCEPT ![f] = @ + 1]
  /\ isOpen' = [isOpen EXCEPT ![c] = @ \union {f}]
  /\ UNCHANGED <<lruCache, pendingPages, fs, live, issued, failed>>

\* A process closes a file when its own requests on it are answered.
CanClose(c, f) == f \in isOpen[c] /\ \A r \in Outstanding(c) : live[r].file # f

\* processFileClose: the last close writes the dirty pages and empties the
\* cache of the file; another one goes on to the file system.
Close(c, f) ==
  /\ Issue(c)
  /\ CanClose(c, f)
  /\ openFileCounts' = [openFileCounts EXCEPT ![f] = @ - 1]
  /\ isOpen' = [isOpen EXCEPT ![c] = @ \ {f}]
  /\ IF openFileCounts'[f] = 0
     THEN LET dirty == DirtyPages(f) IN
          /\ fs' = fs \o Writebacks(c, dirty, Id)
          /\ lruCache' = FlushCache(f)
          /\ CompleteRequests(c, RegisterPending(AddWritebacks(pendingPages[c], dirty, Id), Id, {}, dirty),
                              Asked(c, "close", f, {}))
     ELSE /\ fs' = Append(fs, ToFs(c, "close", {}, Id))
          /\ CompleteRequests(c, pendingPages[c], Asked(c, "close", f, {}))
          /\ UNCHANGED lruCache
  /\ UNCHANGED failed

\* processFileRead of a request; beginRead asserts that there is a page to
\* read.
Read(c, f, P) ==
  /\ Issue(c)
  /\ f \in isOpen[c]
  /\ LET wanted == Uncached(KeysOf(f, P))
         trimmed == TrimPending(pendingPages[c], wanted)
     IN  /\ trimmed # {}
         /\ lruCache' = LookupPages(lruCache, KeysOf(f, P))
         /\ fs' = Append(fs, ToFs(c, "read", trimmed, Id))
         /\ CompleteRequests(c, RegisterPending(pendingPages[c], Id, wanted, {}),
                             Asked(c, "read", f, KeysOf(f, P)))
  /\ UNCHANGED <<openFileCounts, isOpen, failed>>

ReadAsserts(c, f, P) ==
  /\ Issue(c)
  /\ f \in isOpen[c]
  /\ TrimPending(pendingPages[c], Uncached(KeysOf(f, P))) = {}
  /\ failed' = "assert"
  /\ UNCHANGED <<lruCache, openFileCounts, pendingPages, fs, live, isOpen>>

\* State UPDATE_CACHE of processFileWrite, for request r of c.
UpdateWithWrite(c, cache, pend, r, asks, rest) ==
  \E updated \in {UpdateCache(cache, asks[r].keys, TRUE)} :
  \E evicting \in {AddWritebacks(ResolveReads(pend, asks[r].keys), updated.out, NoParent)} :
    /\ lruCache' = updated.lru
    /\ fs' = rest \o Writebacks(c, updated.out, NoParent)
    /\ CompleteRequests(c, RegisterPending(evicting, r, {}, updated.out), asks)

\* A write of more pages than the cache holds goes past it.
WriteBypass(c, f, P) ==
  /\ Issue(c)
  /\ f \in isOpen[c]
  /\ Cardinality(P) > pageCapacity
  /\ fs' = Append(fs, ToFs(c, "bypass", KeysOf(f, P), Id))
  /\ CompleteRequests(c, pendingPages[c], Asked(c, "write", f, KeysOf(f, P)))
  /\ UNCHANGED <<lruCache, openFileCounts, isOpen, failed>>

\* State INIT of processFileWrite: the partly written pages that are not
\* cached are read first, unless they are being read already.
Write(c, f, P, partial) ==
  /\ Issue(c)
  /\ f \in isOpen[c]
  /\ Cardinality(P) <= pageCapacity
  /\ LET wanted == Uncached(KeysOf(f, partial))
         trimmed == TrimPending(pendingPages[c], wanted)
         pend == RegisterPending(pendingPages[c], Id, wanted, {})
         looked == LookupPages(lruCache, KeysOf(f, partial))
         asks == Asked(c, "write", f, KeysOf(f, P))
     IN  IF trimmed # {}
         THEN /\ lruCache' = looked
              /\ fs' = Append(fs, ToFs(c, "read", trimmed, Id))
              /\ CompleteRequests(c, pend, asks)
         ELSE UpdateWithWrite(c, looked, pend, Id, asks, fs)
  /\ UNCHANGED <<openFileCounts, isOpen, failed>>
-----------------------------------------------------------------------------
(* Answers of the file system.                                             *)

\* The answers to opens, forwarded closes and bypass writes are passed on.
Forward(i) ==
  /\ fs[i].kind \in {"open", "close", "bypass"}
  /\ live' = Without(live, {fs[i].parent})
  /\ isOpen' = IF fs[i].kind = "open"
               THEN [isOpen EXCEPT ![fs[i].cache] = @ \union {live[fs[i].parent].file}] ELSE isOpen
  /\ fs' = RemoveAt(fs, i)
  /\ UNCHANGED <<lruCache, openFileCounts, pendingPages, issued, failed>>

\* The answer to the read of a read request.
ReadDone(i) ==
  LET m == fs[i]
  IN  /\ m.kind = "read" /\ m.parent \in DOMAIN live /\ live[m.parent].kind = "read"
      /\ \E updated \in {UpdateCache(lruCache, m.keys, FALSE)} :
           /\ lruCache' = updated.lru
           /\ fs' = RemoveAt(fs, i) \o Writebacks(m.cache, updated.out, NoParent)
           /\ CompleteRequests(m.cache,
                AddWritebacks(ResolveReads(pendingPages[m.cache], m.keys), updated.out, NoParent), live)
      /\ UNCHANGED <<openFileCounts, issued, isOpen, failed>>

\* The answer to the partial page read of a write.
PartialReadDone(i) ==
  LET m == fs[i]
  IN  /\ m.kind = "read" /\ m.parent \in DOMAIN live /\ live[m.parent].kind = "write"
      /\ UpdateWithWrite(m.cache, lruCache, ResolveReads(pendingPages[m.cache], m.keys), m.parent,
                         live, RemoveAt(fs, i))
      /\ UNCHANGED <<openFileCounts, issued, isOpen, failed>>

\* The answer to a write-back of an eviction or of a close.
WrittenBack(i) ==
  LET m == fs[i]
  IN  /\ m.kind = "write" /\ m.parent \in DOMAIN live \union {NoParent}
      /\ fs' = RemoveAt(fs, i)
      /\ CompleteRequests(m.cache, ResolveWrites(pendingPages[m.cache], m.keys), live)
      /\ UNCHANGED <<lruCache, openFileCounts, issued, isOpen, failed>>

\* The message's context pointer is a request that was answered: its kind is
\* read from freed memory.
DanglingContext(i) ==
  /\ fs[i].parent \notin DOMAIN live \union {NoParent}
  /\ failed' = "deleted"
  /\ UNCHANGED <<lruCache, openFileCounts, pendingPages, fs, live, issued, isOpen>>

Answer ==
  /\ failed = "no"
  /\ \E i \in DOMAIN fs :
       Forward(i) \/ ReadDone(i) \/ PartialReadDone(i) \/ WrittenBack(i) \/ DanglingContext(i)

Request == \E c \in Caches, f \in Files :
  \/ Open(c, f) \/ FakeOpen(c, f) \/ Close(c, f)
  \/ \E P \in {g.pages : g \in {h \in Regions : h.file = f}} :
       \/ Read(c, f, P) \/ ReadAsserts(c, f, P) \/ WriteBypass(c, f, P)
       \/ \E partial \in SUBSET P : Write(c, f, P, partial)

\* The traces are played, or the program has stopped.
Ended ==
  /\ failed # "no" \/ (issued = MaxRequests /\ fs = << >>)
  /\ UNCHANGED vars

Next == Request \/ Answer \/ Ended

\* The file system client answers what it is sent.
Spec == Init /\ [][Next]_vars /\ WF_vars(Answer)
-----------------------------------------------------------------------------
TypeOK ==
  /\ DOMAIN lruCache.keyEntryMap \subseteq Key
  /\ lruCache.numEntries = Cardinality(DOMAIN lruCache.keyEntryMap)
  /\ lruCache.numEntries <= pageCapacity
  /\ \A f \in Files : openFileCounts[f] \in 0 .. 2 * Cardinality(Caches)
  /\ \A c \in Caches : DOMAIN pendingPages[c] \subseteq DOMAIN live \union {NoParent}
  /\ DOMAIN live \subseteq 1 .. issued
  /\ failed \in {"no", "assert", "deleted"}

\* What a module waits for is on its way: every page in its pending map is in
\* a message of its own at the file system.  A request waiting for any other
\* page would wait for ever.
PendingIsAtFs ==
  \A c \in Caches : \A r \in DOMAIN pendingPages[c] :
    LET AtFs(kind) == UNION {fs[i].keys : i \in {j \in DOMAIN fs : fs[j].cache = c /\ fs[j].kind = kind}}
    IN  /\ pendingPages[c][r].readPages \subseteq AtFs("read")
        /\ pendingPages[c][r].writePages \subseteq AtFs("write")

\* After the last close of a file by the processes of a node none of its pages
\* stays in the shared cache, where a later open would find it stale.
ClosedFileNotCached ==
  \A f \in Files : openFileCounts[f] = 0 => \A k \in DOMAIN lruCache.keyEntryMap : k.filename # f

\* The cache holds pages of open files only, and requests wait only for what
\* is on its way.
CacheConsistent == TypeOK /\ PendingIsAtFs /\ ClosedFileNotCached

WritesOf(k) == {i \in DOMAIN fs : fs[i].kind = "write" /\ k \in fs[i].keys}

\* A dirty page stays dirty until a write of it is sent to the file system,
\* whoever evicts it: reads and writes of any process, or the last close.
NoDirtyPageLost ==
  [][\A k \in GetDirtyEntries(lruCache) \ GetDirtyEntries(lruCache)' :
       Cardinality(WritesOf(k)') > Cardinality(WritesOf(k))]_vars

\* However the messages of the file system fall, no request stays unanswered
\* unless the program stops: the last close with its write-backs and a write
\* waiting for the pages of another included.
RequestsEnd == []<>(live = << >> \/ failed # "no")
=============================================================================
