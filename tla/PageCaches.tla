----------------------------- MODULE PageCaches -----------------------------
(***************************************************************************)
(* A compute node whose processes have page cache modules of one of three  *)
(* classes, chosen by the configuration (middlewareCacheType): with twins  *)
(* and block indexed messages, with twins and a message for each page, or  *)
(* progressive.                                                            *)
(***************************************************************************)
EXTENDS TwinCacheSinglePages, ProgressiveCache

vars == <<nodeVars, twinVars, pendingRequests>>

TwinClasses == {"blockIndexed", "singlePages"}

Init ==
  /\ NodeInit
  /\ CASE class = "blockIndexed" -> SharedResources(EmptyMulti)
       [] class = "singlePages"  -> SinglePagesShared
       [] class = "progressive"  -> SharedResources(EmptyPages)
  /\ TwinInit
  /\ ProgressiveInit

Request == \E c \in Caches, f \in Files :
  \/ class \in TwinClasses /\ TwinRequest(c, f) /\ UNCHANGED pendingRequests
  \/ class = "progressive" /\ ProgressiveRequest(c, f) /\ UNCHANGED twinVars

\* The file system answers the messages it has in any order.
Answer ==
  /\ failed = "no"
  /\ \E m \in BagToSet(fs) :
       \/ class \in TwinClasses /\ TwinAnswer(m) /\ UNCHANGED pendingRequests
       \/ class = "progressive" /\ ProgressiveAnswer(m) /\ UNCHANGED twinVars

\* The traces are played, or the program has stopped.
Ended ==
  /\ failed # "no" \/ (issued = MaxRequests /\ fs = EmptyBag)
  /\ UNCHANGED vars

Next == Request \/ Answer \/ Ended

\* The file system client answers what it is sent: weak fairness of Answer,
\* which is enabled exactly when a message is there and the program runs.
CanAnswer == failed = "no" /\ fs # EmptyBag

Fairness == []<>~CanAnswer \/ []<><<Answer>>_vars

Spec == Init /\ [][Next]_vars /\ Fairness
-----------------------------------------------------------------------------
\* What both kinds of cache hold is within the capacity and in LRU order, and
\* a request is pending only while it is unanswered.
TypeOK ==
  /\ ToSet(lruCache.lruList) = DOMAIN lruCache.entries
  /\ Len(lruCache.lruList) = Cardinality(DOMAIN lruCache.entries)
  /\ IF class = "progressive"
     THEN /\ Cardinality(CachedPages(lruCache)) <= pageCapacity
          /\ DOMAIN pendingRequests \subseteq DOMAIN live \union {0}
     ELSE /\ Size(lruCache) <= pageCapacity
          /\ \A k \in Cached(lruCache) : lruCache.entries[k].isDirty => lruCache.entries[k].twin = {}
          /\ \A c \in Caches : DOMAIN pendingPages[c] \subseteq DOMAIN live
          /\ \A c \in Caches : DOMAIN pendingPartialPages[c] \subseteq DOMAIN pendingPages[c]
  /\ failed \in {"no", "deleted", "beginRead", "insertDirtyPartialPage", "writebackPages"}

AtFs(kind) == {m \in BagToSet(fs) : m.kind = kind}

\* The copies of a message in a bag, and those of a set of messages, numbered.
CopiesOf(m, bag) == IF m \in DOMAIN bag THEN bag[m] ELSE 0

Copies(S, bag) == UNION {{m} \X (1..CopiesOf(m, bag)) : m \in S}

\* What a request of a cache with twins waits for is on its way from its own
\* module: its page reads, its page writes, and exactly as many region writes
\* as its count says.
TwinIsAtFs ==
  \A c \in Caches : \A r \in DOMAIN pendingPages[c] :
    LET Sent(kind) == {m \in AtFs(kind) : m.cache = c}
        Own == {m \in Sent("partial") : m.parent = r}
    IN  /\ pendingPages[c][r].readPages \subseteq UNION {m.keys : m \in Sent("read")}
        /\ pendingPages[c][r].writePages \subseteq UNION {m.keys : m \in Sent("write")}
        /\ Cardinality(Copies(Own, fs))
             = IF r \in DOMAIN pendingPartialPages[c] THEN pendingPartialPages[c][r] ELSE 0

\* What a progressive request waits for is on its way from some module, and
\* every write message is registered, as often as it was sent.
ProgressiveIsAtFs ==
  class = "progressive" =>
    /\ \A r \in DOMAIN pendingRequests :
         pendingRequests[r].readPages \subseteq UNION {m.keys : m \in AtFs("read")}
    /\ \A m \in AtFs("write") :
         m.parent \in DOMAIN pendingRequests
           /\ CopiesOf(m, pendingRequests[m.parent].writeRequests) = CopiesOf(m, fs)

PendingIsAtFs == TwinIsAtFs /\ ProgressiveIsAtFs

\* The page cache and the lists of pending pages are as the answers to come
\* expect them.
CacheConsistent == TypeOK /\ PendingIsAtFs

\* A write is answered only when all of its data went through the cache: no
\* partial page is left out because a message for the page came in between.
AnsweredWritesWereCached == DOMAIN uncached \subseteq DOMAIN live

\* What is written when the page leaves the cache.
DirtyRegions(k) ==
  IF k \notin DOMAIN lruCache.entries THEN {}
  ELSE LET e == lruCache.entries[k]
       IN  IF class = "progressive" THEN (IF e.isDirty THEN e.regions ELSE {})
           ELSE IF e.isDirty THEN Whole ELSE e.twin

\* Messages that write this region of the page, all of it.
WritesOf(k, g) ==
  {m \in AtFs("write") : IF class = "progressive" THEN <<k, g>> \in m.regions ELSE k \in m.keys}
    \union {m \in AtFs("partial") : m.keys = {k} /\ m.regions = {g}}

CopiesOfWrites(k, g) == Cardinality(Copies(WritesOf(k, g), fs))

\* Messages that write something of the page.
WritesFor(k) == {m \in AtFs("write") : k \in m.keys}

CopiesFor(k) == Cardinality(Copies(WritesFor(k), fs))

\* One more message that writes the region is at the file system.
WriteSent(k, g) == CopiesOfWrites(k, g)' > CopiesOfWrites(k, g)

\* The region is of a partial page of a progressive cache, and one more message
\* for the page is at the file system.  It writes a byte of its regions.
PartialPageSent(k, g) ==
  class = "progressive" /\ g \notin Whole /\ CopiesFor(k)' > CopiesFor(k)

\* What was written to a page of the cache stays there until a write of it is
\* sent, or until the whole page is written over: neither an eviction by
\* another request or process, nor the arrival of the page from the file
\* system, nor the last close drops a region.  Of a partial page of a
\* progressive cache it says only that a message for the page is sent.
NoDirtyRegionLost ==
  [][\A k \in DOMAIN lruCache.entries : \A g \in DirtyRegions(k) \ DirtyRegions(k)' :
       DirtyRegions(k)' = Whole \/ WriteSent(k, g) \/ PartialPageSent(k, g)]_vars

\* The last close of a file on a progressive node is answered only when no
\* write of the file's pages is on its way, whatever request it was sent for.
CloseEndsWrites ==
  [][\A r \in DOMAIN pendingRequests \ DOMAIN live' :
       r # 0 /\ live[r].kind = "close" =>
         \A m \in AtFs("write")' : \A k \in m.keys : k.filename # live[r].access.file]_vars

\* A write of a progressive cache that was accepted is in the cache, or was
\* handed to a message for the file system.
AcceptedWritesAreKept ==
  [][\A c \in Caches : \A a \in Accesses : ProgressiveWrite(c, a) =>
       \A k \in AllKeys(a) : \A g \in WrittenRegions(a, k) :
         g \in DirtyRegions(k)' \/ WriteSent(k, g) \/ PartialPageSent(k, g)]_vars

\* Every request is answered unless the program stops.
RequestsEnd == []<>(live = << >> \/ failed # "no")
=============================================================================
