----------------------------- MODULE BufferCache -----------------------------
(***************************************************************************)
(* LRUBufferCache (src/src/os/buffer_cache.cc) between the block           *)
(* translator, which sends it device requests, and the disk, which answers *)
(* the requests the cache forwards.                                        *)
(*                                                                         *)
(* Each member of Requests is one device request message of the block      *)
(* translator, read or write, of one block.  The disk answers every        *)
(* message it holds once, in any order: HardDisk sends each response after *)
(* a delay of its own, and because a request's own service time counts     *)
(* twice in that delay (hard_disk.cc, service) a short request can         *)
(* overtake a long one that arrived earlier.                               *)
(***************************************************************************)
EXTENDS LRUCacheOps, FiniteSets

CONSTANTS
  Requests,       \* device request messages
  Blocks,         \* logical block addresses
  ThroughBlocks,  \* blocks the file system always writes through (metadata
                  \* blocks, unless noATime is set)
  maxEntries,     \* numEntries parameter: capacity of the cache
  dirtyLimit      \* percentDirty() > dirtyThreshold_ iff more dirty entries
                  \* than this are counted

ASSUME BufferAssumption ==
  /\ maxEntries \in Nat /\ 0 < maxEntries /\ maxEntries < SizeMod - 1
  /\ dirtyLimit \in 0 .. maxEntries
  /\ ThroughBlocks \subseteq Blocks

VARIABLES
  cache,        \* the LRUCache: lba -> char (always 0)
  request,      \* request[r]: the message r, once the cache has received it
  pending,      \* pendingRequests_ : multimap lba -> read message
  diskReads,    \* read messages forwarded to the disk
  diskThroughs, \* write messages forwarded to the disk
  writebacks,   \* writebacks[b]: number of write-back messages of b at the disk
  answered,     \* requests whose response has been sent up
  owed,         \* history: blocks whose last write has not been sent to the disk
  overtaken     \* history: blocks with a read at the disk and a write since

cacheVars == <<cache, pending, diskReads, diskThroughs, writebacks>>
vars == <<cacheVars, request, answered, owed, overtaken>>

None == [kind |-> "none"]
Messages == [kind : {"read", "write"}, lba : Blocks]

Asked == {r \in Requests : request[r] # None}
Of(S, b) == {r \in S : request[r].lba = b}

Init ==
  /\ cache = EmptyCache
  /\ request = [r \in Requests |-> None]
  /\ pending = {} /\ diskReads = {} /\ diskThroughs = {}
  /\ writebacks = [b \in Blocks |-> 0]
  /\ answered = {} /\ owed = {} /\ overtaken = {}
-----------------------------------------------------------------------------
\* isCached: a block that is present is refreshed by the question.
IsCached(b) == Exists(cache, b)

\* Mutant of IsPending: concurrent misses are not joined.
IsPendingNever(b) == FALSE

\* isPending
IsPending(b) == Of(pending, b) # {}

\* Mutant of WrittenBack: dirty entries are evicted without a write-back.
WrittenBackNever(b) == {}

\* evictCacheEntry: when the insertion of b will push out a dirty entry, a
\* write-back of that entry is sent first.
WrittenBack(b) ==
  {e \in DOMAIN cache.keyEntryMap : /\ IsFull(cache, maxEntries) /\ ~IsCached(b)
                                    /\ e = LRUKey(cache) /\ GetDirtyBit(cache, e)}

\* evictCacheEntry(b), then cache_->insert(b, 0, isDirty).
EvictAndInsert(b, isDirty) ==
  /\ writebacks' = [e \in Blocks |-> IF e \in WrittenBack(b) THEN writebacks[e] + 1
                                                             ELSE writebacks[e]]
  /\ cache' = Insert(cache, maxEntries, b, 0, isDirty)

Receive(r, kind, b) ==
  /\ request[r] = None
  /\ request' = [request EXCEPT ![r] = [kind |-> kind, lba |-> b]]

\* handleBlockRequest of a read.
ReadHit(r, b) ==
  /\ Receive(r, "read", b)
  /\ IsCached(b)
  /\ cache' = Lookup(cache, b)
  /\ answered' = answered \union {r}
  /\ UNCHANGED <<pending, diskReads, diskThroughs, writebacks, owed, overtaken>>

ReadPending(r, b) ==
  /\ Receive(r, "read", b)
  /\ ~IsCached(b) /\ IsPending(b)
  /\ pending' = pending \union {r}
  /\ UNCHANGED <<cache, diskReads, diskThroughs, writebacks, answered, owed, overtaken>>

\* The message itself goes on to the disk.
ReadMiss(r, b) ==
  /\ Receive(r, "read", b)
  /\ ~IsCached(b) /\ ~IsPending(b)
  /\ pending' = pending \union {r}
  /\ diskReads' = diskReads \union {r}
  /\ UNCHANGED <<cache, diskThroughs, writebacks, answered, owed, overtaken>>

\* Mutant of GoesThrough: the dirty threshold is ignored.
GoesThroughFlagOnly(b) == b \in ThroughBlocks

\* handleBlockRequest of a write.  The switch to write-through is made on the
\* cache's dirty counter.
GoesThrough(b) == cache.numDirtyEntries > dirtyLimit \/ b \in ThroughBlocks

Overtake(b) == overtaken' = IF Of(diskReads, b) # {} THEN overtaken \union {b} ELSE overtaken

WriteBehind(r, b) ==
  /\ Receive(r, "write", b)
  /\ ~GoesThrough(b)
  /\ EvictAndInsert(b, TRUE)
  /\ answered' = answered \union {r}
  /\ owed' = (owed \ WrittenBack(b)) \union {b}
  /\ Overtake(b)
  /\ UNCHANGED <<pending, diskReads, diskThroughs>>

WriteThrough(r, b) ==
  /\ Receive(r, "write", b)
  /\ GoesThrough(b)
  /\ EvictAndInsert(b, FALSE)
  /\ diskThroughs' = diskThroughs \union {r}
  /\ owed' = owed \ (WrittenBack(b) \union {b})
  /\ Overtake(b)
  /\ UNCHANGED <<pending, diskReads, answered>>

\* Mutant of SatisfyPending: only one waiting reader is answered.
SatisfyPendingFirst(b) == {CHOOSE r \in Of(pending, b) : TRUE}

\* satisfyPending: the readers answered when block b arrives.
SatisfyPending(b) == Of(pending, b)

\* handleBlockResponse.  A block that is not cached is inserted clean; then
\* everyone waiting for it is answered.
ReadResponse(r) ==
  /\ r \in diskReads
  /\ LET b == request[r].lba IN
     /\ IF IsCached(b)
        THEN cache' = Lookup(cache, b) /\ UNCHANGED <<writebacks, owed>>
        ELSE EvictAndInsert(b, FALSE) /\ owed' = owed \ WrittenBack(b)
     /\ answered' = answered \union SatisfyPending(b)
     /\ pending' = pending \ SatisfyPending(b)
     /\ overtaken' = overtaken \ {b}
  /\ diskReads' = diskReads \ {r}
  /\ UNCHANGED <<request, diskThroughs>>

WriteThroughResponse(r) ==
  /\ r \in diskThroughs
  /\ diskThroughs' = diskThroughs \ {r}
  /\ answered' = answered \union {r}
  /\ UNCHANGED <<cache, request, pending, diskReads, writebacks, owed, overtaken>>

\* The response to a write-back is discarded.
WriteBackResponse(b) ==
  /\ writebacks[b] > 0
  /\ writebacks' = [writebacks EXCEPT ![b] = @ - 1]
  /\ UNCHANGED <<cache, request, pending, diskReads, diskThroughs, answered, owed, overtaken>>

Request == \E r \in Requests, b \in Blocks :
             \/ ReadHit(r, b) \/ ReadPending(r, b) \/ ReadMiss(r, b)
             \/ WriteBehind(r, b) \/ WriteThrough(r, b)

Response == \/ \E r \in Requests : ReadResponse(r) \/ WriteThroughResponse(r)
            \/ \E b \in Blocks : WriteBackResponse(b)

\* Every message has been answered and the disk is idle.
Quiescent ==
  /\ Asked = Requests /\ diskReads = {} /\ diskThroughs = {}
  /\ \A b \in Blocks : writebacks[b] = 0
  /\ UNCHANGED vars

Next == Request \/ Response \/ Quiescent

\* The disk answers what it was sent: HardDisk schedules the response while
\* it handles the request.
Fairness ==
  /\ \A r \in Requests : WF_vars(ReadResponse(r)) /\ WF_vars(WriteThroughResponse(r))
  /\ \A b \in Blocks : WF_vars(WriteBackResponse(b))

Spec == Init /\ [][Next]_vars /\ Fairness
-----------------------------------------------------------------------------
TypeOK ==
  /\ DOMAIN cache.keyEntryMap \subseteq Blocks
  /\ cache.lruList \in Seq(Blocks)
  /\ request \in [Requests -> Messages \union {None}]
  /\ pending \subseteq Asked /\ diskReads \subseteq Asked /\ diskThroughs \subseteq Asked
  /\ writebacks \in [Blocks -> Nat]
  /\ answered \subseteq Asked
  /\ owed \subseteq Blocks /\ overtaken \subseteq Blocks

\* A block has readers waiting exactly when one read of it is at the disk, and
\* the message that went to the disk is one of the waiting ones.  Without it a
\* waiting reader is never answered, or a block is read twice.
OneReadPerPendingBlock ==
  \A b \in Blocks :
    /\ Of(pending, b) # {} <=> Of(diskReads, b) # {}
    /\ Cardinality(Of(diskReads, b)) <= 1
    /\ Of(diskReads, b) \subseteq Of(pending, b)

\* A write that was acknowledged without going to the disk is still dirty in
\* the cache until a device write of its block has been sent: eviction by
\* reads, by other writes and write-through of the same block included.
NoDirtyBlockLost == owed = GetDirtyEntries(cache)

\* The dirty counter, which is not lowered when a dirty entry is overwritten
\* clean, errs in one direction only: it never misses a dirty entry, so the
\* threshold bounds the dirty entries.  It never exceeds the entries either,
\* which percentDirty asserts before every write.
DirtyBounded ==
  /\ PercentDirtyAsserts(cache, maxEntries)
  /\ Cardinality(GetDirtyEntries(cache)) <= cache.numDirtyEntries
  /\ cache.numDirtyEntries <= dirtyLimit + 1

\* Towards the block translator the cache is a device service: every request
\* is answered exactly once, and in the end.
Device == INSTANCE DeviceService WITH asked <- Asked
ImplementsDevice == Device!Spec
=============================================================================
