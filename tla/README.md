# HECIOS in TLA+

HECIOS simulates a cluster that runs MPI programs over PVFS, a parallel file
system: application processes replay I/O traces, clients turn file operations
into requests to servers, servers run them on simulated file systems, caches
and disks, and a simulated network carries the messages. It is written in C++
for OMNeT++; each part is a *simple module* whose `handleMessage` runs to its
end on one message, so concurrency is the interleaving of messages, and the
hard questions are about order, counters of answers still to come, objects
shared by pointer between modules, and caches.

This directory holds TLA+ modules for that program, TLC runs over small
instances, and proofs checked by TLAPS. `PROJECT.json` maps each definition to
the lines of `src/` it models, lists the runs, a mutant of the code for every
property (a plausible bug that makes the property fail), the hazards the
properties are for, and the proved theorems.

    tlc -workers 2 -config FileIO.cfg FileIO        # any run
    tlapm BufferCacheProofs.tla                     # any module of proofs

## 1. Inventory

Paths are under `src/src/`. "Hard" is what a test would not easily reach.

| Part | State | Operations | Talks to | Hard |
|---|---|---|---|---|
| LRU cache class (`common/lru_cache.h`) | list of keys, map of entries with dirty bits, two counters | insert, insertAndRecall, lookup, remove, setDirtyBit | base of the buffer cache and of the direct page cache | list, map and counters are kept in step by each method; unsigned counters |
| OS buffer cache (`os/buffer_cache.cc`) | LRU cache of blocks, multimap of pending reads | block read and write, device responses | block translator above, disk below | concurrent misses, eviction of dirty blocks, switch to write-through, late answers |
| File system (`os/file_system.cc`) | a state machine in each request | open, create, unlink, read, write | storage layout, block translator | data and metadata move at the same time |
| Block translator (`os/block_translator.cc`) | counter in each block request | fan-out to device requests | file system, buffer cache | answers of several requests interleaved |
| Storage layout (`os/fixed_inode_storage_layout.cc`) | inode and data block of each file | addFile, blocks of a region | file builder, file system | unsigned arithmetic on partial blocks |
| Hard disk, disk scheduler, access manager (`physical/`, `os/`) | service times | read, write | buffer cache | responses overtake each other |
| File builder (`layout/file_builder.cc`) | handle counters, name and metadata tables | register server, create directory, create file | storage layout of every server | allocation of handles along a recursion |
| Client operations on names (`client/fs_*`) | state machine per operation, name and attribute caches | open, create, remove, stat, utime, directories | servers | several objects on several servers, lookup from server to server |
| Serial server operations (`server/*.cc`) | state in each request | lookup, create, remove, attributes, entries | clients, file system | several requests at once |
| Collective server operations (`server/collective_*.cc`) | counter and handles in each request | create, remove, get attributes | other servers, client | a tree of servers, answers in any order |
| File read and write (`client/fs_read_sm.cc`, `fs_write_sm.cc`, `server/read.cc`, `write.cc`) | three counters at the client, a state at the server | read, write | job managers | one request object shared by pointer, deleted by either side |
| Data flows, job managers (`io/`) | bytes moved, outstanding flows, sizes of the byte streams | start, push, acknowledge, finish | network, storage | flow control; flows that end while messages are out; sizes shared by all clients |
| Request scheduler (`server/request_scheduler.cc`) | none in effect | passes messages | job manager, server | documented queues do not exist |
| Direct paged cache, shared and not (`client/cache/direct_*`, `shared_*`) | LRU page cache, open counts, pending pages | open, close, read, write | application, file system client | pages shared by processes, answers to reads and write-backs in any order |
| Paged caches with twins, two classes, and `MultiCache` (`client/cache/paged_*_with_twin*`, `multi_cache.*`) | pages with twins, pending pages and counts of region writes, write states | as above, with partial pages | as above | read-modify-write of partial pages while the cache changes |
| Progressive cache (`client/cache/progressive_*`) | regions of each page with a dirty bit, pending requests | as above | as above | partial pages kept as regions; writes nobody waits for |
| I/O applications (`client/io_application.cc`, `phtf_*`, `shtf_*`) | place in the trace, what it waits for | next event, answers, WAIT | MPI middleware, aggregator, cache | an answer to one request wakes another's wait |
| MPI middleware (`client/mpi_communication_helper.cc`, `comm_man.cc`, `mpi_middleware.cc`) | ranks by communicator, participants that wait | collective, duplicate, create | applications | participants counted per communicator |
| Middleware aggregators (`client/aggregator/`) | collective being gathered on each node | gather, joined request, answer all | application, cache | independent requests during a collective |
| Trace scanner (`tools/lanl_trace_scan_actions.cc`) and readers (`common/phtf_io_trace.cc`) | current file and descriptor, time since the last call | a handler for each recorded call | applications | one descriptor for all files; end of file |
| Data types, views (`common/*_data_type.cc`) | none: pure | regions by bytes, extents | layouts | ends of blocks and rows |
| Distribution and layouts (`layout/`) | none: pure | from an access to each server's regions and buffers | clients and servers, each for itself | ends of strips, stripes and buffers |
| Region sets and pages (`common/file_region_set.*`, `file_page_utils.cc`) | sets of regions | insert, pages of an access | caches, aggregators | touching, overlapping and covering regions |
| MESI cache and directory (`client/cache/*mesi*`, `cache_directory`) | page states | as the other caches | one another | unfinished |
| Network endpoints (`io/`, `physical/`) | connections by handle | connect, send | all | connection set-up |
| Configuration, other tools, messages | read once | parsing | - | none for a model checker |

`PROJECT.json` has the same list with a status per component.

**Properties that make the parts correct**, in a sentence each: the LRU class is
a bounded map with recency; the buffer cache neither loses an acknowledged write
nor leaves a reader waiting; a file request is answered once, after all its
blocks; objects have handles and blocks of their own; a name never stands for a
file of which an object is missing; a collective request processes each object
once and answers once; a read or write finishes exactly when the data has moved,
and no object is used after it was deleted; an access through a view reaches its
own bytes, on the servers and in the blocks where they are kept; a page cache
loses no dirty byte and answers every request; a collective separates its
members, a wait ends with the request it is for, and every process comes to the
end of its trace.

## 2. The modules and the code

**`LRUCacheOps`, `LRUCache`, `RecencyCache`; `LRUCacheOpsProofs`,
`CacheProofs`.** `LRUCacheOps` is
the class as a value: a record of its four members, and one operator per method,
used also by `BufferCache` and `DirectPagedCache`. The `size_t` counters are reduced
modulo `SizeMod`. An entry's list iterator is the position of its key.
`LRUCache` makes any sequence of calls, with `result` as what the caller gets
(an exception is the result `NoSuchEntry`). `RecencyCache` is what the users of
the class rely on: a map and an order of use, with no list, iterator or counter.

**`BufferCache`, `DeviceService`; `BufferCacheProofs`.** `LRUBufferCache`: a request that hits, joins a
pending read, or misses; writes behind and through; the three kinds of answer.
The disk is a bag of messages answered in any order, because `HardDisk` gives
each response a delay of its own. Block contents are not modelled; the history
variables `owed` (blocks whose last write has not been sent to the disk) and
`overtaken` (a write came while a read was at the disk) stand for what matters
about them. `DeviceService` (asked, answered at most once, answered in the end)
is the contract towards the layer above, and `FileSystem` in turn assumes no
more than it of the layer below, and implements it.

**`FileSystem`, `FixedINodeLayoutOps`; `StorageProofs`.** `FSIOStateMachine` of a read or write
(READ_META, then data and metadata at once, then two answers), the one metadata
access of open, create and unlink, and the block translator's fan-out and
counter. The layout's arithmetic is unsigned (`SizeMod`). A subtraction that
goes below zero wraps there, and the code relies on it.

**`FileIO`, `FileTransfer`; `FileIOProofs`.** One read or write by one client over several
servers, with the two job managers, the flow pair of each server, the request
scheduler, the network and the disks. The life of the request object (`req`) and
of the flows is explicit. The order of events is the simulator's: messages
without delay are executed in the order they were scheduled (`now`), and what
takes time is delivered between such cascades, or with other deliveries of the
same time. `FileTransfer` says what the client asked for. How many bytes each
server holds is chosen here; `FileAccess` computes it.

**`FileBuilder`, `DataTypes`, `FileLayouts`, `FileAccess`; `StorageProofs`.** `FileBuilder` is the
registration of servers, then population: directories with
the recursion that makes missing parents, files with one data handle on every
server from a random first one; the tables, handle counters and the storage
layout of every server are the state. `DataTypes` has the MPI types with their
regions by bytes, `FileLayouts` the way from an access through a view to the
regions of each server (`distributeContiguousRegion`, the simple stripe
distribution, reads cut at the byte streams' sizes), the buffers those are moved
in, region sets, the pages of an access, and the regions of joined and sieved
accesses. `FileAccess` composes them: `FileBuilder` makes the files, then clients
open and access them, a client making its layout when it begins, each server its
own when the request arrives, the flows moving a buffer at a time, and the byte
streams growing in the metadata all clients share. The reference the layouts are
checked against is not the code's: the bytes of a type are given by coordinates
(`DataBytes`), those of an access by counting (`FileBytes`), and the place of a
byte by round robin (`PlaceOf`).

**`CollectiveTree`, `CollectiveOp`; `CollectiveTreeProofs`.**
A node is a request message with the state stored in it. Splitting in halves, the counter of outstanding answers, the
metadata object first, attributes and directory entry last. `CollectiveOp` is
what the client is promised.

**`NameOperations`; `NameOperationsProofs`.** The nine operations on names as lists
of state machines, a machine as rounds of requests, and the servers' handlers. The
two client caches are recency lists. Which paths exist is `FileBuilder`'s table, as
in the code: its directories and files with their servers are constants, and so are
the paths it does not know.

**`DirectPagedCache`; `CacheProofs`.** Two process-local modules that share pages and open counts
but not pending pages (`createPendingRequestMap` does not override
`createPendingPageMap`). A failed assertion (`beginRead`) and a use of a deleted
request stop the program; both are outcomes of the model.

**`PageCacheNode`, `MultiCacheOps`, `TwinCache`, `TwinCacheSinglePages`,
`ProgressivePageCacheOps`, `ProgressiveCache`, `PageCaches`; `PageCachesProofs`.** The other three
page caches. `PageCacheNode` is what they share: the processes of a node, open
counts, and the bag of messages at the file system. `MultiCacheOps` is the cache
whose pages may have a twin with the regions written since the page was read;
`TwinCache` is the class built on it, with the states of its write machine, and
`TwinCacheSinglePages` what differs in the copy that sends a message for each
page. `ProgressivePageCacheOps` and `ProgressiveCache` are the cache that keeps
regions without reading the page. `PageCaches` picks the class, as
`middlewareCacheType` does, and states the properties once for all three.

**`Communicators`, `Aggregators`, `TraceScanner`, `Applications`.** An action of
`Applications` is the handling of one message by an application, the MPI
middleware, an aggregator or the cache. A process reads its trace record by
record; a stream is in one of three states because `eof` of the reader fails when
asked again at the end. `Communicators` are the two singletons (ranks by
communicator, participants that wait), `Aggregators` the three classes with the
gathering set of each node. `TraceScanner` is the conversion of a recording to a
trace, as one fold over the calls; some of the jobs replay its output.

The modules compose: `DirectPagedCache` and `BufferCache` use the class of
`LRUCacheOps`, `FileSystem` and `FileBuilder` the operators of
`FixedINodeLayoutOps`; `FileSystem` rests on `DeviceService`, which `BufferCache`
implements; `FileAccess` extends `FileBuilder` and `FileLayouts`; `PageCaches`
extends the three cache classes; `Applications` extends the scanner, the
aggregators and through them the communicators; `NameOperations` takes the table
`FileBuilder` makes. `MC...` modules give constants their values for TLC.

## 3. The runs

| Run | Instance | What it shows |
|---|---|---|
| `lru_cache` | 4 keys, capacity 3, counters modulo 4 | `ListMatchesMap`: list, map and entry counter agree after any calls; `ImplementsRecencyCache`: the class implements a bounded map with recency, reported evictions included |
| `buffer_cache` | 4 requests, 3 data blocks, 1 metadata block, 3 entries, threshold 1 | `OneReadPerPendingBlock`: misses are joined; `NoDirtyBlockLost`: no acknowledged write leaves the cache unsent; `DirtyBounded`: the dirty counter errs to one side only and never trips an assertion; `ImplementsDevice`: the cache is a `DeviceService` |
| `collective_tree` | create, remove, get attributes; 6 data handles | `TreeConsistent`: the handles are shared out without loss or overlap, each counter is the number of answers to come, and no object is processed twice; `ImplementsCollectiveOp`: the tree is one operation that answers once, at the end |
| `file_system` | a read, a write of two regions and an unlink at once | `TransfersAccounted`: counters are exact, the answer follows the last transfer, every byte's block is transferred; `ImplementsFileService`: the file system is a `DeviceService` |
| `file_io` | 2 servers, each with 0, 1 or 7 bytes or skipped; 2 buffers of 2 | `NoUseAfterDelete` of a request or flow; `BytesConserved` under flow control; `RequestsCleanedUp`; `ImplementsTransfer` |
| `direct_paged_cache` | 2 processes, 2 files, 1 shared page, 3 requests, 2 outstanding | `CacheConsistent`: what is waited for is at the file system, closed files leave no page; `NoDirtyPageLost`; `RequestsEnd` |
| `page_caches` | the three classes; 2 processes, 2 files, 2 entries, 4 requests | `CacheConsistent`: page cache, pending pages and counts of region writes agree with what is at the file system; `AnsweredWritesWereCached`; `NoDirtyRegionLost`; `CloseEndsWrites`; `RequestsEnd` |
| `page_caches_lost_write` | the progressive class, 3 requests | finding: the second partial write of a page is lost |
| `name_operations` | 2 clients, 2 servers, a path that crosses twice, 2 operations | `ServersConsistent`: an entry names a whole file, lookups read their own directories; `AnswersKeepPromise`; `OperationsEnd` |
| `applications` | 3 processes on 2 nodes, 7 jobs (2 of them recordings put through the scanner, 1 with two operations pending at once), 3 aggregators | `CollectivesSynchronise`, `GatheredAccessesJoin`; `PendingAreOutstanding`: what a process holds as pending is what has no answer yet; `NeverAborts`, `EveryoneFinishes` (a second WAIT on an answered request goes on, an id is used again); of the scanner `RecordsNameTheirFile` and `RecordedTimeKept`; `TypeOK` |
| `file_access` | 1 to 3 servers, any of them metadata servers; strips of 4, pages of 2, blocks of 4, buffers of 8; a writer and a reader | `HandlesLeadToObjects`, `BlocksDisjoint`, `BlocksHoldRegions` of the file builder; `AccessReachesItsBytes`, `ReadsFindWhatWasWritten`, `BytesInOwnBlocks` of the accesses; `PagesKeepTheirBytes` of the page and region arithmetic |
| `file_access_buffers` | the same with buffers of 3 | finding: a buffer that ends inside a region makes the next one run past the region's end |

**Why the bounds suffice.** They are chosen so that each interesting case happens.
The LRU capacity is one less than the keys, so every insertion order evicts, and
3 list positions distinguish front, middle and back. Four device requests are a
read at the disk, a write that overtakes it and two that evict. Six handles split
into 3, 2 (rounded) and 1 and then again, so odd and even parts appear at two
levels. A region offset of 2 in blocks of 4 with one byte hits the partial-block
arithmetic. Seven bytes are four buffers where two are allowed, the last one
short; 0 is a server without a byte, 1 less than a buffer. One shared page makes
every access of another file evict. Four blocking requests of two processes on
two entries are a write in parts, one that fills the page, an access that pushes
both pages out, and a close. Two operations of two clients on names meet on every
message; the path's directories alternate between the servers, so lookups go
partial twice. Three processes on two nodes are a node that gathers two members
and a node that gathers one. Three servers with strips of 4 and accesses up to 24
bytes are two stripes, so an access begins before, in and after an object's strip
and comes round to it again; file sizes 0 and 24 are a file that grows under its
reader and one that is full. An int has 4 bits (`IntWidth`) where the ids of the jobs
are 1 and 7, which fit. Each mutant of `PROJECT.json` is found under the same
bounds. `SizeMod` replaces 2^64; it is above every value that occurs, so
wrap-around is seen where the code relies on it or would fall below zero, and
nowhere else.

**Inputs left out on purpose.** In `file_access` no region crosses a strip's end
unless it ends at one, and buffers end where regions do, because the code is known
to be wrong there (finding 2 and the list below it); each client makes one access;
joined accesses have offset 0 and one byte per element; opening a file that is not
in the table, an error the code reports by stopping, is not reached. In `page_caches` a process waits
for its answer before it asks again, as a process with blocking calls does, and a
region of a page is longer than a byte. In
`applications` independent accesses are apart from gathered ones, ids fit an int, and a
recording makes communicators by duplication only and has one file open at a time, which
is what the scanner is right for. All jobs but one wait for a non-blocking operation
before they start another; of that one (`OperationsOverlap`) the run shows everything but
`NeverAborts` and `EveryoneFinishes`, because the code is wrong there (section 4).

**Deadlock** is checked except where the system stops by itself when its bounded
supply is used up: `applications` (every trace read), `file_access` (accesses
done), `file_system` (all requests answered), `name_operations`
(`MaxOperations`). But for `file_access`, which is about where bytes go, a
liveness property says there that nothing stops earlier.

**Fairness.** OMNeT++ executes every event that was scheduled, and no module
modelled here cancels an event or drops a message on its way (what is discarded,
like the answer to a write-back, has been handled), so every message sent is
delivered: weak fairness on the delivery of each message
(`BufferCache`, `FileSystem`) or on the disjunction of deliveries, of which only
finitely many can happen (`CollectiveTree`, `FileIO`, `DirectPagedCache`,
`PageCaches`, `NameOperations`, `Applications`, where every step is the handling of
a message that was sent or of the timer that reads the next record). Elsewhere the
application is never forced to make a request.

## 4. Findings

1. `page_caches_lost_write`. `insertPageAndRecall` means to merge the new regions
   into the cached page, but a local variable hides the parameter, so the cached
   page is merged with itself (`client/cache/progressive_page_cache.cc:74`). The
   second partial write of a page is answered, and its data is neither cached nor
   written.
2. `file_access_buffers`. `getSubRegions` gives the region a buffer begins in its
   whole length from there on (`layout/data_type_layout.cc:96`): the buffer runs
   past the region's end, and the last bytes of the layout are never transferred.

**Other things the code does that a reader should know.** They are modelled as
they are, or excluded from the inputs as said:

- *Buffer cache.* `handleBlockResponse` argues that a block that is not cached was
  not written since the read was sent. A write whose entry was evicted meanwhile
  leaves no entry either, and the older contents are cached as clean
  (`os/buffer_cache.cc:228`). Nothing lowers `numDirtyEntries_` when a dirty entry
  is overwritten clean (`common/lru_cache.h:208`), so `percentDirty` is not "the
  percentage of the cache capacity that is dirty"; it errs upwards only
  (`DirtyBounded`).
- *File builder and storage.* The number of blocks of a file is rounded down, so its
  last partial block is the next file's first
  (`os/fixed_inode_storage_layout.cc:42`), and `createFile` rounds the share of a
  server down too (`layout/file_builder.cc:213`); `BlocksDisjoint` and
  `BytesInOwnBlocks` are for sizes that fill their blocks. `createDirectory` uses
  `nextMeta`, a position in `metaServers_`, as a server number
  (`layout/file_builder.cc:131`); the routing by handle stays right. A directory's
  data handle, 64 bits, is kept in an `int` (`layout/file_builder.cc:153`); the
  configurations give 250000 handles to each of at most 512 servers, far below 2^31,
  and the module keeps handles exact. Handle
  ranges and the inodes' area (1000 blocks) are not checked for exhaustion: the
  thousand and first name gets an inode block that is a data block too. A region
  that starts inside a block may be given one block too many
  (`AccessCoversRegion` bounds it). `NoTranslation::getAddresses` returns block 0
  besides the block asked for (`os/block_translator.cc:131`); `BasicTranslator`
  is the one modelled. A block request without blocks sends nothing and is never
  answered.
- *Layouts.* `distributeContiguousRegion` takes the smaller of the extents of
  server and client (`layout/data_type_processor.cc:214`), so a region that crosses
  a strip's end gets too many bytes. An offset at the end of an indexed type's
  block is taken for one in that block (`common/indexed_data_type.cc:111`), whose
  region is then returned from its beginning, and the model does the same. The first row of a subarray is cut by comparing a stream
  offset with a place in the array (`common/subarray_data_type.cc:107`).
  `fileOffset *= 8` in the view aware strategy counts in other units than its
  reader (`client/aggregator/view_aware_access_strategy.cc:93`). `operator<` of
  `DirtyFileRegionSet` holds between equal regions
  (`common/dirty_file_region_set.h:110`), and a clean region inserted inside a
  dirty one leaves a piece of negative extent.
- *Servers' storage.* `DiskScheduler` queues only when its queue is not empty and
  so never does. `SequentialSystemCallInterface` adds the write overhead to every
  request but a read (`else if` on a constant, `os/system_call_interface.cc:78`).
  The mutex access manager keeps the disk's responses, and is commented out of the
  NED file. The request scheduler passes everything on, where
  `doc/requirements/request_scheduler.task` describes a queue per handle.
- *Reads and writes.* A write with no byte on any server waits for ever
  (`client/fs_write_sm.cc:57`); `FileIO`'s `Init` leaves it out. A flow stays
  subscribed to its tag after deletion (`io/job_manager.cc:143`);
  `NoUseAfterDelete` shows that no message follows it. The byte stream
  grows before the data is stored (`ReadsFindWhatWasWritten` is about writes that
  had finished). A server's storage queue is not bounded by the flow's buffers.
- *Collectives on the servers.* `FSCollectiveRemoveSM` sets the sizes of the byte
  streams to zero when the request is sent. A collective on a file without data
  handles would hang; `FileBuilder` makes none.
- *Names.* The name caches' timeouts are read by nobody; another client's removal
  is not seen. Existence is `FileBuilder`'s static table, so a removed name still
  resolves. A creation overlapping a removal of one name may leave an entry
  without objects: `raced` records such names, and the properties are about the
  others. A directory's metadata object is created with the first handle of the
  first metadata server. Stat and utime of unknown paths dereference null; the
  traces contain none.
- *Page caches.* The progressive cache writes the full pages and the partial pages of a
  file by a message each. The one for partial pages has a view of all their regions
  and the count 1 of a type of one byte
  (`client/cache/progressive_page_access_strategy.cc:89`), so one byte is written and
  the rest is gone when the pages leave the cache. `WriteRequests` has such a message
  write no region; `NoDirtyRegionLost` therefore says of a partial page of this
  class no more than that a message for the page is sent, and of full pages and of the
  caches with twins that all of the region is written. In the direct cache pending pages are sets of keys, so the answer
  to an older write-back of a page stands for the close's own; the close is deleted
  while its write is in flight
  (`client/cache/direct_paged_middleware_cache.cc:719`).
  `trimPendingReadPages` returns the union of the differences, not
  their intersection, so a page is asked for again unless *every* request waits
  for it; a read left with no page to ask for stops the program. A request
  completed early by another's page leaves a message whose context is deleted
  (`DanglingContext`). A write larger than the cache leaves stale pages. The
  shared twin caches have pending maps of their own for the same reason as the
  direct one (`TwinCache`); the progressive cache registers evictions under
  request 0 and never removes it.
- *Non-blocking operations.* Every answer schedules the next trace event
  (`client/io_application.cc:137`), so with two operations pending a WAIT, or a
  blocking call, is passed by whichever answer comes first. Such a job, and one that
  does not wait for an operation, comes to the end of its trace with an answer to come;
  when it comes, `eof` of the trace reader is asked again and fails its assertion
  (`common/phtf_io_trace.cc:459`). The ids of the requests are addresses, kept as
  `long`; the id of an answered one goes through an `int` before it is erased from
  `pendingRequestsById_` (`client/phtf_io_application.cc:222`, `AsInt` of
  `Applications`). One of 2^31 or more stays, and a later WAIT on it is for an
  answer that does not come.
- *Aggregators.* The view aware aggregator takes an answer for that of the joined
  request when anything is gathered
  (`client/aggregator/view_aware_middleware_aggregator.cc:91`): an answer to an
  independent access releases the processes that wait in a collective one, and its own
  process gets none.
- *Traces.* `eof` fails its assertion at once for a trace whose last line is empty or
  lacks its newline (`common/phtf_io_trace.cc:438`); `fileSize` of a trace goes through
  an `int` (`common/phtf_io_trace.cc:832`). The scanner gives every record the
  descriptor of the file opened last, and has no record for collective accesses at an
  offset or for `MPI_Comm_split` (`tools/lanl_trace_scan_actions.cc:564`), so what is
  done with the communicator fails when the trace is replayed.

## 5. What is proved

TLC checks the instances of section 3; what follows holds for every value of the
constants. `tlapm` checks each module to the last leaf.

### The LRU class

`CacheProofs` proves

    THEOREM CacheStaysConsistent == LRUSpec => [](LRUTypeOK /\ ListMatchesMap)

for every set of keys and values, every capacity and every counter width with
`0 < maxEntries < SizeMod` (assumptions `CapacityAssumption`,
`SizeModAssumption`: the constructor asserts the first part, the second says that
a `size_t` can hold the capacity).

*Argument.* The properties are not inductive as stated: the type of the list says
nothing about positions, and `IsInjective` and the counter must be used together
to see that erasing one node removes one key. `LRUInv` says that the list is a
sequence of pairwise different keys, that they are the map's keys, that the entry
counter is the list's length and not above the capacity, and that the counters
are in range. Lemmas about the list come first (`RefOfPoints`, `EraseRefShifts`,
`EraseRefRemoves`, `PushFrontAdds`), then one per method (`RemoveEntryKeeps`,
`UpdateEntryKeeps`, `AddEntryKeeps`, `InsertKeeps`, ...); both are in
`LRUCacheOpsProofs`, about the class as a value, so that every user of the class
can cite them. `CacheProofs` adds one step per action of `LRUNext`. The dirty
counter needs no more than its range, which is why the theorem holds although the
counter drifts.

The same module proves, under the same assumptions,

    THEOREM CacheImplementsRecency == LRUSpec => ImplementsRecencyCache

that is, every step of the list, the map and the counters is a step of a map with
an order of use, reported evictions included. *Argument.* The order is the set of
pairs of keys in the order of the list (`RecencyPairs`); `EraseRefOrder` and
`PushFrontOrder` say what the two list operations do to it, and `RefreshUses` and
`InsertUses` what the methods do. The class says full when its counter reaches the
capacity and the abstract cache when its keys are as many: `FullAgrees` needs that
a list of different keys is as long as they are many (`DistinctLength`). The entry
at the list's end is the only one that precedes no other (`LRUKeyLeastRecent`),
so both evict the same.

### The buffer cache

`BufferCacheProofs` proves, for every set of requests and of blocks, every
capacity and every threshold (`BufferAssumption`; `maxEntries < SizeMod - 1`
leaves the dirty counter room to pass the capacity by one before it would wrap),

    THEOREM TypeCorrect        == Spec => []TypeOK
    THEOREM NoWriteLost        == Spec => []NoDirtyBlockLost
    THEOREM MissesJoined       == Spec => []OneReadPerPendingBlock
    THEOREM DirtyCountOneSided == Spec => []DirtyBounded
    THEOREM AnsweredAtMostOnce == Spec => Device!Init /\ [][Device!Next]_(Device!vars)

*Argument.* `IInv` has two halves that hardly depend on each other. `CacheInv`
says that the LRU cache is consistent, that `owed` is the set of dirty entries
and holds no block that is always written through, and `CountOK`, which is why
the drift of the dirty counter does no harm: an entry can be overwritten clean
only when the counter has just passed the threshold, so until then it is exact;
afterwards no write is written behind until an eviction of a dirty entry lowers
it. Two cases need more than that. With a full cache whose entries are all counted
dirty, a write behind must not push the counter above the capacity: that is so
because the counter is exact when the threshold equals the capacity (which it
then never passes), and smaller than the capacity otherwise. And a read that
fills the cache must not overwrite a dirty entry: it inserts only blocks that are
not cached. `WrittenBackIsEvictedDirty` joins the two places where the code
decides what goes (`evictCacheEntry` before, `LRUCache::insert` after): they pick
the same entry. `MessagesOK` and `FillsOK` say where each message is: waiting,
written through or answered, never two of them, and each waiting reader has one
read of its block at the disk. From these every step is one of the abstract
`DeviceService` (asked, answered, or asked and answered at once) or leaves it
alone. The liveness part of `ImplementsDevice` is TLC's.

### The distribution of a file

`StorageProofs` proves, for every strip size, number of servers and offset
(`FileLayoutsAssumption`: the strip and page sizes are positive),

    THEOREM EachByteHasOneObject   each byte is mapped by exactly one object
    THEOREM NextMappedIsNext       the next mapped offset is on its object, not
                                   before the offset, and nothing between is
    THEOREM PlaceTellsTheByte      two bytes never share a place
    THEOREM EveryPlaceHasAByte     and no place is without one

*Argument.* An offset is a stripe, a strip and a rest (`Decompose`, `Compose`, from
the uniqueness of division, `DivModUnique`). In these the code's three cases
of `nextMappedLogicalOffset` (before the object's strip, in it, after it) become
`NextMappedCases`, and each theorem is a comparison of the parts. An offset before
the object's first strip, where the remainder the code takes would be negative, is a
case of its own in the code and in the proof.

### The file system

`StorageProofs` also proves, for every set of file requests with any regions, every
block size and number of addresses of a block (`FileSystemAssumption`,
`LayoutAssumption`; a request's regions are of natural numbers),

    THEOREM FSTransfersAccounted == Spec => []TransfersAccounted
    THEOREM FSImplementsService  == Spec => Service!Init /\ [][Service!Next]_(Service!vars)

*Argument.* `FSInv` follows a request's three block requests (metadata read,
metadata written, data). `BlockOK`: a block request is with the translator, with the
device or finished, in one of these only; what the device has no more of it is done;
and its counter is the number of what it still has. So the response that finds the
counter at one is the last. `RequestOK` says for every state of the machine which of
the three may be under way. The state that needs it is `META_COMPLETE`, which the
code enters at the first of two responses whichever it is: the invariant is that one of
the two is through, and with it the second response, whichever it is, finds both
done.

That the blocks transferred hold every byte asked for is arithmetic: `BytesInBlocks`
says that the blocks of a region, with the code's unsigned remainder to the next block
boundary and its rounding, begin at the block of the first byte, reach the block of the
last one and at most one beyond. It holds for every offset and extent that are natural
numbers; of the code's unsigned operations only the subtraction wraps in the model
(`BytesToBoundary`), sums of 2^64 and more are not reached by files. `FlattenedSet` carries it from one region to the list of all, a fold over
the regions, and `DeviceRequestsAre` to the addresses.

### The file builder

For any number of servers, any choice of metadata servers, any sizes, and any
directories and files of a trace, built in any order and then accessed
(`BuilderAssumption`: sizes are natural numbers, paths are finite sequences, and the
root is not a file), `StorageProofs` proves

    THEOREM AccessHandlesLeadToObjects == AccessSpec /\ []RangesLast => []HandlesLeadToObjects
    THEOREM AccessBlocksDisjoint       == AccessSpec /\ []RangesLast => []BlocksDisjoint
    THEOREM AccessBlocksHoldRegions    == AccessSpec /\ []RangesLast => []BlocksHoldRegions

*The hypothesis.* `getNextHandle` (`layout/file_builder.cc:113`) does not look at the
end of a server's range, and how long a range is (`handlesPerServer`) is a parameter of
the simulation. A server whose range is used up hands out handles of the next server's
range. So the theorems are about the behaviours in which no server goes past its range
(`RangesLast`). All of those of the run are: its ranges have 100 handles. With
`HandleSpan = 4` instead TLC finds `HandlesLeadToObjects` violated: without the
hypothesis the theorem is false.

*Argument.* `BuilderInv` is about the tables as one record, which is what
`createDirectory` and `createFile` change. `ServersOK`, for each server: every stored
handle has an inode block and an interval of data blocks of its own (`LayoutOK`), and
is between the first handle of the range and the next one. `ObjectsOK`: metadata and
data handles are all different, the parent of every name is a name, and what is stored
is what the metadata refers to. Two servers' handles are different because they are in different ranges
(`OwnerIs`): that is where `RangesLast` is used. A loop's intermediate states are not
states of the specification, so `RangesLast` is not given for them; but handles are
only handed out and never taken back, so it holds during a loop if it holds after it.

The recursion over missing directories is, in the model, a fold over them.
`MissingIs` says that they are the prefixes of the path after an existing one, so that
each has its parent when its turn comes (`DirectoriesInSteps`, `DirectoriesKeep`). A
file takes one data handle from each server, starting at a random one: `TurnsDiffer`,
that this order visits no server twice, is why its handles are different
(`ObjectsStored`, `FileKeeps`). `AccessBlocksHoldRegions` adds the arithmetic of the
file system: `BlocksOfRegion` combines `BytesInBlocks` with `NumBlocksHold`, that a
region has at most one block too many.

### The direct paged cache

`CacheProofs` proves, for any number of processes, files and regions, any
capacity, any bound on the requests and any order of the answers
(`DirectPagedAssumption`: processes and the pages of a region are finitely many),

    THEOREM DirectPagedConsistent == Spec => []CacheConsistent
    THEOREM DirtyPagesWritten     == Spec => NoDirtyPageLost

*Argument.* A page a request waits for must be in a message at the file system, but a
request need not have sent it: it joined another's read, whose answer may also complete
it early. So `DPInv` does not tie messages to requests except where the code does.
`Msgs`: a message that is passed on to the application (an open, a close of not the
last, a write past the cache) is the only message of its request, and a read is of
its request's file as long as that is there. `ModuleOK`, for each process: what is
pending belongs to requests that are there and pass nothing on, and every page in it
is in a message of that process. `Counted`: the open count of a file is the number of
processes that have it open or are opening it. It is not enough that counts are
positive, since a close lowers it and the last one must be the last. `CacheOpen`: the
shared LRU cache is consistent (`LRUCacheOpsProofs`), and its pages are of files with
a count. An answer to a read that comes after its file was closed would break this. It
cannot come: a process closes a file when its own requests on it are answered, and an
answer whose request is gone stops the program (`DanglingContext`).

The code goes over sets of keys in the order of `operator<`. `InOrderVisits` shows that
a finite set of keys has such an order, by the least counterexample, and `FoldRuns`
that a loop is the sequence of the cache after each turn; `LookupLeaves`,
`UpdateLeaves`, `FlushLeaves` and `WritebacksLeave` say what the four loops leave
behind: that an update evicts only what it reports, a flush removes every page of the
file, and the runs of pages that write-backs join hold exactly the pages they were given.
Then there is one lemma for each action. For `NoDirtyPageLost` it remains that a page
which leaves the dirty set is among those reported (`EvictedWritten`) or flushed, and
that a write of it is added while none is removed (`MoreWrites`): an answer removes the
message of a write only in `WrittenBack`, which leaves the cache as it is.

### The page caches

`PageCachesProofs` proves, for any number of processes, files and accesses, any
capacity, any number of outstanding requests and any order of the answers,

    THEOREM PageCachesConsistent    == Spec => []CacheConsistent
    THEOREM DirtyRegionsKept        == Spec => NoDirtyRegionLost
    THEOREM CloseWaitsForWrites     == Spec => CloseEndsWrites
    THEOREM ProgressiveRequestsWait == Spec => []ProgressiveIsAtFs

    THEOREM BlockingWritesReachTheCache ==
      MaxOutstanding = 1 => (Spec => []AnsweredWritesWereCached)

All but `ProgressiveRequestsWait` are properties of the run `page_caches`, for all
three classes of cache; that one is the progressive part of `CacheConsistent` by
itself. The last has a hypothesis, which the run meets: calls block, so a module has
one request at a time, as the one of a process that waits for each call. With two
requests of a module outstanding TLC finds the property violated.

*The inductive invariant* is `CacheInv`. For the classes with twins it holds of the
cache that it is listed and within its capacity, a dirty page having no twin
(`MultiOK`), and of each module (`ModuleOK`) that its lists of pending pages are those
of its own live requests, that the pages in them are in messages the module has sent,
that the count of a request's region writes is the number of them at the file system
(`Counted = Total`), copies included, and that a request has an entry exactly if it is
not passed on. `CacheConsistent` alone is not inductive: an answer to a region write
lowers the count of the request it names, so the count is exact only if every such
message at the file system names a request of the module it came from (`MessagesOK`)
and none of a passed-on request. For the progressive class the cache is `PagesOK`, and the
requests are `Accounted` (below).

*Argument, the loops.* The updates of the caches are folds over the pages in order,
and over what was recalled. Each is unfolded to a run of single insertions, lookups or
removals (`FoldRuns`, one loop for each fold of the model), and the invariant of the
loop holds after every turn (`EveryTurn`): the cache is as it should be, what it pushed
out is a list of pages and regions, and every dirty region of before is in the cache or
in that list (`InsertFullKeeps`, `InsertPartKeeps`, `InsertPageKeeps`, then
`InsertLeaves`, `PartLeaves`, `ReadsLeave`, `WritesLeave`, `FlushLeaves`). The messages
made of the list write every region of it (`HandedIsSent`, `PagesOut`), and their number
is what is added to the count. `IsWriteOf` says which messages count as a write of a
region: for a partial page of a progressive cache any that is for the page, since none
writes the region (section 4), and the theorem says no more of it.

*Argument, the steps.* A handler of a cache with twins is followed through its parts:
`Working` says what the lists and messages of the module are in the middle of it, and
`Carried` where each dirty region is, in the cache, in what was pushed out or already in
a message. The parts are sends and registers (`TwinReadsSent`, `WritesSent`), answers
(`AnswerTaken`), and the ends (`StepEnds`, `StepWrites`); the other modules see only that
their own messages stay (`Apart`, `OthersStay`). The two classes differ in how pages
are grouped into messages, so each send is stated for any messages that cover the pages
(`ReadsOut`, `WritesOut`) and the lemma for a class only shows that its messages do.
`TwinSteps` and `ProgressiveSteps` then say for any step that a dirty region is still
held or one more write of it is sent while none goes; from these the theorems are read
off (`CacheTyped`, `TwinsWait`, `DirtyStays`).

*Argument, a progressive node.* Its modules share one map of pending requests. Its
entry 0 takes the writes of evicted pages, which belong to no request, and it is not
enough that every write is in some entry: a close is answered when no entry has a write
of its file, so a write that is sent twice must stay registered when the first copy is
answered. `Accounted` therefore counts: a write at the file system is in the entry of
the request it was sent for, as often as it is at the file system, and an entry has no
others (`SentFor`, `WaitsFor`). A message that is passed on has a request with no entry,
so no entry is in its way when it is answered. The lemmas follow the code: a request
that is forwarded (`ForwardSent`, `ForwardAnswered`), writes and reads that are sent
and registered (`WritesRegistered`, `ReadsSent`, `ReadsRegistered`), answers
(`PagesResolved`, `WriteResolved`), and the completion that ends every handler
(`Completes`), where `CloseEndsWrites` is read off. A read may wait only for pages that
others asked for: `trimPendingReadPages` leaves a page out when every entry waits for it,
and then some entry knows its message.

*Argument, blocking writes.* A write that is not all in the cache may be answered only
when it is, and nothing in the code says so: it is answered when the reads it counted
are used up. `BlockingInv` is what makes that right, on top of `CacheInv`, for the
classes with twins. A module has one live request (`AloneIn`), so every read of the
module at the file system was sent for it, is there once, and its pages are registered
as pending and in no other read (`Waiting`). Then a write with pages that are not cached
(`uncached`) has a read of its own still to come, and for the single page class, which
counts, `pendingReadCount` is the number of those reads, one more once the first answer
has come (`Gathering`, `ToCome`). A request that ends has no read left (`ReadsOf`),
so none is answered too early. The other modules only add and take messages of
their own (`GatherOn`, `WaitsSame`), and writes come and go without disturbing a read
(`SameReads`). With two requests the second may find a page of the first already
pending, wait for a read it never sent, and the count no longer speaks of its own.

### The collective operations

`CollectiveTreeProofs` proves, for every number of data
handles (`TreeAssumption`: at least one) and every choice of operations,

    THEOREM PartsShareOut          the parts sent to the children hold every handle,
                                   and no two of them the same
    THEOREM TreeStaysConsistent    == Spec => []TreeConsistent
    THEOREM OneOperationToItsClient == Spec => Op!Init /\ [][Op!Next]_(Op!vars)

The last is the safety of the refinement of `CollectiveOp`: each object is processed
once, the directory entry after all the others, and the response follows.

*Argument.* The parts are intervals of the data between `n \div 2^i` and
`n \div 2^(i-1)`. That powers grow is not proved by induction here; they
are taken as what they count: `2^i` is the number of subsets of `1..i`
(`PowerCountsSubsets`), from which they are monotone, exceed their exponent and
double. Then the remainders fall strictly until they are zero (`LeftFalls`,
`RoundsEnd`), and the intervals between them partition `1..n`
(`RoundsPartition`). The number of rounds is the cardinality of an initial segment
(`InitialSegment`). `TreeConsistent` is not inductive: that a counter is exact in
one state depends on what the node's children were in the states before. `NodeOK`
says for every state of a node's machine which children it may have and which of
them are done: none before it was received, only the metadata request while that is
awaited, only data requests running while it waits for all, only the attributes
request after that, and none running in the states that only wait for the disk.
`OneNodeChanges` is the lemma that makes this local: a step changes one node, deletes
children of it that have answered, and adds new ones, and from `NodeOK` of that
node alone the invariant follows for all. `ResponseTaken` is the heart: one
answer, from the disk or a child, is one of those counted, so a counter of one means
that nothing is left, whichever came last.

Counters alone do not say that no object is processed twice or that none was left out
when the answer goes to the client. `Progress` adds to each node its `Claim`: its own
handle and, as long as it has not passed them on, those of its data. Claims of
different nodes never overlap, what has been processed is what the nodes beyond their
disk access claimed, and a node that finished leaves none of its data unprocessed.
`StepProgress` is again the local form: it asks of a step only what it does to the
claim of the node it changes and of those it adds. From `Progress`, `OthersFirst`
shows that the directory entry's node finds everything else processed.

### The operations on names

`NameOperationsProofs` proves, for any number of clients and servers, any finite or
infinite set of paths and any capacity of the two caches,

    THEOREM ServersStayConsistent == Spec => []ServersConsistent
    THEOREM AnswersAreTrue        == Spec => AnswersKeepPromise

`NameOperationsAssumption` has what `FileBuilder` makes true of its table: the parent of
every path is a directory, a directory's entries are with its metadata, a file has a
data object, a path that is not in the table has no file on its way, and the first
handle of the first metadata server belongs to a path of the table.

*Argument.* Neither property is inductive: that an entry names a whole file depends on
what the client that makes it did several rounds earlier, while others use the same
servers. The invariant `IInv` has five parts. `Typed`; `ClientInv`: what a client has
under way are the requests of its machine's current round, each at most once, its
counter is their number, and its caches and `resolved` are right for its path;
`RacesNoted`: a creation and a removal of one path that are both unfinished are in
`raced`; `EffectsKept`: a machine whose path is not raced still finds in storage the
effect of every request of its earlier rounds and of those of the present round that
were answered; and `EntriesNameWholeFiles` itself. `EffectsKept` is the one that makes
the rest inductive: `createDirEnt` is the last round of a creation, so when the entry
is made the objects of the rounds before are there, and `removeDirEnt` is the first of
a removal, so the entry is gone before any object goes. The one object several paths
may touch is `FirstHandle` (a directory's creation makes it, whatever the path), and
the proof keeps it apart throughout. A lookup's share is arithmetic on prefixes: the
servers resolve the longest prefix each of them holds, and the next one begins there
(`LookupOK`), until the longest known prefix is resolved.

### Reads and writes

`FileIOProofs` proves, for any number of servers, any sizes of the region and of the
byte streams, and any number and size of buffers (`NumServersAssumption`,
`BufferAssumption`: at least one of each; `SizesAssumption`: sizes are natural numbers),

    THEOREM NothingUsedAfterDelete == Spec => []NoUseAfterDelete
    THEOREM NoByteLost             == Spec => []BytesConserved
    THEOREM TransfersWhatWasAsked  == Spec => Transfer!Init /\ [][Transfer!Next]_(Transfer!vars)

The last is the safety of `ImplementsTransfer`. `Init` leaves out the write that asks no
server, which the code never finishes (section 4).

*Argument.* Whether an object is still there when a message needs it depends on where
all other messages of the same server are, in the calendar, on the network, at the
disk. So the invariant counts them: `N(at, type, s)` is the number of events of a kind
that are due, `Sent(q, type)` that of packets in a queue, each a sum over the sequence
(`Total`, a fold). `Asking`, `Answering`, `Starting`, `Finishing` and `Completing` add
these up along the way of the request, of the response, of the start and the finish of
the server's flow and of the completion. `RequestOK` then says that each of these
journeys is under way at most once, and in which states of the handler, of the request
and of the flows; `FlowsOK` the same of the flows' own messages; `MovedOK` is
`BytesConserved` with the types of the flows and the fact that a flow is done or gone
exactly when both its totals are the server's share. Three parts are less obvious.
`BuffersFull`: while the source has more to hand out, every buffer on its way is full.
Without it an acknowledgement could make room for less than the next buffer, and the
window would be exceeded. `AnswerFirst`: the response of a read is ahead of its data
in the network and in the calendar, although the handler sends the flow's start first.
The disk takes time, the response does not. Without it a read's flow could end at the
server, and the request be deleted, with the response still on its way. `RemainingOK`: the
client's three counts are the numbers of servers whose answer, flow and completion are
still to come, so all of them are zero only when nothing is left that could reach it.
All parts but `RemainingOK` and the calendar's type speak of one server.
`HandledElsewhere` and `DeliveredElsewhere` show once that an event handled for one
server, or delivered to it, changes no count of another, so `OthersKept`; and the
sets the client counts change at that server only (`StepKeeps`).

For the refinement, what reached its destination (`Moved`) changes only when data
arrives at the client or a disk answers a write, and by no more than is missing, which
is `MovedOK` read from the other end; while the client is `FINISH` neither can happen.
When it becomes `FINISH` every flow is gone, so every share is complete
(`FinishedHasAll`).

### Only model-checked

- *Liveness* and everything under fairness (`ImplementsDevice`,
  `ImplementsFileService`, `ImplementsCollectiveOp`, `ImplementsTransfer`,
  `RequestsEnd`, `OperationsEnd`, `RequestsCleanedUp`, `EveryoneFinishes`): outside what TLAPS proves. The safety parts of the first four are
  proved.
- *`FileAccess`*: its four properties of accesses (`AccessReachesItsBytes`,
  `ReadsFindWhatWasWritten`, `BytesInOwnBlocks`, `PagesKeepTheirBytes`) compare the
  recursion over nested data types with a count of bytes: induction over data. The
  provers cannot use an induction theorem for it, because these take an operator as a
  parameter. What does not depend on the types, where a byte goes once its offset is
  known, is proved (above).
- *`Applications`*: its instance of the trace scanner and of the jobs is bound to
  recursive definitions, and modules with RECURSIVE operators are out of the provers'
  reach.

Where a proof needs induction over numbers it argues by the least counterexample
instead (`LeastNat`, from the theorem that `<` on `Nat` is well founded). So
`FileIOProofs` shows that the folds it counts with are sums of prefixes (`FoldExists`,
`SumIs`, `SumConcat`), `StorageProofs` that a fold over regions collects the blocks of
each (`FlattenIs`) and that the loops of the file builder take their turns
(`FoldedRuns`, `EveryTurn`), and `CacheProofs` that its loops run to their end.

## 6. Not modelled

- *Time* (service times, latencies, bandwidth, processing delays): the properties
  are about order, not duration. Contents of files, pages and blocks.
- *MESI cache, cache directory, page reads* (`client/cache/*mesi*`,
  `cache_directory.*`, `fs_read_pages_sm.cc`, `server/read_pages.cc`): unfinished.
  Nothing adds an entry to the directory, no invalidation is made or handled, and
  `processFileRead` casts the answer's request to an unrelated class, so the
  behaviour is undefined from the first answer on. No configuration or test uses
  them.
- *`change_dir_ent`*: no client sends the request.
- *Disk scheduler*, *system call interface*, *disk access manager*: pass messages
  on, or are not built (see section 4).
- *Network endpoints*: connection set-up by handle. The other modules take a
  channel that delivers every message, which is what the endpoints give once
  connected.
- *Ethernet*: changed copies of INET's modules. *Configuration* runs once before
  the simulation. *Messages* are plain data.
- *Trace readers*: the older parser of recordings (`tools/lanl_trace_parser.cc`)
  is built by no makefile, and the reader of UMD traces has no application. Of the
  two readers that are used, the end of the file and the kinds of record are
  modelled, not the text.
- *Dirty region sets*: only as the progressive page cache uses them, whose pages
  never mix dirty and clean regions.

## 7. Plan

The order is by how much of the system's correctness rests on a part.

Done: the LRU class, the buffer cache over `DeviceService`, the collective
operations over `CollectiveOp`, the file system and its layout, the file builder,
reads and writes over `FileTransfer`, the direct page cache, operations on names,
the page caches with twins and the progressive one over `MultiCache`, applications
with MPI middleware, aggregators and scanner, and data types, layouts and region
sets in `FileAccess`.

Left:

1. Network endpoints: two sides that connect at the same time.
2. MESI cache and directory, if the code is finished.
3. Larger accesses in `FileAccess`: several accesses of a client, types nested in
   types.
4. Proofs: insertion into a region set.
