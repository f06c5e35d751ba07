----------------------------- MODULE FileBuilder -----------------------------
(***************************************************************************)
(* layout/file_builder.cc: servers register their handle ranges, then the  *)
(* simulated file system is populated with the directories and files of a  *)
(* trace, and the storage layout of the server's file system is told of     *)
(* every object.  A path is the sequence of its segments, <<>> the root.   *)
(***************************************************************************)
EXTENDS FixedINodeLayoutOps, SequencesExt, FiniteSets

CONSTANTS Directories, Files,   \* paths of the trace
          FileSize,             \* [Files -> bytes]
          MetaDataSize,         \* defaultMetaDataSize_
          DirectorySize,        \* DEFAULT_DIRECTORY_SIZE
          DefaultSize,          \* DEFAULT_BSTREAM_SIZE
          HandleSpan,           \* handles in a server's range
          MaxServers            \* bound: servers that register

ASSUME BuilderAssumption ==
  /\ HandleSpan \in Nat \ {0} /\ MaxServers \in Nat \ {0}
  /\ FileSize \in [Files -> Nat]
  /\ \A p \in Directories \union Files : p \in Seq(Range(p))
  /\ <<>> \notin Files
  /\ {MetaDataSize, DirectorySize, DefaultSize} \subseteq Nat

VARIABLES
  servers,      \* nextServerNumber_: servers are 0..servers - 1
  metaServers,  \* metaServers_, in registration order
  nextHandle,   \* nextHandleByServer_
  nameToHandle, \* nameToHandleMap_
  metaData,     \* handleToMetaMap_: handle -> the data handles of the object
  storage,      \* the storage layout of each server; a name is a handle
  size,         \* ghost: the bytes each handle was given
  populating,   \* registration is over
  processed     \* trace entries gone through: their number is totalCount
builderVars == <<servers, metaServers, nextHandle, nameToHandle, metaData, storage,
                 size, populating, processed>>

NoEntries == [x \in {} |-> 0]

\* Ranges do not overlap: server s owns the handles from s * HandleSpan.
First(s) == s * HandleSpan
Owner(h) == h \div HandleSpan
FileExists(path) == path \in DOMAIN nameToHandle

BuilderInit ==
  /\ servers = 0 /\ metaServers = <<>> /\ nextHandle = NoEntries
  /\ nameToHandle = NoEntries /\ metaData = NoEntries
  /\ storage = NoEntries /\ size = NoEntries
  /\ populating = FALSE /\ processed = {}

RegisterFSServer(isMeta) ==
  /\ ~populating /\ servers < MaxServers
  /\ servers' = servers + 1
  /\ nextHandle' = Put(nextHandle, servers, First(servers))
  /\ storage' = Put(storage, servers, EmptyLayout)
  /\ metaServers' = IF isMeta THEN Append(metaServers, servers) ELSE metaServers
  /\ UNCHANGED <<nameToHandle, metaData, size, populating, processed>>

StartPopulating ==
  /\ ~populating /\ metaServers # <<>>
  /\ populating' = TRUE
  /\ UNCHANGED <<servers, metaServers, nextHandle, nameToHandle, metaData, storage, size, processed>>

-----------------------------------------------------------------------------
\* The part of the state createDirectory and createFile update.
Tables == [next |-> nextHandle, names |-> nameToHandle, meta |-> metaData,
           storage |-> storage, size |-> size]
SetTables(t) ==
  /\ nextHandle' = t.next /\ nameToHandle' = t.names
  /\ metaData' = t.meta /\ storage' = t.storage /\ size' = t.size

\* layoutManager.addFile: the file system of server s makes room for handle h.
Stored(t, s, h, bytes) ==
  [t EXCEPT !.storage[s] = AddFile(@, h, bytes), !.size = Put(@, h, bytes)]

\* The body of createDirectory after the recursion: a metadata handle and one
\* data handle for the entries, both on the metadata server.
\* Mutant of AddDirectory: the entries' handle is not taken.
AddDirectorySharedHandle(t, path, s) ==
  LET h == t.next[s]
      u == Stored(Stored(t, s, h, MetaDataSize), s, h + 1, DirectorySize)
  IN [u EXCEPT !.next[s] = @ + 1, !.names = Put(@, path, h), !.meta = Put(@, h, <<h + 1>>)]
AddDirectory(t, path, s) ==
  LET h == t.next[s]
      u == Stored(Stored(t, s, h, MetaDataSize), s, h + 1, DirectorySize)
  IN [u EXCEPT !.next[s] = @ + 2, !.names = Put(@, path, h), !.meta = Put(@, h, <<h + 1>>)]

\* The server number the recursion gives the k-th ancestor of a path placed on
\* server s: the code reduces it by the number of metadata servers.
NextMeta(s, k) == IF k = 0 THEN s ELSE (s + k) % Len(metaServers)

\* The missing ancestors of a path, itself included, from the top: the
\* recursion stops at the first one that exists.
MissingDirectories(t, path) ==
  LET lengths == {n \in 0..Len(path) :
                    \A m \in n..Len(path) : SubSeq(path, 1, m) \notin DOMAIN t.names}
      shortest == CHOOSE n \in lengths : \A m \in lengths : n <= m
  IN IF lengths = {} THEN <<>>
     ELSE [i \in 1..Len(path) - shortest + 1 |-> SubSeq(path, 1, shortest + i - 1)]

WithDirectory(t, path, s) ==
  FoldLeft(LAMBDA acc, dir : AddDirectory(acc, dir, NextMeta(s, Len(path) - Len(dir))),
           t, MissingDirectories(t, path))

\* populateFileSystem: each entry once, placed round robin, directories first.
MetaServer == metaServers[(Cardinality(processed) % Len(metaServers)) + 1]

CreateDirectory(path) ==
  /\ populating /\ path \notin processed
  /\ SetTables(WithDirectory(Tables, path, MetaServer))
  /\ processed' = processed \union {path}
  /\ UNCHANGED <<servers, metaServers, populating>>

\* createFile: the parents, one metadata handle, and one data handle from
\* every server, beginning with a random one.  A data object without bytes is
\* given the default room.
LocalSize(path) ==
  IF FileSize[path] \div servers # 0 THEN FileSize[path] \div servers ELSE DefaultSize
WithFile(t, path, s, firstServer) ==
  LET u == WithDirectory(t, Front(path), NextMeta(s, 1))
      h == u.next[s]
      v == [Stored(u, s, h, MetaDataSize) EXCEPT !.next[s] = @ + 1]
      order == [i \in 1..servers |-> (firstServer + i - 1) % servers]
      data == [i \in 1..servers |-> v.next[order[i]]]
      w == FoldLeft(LAMBDA acc, i : Stored(acc, order[i], data[i], LocalSize(path)),
                    v, [i \in 1..servers |-> i])
  IN [w EXCEPT !.next = [x \in DOMAIN @ |-> @[x] + 1],
               !.names = Put(@, path, h), !.meta = Put(@, h, data)]

CreateFile(path) ==
  /\ populating /\ path \notin processed /\ Directories \subseteq processed
  /\ IF FileExists(path)
     THEN SetTables(Tables)   \* the code prints an error
     ELSE \E firstServer \in 0..servers - 1 :
            SetTables(WithFile(Tables, path, MetaServer, firstServer))
  /\ processed' = processed \union {path}
  /\ UNCHANGED <<servers, metaServers, populating>>

BuilderNext ==
  \/ \E isMeta \in BOOLEAN : RegisterFSServer(isMeta)
  \/ StartPopulating
  \/ \E path \in Directories : CreateDirectory(path)
  \/ \E path \in Files : CreateFile(path)

BuilderSpec == BuilderInit /\ [][BuilderNext]_builderVars

\* No server hands out a handle beyond its range; getNextHandle does not look.
RangesLast == \A s \in DOMAIN nextHandle : nextHandle[s] <= First(s) + HandleSpan

-----------------------------------------------------------------------------
\* The handles of objects.
DataHandles == UNION {Range(metaData[h]) : h \in DOMAIN metaData}
Handles == DOMAIN metaData \union DataHandles

TablesOK ==
  /\ servers \in 0..MaxServers
  /\ Range(metaServers) \subseteq 0..servers - 1
  /\ DOMAIN nextHandle = 0..servers - 1
  /\ Range(nameToHandle) \subseteq DOMAIN metaData
  /\ DOMAIN storage = 0..servers - 1
  /\ \A s \in DOMAIN storage : DOMAIN storage[s].dataBlocks = DOMAIN storage[s].metaDataBlocks
  /\ populating \in BOOLEAN /\ processed \subseteq Directories \union Files

\* A handle names one object: no two paths share a metadata handle, no data
\* handle is a metadata handle or belongs to two objects, and what the servers
\* will hand out next is none of them.  (Within the ranges: getNextHandle does
\* not look at the end of a range.)
HandlesUnique ==
  /\ \A p, q \in DOMAIN nameToHandle : nameToHandle[p] = nameToHandle[q] => p = q
  /\ DataHandles \cap DOMAIN metaData = {}
  /\ \A g, h \in DOMAIN metaData : \A i \in DOMAIN metaData[g], j \in DOMAIN metaData[h] :
       metaData[g][i] = metaData[h][j] => g = h /\ i = j
  /\ \A h \in Handles : h < nextHandle[Owner(h)]

\* The server that owns a handle's range is the one that has storage for it,
\* and no storage is reserved that no object refers to: a request routed by
\* handle reaches the server that has the object's blocks.
Stores(s) == DOMAIN storage[s].dataBlocks
StoredWhereRouted ==
  /\ \A h \in Handles : {s \in 0..servers - 1 : h \in Stores(s)} = {Owner(h)}
  /\ UNION {Stores(s) : s \in 0..servers - 1} = Handles
  /\ \A p \in DOMAIN nameToHandle : p # <<>> => FileExists(Front(p))

\* An object's handle is its own and leads to the server that stores it
\* (getNextHandle, getMetaServer, addFile), in well-formed tables.
HandlesLeadToObjects == TablesOK /\ HandlesUnique /\ StoredWhereRouted

\* No two objects of a server share an inode block, and no two share one of the
\* data blocks that were assigned: those lie between the inodes' area and the
\* next free block.
BlocksOf(s, h) ==
  LET first == storage[s].dataBlocks[h] IN first .. (first + (size[h] \div BlockSize) - 1)
BlocksDisjoint ==
  \A s \in 0..servers - 1 : \A g, h \in Stores(s) :
    /\ BlocksOf(s, g) \subseteq FirstDataBlock..(storage[s].nextDataBlock - 1)
    /\ g # h => /\ storage[s].metaDataBlocks[g] # storage[s].metaDataBlocks[h]
                /\ BlocksOf(s, g) \cap BlocksOf(s, h) = {}

\* Every byte of a region inside an object is in a block the region is turned
\* into, wherever the region starts and ends, and an access takes at most one
\* block that holds none of its bytes.
Regions(n) == {r \in [offset : 0..n, extent : 1..n] : r.offset + r.extent <= n}
HoldingBlocks(s, h, r) ==
  {storage[s].dataBlocks[h] + (b \div BlockSize) : b \in r.offset..(r.offset + r.extent - 1)}
AccessCoversRegion ==
  \A s \in 0..servers - 1 : \A h \in Stores(s) : \A r \in Regions(size[h]) :
    LET blocks == Range(RegionBlocks(storage[s].dataBlocks[h], r))
    IN /\ HoldingBlocks(s, h, r) \subseteq blocks
       /\ Cardinality(blocks) <= Cardinality(HoldingBlocks(s, h, r)) + 1
=============================================================================
