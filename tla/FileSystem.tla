----------------------------- MODULE FileSystem -----------------------------
(***************************************************************************)
(* The file system of an I/O node (os/file_system.cc) with the block       *)
(* translator under it (os/block_translator.cc).  A file request becomes   *)
(* block requests, a block request becomes device requests, and the layer  *)
(* below (DeviceService; BufferCache implements it) answers the device     *)
(* requests in any order.                                                  *)
(***************************************************************************)
EXTENDS FixedINodeLayoutOps, FiniteSets, SequencesExt, FiniteSetsExt

CONSTANTS Requests,       \* file requests
          Kind,           \* [Requests -> kinds]
          FileRegions,    \* [Requests -> Seq of regions], for reads and writes
          FirstBlock,     \* the file's first data block
          MetaBlock,      \* the file's inode block
          AddrsPerBlock,  \* 8 in BasicTranslator: 4096 / 512
          NoATime         \* noATime_

IsIO(f) == Kind[f] \in {"read", "write"}
ASSUME FileSystemAssumption ==
  /\ Kind \in [Requests -> {"open", "create", "unlink", "read", "write"}]
  /\ AddrsPerBlock \in Nat \ {0}
  /\ FirstBlock \in Nat /\ MetaBlock \in Nat /\ NoATime \in BOOLEAN
  /\ \A f \in Requests : IsIO(f) => FileRegions[f] \in Seq([offset : Nat, extent : Nat])

\* The block requests a file request gives rise to.
BlockRequests == Requests \X {"readMeta", "writeMeta", "data"}

VARIABLES
  fsState,     \* the request's cFSM; "new" before it arrives
  translating, \* block requests on their way to the translator
  remaining,   \* numRemainingResponses of each block request
  devices,     \* device requests the layer below has not answered
  finished,    \* block responses on their way to the file system
  answered,    \* file requests whose response was sent
  done         \* ghost: the device requests answered so far
vars == <<fsState, translating, remaining, devices, finished, answered, done>>

-----------------------------------------------------------------------------
\* getDataBlocks pushes the regions behind as many default {0, 0} regions,
\* each of which is turned into no block.
\* Mutant of DataBlocks: the last region of a list is lost.
DataBlocksShort(f) ==
  LET n == Len(FileRegions[f])
      regions == [i \in 1..2 * n - 1 |-> IF i <= n THEN [offset |-> 0, extent |-> 0]
                                                   ELSE FileRegions[f][i - n]]
  IN IF n <= 1 THEN RegionBlocks(FirstBlock, FileRegions[f][1])
     ELSE FlattenSeq([i \in 1..2 * n - 1 |-> RegionBlocks(FirstBlock, regions[i])])
DataBlocks(f) ==
  LET n == Len(FileRegions[f])
      regions == [i \in 1..2 * n |-> IF i <= n THEN [offset |-> 0, extent |-> 0]
                                               ELSE FileRegions[f][i - n]]
  IN FlattenSeq([i \in 1..2 * n |-> RegionBlocks(FirstBlock, regions[i])])

BlocksOfRequest(b) == IF b[2] = "data" THEN DataBlocks(b[1]) ELSE <<MetaBlock>>
IsRead(b) == b[2] = "readMeta" \/ (b[2] = "data" /\ Kind[b[1]] = "read")
WriteThrough(b) == b[2] = "writeMeta" /\ ~NoATime

\* BasicTranslator::getAddresses.
GetAddresses(block) == [i \in 1..AddrsPerBlock |-> block * AddrsPerBlock + i - 1]

\* One device request per address of each block of the request.
DeviceRequests ==
 [b \in BlockRequests |->
  {[parent |-> b, index |-> <<i, j>>, address |-> GetAddresses(BlocksOfRequest(b)[i])[j],
    read |-> IsRead(b), through |-> WriteThrough(b)] :
     i \in 1..Len(BlocksOfRequest(b)), j \in 1..AddrsPerBlock}]

-----------------------------------------------------------------------------
Init ==
  /\ fsState = [f \in Requests |-> "new"]
  /\ translating = {}
  /\ remaining = [b \in BlockRequests |-> 0]
  /\ devices = {}
  /\ finished = {}
  /\ answered = {}
  /\ done = {}

\* A request arrives: an open or an unlink waits for its one metadata request,
\* a read or a write goes from INIT to READ_META.
Arrive(f) ==
  /\ fsState[f] = "new"
  /\ fsState' = [fsState EXCEPT ![f] = IF IsIO(f) THEN "READ_META" ELSE "WAIT_META"]
  /\ translating' = translating \union
       {<<f, IF Kind[f] \in {"create", "unlink"} THEN "writeMeta" ELSE "readMeta">>}
  /\ UNCHANGED <<remaining, devices, finished, answered, done>>

\* The translator's side of handleMessage for a request.  A request without
\* blocks makes no device request, and nothing will answer it.
Translate(b) ==
  /\ b \in translating
  /\ translating' = translating \ {b}
  /\ devices' = devices \union DeviceRequests[b]
  /\ remaining' = [remaining EXCEPT ![b] = Cardinality(DeviceRequests[b])]
  /\ UNCHANGED <<fsState, finished, answered, done>>

\* The translator's side of handleMessage for a device response: the last one
\* answers the block request.  The count stays 1 then.
\* Mutant of DeviceResponse: the response that should be the last is not.
DeviceResponseLate(d) ==
  LET b == d.parent IN
  /\ d \in devices
  /\ devices' = devices \ {d}
  /\ done' = done \union {d}
  /\ IF remaining[b] = 0
     THEN finished' = finished \union {b} /\ UNCHANGED remaining
     ELSE remaining' = [remaining EXCEPT ![b] = @ - 1] /\ UNCHANGED finished
  /\ UNCHANGED <<fsState, translating, answered>>
DeviceResponse(d) ==
  LET b == d.parent IN
  /\ d \in devices
  /\ devices' = devices \ {d}
  /\ done' = done \union {d}
  /\ IF remaining[b] = 1
     THEN finished' = finished \union {b} /\ UNCHANGED remaining
     ELSE remaining' = [remaining EXCEPT ![b] = @ - 1] /\ UNCHANGED finished
  /\ UNCHANGED <<fsState, translating, answered>>

\* The metadata of an open or an unlink is there: respond.
MetaFinished(b) ==
  LET f == b[1] IN
  /\ b \in finished /\ fsState[f] = "WAIT_META"
  /\ finished' = finished \ {b}
  /\ fsState' = [fsState EXCEPT ![f] = "FINISH"]
  /\ answered' = answered \union {f}
  /\ UNCHANGED <<translating, remaining, devices, done>>

\* READ_META is left: performIO in the transient SEND_IO_REQUEST, then
\* writeMetaData on entering WRITE_META.
StartIO(b) ==
  LET f == b[1] IN
  /\ b \in finished /\ fsState[f] = "READ_META"
  /\ finished' = finished \ {b}
  /\ fsState' = [fsState EXCEPT ![f] = "WRITE_META"]
  /\ translating' = translating \union {<<f, "data">>, <<f, "writeMeta">>}
  /\ UNCHANGED <<remaining, devices, answered, done>>

\* WRITE_META is left on the first of the two responses.  The translator gives
\* every response the type spfsOSReadBlocksResponse, so it is META_COMPLETE
\* that is entered, whichever response it is.
FirstOfTwo(b) ==
  LET f == b[1] IN
  /\ b \in finished /\ fsState[f] = "WRITE_META"
  /\ finished' = finished \ {b}
  /\ fsState' = [fsState EXCEPT ![f] = "META_COMPLETE"]
  /\ UNCHANGED <<translating, remaining, devices, answered, done>>

SecondOfTwo(b) ==
  LET f == b[1] IN
  /\ b \in finished /\ fsState[f] = "META_COMPLETE"
  /\ finished' = finished \ {b}
  /\ fsState' = [fsState EXCEPT ![f] = "FINISH"]
  /\ answered' = answered \union {f}
  /\ UNCHANGED <<translating, remaining, devices, done>>

BlockResponse(b) == MetaFinished(b) \/ StartIO(b) \/ FirstOfTwo(b) \/ SecondOfTwo(b)

Next ==
  \/ \E f \in Requests : Arrive(f)
  \/ \E b \in BlockRequests : Translate(b) \/ BlockResponse(b)
  \/ \E d \in devices : DeviceResponse(d)

\* A message that was sent is delivered, and the device answers what it is
\* asked.
AllDeviceRequests == UNION {DeviceRequests[b] : b \in
  {c \in BlockRequests : c[2] = "data" => IsIO(c[1])}}
Fairness ==
  /\ \A b \in BlockRequests : WF_vars(Translate(b)) /\ WF_vars(BlockResponse(b))
  /\ \A d \in AllDeviceRequests : WF_vars(DeviceResponse(d))
Spec == Init /\ [][Next]_vars /\ Fairness

-----------------------------------------------------------------------------
States == {"new", "WAIT_META", "READ_META", "WRITE_META", "META_COMPLETE", "FINISH"}
TypeOK ==
  /\ fsState \in [Requests -> States]
  /\ translating \subseteq BlockRequests
  /\ remaining \in [BlockRequests -> Nat]
  /\ \A d \in devices : d.parent \in BlockRequests
  /\ finished \subseteq BlockRequests
  /\ answered \subseteq Requests

Outstanding(b) == {d \in devices : d.parent = b}

\* The counter a block request carries is the number of device responses still
\* to come, up to the last one, so that the last one is recognised: the device
\* answers the requests of several block requests in any order.
RemainingIsExact ==
  \A b \in BlockRequests : Outstanding(b) # {} => remaining[b] = Cardinality(Outstanding(b))

\* When a file request is answered nothing done for it is still under way: its
\* metadata and its data were transferred, whichever of the two came last.
AnsweredMeansDone ==
  \A f \in answered :
    /\ {b \in translating \union finished : b[1] = f} = {}
    /\ {d \in devices : d.parent[1] = f} = {}

\* When a read or a write is answered, every address of every block that holds
\* one of its bytes was read or written by the device.
RegionBytes(f) ==
  UNION {FileRegions[f][i].offset .. (FileRegions[f][i].offset + FileRegions[f][i].extent - 1) :
           i \in 1..Len(FileRegions[f])}
EveryByteTransferred ==
  \A f \in answered : IsIO(f) =>
    \A byte \in RegionBytes(f) : \A j \in 0..AddrsPerBlock - 1 :
      \E d \in done :
        /\ d.parent = <<f, "data">>
        /\ d.address = (FirstBlock + byte \div BlockSize) * AddrsPerBlock + j
        /\ d.read = (Kind[f] = "read")

\* What is counted is what is under way, and an answer means that all of it is
\* done, each byte's blocks included.
TransfersAccounted == TypeOK /\ RemainingIsExact /\ AnsweredMeansDone /\ EveryByteTransferred

\* The service as its callers see it: a request is answered at most once, and
\* only if it was made; one that names at least one byte is answered in the end.
WithWork == {f \in Requests : IsIO(f) => RegionBytes(f) # {}}
Service == INSTANCE DeviceService WITH
  Requests <- WithWork,
  asked <- {f \in WithWork : fsState[f] # "new"},
  answered <- answered
ImplementsFileService == Service!Spec
=============================================================================
