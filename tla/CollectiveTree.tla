--------------------------- MODULE CollectiveTree ---------------------------
(***************************************************************************)
(* The servers' collective operations: CollectiveCreate, CollectiveRemove  *)
(* and CollectiveGetAttr (src/src/server/collective_*.cc).                 *)
(*                                                                         *)
(* A client sends one request that names a file's data objects.  A server  *)
(* that receives a collective request processes the object the request is  *)
(* addressed to, splits the remaining data handles into parts and sends    *)
(* each part to the server of its first handle as a new collective         *)
(* request; it answers when its own disk request and all its children have *)
(* been answered.  For create and remove the root request is addressed to  *)
(* the directory entry and first has the metadata object processed.        *)
(*                                                                         *)
(* Each request message is a node of a tree; its path is the sequence of   *)
(* child numbers from the root.  The node's record is the message with the *)
(* FSM state stored in it; one FSServer processes the node, and messages   *)
(* between servers and from the disks arrive in any order.                 *)
(***************************************************************************)
EXTENDS Integers, FiniteSets, SequencesExt

CONSTANTS NumDataHandles, Operations

\* FileBuilder gives every file at least one data object.
ASSUME TreeAssumption ==
  /\ NumDataHandles \in Nat \ {0}
  /\ Operations \subseteq {"create", "remove", "get_attr"}

VARIABLES
  op,          \* the collective operation, fixed by the client
  node,        \* node[p]: the request message at path p
  processed,   \* processed[o]: disk requests completed for object o
  responded    \* the client has its response

vars == <<op, node, processed, responded>>

DataHandles == 1 .. NumDataHandles
Meta   == 0                       \* the metadata object
DirEnt == NumDataHandles + 1      \* the directory entry
Attr   == NumDataHandles + 2      \* the attributes written to the metadata object

ObjectsOf(o) == DataHandles \union {Meta}
                \union (IF o = "get_attr" THEN {} ELSE {DirEnt})
                \union (IF o = "create" THEN {Attr} ELSE {})

Root == << >>
MetaChild(p) == Append(p, 0)
AttrChild(p) == Append(p, -1)
Nodes == DOMAIN node
ChildrenOf(p) == {c \in Nodes : c # Root /\ Front(c) = p}

\* A collective request as it is sent.
Message(type, handle, data) ==
  [type |-> type, handle |-> handle, data |-> data,
   state |-> "INIT", outstanding |-> 0, disk |-> FALSE]

RootMessage(o) ==
  IF o = "get_attr" THEN Message("METADATA", Meta, [i \in DataHandles |-> i])
                    ELSE Message("DIR_ENT", DirEnt, [i \in DataHandles |-> i])

Init ==
  /\ op \in Operations
  /\ node = [p \in {Root} |-> RootMessage(op)]
  /\ processed = [o \in ObjectsOf(op) |-> 0]
  /\ responded = FALSE
-----------------------------------------------------------------------------
\* sendCollectiveRequests: while handles remain, the second half (rounded up)
\* goes to a child and the first half remains.  After i rounds n \div 2^i of
\* the n handles remain.
Rounds(n) == Cardinality({i \in 0 .. n : 2 ^ i <= n})

Part(data, i) ==
  SubSeq(data, Len(data) \div 2 ^ i + 1, Len(data) \div 2 ^ (i - 1))

\* Mutant of ChildMessage: the last handle of the part is dropped.
ChildMessageDropsLast(part) ==
  Message("DATA", Head(part), IF Len(part) > 1 THEN Front(Tail(part)) ELSE << >>)

\* createChildCollectiveRequest: the first handle addresses the child, the
\* others are its data.
ChildMessage(part) == Message("DATA", Head(part), Tail(part))

CollectiveRequests(p, data) ==
  [c \in {Append(p, i) : i \in 1 .. Rounds(Len(data))} |-> ChildMessage(Part(data, Last(c)))]

\* The nodes after one event: the server handling p leaves it as m, deletes the
\* answered requests in gone and sends those in sent, a function of paths.
NodesAfter(p, m, gone, sent) ==
  [q \in Nodes \union DOMAIN sent |->
     IF q = p THEN m
     ELSE IF q \in gone THEN [node[q] EXCEPT !.state = "DELETED"]
     ELSE IF q \in DOMAIN sent THEN sent[q]
     ELSE node[q]]

\* Node p, otherwise m, sends its collective requests, counts them and waits.
SentAndWaiting(p, m, gone) ==
  NodesAfter(p, [m EXCEPT !.state = "WAIT_FOR_RESPONSE", !.outstanding = @ + Rounds(Len(m.data))],
             gone, CollectiveRequests(p, m.data))

\* The server sends one request to its storage layer and counts it.
WithDiskRequest(m) == [m EXCEPT !.disk = TRUE, !.outstanding = @ + 1]

\* A server receives request p: FSM_Exit(INIT) up to the next steady state.
\* SEND_META: the directory server asks for the metadata object.
ReceiveDirEnt(p) ==
  /\ node[p].state = "INIT" /\ node[p].type = "DIR_ENT"
  /\ node' = NodesAfter(p, [node[p] EXCEPT !.state = "SEND_META"], {},
                        [c \in {MetaChild(p)} |-> Message("METADATA", Meta, << >>)])
  /\ UNCHANGED <<op, processed, responded>>

\* CREATE_META / REMOVE_META: process the object, nothing else to send.
ReceiveMetadata(p) ==
  /\ node[p].state = "INIT" /\ node[p].type = "METADATA" /\ op # "get_attr"
  /\ node' = [node EXCEPT ![p] = WithDiskRequest([@ EXCEPT !.state = "CREATE_META"])]
  /\ UNCHANGED <<op, processed, responded>>

\* CREATE_DFILE / REMOVE_DFILE / GET_DFILE_ATTR / GET_META_ATTR, then
\* SEND_REQUESTS, in one event: the disk request and the children go out.
ReceiveObject(p) ==
  /\ node[p].state = "INIT"
  /\ node[p].type = "DATA" \/ (node[p].type = "METADATA" /\ op = "get_attr")
  /\ node' = SentAndWaiting(p, WithDiskRequest(node[p]), {})
  /\ UNCHANGED <<op, processed, responded>>

\* The metadata server receives what setAttributes sent.
ReceiveSetAttr(p) ==
  /\ node[p].state = "INIT" /\ node[p].type = "SET_ATTR"
  /\ node' = [node EXCEPT ![p].state = "WRITE_ATTR", ![p].disk = TRUE]
  /\ UNCHANGED <<op, processed, responded>>

\* Mutant of AllIn: the counter is tested before it is decremented.
AllInEarly(m) == m.outstanding <= 2

\* processResponse: no response is outstanding after this one.
AllIn(m) == m.outstanding = 1

\* FSM_Exit(WAIT_FOR_RESPONSE) of node p, until now m, with one more response.
\* A root with a directory entry goes on to SET_ATTR (create) or REMOVE_DIRENT
\* (remove).
ResponseProcessed(p, m, gone) ==
  LET n == [m EXCEPT !.outstanding = @ - 1] IN
  CASE ~AllIn(m) -> NodesAfter(p, n, gone, << >>)
    [] AllIn(m) /\ m.type # "DIR_ENT" -> NodesAfter(p, [n EXCEPT !.state = "FINISH"], gone, << >>)
    [] AllIn(m) /\ m.type = "DIR_ENT" /\ op = "create" ->
         NodesAfter(p, [n EXCEPT !.state = "SET_ATTR"], gone,
                    [c \in {AttrChild(p)} |-> Message("SET_ATTR", Attr, << >>)])
    [] AllIn(m) /\ m.type = "DIR_ENT" /\ op = "remove" ->
         NodesAfter(p, [n EXCEPT !.state = "REMOVE_DIRENT", !.disk = TRUE], gone, << >>)

\* The storage layer answers p's server.  FINISH sends the response.
DiskResponse(p) ==
  /\ node[p].disk
  /\ processed' = [processed EXCEPT ![node[p].handle] = @ + 1]
  /\ LET m == [node[p] EXCEPT !.disk = FALSE] IN
     node' = IF m.state = "WAIT_FOR_RESPONSE"
             THEN ResponseProcessed(p, m, {})
             ELSE NodesAfter(p, [m EXCEPT !.state = "FINISH"], {}, << >>)
  /\ UNCHANGED <<op, responded>>

\* The response to request c arrives at the server handling p, which deletes
\* both once it has acted on it.
ChildResponse(p, c) ==
  /\ c \in ChildrenOf(p) /\ node[c].state = "FINISH"
  /\ \/ /\ node[p].state = "SEND_META"
        /\ node' = SentAndWaiting(p, node[p], {c})
     \/ /\ node[p].state = "WAIT_FOR_RESPONSE"
        /\ node' = ResponseProcessed(p, node[p], {c})
     \/ /\ node[p].state = "SET_ATTR"
        /\ node' = NodesAfter(p, [node[p] EXCEPT !.state = "CREATE_DIR_ENT", !.disk = TRUE], {c}, << >>)
  /\ UNCHANGED <<op, processed, responded>>

\* The root's response reaches the client's state machine.
ClientResponse ==
  /\ node[Root].state = "FINISH" /\ ~responded
  /\ node' = [node EXCEPT ![Root].state = "DELETED"]
  /\ responded' = TRUE
  /\ UNCHANGED <<op, processed>>

Receive(p) == ReceiveDirEnt(p) \/ ReceiveMetadata(p) \/ ReceiveObject(p) \/ ReceiveSetAttr(p)

Done == responded /\ UNCHANGED vars

Next ==
  \/ \E p \in Nodes : Receive(p) \/ DiskResponse(p)
  \/ \E p, c \in Nodes : ChildResponse(p, c)
  \/ ClientResponse
  \/ Done

\* Every event the simulator has scheduled is delivered.
Spec == Init /\ [][Next]_vars /\ WF_vars(Next)
-----------------------------------------------------------------------------
Addressed(p) == {node[p].handle} \union ToSet(node[p].data)
DataChildren(p) == {c \in ChildrenOf(p) : node[c].type = "DATA"}
HasSent(p) == DataChildren(p) # {}

TypeOK ==
  /\ \A p \in Nodes :
       /\ node[p].type \in {"DIR_ENT", "METADATA", "DATA", "SET_ATTR"}
       /\ node[p].data \in Seq(DataHandles)
       /\ node[p].outstanding \in Nat
       /\ node[p].handle \in ObjectsOf(op)
  /\ processed \in [ObjectsOf(op) -> Nat]
  /\ responded \in BOOLEAN

\* When a node has sent its collective requests, each of its data handles is
\* in exactly one of them.
HandlesPartitioned ==
  \A p \in Nodes : HasSent(p) =>
    /\ ToSet(node[p].data) = UNION {Addressed(c) : c \in DataChildren(p)}
    /\ \A c, d \in DataChildren(p) : c # d => Addressed(c) \cap Addressed(d) = {}
    /\ \A c \in DataChildren(p) : node[c].handle \notin ToSet(node[c].data)

\* The counter kept in the request message is the number of responses really
\* on their way to it, so it is zero (and never below) exactly when they are
\* all in, whatever order disk and children answer in.
\* A node that has answered leaves nothing running below it.
OutstandingIsExact ==
  \A p \in Nodes :
    /\ node[p].state = "WAIT_FOR_RESPONSE" =>
         node[p].outstanding = (IF node[p].disk THEN 1 ELSE 0)
                               + Cardinality({c \in DataChildren(p) : node[c].state # "DELETED"})
    /\ node[p].state \in {"FINISH", "DELETED"} =>
         ~node[p].disk /\ \A c \in ChildrenOf(p) : node[c].state = "DELETED"

\* However the handles are split, no object's disk request completes twice.
ProcessedOnce == \A o \in ObjectsOf(op) : processed[o] <= 1

\* The tree of servers is one: the objects are split without loss or overlap,
\* each node waits for exactly what runs below it, and no object is processed
\* by two of them.
TreeConsistent == TypeOK /\ HandlesPartitioned /\ OutstandingIsExact /\ ProcessedOnce

\* To the client the tree is one operation that processes every object once,
\* the directory entry after all data and metadata, and then responds.
Op == INSTANCE CollectiveOp
        WITH AllObjects <- DataHandles \union {Meta, DirEnt, Attr},
             objects    <- ObjectsOf(op),
             final      <- {DirEnt} \cap ObjectsOf(op),
             processed  <- {o \in ObjectsOf(op) : processed[o] > 0}
ImplementsCollectiveOp == Op!Spec
=============================================================================
