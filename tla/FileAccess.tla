----------------------------- MODULE FileAccess -----------------------------
(***************************************************************************)
(* Clients read and write the files that FileBuilder made.  A client       *)
(* splits its access over the objects of the file (client/fs_read_sm.cc,   *)
(* client/fs_write_sm.cc), each server makes its own layout of it and      *)
(* moves it a buffer at a time (io/data_flow.cc,                           *)
(* io/bmi_list_io_data_flow.cc), and the sizes of the byte streams grow in *)
(* metadata every client shares.  FileIO has the messages of the transfer, *)
(* here is where its bytes go.                                             *)
(***************************************************************************)
EXTENDS FileBuilder, FileLayouts

CONSTANTS Client,
          Traces,      \* what clients ask: client -> [path, how, mode, accesses]
          BufferSize   \* the data flows' buffer

ASSUME AccessAssumption ==
  /\ BufferSize \in Nat \ {0}
  /\ \A t \in Traces : DOMAIN t = Client

TraceRequests == UNION {Range(t) : t \in Traces}

VARIABLES
  bstream,  \* bstreamSizes of each file's metadata
  trace,    \* what each client asks, once the applications run
  client,   \* what each client is doing
  stored    \* ghost: the bytes of each file, of its creation or of a finished write
accessVars == <<bstream, trace, client, stored>>

Idle == [phase |-> "idle"]
NoTrace == [c \in {} |-> 0]

AccessInit ==
  /\ BuilderInit
  /\ trace = NoTrace
  /\ bstream = NoEntries /\ client = [c \in Client |-> Idle]
  /\ stored = [path \in Files |-> 0..(FileSize[path] - 1)]

\* createFile also notes each object's size.  The step is FileBuilder's.
Build ==
  /\ BuilderNext
  /\ bstream' = [path \in Files \intersect DOMAIN nameToHandle' |->
                   [i \in DOMAIN metaData'[nameToHandle'[path]] |-> FileSize[path] \div servers]]
  /\ UNCHANGED <<trace, client, stored>>

Populated == processed = Directories \union Files
Launch ==
  /\ Populated /\ trace = NoTrace
  /\ trace' \in Traces
  /\ UNCHANGED <<bstream, client, stored, builderVars>>

Opened == {path \in Files \ Directories : FileExists(path)}

\* What the layers above the file system make of a request.
Sent(q) ==
  CASE q.how = "plain" -> CHOOSE a \in q.accesses : TRUE
    [] q.how = "pages" -> PagesAccess(CHOOSE a \in q.accesses : TRUE)
    [] q.how = "sieve" -> SievedAccess(q.accesses)
    [] q.how = "join"  -> JoinedAccess(q.accesses)

SentRegions == [q \in TraceRequests |-> LocateFileRegions(Sent(q))]

\* The layout of object i, from 1, when its byte stream has size bytes.
LayoutOf(q, i, bytes) ==
  ServerLayout(SentRegions[q], i - 1, servers, bytes, q.mode = "write")

\* initClientFlow: what the client's flow for the object will move.
ClientFlowSize(q, i, bytes) == Length(LayoutOf(q, i, bytes))

\* The request of an access, with a client's flow of each size.
Asking(path, sizes) ==
  [phase |-> "moving", sizes |-> bstream[path], expected |-> sizes,
   asked |-> {i \in 1..servers : sizes[i] # 0}, flow |-> [i \in {} |-> 0],
   reached |-> {}, again |-> FALSE, before |-> stored[path]]

\* beginWrite, enterRead: a request and a flow for every object that has bytes
\* of the access; the read request takes the sizes of the byte streams along.
\* Bound: a client makes one access.
Begin(c) ==
  /\ trace # NoTrace /\ trace[c].path \in Opened /\ client[c].phase = "idle"
  /\ client' = [client EXCEPT ![c] =
       Asking(trace[c].path,
         [i \in 1..servers |-> ClientFlowSize(trace[c], i, bstream[trace[c].path][i])])]
  /\ UNCHANGED <<bstream, trace, stored, builderVars>>

\* initServerFlow: the server's own layout, of the sizes in the request.
NewFlow(layout) == [layout |-> layout, moved |-> 0, size |-> Length(layout)]
InitServerFlow(c, i) ==
  /\ client[c].phase = "moving" /\ i \in client[c].asked
  /\ client' = [client EXCEPT
       ![c].asked = @ \ {i},
       ![c].flow  = Put(@, i, NewFlow(LayoutOf(trace[c], i, client[c].sizes[i])))]
  /\ UNCHANGED <<bstream, trace, stored, builderVars>>

\* updateBstreamSize for every region of a write.
\* Mutant of GrownTo: the size is what the last write left.
GrownToLast(bytes, regions) == End(Last(regions))
GrownTo(bytes, regions) == Greatest({bytes} \union {End(r) : r \in Range(regions)})

\* pullDataFromStorage, pushDataToStorage: the next bufferful of object i.
BytesOf(i, regions) == UNION {{<<i, b>> : b \in r.offset..(End(r) - 1)} : r \in Range(regions)}
MoveBuffer(c, i) ==
  /\ client[c].phase = "moving" /\ i \in DOMAIN client[c].flow
  /\ LET f       == client[c].flow[i]
         part    == Least(BufferSize, f.size - f.moved)
         regions == SubRegions(f.layout, f.moved, part)
         bytes   == BytesOf(i, regions)
     IN /\ f.moved < f.size
        /\ client' = [client EXCEPT
             ![c].flow[i].moved = @ + part,
             ![c].reached       = @ \union bytes,
             ![c].again = @ \/ bytes \intersect client[c].reached # {}
                            \/ Cardinality(bytes) # part]
        /\ bstream' = IF trace[c].mode = "write"
                      THEN [bstream EXCEPT ![trace[c].path][i] = GrownTo(@, regions)]
                      ELSE bstream
  /\ UNCHANGED <<trace, stored, builderVars>>

\* Every flow has moved all of its layout, the client's and the server's.
Logical(bytes) == {PhysicalToLogical(x[1] - 1, servers, x[2]) : x \in bytes}
Finish(c) ==
  /\ client[c].phase = "moving" /\ client[c].asked = {}
  /\ \A i \in DOMAIN client[c].flow :
       client[c].flow[i].moved = client[c].flow[i].size
         /\ client[c].flow[i].moved = client[c].expected[i]
  /\ client' = [client EXCEPT ![c].phase = "done"]
  /\ stored' = IF trace[c].mode = "write"
               THEN [stored EXCEPT ![trace[c].path] = @ \union Logical(client[c].reached)]
               ELSE stored
  /\ UNCHANGED <<bstream, trace, builderVars>>

AccessNext ==
  \/ Build
  \/ Launch
  \/ \E c \in Client : Begin(c)
  \/ \E c \in Client, i \in 1..MaxServers : InitServerFlow(c, i)
  \/ \E c \in Client, i \in 1..MaxServers : MoveBuffer(c, i)
  \/ \E c \in Client : Finish(c)

AccessSpec == AccessInit /\ [][AccessNext]_<<builderVars, accessVars>>

-----------------------------------------------------------------------------
\* Reference: the bytes of one instance of a type, and so the byte of the file
\* that is the n-th of a view's data.
Coordinates(t) ==
  {x \in [DOMAIN t.sizes -> 0..Greatest(Range(t.sizes))] :
     \A d \in DOMAIN x : x[d] \in t.starts[d]..(t.starts[d] + t.subSizes[d] - 1)}
Place(t, x) ==
  LET faster(d) == IF t.order = "C" THEN {e \in DOMAIN x : e > d} ELSE {e \in DOMAIN x : e < d}
  IN SumOf([d \in DOMAIN x |->
       x[d] * ProductOf([e \in DOMAIN x |-> IF e \in faster(d) THEN t.sizes[e] ELSE 1])])
Elements(t) ==
  CASE t.kind = "basic"    -> 0..(t.trueExtent \div t.width - 1)
    [] t.kind = "indexed"  -> UNION {t.disps[i]..(t.disps[i] + t.lens[i] - 1) : i \in DOMAIN t.lens}
    [] t.kind = "subarray" -> {Place(t, x) : x \in Coordinates(t)}
    [] t.kind = "vector"   -> {k * t.stride + e : k \in 0..(t.count - 1), e \in 0..(t.len - 1)}
DataBytes(t) ==
  IF t.kind = "struct"
  THEN UNION {t.disps[i]..(t.disps[i] + t.lens[i] * t.widths[i] - 1) : i \in DOMAIN t.lens}
  ELSE {e * t.width + b : e \in Elements(t), b \in 0..(t.width - 1)}

FileBytes(a) ==
  LET data == InOrder(DataBytes(a.view.type))
      nth(n) == a.view.disp + (n \div Len(data)) * a.view.type.trueExtent + data[(n % Len(data)) + 1]
  IN {nth(n) : n \in a.offset..(a.offset + a.size - 1)}

\* The bytes a request is for, and those its way of asking rounds them to.
Wanted(q) == UNION {FileBytes(a) : a \in q.accesses}
PageBytes(p) == p * PageSize .. ((p + 1) * PageSize - 1)
Rounded(q) ==
  CASE q.how \in {"plain", "join"} -> Wanted(q)
    [] q.how = "pages" -> UNION {PageBytes(b \div PageSize) : b \in Wanted(q)}
    [] q.how = "sieve" -> Lowest(Wanted(q))..Greatest(Wanted(q))

Done(c) == client[c].phase = "done"

\* Where the b-th byte of a file is: round robin, a strip at a time.
PlaceOf(b) == <<((b \div StripSize) % servers) + 1,
                (b \div (StripSize * servers)) * StripSize + (b % StripSize)>>

RoundedFor == [q \in TraceRequests |-> Rounded(q)]

\* AccessCoversRegion of FileBuilder; accesses change no layout.
BlocksHoldRegions == trace = NoTrace => AccessCoversRegion

\* The servers between them move the bytes the access is for and no others,
\* each byte once, at the place the distribution gives it: for a write all of
\* them, for a read those the byte streams had when it was asked for, whatever
\* was written meanwhile.  And the flows of client and server, which each
\* lay the access out for themselves, are of the same size: neither waits for
\* more than the other has.
AccessReachesItsBytes ==
  /\ \A c \in Client : Done(c) =>
       LET places == {PlaceOf(b) : b \in RoundedFor[trace[c]]}
       IN /\ ~client[c].again
          /\ client[c].reached =
               IF trace[c].mode = "write" THEN places
               ELSE {x \in places : x[2] < client[c].sizes[x[1]]}
  /\ \A c \in Client : client[c].phase = "moving" =>
       \A i \in DOMAIN client[c].flow : client[c].flow[i].size = client[c].expected[i]

\* A read finds every byte that the file was made with, and every byte of a
\* write that had finished when the read began.
ReadsFindWhatWasWritten ==
  \A c \in Client : (Done(c) /\ trace[c].mode = "read") =>
    client[c].before \intersect RoundedFor[trace[c]] \subseteq Logical(client[c].reached)

\* Every byte moved is in a block that the server owning the object's handle
\* assigned to that object: the file builder, the distribution and the
\* server's storage layout agree on where a file is.
BytesInOwnBlocks ==
  \A c \in Client : client[c].phase \in {"moving", "done"} =>
    \A x \in client[c].reached :
      LET h == metaData[nameToHandle[trace[c].path]][x[1]]
          s == Owner(h)
      IN storage[s].dataBlocks[h] + (x[2] \div BlockSize) \in BlocksOf(s, h)

\* A page that an access does not fill is never taken for a full one, and the
\* regions kept of each of its pages are the access's bytes on that page: a
\* cache neither drops what was on the page nor writes back what was not.
KeepsPages(bytes, regions) ==
  /\ UNION {PageBytes(p) : p \in RequestFullPages(regions)} \subseteq bytes
  /\ {b \div PageSize : b \in bytes} = RequestPages(regions)
  /\ \A p \in RequestPages(regions) :
       LET parts == PartialPageRegions(p, regions)
       IN /\ UNION {r.offset..(End(r) - 1) : r \in parts} = bytes \intersect PageBytes(p)
          /\ \A q, r \in parts : q # r => End(q) < r.offset \/ End(r) < q.offset
KeepingPages ==
  {q \in TraceRequests : \A a \in q.accesses : KeepsPages(FileBytes(a), LocateFileRegions(a))}
PagesKeepTheirBytes ==
  \A c \in Client : client[c].phase # "idle" => trace[c] \in KeepingPages
=============================================================================
