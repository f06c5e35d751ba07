--------------------------- MODULE NameOperations ---------------------------
(***************************************************************************)
(* The operations on names: how a client turns open, create, delete, stat, *)
(* update time and the directory operations into requests to the servers   *)
(* (client/fs_*_operation.cc and the state machines client/fs_*_sm.cc,     *)
(* driven by common/fs_operation.cc), and how a server answers each        *)
(* request after one or more accesses to its storage (server/*.cc).        *)
(*                                                                         *)
(* A path is a sequence of names, <<>> is the root.  Which paths exist is  *)
(* FileBuilder's table, fixed before the clients start.  An object is      *)
(* stored for every handle: the metadata object of a path and its data     *)
(* objects; a directory has one, for its entries.                          *)
(***************************************************************************)
EXTENDS Naturals, FiniteSets, SequencesExt, FiniteSetsExt

CONSTANTS Clients, Servers,
          Names,                \* what a segment of a path may be called
          Directories, Files,   \* the paths FileBuilder knows
          Unknown,              \* paths it does not know
          MetaServer,           \* [Known -> Servers]
          DataServers,          \* [Known -> Seq(Servers)], one per data handle
          FirstHandle,          \* first handle of the first metadata server
          MaxNames, MaxAttrs,   \* capacities of the client's two caches
          MaxOperations         \* bound on the operations started

Known == Directories \union Files
Parent(p) == Front(p)
Prefix(p, n) == SubSeq(p, 1, n)
Meta(p) == [path |-> p, part |-> 0]
Data(p) == {[path |-> p, part |-> i] : i \in DOMAIN DataServers[p]}
Objects == UNION {{Meta(p)} \union Data(p) : p \in Known}
ServerOf(o) == IF o.part = 0 THEN MetaServer[o.path] ELSE DataServers[o.path][o.part]

\* FileBuilder makes the parents of every path, and keeps the entries of a
\* directory with its metadata.  The first file it makes has its metadata on
\* the first metadata server, whose first handle is then that of this file or
\* of a directory above it.  A path it does not know is below directories, as
\* far as anything on the way exists.
ASSUME NameOperationsAssumption ==
  /\ Known \union Unknown \subseteq Seq(Names)
  /\ <<>> \in Directories /\ Directories \intersect Files = {}
  /\ Unknown \intersect Known = {}
  /\ \A p \in Known \ {<<>>} : Parent(p) \in Directories
  /\ MetaServer \in [Known -> Servers] /\ DataServers \in [Known -> Seq(Servers)]
  /\ \A p \in Directories : DataServers[p] = <<MetaServer[p]>>
  /\ \A p \in Files : DataServers[p] # <<>>
  /\ \A p \in Unknown : \A n \in 0..Len(p) - 1 : Prefix(p, n) \notin Files
  /\ FirstHandle \in {Meta(p) : p \in Known}
  /\ MaxNames \in Nat \ {0} /\ MaxAttrs \in Nat \ {0} /\ MaxOperations \in Nat

VARIABLES
  op,        \* each client's operation and the progress of its state machines
  names,     \* each client's name cache, most recently used first
  attrs,     \* each client's attribute cache
  requests,  \* requests to the servers that are not answered
  objects,   \* the objects in storage
  entries,   \* the paths with an entry in their directory
  raced,     \* ghost: paths of which a creation and a removal overlapped
  started    \* operations started so far
vars == <<op, names, attrs, requests, objects, entries, raced, started>>

-----------------------------------------------------------------------------
\* LRUTimeoutCache; no entry ever times out, and what is cached for a key is
\* what FileBuilder says of it.
Removed(cache, k) ==
  IF k \in ToSet(cache) THEN RemoveAt(cache, CHOOSE i \in DOMAIN cache : cache[i] = k) ELSE cache
Refreshed(cache, k) == <<k>> \o Removed(cache, k)
Inserted(cache, k, capacity) ==
  IF k \in ToSet(cache) \/ Len(cache) < capacity THEN Refreshed(cache, k)
  ELSE <<k>> \o Front(cache)
Touched(cache, k) == IF k \in ToSet(cache) THEN Refreshed(cache, k) ELSE cache

\* The number of segments of p, the root included, that the cache resolves.
ResolvedIn(cache, p) == Max({0} \union {n + 1 : n \in {m \in 0..Len(p) : Prefix(p, m) \in ToSet(cache)}})

-----------------------------------------------------------------------------
\* The state machines of an operation.  Whether the parent exists decides how
\* many are registered.
Machine(type, p) == [type |-> type, path |-> p]
OnParent(p, last) ==
  IF Parent(p) \in Known
    THEN <<Machine("lookup", Parent(p)), Machine("getAttr", Parent(p)), last>>
    ELSE <<Machine("lookup", Parent(p))>>

OpenMachines(p)      == OnParent(p, Machine("lookup", p))
CreateMachines(p)    == OnParent(p, Machine("create", p))
CreateDirMachines(p) == OnParent(p, Machine("createDir", p))
DeleteMachines(p)    == OnParent(p, Machine("remove", p))
StatMachines(p)      == <<Machine("lookup", Parent(p)), Machine("getAttr", Parent(p)),
                          Machine("lookup", p), Machine("getSize", p)>>
UpdateTimeMachines(p) == <<Machine("lookup", Parent(p)), Machine("getAttr", Parent(p)),
                          Machine("setAttr", p)>>
ReadDirMachines(p)   == <<Machine("getAttr", p), Machine("readDir", p)>>

Machines(kind, p) ==
  CASE kind = "open"    -> OpenMachines(p)
    [] kind = "create"  -> CreateMachines(p)
    [] kind = "mkdir"   -> CreateDirMachines(p)
    [] kind \in {"delete", "rmdir"} -> DeleteMachines(p)
    [] kind = "stat"    -> StatMachines(p)
    [] kind = "utime"   -> UpdateTimeMachines(p)
    [] kind = "readdir" -> ReadDirMachines(p)
    [] kind = "close"   -> <<>>

\* The paths an operation may name: open may fail, the traces name no other
\* path that FileBuilder does not know.
PathsOf(kind) ==
  CASE kind \in {"create", "delete", "close"} -> Files
    [] kind \in {"mkdir", "rmdir"}            -> Directories \ {<<>>}
    [] kind = "open"                          -> Files \union Unknown
    [] kind \in {"stat", "utime"}             -> Known \ {<<>>}
    [] kind = "readdir"                       -> Directories
\* What scheduleRequest takes, leaving out reads and writes and its delays; a
\* create is an open request.
Kinds == {"open", "create", "mkdir", "delete", "rmdir", "stat", "utime", "readdir", "close"}
Creates == {"create", "mkdir"}
Removes == {"delete", "rmdir"}

\* A request names the object its handle stands for; path is the path looked
\* up, or the entry made or removed.
Request(type, o, p, resolved) ==
  [type |-> type, object |-> o, path |-> p, resolved |-> resolved,
   at |-> "server", status |-> "none"]
To(type, o) == Request(type, o, o.path, 0)
ToAll(type, os) == {To(type, o) : o \in os}
Entry(type, p) == Request(type, Meta(Parent(p)), p, 0)

\* What each machine sends, round after round: every request of a round is
\* answered before the next round is sent.  The code counts responses only
\* where it may send several requests.
GetAttrRounds(p) == <<{To("getAttr", Meta(p))}>>
GetSizeRounds(p) == <<{To("getAttr", Meta(p))}, ToAll("getAttr", Data(p))>>
\* Mutant of CreateRounds: the entry is made before the data objects.
CreateRoundsEntryFirst(p) ==
  <<{To("create", Meta(p))}, {Entry("createDirEnt", p)}, ToAll("create", Data(p)),
    {To("setAttr", Meta(p))}>>
CreateRounds(p) ==
  <<{To("create", Meta(p))}, ToAll("create", Data(p)),
    {To("setAttr", Meta(p))}, {Entry("createDirEnt", p)}>>
CreateDirRounds(p) ==
  <<{To("create", FirstHandle)}, ToAll("create", Data(p)),
    {To("setAttr", Meta(p))}, {Entry("createDirEnt", p)}>>
RemoveRounds(p) ==
  <<{Entry("removeDirEnt", p)}, {To("remove", Meta(p))}, ToAll("remove", Data(p))>>
SetAttrRounds(p) == <<{To("setAttr", Meta(p))}>>
ReadDirRounds(p) == <<ToAll("readDir", Data(p))>>

Rounds(m) ==
  CASE m.type = "getAttr"   -> GetAttrRounds(m.path)
    [] m.type = "getSize"   -> GetSizeRounds(m.path)
    [] m.type = "create"    -> CreateRounds(m.path)
    [] m.type = "createDir" -> CreateDirRounds(m.path)
    [] m.type = "remove"    -> RemoveRounds(m.path)
    [] m.type = "setAttr"   -> SetAttrRounds(m.path)
    [] m.type = "readDir"   -> ReadDirRounds(m.path)

-----------------------------------------------------------------------------
\* A client while it handles one message: its operation, its caches, what it
\* sends.  sm counts the machines that have finished; round is 0 before the
\* current machine has left INIT.
Client(c) == [op |-> op[c], names |-> names[c], attrs |-> attrs[c], sends |-> {}]

Current(t) == Machines(t.op.kind, t.op.path)[t.op.sm + 1]
Send(t, round, reqs) ==
  [t EXCEPT !.op.round = round, !.op.remaining = Cardinality(reqs), !.sends = reqs]
FinishMachine(t) == [t EXCEPT !.op.sm = @ + 1, !.op.round = 0]

\* FSLookupNameSM asks the server of the last path resolved, resolved being
\* the number of path segments known, of which the root is the first.
AskServer(t, p) ==
  Send(t, 1, {Request("lookup", Meta(Prefix(p, t.op.resolved - 1)), p, t.op.resolved)})
StartLookup(t, p) ==
  LET hit == ResolvedIn(t.names, p)
      u == [t EXCEPT !.op.resolved = IF hit = 0 THEN 1 ELSE hit,
                     !.names = IF hit = 0 THEN @ ELSE Refreshed(@, Prefix(p, hit - 1))]
  IN IF u.op.resolved = Len(p) + 1 THEN FinishMachine(u) ELSE AskServer(u, p)

\* FINISH of each machine: what it leaves in the two caches.
Finish(t) ==
  LET m == Current(t)
      cacheAttr == Inserted(t.attrs, m.path, MaxAttrs)
      u == CASE m.type \in {"getAttr", "getSize", "setAttr"} -> [t EXCEPT !.attrs = cacheAttr]
             [] m.type \in {"create", "createDir"} ->
                  [t EXCEPT !.attrs = cacheAttr, !.names = Inserted(@, m.path, MaxNames)]
             [] m.type = "remove" ->
                  [t EXCEPT !.attrs = Removed(@, m.path), !.names = Removed(@, m.path)]
             [] m.type = "readDir" -> t
  IN FinishMachine(u)

\* INIT of a machine; attributes that are cached are not asked for again
\* unless the size is to be computed from the data objects.
StartMachine(t) ==
  LET m == Current(t)
      u == [t EXCEPT !.attrs = Touched(@, m.path)]
  IN CASE m.type = "lookup" -> StartLookup(t, m.path)
       [] m.type = "getAttr" /\ m.path \in ToSet(t.attrs) -> Finish(u)
       [] m.type = "getSize" -> Send(u, 1, Rounds(m)[1])
       [] OTHER -> Send(t, 1, Rounds(m)[1])

\* FSOperation::processMessage: a machine that finishes hands the message on
\* to the next one, until one has to wait.  The client is the one element of a
\* set, and no operation has more than four machines.
Steps(ts) ==
  {IF u.op.round = 0 /\ u.op.sm < Len(Machines(u.op.kind, u.op.path)) THEN StartMachine(u)
                                                                     ELSE u : u \in ts}
Advance(t) == Steps(Steps(Steps(Steps({t}))))

\* A response to a lookup, and to any other request.
LookupAnswered(t, r) ==
  LET u == [t EXCEPT !.op.resolved = r.resolved]
  IN CASE r.status = "FOUND" ->
            FinishMachine([u EXCEPT !.names = Inserted(@, Prefix(r.path, r.resolved - 1), MaxNames)])
       [] r.status = "NOTFOUND" -> FinishMachine(u)
       [] r.status = "PARTIAL"  -> AskServer(u, r.path)
\* Mutant of RoundAnswered: the first response of a round ends it.
RoundAnsweredFirst(t) ==
  IF t.op.round < Len(Rounds(Current(t)))
    THEN Send(t, t.op.round + 1, Rounds(Current(t))[t.op.round + 1])
    ELSE Finish(t)
RoundAnswered(t) ==
  LET rounds == Rounds(Current(t))
      u == [t EXCEPT !.op.remaining = @ - 1]
  IN IF u.op.remaining > 0 THEN u
     ELSE IF u.op.round < Len(rounds) THEN Send(u, u.op.round + 1, rounds[u.op.round + 1])
     ELSE Finish(u)

Idle(c) == op[c].sm = Len(Machines(op[c].kind, op[c].path))
Overlaps(c, kind, p) ==
  \E d \in Clients \ {c} :
    /\ ~Idle(d) /\ op[d].path = p
    /\ {kind, op[d].kind} \intersect Creates # {} /\ {kind, op[d].kind} \intersect Removes # {}

\* Every object of a directory is there from the start; a file may be.
Init ==
  /\ op = [c \in Clients |-> [kind |-> "close", path |-> <<>>, sm |-> 0, round |-> 0,
                              remaining |-> 0, resolved |-> 1]]
  /\ names = [c \in Clients |-> <<>>] /\ attrs = [c \in Clients |-> <<>>]
  /\ requests = {} /\ raced = {} /\ started = 0
  /\ \E present \in SUBSET Files :
       /\ entries = (Directories \union present) \ {<<>>}
       /\ objects = UNION {{Meta(p)} \union Data(p) : p \in Directories \union present}

\* The client has handled a message: t is its new state, answered what it
\* takes from the network.
Handled(c, t, answered) ==
  /\ op' = [op EXCEPT ![c] = t.op]
  /\ names' = [names EXCEPT ![c] = t.names] /\ attrs' = [attrs EXCEPT ![c] = t.attrs]
  /\ requests' = (requests \ answered) \union {[client |-> c, req |-> q] : q \in t.sends}

\* The process asks for one operation at a time.
Start(c, kind, p) ==
  /\ Idle(c) /\ started < MaxOperations
  /\ \E t \in Advance([Client(c) EXCEPT !.op = [kind |-> kind, path |-> p, sm |-> 0,
                         round |-> 0, remaining |-> 0, resolved |-> 1]]) :
       Handled(c, t, {})
  /\ raced' = IF Overlaps(c, kind, p) THEN raced \union {p} ELSE raced
  /\ started' = started + 1
  /\ UNCHANGED <<objects, entries>>

\* A response: processed by the current machine, and by those after it.
Response(c) ==
  \E r \in requests :
    /\ r.client = c /\ r.req.at = "client"
    /\ \E t \in Advance(IF r.req.type = "lookup" THEN LookupAnswered(Client(c), r.req)
                                                 ELSE RoundAnswered(Client(c))) :
         Handled(c, t, {r})
    /\ UNCHANGED <<objects, entries, raced, started>>

Moved(r, q) == requests' = (requests \ {r}) \union {[r EXCEPT !.req = q]}

\* A server gets a request and asks its storage.
ServerRequest(r) ==
  /\ r.req.at = "server"
  /\ Moved(r, [r.req EXCEPT !.at = "storage"])
  /\ UNCHANGED <<op, names, attrs, objects, entries, raced, started>>

\* The storage has answered the one access a request of this type makes; the
\* response goes to the client.
Stored(r, type) ==
  /\ r.req.at = "storage" /\ r.req.type = type
  /\ Moved(r, [r.req EXCEPT !.at = "client"])
  /\ UNCHANGED <<op, names, attrs, raced, started>>
CreateObject(r) ==
  /\ Stored(r, "create")
  /\ objects' = objects \union {r.req.object} /\ UNCHANGED entries
RemoveObject(r) ==
  /\ Stored(r, "remove")
  /\ objects' = objects \ {r.req.object} /\ UNCHANGED entries
CreateDirEnt(r) ==
  /\ Stored(r, "createDirEnt")
  /\ entries' = entries \union {r.req.path} /\ UNCHANGED objects
RemoveDirEnt(r) ==
  /\ Stored(r, "removeDirEnt")
  /\ entries' = entries \ {r.req.path} /\ UNCHANGED objects
GetAttr(r) == Stored(r, "getAttr") /\ UNCHANGED <<objects, entries>>
SetAttr(r) == Stored(r, "setAttr") /\ UNCHANGED <<objects, entries>>
ReadDir(r) == Stored(r, "readDir") /\ UNCHANGED <<objects, entries>>

\* processLookupResult: the entries of one directory have been read.  The
\* server goes on with the next directory when that is its own.
\* Mutant of LookedUp: a partial answer does not count the last segment.
LookedUpUncounted(q) ==
  LET next == Prefix(q.path, q.resolved)
      done == q.resolved = Len(q.path)
      here == next \in Known /\ DataServers[next][1] = ServerOf(q.object)
      more == [q EXCEPT !.resolved = @ + 1]
  IN CASE next \notin Known -> [q EXCEPT !.at = "client", !.status = "NOTFOUND"]
       [] next \in Known /\ done -> [more EXCEPT !.at = "client", !.status = "FOUND"]
       [] here /\ ~done -> more
       [] OTHER -> [q EXCEPT !.at = "client", !.status = "PARTIAL"]
LookedUp(q) ==
  LET next == Prefix(q.path, q.resolved)
      done == q.resolved = Len(q.path)
      here == next \in Known /\ DataServers[next][1] = ServerOf(q.object)
      more == [q EXCEPT !.resolved = @ + 1]
  IN CASE next \notin Known -> [q EXCEPT !.at = "client", !.status = "NOTFOUND"]
       [] next \in Known /\ done -> [more EXCEPT !.at = "client", !.status = "FOUND"]
       [] here /\ ~done -> more
       [] OTHER -> [more EXCEPT !.at = "client", !.status = "PARTIAL"]
Lookup(r) ==
  /\ r.req.at = "storage" /\ r.req.type = "lookup"
  /\ Moved(r, LookedUp(r.req))
  /\ UNCHANGED <<op, names, attrs, objects, entries, raced, started>>

Asks == \E c \in Clients, kind \in Kinds : \E p \in PathsOf(kind) : Start(c, kind, p)
Runs ==
  \/ \E c \in Clients : Response(c)
  \/ \E r \in requests :
       \/ ServerRequest(r) \/ Lookup(r) \/ GetAttr(r) \/ SetAttr(r) \/ ReadDir(r)
       \/ CreateObject(r) \/ RemoveObject(r) \/ CreateDirEnt(r) \/ RemoveDirEnt(r)
Next == Asks \/ Runs

\* The event queue of the simulation delivers every message.
Spec == Init /\ [][Next]_vars /\ WF_vars(Runs)

-----------------------------------------------------------------------------
RequestTypes == {"lookup", "getAttr", "setAttr", "create", "remove", "createDirEnt",
                 "removeDirEnt", "readDir"}
Paths == Known \union Unknown \union {Parent(p) : p \in Unknown}
\* A client's caches hold known paths, each once, within their capacity; its
\* lookups resolve no more segments than there are (LRUTimeoutCache, Lookup).
TypeOK ==
  /\ \A c \in Clients :
       /\ op[c].kind \in Kinds /\ op[c].path \in Paths
       /\ op[c].sm \in 0..Len(Machines(op[c].kind, op[c].path))
       /\ op[c].resolved \in 1..Len(op[c].path) + 1
       /\ ToSet(names[c]) \subseteq Known /\ ToSet(attrs[c]) \subseteq Known
       /\ IsInjective(names[c]) /\ IsInjective(attrs[c])
       /\ Len(names[c]) <= MaxNames /\ Len(attrs[c]) <= MaxAttrs
  /\ \A r \in requests :
       /\ r.client \in Clients /\ r.req.type \in RequestTypes
       /\ r.req.object \in Objects /\ r.req.path \in Paths
       /\ r.req.at \in {"server", "storage", "client"}
       /\ r.req.status \in {"none", "FOUND", "PARTIAL", "NOTFOUND"}
  /\ objects \subseteq Objects /\ entries \subseteq Known /\ raced \subseteq Known
  /\ started \in 0..MaxOperations

\* The metadata object of a directory is not among these: FSCreateDirectorySM
\* creates the first handle of the first metadata server in its place, at any
\* time.
ObjectsOf(p) == Data(p) \union (IF p \in Files THEN {Meta(p)} ELSE {})

\* The entry of a path is written last and removed first, so that no client
\* can find a file of which an object is missing: an entry stands for a path
\* all of whose objects are stored, unless a creation and a removal of it
\* overlapped (FSCreateSM, FSRemoveSM and the storage of several servers).
EntriesNameWholeFiles == \A p \in entries \ raced : ObjectsOf(p) \subseteq objects

\* A server reads only directories of its own (server/lookup.cc routes by the
\* data handle, the client by the metadata handle of the same directory), and
\* never one it has resolved already or that does not exist.
LookupsReadOwnDirectory ==
  \A r \in requests : r.req.at = "storage" /\ r.req.type = "lookup" =>
    LET dir == Prefix(r.req.path, r.req.resolved - 1)
    IN dir \in Directories /\ DataServers[dir][1] = ServerOf(r.req.object)

\* What the servers store names whole files, and each reads only its own part.
ServersConsistent == TypeOK /\ EntriesNameWholeFiles /\ LookupsReadOwnDirectory

\* What the end of an operation promises: nothing it sent is still under way;
\* what was created is all there, what was removed is all gone and forgotten
\* by the client's caches; a lookup has resolved the longest path that exists,
\* through however many servers and whatever the cache held.
LongestKnown(p) == Max({n \in 0..Len(p) : Prefix(p, n) \in Known})
Promised(c) ==
  LET kind == op[c].kind  p == op[c].path
  IN /\ \A r \in requests : r.client # c
     /\ kind \in Creates /\ p \notin raced => p \in entries /\ ObjectsOf(p) \subseteq objects
     /\ kind \in Removes => p \notin ToSet(names[c]) \union ToSet(attrs[c])
     /\ kind \in Removes /\ p \notin raced =>
          p \notin entries /\ (ObjectsOf(p) \ {FirstHandle}) \intersect objects = {}
     /\ kind \in {"open", "stat"} => op[c].resolved = LongestKnown(p) + 1
AnswersKeepPromise == [][\A c \in Clients : ~Idle(c) /\ Idle(c)' => Promised(c)']_vars

\* Every operation is answered, however its responses are ordered.
OperationsEnd == \A c \in Clients : ~Idle(c) ~> Idle(c)
=============================================================================
