---------------------------- MODULE Applications ----------------------------
(***************************************************************************)
(* The processes of a parallel application replayed from their traces      *)
(* (PHTFIOApplication, and SHTFIOApplication for a serial trace), with the *)
(* MPI middleware they synchronise through and the aggregators before      *)
(* their caches.  The simulator runs one event at a time: an action is the *)
(* handling of one message by one module.                                  *)
(*                                                                         *)
(* A record of a trace is [op, comm, fd, id, file, begin, duration]; of    *)
(* the data it carries only the descriptor, the communicator and the       *)
(* non-blocking request's id are kept: sizes, offsets, types and views     *)
(* change no control flow here.  A trace is written for the job or made by *)
(* the scanner from a recording; file is the file the record is about, and *)
(* with the times is there for the properties.                             *)
(*                                                                         *)
(* A request is [proc, n, kind, comm, id, collective, joined], n the place *)
(* of its record in the trace of proc.  The cache and the file system      *)
(* below answer every request some time, in any order.                     *)
(***************************************************************************)
EXTENDS Aggregators, TraceScanner

CONSTANTS
    Programs,          \* the jobs: [trace: process -> records, last: the last line,
                       \*            serial, scanned: made from a recording]
    AggregatorClasses, \* the classes of aggregator a job may run with
    DisableCPUPause,   \* whether CPU phases are skipped
    IntWidth           \* bits of an int: 32 in the code, fewer in an instance

LocalOps == {"COMM_DUP", "CART_CREATE", "CART_GET", "SEEK", "SET_VIEW", "SYNC",
             "TYPE_CONTIGUOUS", "TYPE_CREATE_SUBARRAY"}
CollectiveOps == {"ALLREDUCE", "BARRIER", "BCAST"}
NonBlockingOps == {"IREAD", "IWRITE"}
CollectiveDataOps == {"READ_ALL", "WRITE_ALL"}
ReadOps == {"READ", "READ_AT", "READ_ALL", "IREAD"}
WriteOps == {"WRITE", "WRITE_AT", "WRITE_ALL", "IWRITE"}
MetaOps == {"CLOSE", "DELETE", "GET_INFO", "GET_SIZE", "SET_SIZE"}
DescriptorOps == ReadOps \cup WriteOps
                 \cup {"CLOSE", "GET_INFO", "GET_SIZE", "SEEK", "SET_SIZE", "SET_VIEW"}
Op == LocalOps \cup CollectiveOps \cup NonBlockingOps \cup CollectiveDataOps \cup ReadOps
      \cup WriteOps \cup MetaOps \cup {"OPEN", "WAIT", "CPU_PHASE", "COMM_RANK"}

SerialOp == {"ACCESS", "CLOSE", "CPU_PHASE", "MKDIR", "OPEN", "READ", "READDIR", "RMDIR",
             "STAT", "UNLINK", "UTIME", "WRITE"}

NoDescriptor == [fd \in {} |-> SELF]
NoId == -1

ASSUME ApplicationsAssumption ==
    /\ \A j \in Programs : \A p \in Proc : \A n \in DOMAIN j.trace[p] :
          j.trace[p][n].op \in (IF j.serial THEN SerialOp ELSE Op)
    /\ IntWidth \in Nat \ {0}

VARIABLES
    job,       \* the job running, with its aggregator class
    app,       \* process -> [pc, fds, pending, stream]
    ranks,     \* rankMapByCommunicator_
    out,       \* process -> the messages on their way to the middleware, in order
    waiting,   \* the participants of the collectives not yet complete
    gathering, \* node -> currentCollective_
    atCache,   \* the requests the caches have not answered
    inbox,     \* the messages on their way to the applications
    aborted    \* an assertion of the program failed: the simulation is over

vars == <<job, app, ranks, out, waiting, gathering, atCache, inbox, aborted>>

trace == job.trace

(***************************************************************************)
(* Messages.                                                               *)
(***************************************************************************)

Message(p, n, kind, comm, id, collective) ==
    [proc |-> p, n |-> n, kind |-> kind, comm |-> comm, id |-> id,
     collective |-> collective, joined |-> FALSE]

(* Reads and writes carry -1 as their id unless they are non-blocking.     *)
ReadRequest(p, n) == Message(p, n, "read", SELF, NoId, FALSE)
WriteRequest(p, n) == Message(p, n, "write", SELF, NoId, FALSE)
MetaRequest(p, n) == Message(p, n, "meta", SELF, NoId, FALSE)

DataRequest(p, n, e) == IF e.op \in ReadOps THEN ReadRequest(p, n) ELSE WriteRequest(p, n)

(* READ_ALL and WRITE_ALL carry the communicator of their descriptor.      *)
CollectiveRequest(a, n, e) ==
    [DataRequest(a.proc, n, e) EXCEPT !.collective = TRUE, !.comm = a.fds[e.fd]]

CPUPhase(p, n) == Message(p, n, "cpu", SELF, NoId, FALSE)

BcastRequest(p, n, comm) == Message(p, n, "mpi", comm, NoId, FALSE)

(***************************************************************************)
(* The trace.  s is the state a handler works on: [a: the process, ranks,  *)
(* sent: messages out, phase: its own CPU message, abort].                 *)
(***************************************************************************)

(* eof() peeks at the next character.  At the end of the file the peek     *)
(* sets the stream's end bit; a peek on a stream with that bit fails it,   *)
(* and the assertion after it.  So it does when the last line lacks its    *)
(* newline, for getline set the bit; and a last line that is empty fails   *)
(* the assertion that reading it ends the file.                            *)
TraceFails(last, a) ==
    \/ a.stream = "end"
    \/ a.pc > Len(trace[a.proc]) /\ last # "newline"

Emit(s, m) == [s EXCEPT !.sent = Append(@, m)]

(* The records handled within the process: a communicator is duplicated,   *)
(* or only data change.                                                    *)
PerformCommDup(s, e) ==
    IF CommExists(s.ranks, e.comm)
    THEN [s EXCEPT !.ranks = DupRanks(s.ranks, e.comm, e.id)]
    ELSE [s EXCEPT !.abort = TRUE]

PerformLocal(s, e) ==
    IF e.op \in {"COMM_DUP", "CART_CREATE"} THEN PerformCommDup(s, e) ELSE s

Opened(s, e) == [s EXCEPT !.a.fds = (e.fd :> e.comm) @@ @]

OpenRequest(s, n, e) == Message(s.a.proc, n, "open", e.comm, NoId, FALSE)

(* Mutant of PerformOpen: the open is not awaited.                         *)
OpenNotAwaited(s, n, e) ==
    IF CommRank(s.ranks, e.comm, s.a.proc) = 0
    THEN Emit(Emit(Opened(s, e), OpenRequest(s, n, e)), BcastRequest(s.a.proc, n, e.comm))
    ELSE Emit(Opened(s, e), BcastRequest(s.a.proc, n, e.comm))

(* OPEN: the descriptor is made by every process; the communicator's first *)
(* rank opens the file and broadcasts when it is open, the others join the *)
(* broadcast at once.                                                      *)
PerformOpen(s, n, e) ==
    IF CommRank(s.ranks, e.comm, s.a.proc) = 0
    THEN Emit(Opened(s, e), OpenRequest(s, n, e))
    ELSE Emit(Opened(s, e), BcastRequest(s.a.proc, n, e.comm))

WaitIsComplete(s, id) == id \notin s.a.pending

NonBlockingRequest(p, n, e) == [DataRequest(p, n, e) EXCEPT !.id = e.id]

(* Mutant of StartNonBlocking: the request is not noted as pending.        *)
ForgetPending(s, n, e) == Emit(s, NonBlockingRequest(s.a.proc, n, e))

StartNonBlocking(s, n, e) ==
    Emit([s EXCEPT !.a.pending = @ \cup {e.id}], NonBlockingRequest(s.a.proc, n, e))

BlockingMessage(a, n, e) ==
    CASE e.op \in CollectiveOps     -> BcastRequest(a.proc, n, e.comm)
      [] e.op \in CollectiveDataOps -> CollectiveRequest(a, n, e)
      [] e.op \in MetaOps           -> MetaRequest(a.proc, n)
      [] OTHER                      -> DataRequest(a.proc, n, e)

RECURSIVE ScheduleNextMessage(_, _)

(* One record; after one that needs no answer, the next.  A COMM_RANK      *)
(* record has no handler, which an assertion reports; one with a descriptor *)
(* that was never opened is met by an assertion or a null pointer.         *)
ProcessEvent(last, s, n, e) ==
    CASE e.op \in DescriptorOps /\ e.fd \notin DOMAIN s.a.fds -> [s EXCEPT !.abort = TRUE]
      [] e.op \in LocalOps       -> ScheduleNextMessage(last, PerformLocal(s, e))
      [] e.op = "CPU_PHASE"      -> IF DisableCPUPause THEN ScheduleNextMessage(last, s)
                                    ELSE [s EXCEPT !.phase = {CPUPhase(s.a.proc, n)}]
      [] e.op = "OPEN"           -> PerformOpen(s, n, e)
      [] e.op \in NonBlockingOps -> ScheduleNextMessage(last, StartNonBlocking(s, n, e))
      [] e.op = "WAIT"           -> IF WaitIsComplete(s, e.id)
                                    THEN ScheduleNextMessage(last, s) ELSE s
      [] e.op = "COMM_RANK"      -> [s EXCEPT !.abort = TRUE]
      [] OTHER                   -> Emit(s, BlockingMessage(s.a, n, e))

ScheduleNextMessage(last, s) ==
    LET a == s.a
    IN  IF s.abort THEN s
        ELSE IF TraceFails(last, a) THEN [s EXCEPT !.abort = TRUE]
        ELSE IF a.pc > Len(trace[a.proc]) THEN [s EXCEPT !.a.stream = "end"]
        ELSE ProcessEvent(last, [s EXCEPT !.a.pc = @ + 1], a.pc, trace[a.proc][a.pc])

(* SHTFIOApplication: one record, one message, the communicator SELF.  The *)
(* descriptor a CLOSE names is deleted before its request is sent.         *)
SerialOpen(s, n, e) ==
    Emit([s EXCEPT !.a.fds = (e.fd :> SELF) @@ @],
         Message(s.a.proc, n, "open", SELF, NoId, FALSE))

SerialClose(s, n, e) ==
    Emit([s EXCEPT !.a.fds = Restrict(@, DOMAIN @ \ {e.fd})], MetaRequest(s.a.proc, n))

SerialMessage(p, n, e) ==
    IF e.op \in {"READ", "WRITE"} THEN DataRequest(p, n, e) ELSE MetaRequest(p, n)

(* The records are counted, so that asking at the end is harmless.         *)
HasMoreRecords(a) == a.pc <= Len(trace[a.proc])

ScheduleNextSerial(s) ==
    LET a    == s.a
        e    == trace[a.proc][a.pc]
        read == [s EXCEPT !.a.pc = @ + 1]
    IN  IF ~HasMoreRecords(a) THEN [s EXCEPT !.a.stream = "end"]
        ELSE CASE e.op = "CPU_PHASE" -> [read EXCEPT !.phase = {CPUPhase(a.proc, a.pc)}]
               [] e.op = "OPEN"      -> SerialOpen(read, a.pc, e)
               [] e.op = "CLOSE"     -> SerialClose(read, a.pc, e)
               [] OTHER              -> Emit(read, SerialMessage(a.proc, a.pc, e))

(***************************************************************************)
(* Actions.                                                                *)
(***************************************************************************)

Init ==
    /\ job \in {[j EXCEPT !.aggregator = c] : j \in Programs, c \in AggregatorClasses}
    /\ app = [p \in Proc |-> [proc |-> p, pc |-> 1, fds |-> NoDescriptor,
                              pending |-> {}, stream |-> "open"]]
    /\ ranks = RegisteredRanks
    /\ out = [p \in Proc |-> << >>]
    /\ waiting = [c \in Comm |-> << >>]
    /\ gathering = [node \in ComputeNode |-> {}]
    /\ atCache = {}
    /\ inbox = {CPUPhase(p, 0) : p \in Proc}
    /\ aborted = FALSE

NextRecord(s) ==
    IF job.serial THEN ScheduleNextSerial(s) ELSE ScheduleNextMessage(job.last, s)

(* A long put into an int: its low bits, the highest of them the sign.     *)
AsInt(id) ==
    LET low == id % 2^IntWidth
    IN  IF low < 2^(IntWidth - 1) THEN low ELSE low - 2^IntWidth

(* Mutant of EraseFromPending: the reads are forgotten.                    *)
EraseWrites(a, m) ==
    [a EXCEPT !.pending = IF m.kind = "write" THEN @ \ {AsInt(m.id)} ELSE @]

(* handleIOMessage: an answered read or write is no longer pending.  The   *)
(* ids of requests are long, the one erased is an int: an id that does not *)
(* fit stays, and the one it becomes goes.                                 *)
EraseFromPending(a, m) ==
    [a EXCEPT !.pending = IF m.kind \in {"read", "write"} THEN @ \ {AsInt(m.id)} ELSE @]

(* An application handles a message: the answer to an open on a            *)
(* communicator other than SELF makes it broadcast; after any other one,   *)
(* whatever it answers, the next records are read.                         *)
ApplicationMessage(m) ==
    LET p == m.proc
        s == [a |-> EraseFromPending(app[p], m), ranks |-> ranks, sent |-> << >>,
              phase |-> {}, abort |-> FALSE]
        t == IF ~job.serial /\ m.kind = "open" /\ m.comm # SELF
             THEN Emit(s, BcastRequest(p, m.n, m.comm))
             ELSE NextRecord(s)
    IN  /\ ~aborted
        /\ m \in inbox
        /\ app' = [app EXCEPT ![p] = t.a]
        /\ ranks' = t.ranks
        /\ out' = [out EXCEPT ![p] = @ \o t.sent]
        /\ inbox' = (inbox \ {m}) \cup t.phase
        /\ aborted' = t.abort
        /\ UNCHANGED <<job, waiting, gathering, atCache>>

(* The MPI middleware takes a collective request.                          *)
MiddlewareMessage(p) ==
    /\ ~aborted
    /\ out[p] # << >>
    /\ Head(out[p]).kind = "mpi"
    /\ LET done == PerformCollective(ranks, waiting, Head(out[p]))
       IN  /\ waiting' = done.waiting
           /\ inbox' = inbox \cup done.released
    /\ out' = [out EXCEPT ![p] = Tail(@)]
    /\ UNCHANGED <<job, app, ranks, gathering, atCache, aborted>>

(* The aggregator takes a request of its application.                      *)
AggregatorTakesRequest(p) ==
    /\ ~aborted
    /\ out[p] # << >>
    /\ Head(out[p]).kind # "mpi"
    /\ \E done \in AggregatorRequest(job.aggregator, gathering, Head(out[p])) :
          /\ gathering' = done.gathering
          /\ atCache' = atCache \cup done.forwarded
    /\ out' = [out EXCEPT ![p] = Tail(@)]
    /\ UNCHANGED <<job, app, ranks, waiting, inbox, aborted>>

(* The cache answers a request and its aggregator takes the answer.        *)
AggregatorTakesResponse(r) ==
    LET done == AggregatorResponse(job.aggregator, gathering, r)
    IN  /\ ~aborted
        /\ r \in atCache
        /\ atCache' = atCache \ {r}
        /\ gathering' = done.gathering
        /\ inbox' = inbox \cup done.answered
        /\ UNCHANGED <<job, app, ranks, out, waiting, aborted>>

Finished == \A p \in Proc : app[p].stream = "end"

Next ==
    \/ \E m \in inbox : ApplicationMessage(m)
    \/ \E p \in Proc : MiddlewareMessage(p)
    \/ \E p \in Proc : AggregatorTakesRequest(p)
    \/ \E r \in atCache : AggregatorTakesResponse(r)

(* The simulator takes the next event as long as there is one.             *)
Spec == Init /\ [][Next]_vars /\ WF_vars(Next)

(***************************************************************************)
(* Correctness.                                                            *)
(***************************************************************************)

Outstanding ==
    atCache \cup inbox \cup UNION {gathering[node] : node \in ComputeNode}
            \cup UNION {Range(out[p]) : p \in Proc}
            \cup UNION {Range(waiting[c]) : c \in Comm}

Places(p, ops) == {n \in 1 .. Len(trace[p]) : trace[p][n].op \in ops}

(* The records p has read, and those of them it has left behind.           *)
Read(p) == 1 .. app[p].pc - 1
Passed(p) == IF app[p].stream = "end" THEN Read(p) ELSE Read(p) \ {app[p].pc - 1}

(* Every place in the system holds what the code may put there: requests   *)
(* read from the trace, collectives with the node that gathers them,       *)
(* participants with the communicator they wait on.                        *)
TypeOK ==
    /\ \A p \in Proc : app[p].pc \in 1 .. Len(trace[p]) + 1
    /\ \A m \in Outstanding : m.proc \in Proc /\ m.n \in 0 .. app[m.proc].pc - 1
    /\ \A c \in Comm : \A i \in DOMAIN waiting[c] : waiting[c][i].comm = c
    /\ \A node \in ComputeNode : \A r \in gathering[node] :
          NodeOf[r.proc] = node /\ r.collective
    /\ aborted \in BOOLEAN

(* A collective separates its members: none passes its k-th collective on  *)
(* a communicator before every member has come to its own k-th; and an     *)
(* OPEN, completed by a broadcast, is passed by nobody before the rank     *)
(* that opens the file has its answer (performCollective, the OPEN case of *)
(* processIrregularEvent, handleMessage).                                  *)
Collectives(p, c) ==
    {n \in Places(p, CollectiveOps \cup {"OPEN"}) : trace[p][n].comm = c}
HasArrived(q, n) ==
    n \in Read(q) /\ ~\E m \in Outstanding : m.proc = q /\ m.n = n /\ m.kind = "open"
CollectivesSynchronise ==
    \A c \in Comm \ {SELF} :
      CommSize(ranks, c) > 1 =>
        \A p, q \in DOMAIN ranks[c] :
           Cardinality(Collectives(p, c) \cap Passed(p))
             <= Cardinality({n \in Collectives(q, c) : HasArrived(q, n)})

(* "Map of non-blocking IO request that are still pending" (phtf_io_       *)
(* application.h): what a process holds as pending is exactly what it      *)
(* started and has no answer to, wherever that is on its way and however   *)
(* many operations it started (valid for ids that fit an int).             *)
PendingAreOutstanding ==
    \A p \in Proc :
       app[p].pending = {m.id : m \in {r \in Outstanding : r.proc = p}} \ {NoId}

(* Accesses that are gathered complete together: a process that has left   *)
(* its k-th one behind finds every process of its node at its own k-th at  *)
(* least, and no joined request for it is still at the cache               *)
(* (handleCollectiveIORequest, handleCollectiveIOResponse).                *)
GatheredOps ==
    CASE job.aggregator = "none"  -> {}
      [] job.aggregator = "sieve" -> {"READ_ALL"}
      [] job.aggregator = "view"  -> CollectiveDataOps
GatheredPassed(p) == Cardinality(Places(p, GatheredOps) \cap Passed(p))
GatheredAccessesJoin ==
    \A p, q \in Proc : NodeOf[p] = NodeOf[q] =>
       /\ GatheredPassed(p) <= Cardinality(Places(q, GatheredOps) \cap Read(q))
       /\ \A r \in atCache : r.joined /\ r.proc = q =>
             GatheredPassed(p) < Cardinality(Places(q, GatheredOps) \cap 1 .. r.n)

(* A process starts a non-blocking operation before it waited for the last *)
(* one.  Any answer reads the next record, so such a process passes a WAIT *)
(* with its own operation unanswered and can come to the end too early.    *)
OperationsOverlap ==
    \E p \in Proc : \E n \in Places(p, NonBlockingOps) : \E k \in 1 .. n - 1 :
       /\ trace[p][k].op \in NonBlockingOps
       /\ \A j \in k + 1 .. n - 1 : trace[p][j].op # "WAIT" \/ trace[p][j].id # trace[p][k].id

(* No assertion of the applications fails: nothing is answered after a     *)
(* trace has been read to its end (PHTFEvent::eof fails when it is asked   *)
(* again) and no communicator is used before it exists (valid for jobs     *)
(* whose operations do not overlap).                                       *)
NeverAborts == aborted => OperationsOverlap

(* A record for a file carries the descriptor that file was opened with,   *)
(* though the scanner never reads which file a call was made on (valid for *)
(* recordings that have one file open at a time).                          *)
RecordsNameTheirFile ==
    \A p \in Proc : \A n \in Places(p, DescriptorOps) :
       \E k \in 1 .. n - 1 :
          /\ trace[p][k].op = "OPEN"
          /\ trace[p][k].fd = trace[p][n].fd
          /\ trace[p][k].file = trace[p][n].file
          /\ \A j \in k + 1 .. n - 1 : trace[p][j].op # "OPEN" \/ trace[p][j].fd # trace[p][k].fd

(* A call is replayed after as much time as it was recorded after: the     *)
(* records before it, phases included, last until it began                 *)
(* (emitTraceCalls, createTraceCall).                                      *)
TimeBefore(p, n) == FoldLeft(LAMBDA sum, e : sum + e.duration, 0, SubSeq(trace[p], 1, n - 1))
RecordedTimeKept ==
    job.scanned => \A p \in Proc : \A n \in DOMAIN trace[p] :
                      TimeBefore(p, n) = trace[p][n].begin

(* Every process replays its whole trace, in jobs whose operations do not  *)
(* overlap.                                                                *)
EveryoneFinishes == OperationsOverlap \/ <>Finished

=============================================================================
