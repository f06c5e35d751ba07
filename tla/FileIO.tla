------------------------------- MODULE FileIO -------------------------------
(***************************************************************************)
(* One file read or write of a client, over the servers that hold stripes  *)
(* of the file: the client state machines FSReadSM and FSWriteSM, the      *)
(* server handlers Read and Write behind the request scheduler, the job    *)
(* managers of both sides and the pair of data flows they run per server   *)
(* (BMIMemoryDataFlow at the client, BMIListIODataFlow at the server).     *)
(*                                                                         *)
(* OMNeT++ delivers events in time order, and events of the same time in   *)
(* the order they were scheduled.  `now` is the calendar of the events due *)
(* at the current time: messages between the modules of one host, self     *)
(* messages, and the acknowledgements sendDirect carries to the other host *)
(* with no delay.  The network (a FIFO each way per server) and the disk   *)
(* (answers in any order) take time: what they deliver at one time comes   *)
(* before the events it causes, so they deliver when the calendar is empty *)
(* or holds only the effects of other deliveries of the same time.         *)
(***************************************************************************)
EXTENDS Integers, Sequences, SequencesExt, FiniteSets

CONSTANTS
  NumServers,   \* data servers of the file
  NumBuffers,   \* JobManager parameter numBuffers
  BufferSize,   \* JobManager parameter bufferSizeInBytes
  Sizes,        \* bytes of the region a server may hold
  WriteAt,      \* where the region starts in each server's byte stream
  OldSizes      \* sizes the byte streams may have before the operation

Servers == 1..NumServers
Skip == -1      \* the region has no byte on this server: it is sent nothing

ASSUME NumServersAssumption == NumServers \in Nat \ {0}
ASSUME BufferAssumption == NumBuffers \in Nat \ {0} /\ BufferSize \in Nat \ {0}
ASSUME SizesAssumption == Sizes \subseteq Nat /\ OldSizes \subseteq Nat /\ WriteAt \in Nat

VARIABLES
  mode,       \* "read" or "write"
  plan,       \* server -> bytes its flow moves, or Skip
  phase,      \* state of the client's state machine: INIT, COUNT, FINISH
  remaining,  \* the client's counts of responses, flows and completions to come
  req,        \* server -> its request object: "none", "live", "deleted"
  srv,        \* server -> state of the handler, kept in the request
  cflow,      \* server -> the client's flow for it
  sflow,      \* server -> the server's flow
  now,        \* sequence of events due now
  arriving,   \* TRUE while every event of it was caused by a delivery
  down, up,   \* server -> packets on the way to it, and from it
  disk,       \* server -> sequence of byte counts its disk is working on
  bstream     \* server -> bstreamSizes entry of the file's metadata
vars == <<mode, plan, phase, remaining, req, srv, cflow, sflow, now, arriving, down, up, disk, bstream>>
client == <<phase, remaining>>
flows == <<cflow, sflow>>

Ev(at, type, s, n) == [at |-> at, type |-> type, server |-> s, n |-> n]
Packet(type, n) == [type |-> type, n |-> n]
NoFlow == [st |-> "none", net |-> 0, sto |-> 0, off |-> 0]

Asked == {s \in Servers : plan[s] # Skip}
WithFlow == {s \in Servers : plan[s] > 0}

\* The processing of a read that runs past the end of a server's byte stream
\* leaves it a request with no bytes; a write has no such request, and always
\* has at least one: with none FSWriteSM would wait for ever (see README).
Init ==
  /\ mode \in {"read", "write"}
  /\ plan \in [Servers -> Sizes \union {Skip}]
  /\ mode = "write" => WithFlow = Asked /\ Asked # {}
  /\ phase = "INIT" /\ remaining = [resp |-> 0, flow |-> 0, comp |-> 0]
  /\ req = [s \in Servers |-> "none"] /\ srv = [s \in Servers |-> "INIT"]
  /\ cflow = [s \in Servers |-> NoFlow] /\ sflow = [s \in Servers |-> NoFlow]
  /\ now = <<>> /\ arriving = FALSE /\ disk = [s \in Servers |-> <<>>]
  /\ down = [s \in Servers |-> <<>>] /\ up = [s \in Servers |-> <<>>]
  /\ bstream \in [Servers -> OldSizes]

-----------------------------------------------------------------------------
(* Data flows.                                                             *)

\* The bytes from offset off on that one buffer holds.
Chunk(s, off) == IF plan[s] - off < BufferSize THEN plan[s] - off ELSE BufferSize

\* The buffers the last n bytes take.
BuffersFor(n) == (n + BufferSize - 1) \div BufferSize
\* The k transfers a flow starts when it got to off: one that finds no byte
\* left does nothing.
NextChunks(s, off, k) ==
  [i \in 1..Min({k, BuffersFor(plan[s] - off)}) |-> Chunk(s, off + (i - 1) * BufferSize)]

SumOf(chunks) == FoldLeft(+, 0, chunks)

Pushes(chunks) == [i \in 1..Len(chunks) |-> Packet("push", chunks[i])]

\* DataFlow::isComplete, evaluated after every message the flow handles: the
\* flow schedules its own finish.
Completed(f, s) == f.net = plan[s] /\ f.sto = plan[s]
After(f, s) == IF Completed(f, s) THEN [f EXCEPT !.st = "done"] ELSE f
FinishOf(f, s, jm) == IF Completed(f, s) THEN <<Ev(jm, "self", s, 0)>> ELSE <<>>

\* updateBstreamSize for n bytes written at the flow's offset off.
Grown(s, off, n) == IF WriteAt + off + n > bstream[s] THEN WriteAt + off + n ELSE bstream[s]

-----------------------------------------------------------------------------
(* The client.                                                             *)

\* For a read the flow is started before the request goes out.
ClientSends(s) ==
  IF plan[s] = Skip THEN <<>>
  ELSE (IF mode = "read" /\ plan[s] > 0 THEN <<Ev("cjm", "start", s, 0)>> ELSE <<>>)
       \o <<Ev("cjm", "req", s, 0)>>

\* FSReadSM::enterRead, FSWriteSM::beginWrite.
StartOperation ==
  /\ phase = "INIT"
  /\ arriving' = FALSE
  /\ now' = now \o FlattenSeq([s \in Servers |-> ClientSends(s)])
  /\ phase' = IF mode = "read" /\ Asked = {} THEN "FINISH" ELSE "COUNT"
  /\ remaining' = [resp |-> Cardinality(Asked), flow |-> Cardinality(WithFlow),
                   comp |-> IF mode = "write" THEN Cardinality(Asked) ELSE 0]
  /\ req' = [s \in Servers |-> IF s \in Asked THEN "live" ELSE "none"]
  /\ UNCHANGED <<mode, plan, srv, flows, down, up, disk, bstream>>

\* Mutant of IsComplete: the completions are not waited for.
IsCompleteNoCompletions(r) == r.resp = 0 /\ r.flow = 0
\* isReadComplete, isWriteComplete.
IsComplete(r) == r.resp = 0 /\ r.flow = 0 /\ r.comp = 0

\* A message of the calendar is handled; it leaves the events `out` behind.
Handle(at, type, s, out) ==
  /\ now # <<>>
  /\ now[1].at = at /\ now[1].type = type /\ now[1].server = s
  /\ now' = Tail(now) \o out
  /\ arriving' = FALSE

Counted(r) == /\ remaining' = r
              /\ phase' = IF IsComplete(r) THEN "FINISH" ELSE "COUNT"

\* Mutant of AutoCleanup: a read's request goes with its response.
AutoCleanupAlways(s) == mode = "read"
\* The client deletes the request with the first response unless told not to;
\* a read that has a flow leaves it to the server, whose flow ends last.
AutoCleanup(s) == mode = "read" /\ plan[s] = 0

ClientResponse(s) ==
  /\ Handle("client", "resp", s,
            IF mode = "write" THEN <<Ev("cjm", "start", s, 0)>> ELSE <<>>)
  /\ LET r == [remaining EXCEPT !.resp = @ - 1]
     IN IF mode = "write" THEN remaining' = r /\ UNCHANGED phase ELSE Counted(r)
  /\ req' = IF AutoCleanup(s) THEN [req EXCEPT ![s] = "deleted"] ELSE req
  /\ UNCHANGED <<mode, plan, srv, flows, down, up, disk, bstream>>

ClientFlowFinish(s) ==
  /\ Handle("client", "fin", s, <<>>)
  /\ Counted([remaining EXCEPT !.flow = @ - 1])
  /\ UNCHANGED <<mode, plan, req, srv, flows, down, up, disk, bstream>>

\* countCompletion turns auto cleanup on, and FSClient deletes the request.
ClientCompletion(s) ==
  /\ Handle("client", "comp", s, <<>>)
  /\ Counted([remaining EXCEPT !.comp = @ - 1])
  /\ req' = [req EXCEPT ![s] = "deleted"]
  /\ UNCHANGED <<mode, plan, srv, flows, down, up, disk, bstream>>

-----------------------------------------------------------------------------
(* The server: Read and Write::handleServerMessage.                        *)

\* What the server sends on a request: the start of its flow, if any, then the
\* response.
FirstAnswer(s) ==
  (IF plan[s] > 0 THEN <<Ev("sched", "start", s, 0)>> ELSE <<>>)
  \o <<Ev("sched", "resp", s, 0)>>

ServerRequest(s) ==
  /\ srv[s] = "INIT"
  /\ Handle("server", "req", s, FirstAnswer(s))
  /\ srv' = [srv EXCEPT ![s] = "RESPONDED"]
  /\ UNCHANGED <<mode, plan, client, req, flows, down, up, disk, bstream>>

\* Mutant of ReadFinished: the server does not clean the request up.
ReadFinishedLeaks(s) == req
\* Read::finish and ~Read: the request of a read with a flow is deleted here.
ReadFinished(s) == [req EXCEPT ![s] = "deleted"]

ServerFlowFinish(s) ==
  /\ srv[s] = "RESPONDED"
  /\ Handle("server", "fin", s,
            IF mode = "write" THEN <<Ev("sched", "comp", s, 0)>> ELSE <<>>)
  /\ srv' = [srv EXCEPT ![s] = "FINISH"]
  /\ req' = IF mode = "read" THEN ReadFinished(s) ELSE req
  /\ UNCHANGED <<mode, plan, client, flows, down, up, disk, bstream>>

\* RequestScheduler::handleMessage: everything is passed through, each way.
SchedulerPass(s) ==
  /\ \/ \E in \in {"req", "fin"} : Handle("sched", in, s, <<Ev("server", in, s, 0)>>)
     \/ \E out \in {"start", "resp", "comp"} :
          Handle("sched", out, s, <<Ev("sjm", out, s, 0)>>)
  /\ UNCHANGED <<mode, plan, client, req, srv, flows, down, up, disk, bstream>>

-----------------------------------------------------------------------------
(* The job managers.                                                       *)

\* handlePFSMessage with a request or a response: out to the network.
SendRequest(s) ==
  /\ Handle("cjm", "req", s, <<>>)
  /\ down' = [down EXCEPT ![s] = Append(@, Packet("req", 0))]
  /\ UNCHANGED <<mode, plan, client, req, srv, flows, up, disk, bstream>>

SendResponse(s) ==
  /\ \E type \in {"resp", "comp"} :
        /\ Handle("sjm", type, s, <<>>)
        /\ up' = [up EXCEPT ![s] = Append(@, Packet(type, 0))]
  /\ UNCHANGED <<mode, plan, client, req, srv, flows, down, disk, bstream>>

\* handlePFSMessage with a flow start: the flow is created, registered,
\* subscribed to its tag and, if it is the source, starts numBuffers transfers.
StartClientFlow(s) ==
  /\ Handle("cjm", "start", s, <<>>)
  /\ LET chunks == IF mode = "write" THEN NextChunks(s, 0, NumBuffers) ELSE <<>>
     IN /\ cflow' = [cflow EXCEPT ![s] = [NoFlow EXCEPT !.st = "active", !.off = SumOf(chunks)]]
        /\ down' = [down EXCEPT ![s] = @ \o Pushes(chunks)]
  /\ UNCHANGED <<mode, plan, client, req, srv, sflow, up, disk, bstream>>

StartServerFlow(s) ==
  /\ Handle("sjm", "start", s, <<>>)
  /\ LET chunks == IF mode = "read" THEN NextChunks(s, 0, NumBuffers) ELSE <<>>
     IN /\ sflow' = [sflow EXCEPT ![s] = [NoFlow EXCEPT !.st = "active", !.off = SumOf(chunks)]]
        /\ disk' = [disk EXCEPT ![s] = @ \o chunks]
  /\ UNCHANGED <<mode, plan, client, req, srv, cflow, down, up, bstream>>

\* handleSelfMessage: the flow is deregistered and deleted, and its finish
\* goes on to the client or the server.
EndClientFlow(s) ==
  /\ Handle("cjm", "self", s, <<Ev("client", "fin", s, 0)>>)
  /\ cflow' = [cflow EXCEPT ![s].st = "gone"]
  /\ UNCHANGED <<mode, plan, client, req, srv, sflow, down, up, disk, bstream>>

EndServerFlow(s) ==
  /\ Handle("sjm", "self", s, <<Ev("sched", "fin", s, 0)>>)
  /\ sflow' = [sflow EXCEPT ![s].st = "gone"]
  /\ UNCHANGED <<mode, plan, client, req, srv, cflow, down, up, disk, bstream>>

\* Mutant of ClientProgress: an acknowledgement counts a whole buffer.
ClientProgressWhole(f, n) == [f EXCEPT !.net = @ + BufferSize, !.sto = @ + BufferSize]
\* The client's memory counts as its storage: both totals advance.
ClientProgress(f, n) == [f EXCEPT !.net = @ + n, !.sto = @ + n]

\* An acknowledgement reaches the source, which sends its next buffer (client)
\* or fetches it from storage (server).
AckAtClient(s) ==
  LET f == ClientProgress(cflow[s], now[1].n)
      chunks == NextChunks(s, f.off, 1)
      g == [f EXCEPT !.off = @ + SumOf(chunks)]
  IN /\ Handle("cjm", "ack", s, FinishOf(g, s, "cjm"))
     /\ cflow' = [cflow EXCEPT ![s] = After(g, s)]
     /\ down' = [down EXCEPT ![s] = @ \o Pushes(chunks)]
     /\ UNCHANGED <<mode, plan, client, req, srv, sflow, up, disk, bstream>>

\* pullDataFromStorage on an acknowledgement.
Refill(s, off) == NextChunks(s, off, 1)

AckAtServer(s) ==
  LET f == [sflow[s] EXCEPT !.net = @ + now[1].n]
      chunks == Refill(s, f.off)
      g == [f EXCEPT !.off = @ + SumOf(chunks)]
  IN /\ Handle("sjm", "ack", s, FinishOf(g, s, "sjm"))
     /\ sflow' = [sflow EXCEPT ![s] = After(g, s)]
     /\ disk' = [disk EXCEPT ![s] = @ \o chunks]
     /\ UNCHANGED <<mode, plan, client, req, srv, cflow, down, up, bstream>>

-----------------------------------------------------------------------------
(* What takes time: the network and the disks.                             *)

Deliver(events) ==
  /\ now = <<>> \/ arriving
  /\ now' = now \o events
  /\ arriving' = TRUE

\* handleNetworkMessage at the server: a request goes on to the server, data
\* to the flow, which acknowledges it at once and writes it to storage.
ArriveAtServer(s) ==
  /\ down[s] # <<>>
  /\ down' = [down EXCEPT ![s] = Tail(@)]
  /\ LET p == down[s][1] IN
     \/ /\ p.type = "req"
        /\ Deliver(<<Ev("sched", "req", s, 0)>>)
        /\ UNCHANGED <<sflow, disk, bstream>>
     \/ LET f == [sflow[s] EXCEPT !.net = @ + p.n, !.off = @ + p.n] IN
        /\ p.type = "push"
        /\ Deliver(<<Ev("cjm", "ack", s, p.n)>> \o FinishOf(f, s, "sjm"))
        /\ sflow' = [sflow EXCEPT ![s] = After(f, s)]
        /\ disk' = [disk EXCEPT ![s] = Append(@, p.n)]
        /\ bstream' = [bstream EXCEPT ![s] = Grown(s, sflow[s].off, p.n)]
  /\ UNCHANGED <<mode, plan, client, req, srv, cflow, up>>

ArriveAtClient(s) ==
  /\ up[s] # <<>>
  /\ up' = [up EXCEPT ![s] = Tail(@)]
  /\ LET p == up[s][1] IN
     \/ /\ p.type \in {"resp", "comp"}
        /\ Deliver(<<Ev("client", p.type, s, 0)>>)
        /\ UNCHANGED cflow
     \/ LET f == ClientProgress(cflow[s], p.n) IN
        /\ p.type = "push"
        /\ Deliver(<<Ev("sjm", "ack", s, p.n)>> \o FinishOf(f, s, "cjm"))
        /\ cflow' = [cflow EXCEPT ![s] = After(f, s)]
  /\ UNCHANGED <<mode, plan, client, req, srv, sflow, down, disk, bstream>>

\* handleStorageMessage: data read goes out to the client.
DiskAnswers(s) ==
  /\ \E i \in 1..Len(disk[s]) :
       LET f == [sflow[s] EXCEPT !.sto = @ + disk[s][i]] IN
       /\ disk' = [disk EXCEPT ![s] = RemoveAt(@, i)]
       /\ up' = IF mode = "read" THEN [up EXCEPT ![s] = Append(@, Packet("push", disk[s][i]))]
                ELSE up
       /\ Deliver(FinishOf(f, s, "sjm"))
       /\ sflow' = [sflow EXCEPT ![s] = After(f, s)]
  /\ UNCHANGED <<mode, plan, client, req, srv, cflow, down, bstream>>

Step ==
  \/ StartOperation
  \/ \E s \in Servers :
       \/ ClientResponse(s) \/ ClientFlowFinish(s) \/ ClientCompletion(s)
       \/ ServerRequest(s) \/ ServerFlowFinish(s) \/ SchedulerPass(s)
       \/ SendRequest(s) \/ SendResponse(s)
       \/ StartClientFlow(s) \/ StartServerFlow(s) \/ EndClientFlow(s) \/ EndServerFlow(s)
       \/ AckAtClient(s) \/ AckAtServer(s)
       \/ ArriveAtServer(s) \/ ArriveAtClient(s) \/ DiskAnswers(s)

\* The simulation ends when no event is left.
Ended ==
  /\ phase = "FINISH" /\ now = <<>>
  /\ \A s \in Servers : down[s] = <<>> /\ up[s] = <<>> /\ disk[s] = <<>>

Next == Step \/ (Ended /\ UNCHANGED vars)

\* The simulation kernel executes every scheduled event.
Spec == Init /\ [][Next]_vars /\ WF_vars(Step)

-----------------------------------------------------------------------------
(* Properties.                                                             *)

InFlight(s, q) == SumOf([i \in 1..Len(q) |-> q[i].n])
AcksTo(s, jm) == SumOf([i \in 1..Len(now) |->
                   IF now[i].at = jm /\ now[i].type = "ack" /\ now[i].server = s
                   THEN now[i].n ELSE 0])

\* Types, and the counts of the client never fall below zero.
FlowStates == {"none", "active", "done", "gone"}
TypeOK ==
  /\ phase \in {"INIT", "COUNT", "FINISH"}
  /\ remaining \in [resp : 0..NumServers, flow : 0..NumServers, comp : 0..NumServers]
  /\ req \in [Servers -> {"none", "live", "deleted"}]
  /\ srv \in [Servers -> {"INIT", "RESPONDED", "FINISH"}]
  /\ \A s \in Servers : \A f \in {cflow[s], sflow[s]} :
       f.st \in FlowStates /\ {f.net, f.sto, f.off} \subseteq 0..(IF plan[s] > 0 THEN plan[s] ELSE 0)
  /\ \A s \in Servers : bstream[s] \in Nat

\* No message on its way refers to a server request that has been deleted:
\* the client deletes it with its response, or with the completion of a
\* write, and the server at the end of a read's flow, while the other side may
\* still be working ("the request is deleted on the server").
RefersToRequest(e) == \/ e.type \in {"req", "start", "resp", "comp"}
                      \/ e.type = "fin" /\ e.at \in {"sched", "server"}
RequestsOutliveTheirMessages ==
  /\ \A i \in 1..Len(now) : RefersToRequest(now[i]) => req[now[i].server] = "live"
  /\ \A s \in Servers : \A q \in {down[s], up[s]} : \A i \in 1..Len(q) :
       q[i].type # "push" => req[s] = "live"

\* Data, acknowledgements and storage answers always find the flow they are
\* for, and the partner they are acknowledged to, created and not yet deleted:
\* the assertions of JobManager and of sendPushAck hold, and the tags left
\* subscribed after a flow's deletion are never followed.
FlowsOutliveTheirMessages ==
  \A s \in Servers :
    /\ (\E i \in 1..Len(up[s]) : up[s][i].type = "push") =>
         cflow[s].st = "active" /\ sflow[s].st = "active"
    /\ (\E i \in 1..Len(down[s]) : down[s][i].type = "push") =>
         cflow[s].st = "active" /\ sflow[s].st = "active"
    /\ disk[s] # <<>> => sflow[s].st = "active"
    /\ \A i \in 1..Len(now) : now[i].server = s =>
         CASE now[i].type = "ack" /\ now[i].at = "cjm" -> cflow[s].st = "active"
           [] now[i].type = "ack" /\ now[i].at = "sjm" -> sflow[s].st = "active"
           [] now[i].type = "self" /\ now[i].at = "cjm" -> cflow[s].st = "done"
           [] now[i].type = "self" /\ now[i].at = "sjm" -> sflow[s].st = "done"
           [] OTHER -> TRUE

\* No byte is lost, duplicated or counted twice on its way: what the source
\* handed out is on the disk queue, on the network, or counted by the other
\* flow, and what that flow counted is acknowledged or being acknowledged.
BytesAccounted ==
  \A s \in Servers :
    IF mode = "read"
    THEN /\ sflow[s].off = SumOf(disk[s]) + sflow[s].sto
         /\ sflow[s].sto = InFlight(s, up[s]) + cflow[s].net
         /\ cflow[s].net = AcksTo(s, "sjm") + sflow[s].net
    ELSE /\ cflow[s].off = InFlight(s, down[s]) + sflow[s].net
         /\ sflow[s].net = SumOf(disk[s]) + sflow[s].sto
         /\ sflow[s].net = AcksTo(s, "cjm") + cflow[s].net

\* A flow never has more than its buffers' worth of data out.
WindowBounded ==
  \A s \in Servers :
    LET f == IF mode = "read" THEN sflow[s] ELSE cflow[s]
    IN f.off - f.net <= NumBuffers * BufferSize

\* Every byte is in one place, and no more than the buffers hold is out.
BytesConserved == BytesAccounted /\ WindowBounded

\* Once the operation is finished nothing more comes for it to the client,
\* whose state machine has no way to handle it.
QuietAfterFinish ==
  phase = "FINISH" =>
    /\ \A i \in 1..Len(now) : now[i].at \notin {"client", "cjm"}
    /\ \A s \in Servers : up[s] = <<>>

\* No message is about something that is gone: a deleted request, a flow not
\* yet or no longer there, an operation that is finished.
NoUseAfterDelete ==
  TypeOK /\ RequestsOutliveTheirMessages /\ FlowsOutliveTheirMessages /\ QuietAfterFinish

\* Every request object is deleted in the end, by exactly one of the sides.
RequestsCleanedUp == <>[](\A s \in Servers : req[s] # "live")

\* The operation implements the transfer the client asked for: it finishes, and
\* only when the client has all the data of a read, the disks all the data of
\* a write.
Transfer == INSTANCE FileTransfer WITH
  share <- [s \in Servers |-> IF plan[s] > 0 THEN plan[s] ELSE 0],
  moved <- [s \in Servers |-> IF mode = "read" THEN cflow[s].sto ELSE sflow[s].sto],
  Sizes <- Sizes \union {0},
  status <- phase
ImplementsTransfer == Transfer!Spec
=============================================================================
