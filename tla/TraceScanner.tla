----------------------------- MODULE TraceScanner -----------------------------
(***************************************************************************)
(* tools/lanl_trace_scan_actions.cc: the conversion of a recording, the    *)
(* MPI calls one process made, into the trace its application replays.     *)
(*                                                                         *)
(* A call is [op, file, comm, id, begin, duration], begin measured from    *)
(* the first call; the handle of a file is an address in the recording,    *)
(* which the scanner skips: file says, for the properties only, which file *)
(* the call was made on.  A record adds the descriptor fd.  Time is in     *)
(* units of EPSILON, so that any gap is one the scanner sees.              *)
(***************************************************************************)
EXTENDS Integers, SequencesExt

NoFile == 0

(* The scanner's state: the descriptor of currentFile_, the next one to    *)
(* give, the calls kept.                                                   *)
Unscanned == [current |-> NoFile, next |-> 100, calls |-> << >>, failed |-> FALSE]

(* Opening a file while another is open only prints an error.              *)
SetCurrentFile(s) == [s EXCEPT !.current = s.next, !.next = @ + 1]

UnsetCurrentFile(s) == [s EXCEPT !.current = NoFile]

CreateTraceCall(s, call, fd) ==
    [s EXCEPT !.calls =
       Append(@, [op |-> call.op, comm |-> call.comm, fd |-> fd, id |-> call.id,
                  file |-> call.file, begin |-> call.begin, duration |-> call.duration])]

WithoutFile(s, call) == CreateTraceCall(s, call, NoFile)
OnCurrentFile(s, call) == CreateTraceCall(s, call, s.current)

(* The time a broadcast took is not read.                                  *)
HandleCollective(s, call) ==
    WithoutFile(s, IF call.op = "BCAST" THEN [call EXCEPT !.duration = 0] ELSE call)

HandleCart(s, call) == WithoutFile(s, call)

(* Of the calls that make a communicator only the duplication is kept; one *)
(* made from a group ends the scan.                                        *)
HandleComm(s, call) ==
    CASE call.op = "COMM_CREATE" -> [s EXCEPT !.failed = TRUE]
      [] call.op = "COMM_DUP"    -> WithoutFile(s, call)
      [] OTHER                   -> s

HandleFileClose(s, call) == UnsetCurrentFile(OnCurrentFile(s, call))

HandleFileDelete(s, call) == WithoutFile(s, call)

HandleFileGet(s, call) == IF call.op = "GET_SIZE" THEN OnCurrentFile(s, call) ELSE s

(* Mutant of HandleFileOpen: the descriptor is read before the file is set. *)
DescriptorBefore(s, call) == SetCurrentFile(OnCurrentFile(s, call))
HandleFileOpen(s, call) == OnCurrentFile(SetCurrentFile(s), call)

(* The collective accesses at an offset are dropped.                       *)
HandleFileRead(s, call) == IF call.op = "READ_AT_ALL" THEN s ELSE OnCurrentFile(s, call)
HandleFileWrite(s, call) == IF call.op = "WRITE_AT_ALL" THEN s ELSE OnCurrentFile(s, call)

HandleFileSet(s, call) == OnCurrentFile(s, call)

HandleInitFinalize(s, call) == WithoutFile(s, [call EXCEPT !.op = "CPU_PHASE"])

HandleType(s, call) ==
    IF call.op \in {"TYPE_CONTIGUOUS", "TYPE_CREATE_SUBARRAY"} THEN WithoutFile(s, call) ELSE s

(* One call, its handler chosen by its name; a call that has none is       *)
(* skipped.                                                                *)
Handle(s, call) ==
    LET op == call.op
    IN  CASE s.failed                                            -> s
          [] op \in {"ALLREDUCE", "BARRIER", "BCAST"}              -> HandleCollective(s, call)
          [] op \in {"CART_CREATE", "CART_GET"}                    -> HandleCart(s, call)
          [] op \in {"COMM_CREATE", "COMM_DUP", "COMM_RANK"}       -> HandleComm(s, call)
          [] op = "CLOSE"                                          -> HandleFileClose(s, call)
          [] op = "DELETE"                                         -> HandleFileDelete(s, call)
          [] op \in {"GET_AMODE", "GET_GROUP", "GET_SIZE"}         -> HandleFileGet(s, call)
          [] op = "OPEN"                                           -> HandleFileOpen(s, call)
          [] op \in {"READ", "READ_ALL", "READ_AT", "READ_AT_ALL"} -> HandleFileRead(s, call)
          [] op \in {"SEEK", "SET_SIZE", "SET_VIEW", "SYNC"}       -> HandleFileSet(s, call)
          [] op \in {"WRITE", "WRITE_ALL", "WRITE_AT", "WRITE_AT_ALL"} ->
                                                                      HandleFileWrite(s, call)
          [] op \in {"INIT", "FINALIZE"}                           -> HandleInitFinalize(s, call)
          [] op \in {"TYPE_CONTIGUOUS", "TYPE_CREATE_SUBARRAY"}    -> HandleType(s, call)
          [] OTHER                                                 -> s

Scan(recording) == FoldLeft(Handle, Unscanned, recording)

CreateCpuPhase(begin, duration) ==
    [op |-> "CPU_PHASE", comm |-> "none", fd |-> NoFile, id |-> 0, file |-> "none",
     begin |-> begin, duration |-> duration]

Completion(calls, i) == IF i = 0 THEN 0 ELSE calls[i].begin + calls[i].duration

(* Mutant of EmitCall: phases are measured from the start of the last call.   *)
PhaseForCall(calls, i) ==
    <<CreateCpuPhase(IF i = 1 THEN 0 ELSE calls[i - 1].begin,
                     calls[i].begin - (IF i = 1 THEN 0 ELSE calls[i - 1].begin)), calls[i]>>
(* The records: each call, after a phase for the time the process spent    *)
(* since the call before it was complete.                                  *)
EmitCall(calls, i) ==
    LET idle == calls[i].begin - Completion(calls, i - 1)
    IN  IF idle >= 1 THEN <<CreateCpuPhase(Completion(calls, i - 1), idle), calls[i]>>
                     ELSE <<calls[i]>>

EmitTraceCalls(calls) ==
    FlattenSeq([i \in DOMAIN calls |-> EmitCall(calls, i)])

ScannedTrace(recording) == EmitTraceCalls(Scan(recording).calls)
=============================================================================
