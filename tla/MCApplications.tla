--------------------------- MODULE MCApplications ---------------------------
(***************************************************************************)
(* Three processes on two nodes.  But for TwoPending the jobs wait for a   *)
(* non-blocking operation before they start another.  Ids fit an int, and  *)
(* a barrier separates independent accesses from collective ones.          *)
(***************************************************************************)
EXTENDS Applications

MCProc == 0 .. 2
MCNodeOf == [p \in MCProc |-> IF p = 2 THEN "far" ELSE "near"]

Rec(op, comm, fd, id) == [op |-> op, comm |-> comm, fd |-> fd, id |-> id, file |-> "f",
                          begin |-> 0, duration |-> 0]
On(op, comm) == Rec(op, comm, 0, 0)
At(op, fd) == Rec(op, "none", fd, 0)
Start(op, fd, id) == Rec(op, "none", fd, id)
Wait(id) == Rec("WAIT", "none", 0, id)
Dup(old, new) == Rec("COMM_DUP", old, 0, new)

Everyone(records, last, serial) ==
    [trace |-> [p \in MCProc |-> records], last |-> last, serial |-> serial,
     aggregator |-> "none", scanned |-> FALSE]

CollectiveAccess ==
    Everyone(<<Rec("OPEN", "world", 3, 0), At("SET_VIEW", 3), At("WRITE_ALL", 3),
               On("BARRIER", "world"), At("READ", 3), On("BCAST", "world"),
               At("READ_ALL", 3), At("CLOSE", 3)>>, "newline", FALSE)

NonBlocking ==
    Everyone(<<Dup("world", "dup"), Rec("OPEN", "dup", 3, 0), Start("IWRITE", 3, 7),
               At("SEEK", 3), Wait(7), Wait(7), Start("IREAD", 3, 7), Wait(7),
               On("ALLREDUCE", "dup"), On("CPU_PHASE", "none"), At("READ_AT", 3)>>,
             "newline", FALSE)

(* Two operations of one process pending at once, answered in any order.   *)
TwoPending ==
    [Everyone(<< >>, "newline", FALSE) EXCEPT !.trace =
       [p \in MCProc |->
          IF p # 0 THEN << >>
          ELSE <<Rec("OPEN", "self", 3, 0), Start("IWRITE", 3, 1), Start("IREAD", 3, 7),
                 At("READ", 3), Wait(1), Wait(7)>>]]

OwnFiles ==
    [Everyone(<< >>, "newline", FALSE) EXCEPT !.trace =
       [p \in MCProc |->
          <<On("BARRIER", "self"), Rec("CART_CREATE", "self", 0, "dup")>>
          \o (IF p = 0 THEN <<Rec("OPEN", "dup", 4, 0)>>
                       ELSE <<Rec("OPEN", "self", 4, 0), Rec("TYPE_CONTIGUOUS", "none", 0, 0)>>)
          \o <<At("WRITE", 4), On("CPU_PHASE", "none"), At("GET_SIZE", 4),
               On("BARRIER", "world")>>]]

Serial ==
    Everyone(<<Rec("OPEN", "self", 3, 0), At("WRITE", 3), On("CPU_PHASE", "none"),
               At("READ", 3), At("CLOSE", 3), At("STAT", 3)>>, "newline", TRUE)

(* Recordings: a call comes some time after the one before and lasts some  *)
(* time.                                                                   *)
Call(gap, op, comm, file, duration) ==
    [op |-> op, comm |-> comm, file |-> file, id |-> IF op \in {"COMM_DUP", "CART_CREATE"} THEN "dup" ELSE 0,
     gap |-> gap, duration |-> duration]
Timed(calls) ==
    FoldLeft(LAMBDA r, c :
               [now   |-> r.now + c.gap + c.duration,
                calls |-> Append(r.calls, [op |-> c.op, comm |-> c.comm, file |-> c.file,
                                           id |-> c.id, begin |-> r.now + c.gap,
                                           duration |-> c.duration])],
             [now |-> 0, calls |-> << >>], calls).calls

TwoFiles ==
    Timed(<<Call(0, "INIT", "none", "none", 2), Call(0, "COMM_RANK", "world", "none", 1),
            Call(0, "OPEN", "world", "f", 3), Call(0, "SET_VIEW", "none", "f", 0),
            Call(0, "WRITE_ALL", "none", "f", 2), Call(0, "WRITE_AT_ALL", "none", "f", 0),
            Call(0, "CLOSE", "none", "f", 1), Call(0, "COMM_DUP", "world", "none", 0),
            Call(0, "OPEN", "dup", "g", 1), Call(1, "SEEK", "none", "g", 0),
            Call(0, "READ_AT", "none", "g", 2), Call(0, "GET_AMODE", "none", "g", 0),
            Call(0, "BCAST", "dup", "none", 1), Call(0, "CLOSE", "none", "g", 1),
            Call(0, "DELETE", "none", "f", 1), Call(0, "FINALIZE", "none", "none", 1)>>)
OneFile(op) ==
    Timed(<<Call(1, "CART_CREATE", "self", "none", 1), Call(0, "OPEN", "self", "h", 1),
            Call(0, "TYPE_CONTIGUOUS", "none", "none", 0), Call(2, op, "none", "h", 1),
            Call(0, "SYNC", "none", "h", 1), Call(0, "GET_SIZE", "none", "h", 1),
            Call(0, "WTIME", "none", "none", 0), Call(0, "CLOSE", "none", "h", 0),
            Call(0, "BARRIER", "world", "none", 1)>>)

Scanned(recordings) ==
    [trace |-> [p \in MCProc |-> ScannedTrace(recordings[p])], last |-> "newline",
     serial |-> FALSE, aggregator |-> "none", scanned |-> TRUE]

Recorded == Scanned([p \in MCProc |-> TwoFiles])
RecordedApart == Scanned([p \in MCProc |-> OneFile(IF p = 0 THEN "WRITE" ELSE "READ")])

MCPrograms == {CollectiveAccess, NonBlocking, TwoPending, OwnFiles, Serial, Recorded,
               RecordedApart}
=============================================================================
