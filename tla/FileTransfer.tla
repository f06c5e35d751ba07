---------------------------- MODULE FileTransfer ----------------------------
(***************************************************************************)
(* What a client is promised when it reads or writes a region of a striped *)
(* file: each server moves exactly the bytes it holds of the region, and   *)
(* the operation finishes, once, when every byte has reached its           *)
(* destination and not before.                                             *)
(***************************************************************************)
EXTENDS Integers

CONSTANTS Servers, Sizes

VARIABLES
  share,    \* bytes each server holds of the region, fixed at the start
  moved,    \* bytes of them that reached the client or the server's disk
  status    \* "INIT", "COUNT" (under way) or "FINISH"
vars == <<share, moved, status>>

Init ==
  /\ share \in [Servers -> Sizes]
  /\ moved = [s \in Servers |-> 0]
  /\ status = "INIT"

AllMoved == moved = share

Start ==
  /\ status = "INIT"
  /\ status' \in IF AllMoved THEN {"COUNT", "FINISH"} ELSE {"COUNT"}
  /\ UNCHANGED <<share, moved>>

Move(s) ==
  /\ status = "COUNT"
  /\ \E n \in 1..(share[s] - moved[s]) : moved' = [moved EXCEPT ![s] = @ + n]
  /\ UNCHANGED <<share, status>>

Finish ==
  /\ status = "COUNT" /\ AllMoved
  /\ status' = "FINISH"
  /\ UNCHANGED <<share, moved>>

Next == Start \/ Finish \/ \E s \in Servers : Move(s)

Spec == Init /\ [][Next]_vars /\ WF_vars(Next)
=============================================================================
