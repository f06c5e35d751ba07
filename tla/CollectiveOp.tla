---------------------------- MODULE CollectiveOp ----------------------------
(***************************************************************************)
(* What the client of a collective create, remove or get-attributes call   *)
(* is promised: every object of the file is processed exactly once, the    *)
(* directory entry (if the operation has one) after all the others, and    *)
(* the single response comes when nothing is left to do.                   *)
(***************************************************************************)
CONSTANT AllObjects

VARIABLES
  objects,     \* the objects this operation processes, fixed at the start
  final,       \* those of them that come after all the others
  processed,   \* those processed so far
  responded
vars == <<objects, final, processed, responded>>

Init ==
  /\ objects \in SUBSET AllObjects /\ final \in SUBSET objects
  /\ processed = {} /\ responded = FALSE

Process(o) ==
  /\ o \in objects \ processed
  /\ o \in final => objects \ final \subseteq processed
  /\ processed' = processed \union {o}
  /\ UNCHANGED <<objects, final, responded>>

Respond ==
  /\ processed = objects /\ ~responded
  /\ responded' = TRUE
  /\ UNCHANGED <<objects, final, processed>>

Next == Respond \/ \E o \in objects : Process(o)

Spec == Init /\ [][Next]_vars /\ WF_vars(Next)
=============================================================================
