---------------------------- MODULE DeviceService ----------------------------
(***************************************************************************)
(* What a storage layer owes the layer above it: every request it accepts  *)
(* is answered exactly once, at some later time and in any order, and      *)
(* nothing is answered that was not asked.                                 *)
(***************************************************************************)
CONSTANT Requests

VARIABLES asked, answered   \* sets of requests
vars == <<asked, answered>>

Init == asked = {} /\ answered = {}

Ask(r) ==
  /\ r \notin asked
  /\ asked' = asked \union {r}
  /\ UNCHANGED answered

\* One event may answer several waiting requests, or the request it accepts.
Answer(S) ==
  /\ S # {} /\ S \cap answered = {}
  /\ S \subseteq asked
  /\ answered' = answered \union S
  /\ UNCHANGED asked

AskAnswered(r) ==
  /\ r \notin asked
  /\ asked' = asked \union {r}
  /\ answered' = answered \union {r}

Next ==
  \/ \E r \in Requests : Ask(r) \/ AskAnswered(r)
  \/ \E S \in SUBSET Requests : Answer(S)

Spec == Init /\ [][Next]_vars
             /\ \A r \in Requests : WF_vars(\E S \in SUBSET Requests : r \in S /\ Answer(S))
=============================================================================
