---------------------------- MODULE RecencyCache ----------------------------
(***************************************************************************)
(* What LRUCache promises its users, without lists, iterators or counters: *)
(* a bounded map, and an order in which its keys were last used.           *)
(*                                                                         *)
(*   content   the cached keys with their data and dirty bit               *)
(*   usedAfter the pairs <<k, j>> of cached keys such that k was used more *)
(*             recently than j                                             *)
(***************************************************************************)
EXTENDS Naturals, FiniteSets

CONSTANTS Keys, Values, maxEntries

VARIABLES content, usedAfter, result
vars == <<content, usedAfter, result>>

Cached == DOMAIN content

\* Every other cached key was used after k.
LeastRecent(k) == k \in Cached /\ \A j \in Cached \ {k} : <<j, k>> \in usedAfter

\* The order once k has just been used and only the keys in S remain.
UseNow(k, S) == {p \in usedAfter : p[1] \in S \ {k} /\ p[2] \in S \ {k}}
                \union {<<k, j>> : j \in S \ {k}}

Full == Cardinality(Cached) = maxEntries

\* The keys that stay when k is inserted: all of them, or all but the least
\* recently used one.
Survivors(k, S) ==
  IF k \in Cached \/ ~Full
  THEN S = Cached
  ELSE \E e \in Cached : LeastRecent(e) /\ S = Cached \ {e}

Put(k, v, d, S) ==
  /\ content' = [j \in S \union {k} |-> IF j = k THEN [data |-> v, dirty |-> d] ELSE content[j]]
  /\ usedAfter' = UseNow(k, S \union {k})

Init == content = [k \in {} |-> k] /\ usedAfter = {} /\ result = [kind |-> "returned"]

Inserting(k, v, d) ==
  \E S \in SUBSET Cached :
     /\ Survivors(k, S) /\ Put(k, v, d, S)
     /\ result' = [kind |-> "returned"]

\* The caller is told which entry went, with its data and dirty bit, exactly
\* when one did.
InsertingAndRecalling(k, v, d) ==
  \E S \in SUBSET Cached :
     /\ Survivors(k, S) /\ Put(k, v, d, S)
     /\ IF S = Cached
        THEN result' = [kind |-> "NoSuchEntry"]
        ELSE \E e \in Cached \ S :
               result' = [kind |-> "recalled", key |-> e,
                          data |-> content[e].data, dirty |-> content[e].dirty]

Removing(k) ==
  /\ k \in Cached
  /\ content' = [j \in Cached \ {k} |-> content[j]]
  /\ usedAfter' = {p \in usedAfter : p[1] # k /\ p[2] # k}
  /\ result' = [kind |-> "returned"]

\* Changing a dirty bit is not a use.
Marking(k, d) ==
  /\ k \in Cached
  /\ content' = [content EXCEPT ![k].dirty = d]
  /\ result' = [kind |-> "returned"]
  /\ UNCHANGED usedAfter

LookingUp(k) ==
  /\ k \in Cached
  /\ usedAfter' = UseNow(k, Cached)
  /\ result' = [kind |-> "found", data |-> content[k].data]
  /\ UNCHANGED content

Missing(k) ==
  /\ k \notin Cached
  /\ result' = [kind |-> "NoSuchEntry"]
  /\ UNCHANGED <<content, usedAfter>>

Next ==
  \E k \in Keys :
     \/ \E v \in Values, d \in BOOLEAN : Inserting(k, v, d) \/ InsertingAndRecalling(k, v, d)
     \/ Removing(k) \/ LookingUp(k) \/ Missing(k)
     \/ \E d \in BOOLEAN : Marking(k, d)

Spec == Init /\ [][Next]_vars
=============================================================================
