---------------------------- MODULE Aggregators ----------------------------
(***************************************************************************)
(* The middleware aggregators between an application and its cache.  The   *)
(* processes of a compute node share one set of collective requests,       *)
(* currentCollective_, here gathering[node].  Three classes:               *)
(*   none    passes everything through;                                    *)
(*   sieve   gathers the collective reads;                                 *)
(*   view    gathers the collective reads and writes.                      *)
(* The last member to arrive sends one joined request through its own      *)
(* cache; whichever gathered kind of response comes next on the node       *)
(* answers every member.                                                   *)
(***************************************************************************)
EXTENDS Communicators

CONSTANT NodeOf \* process -> the compute node it runs on

ASSUME AggregatorsAssumption == DOMAIN NodeOf = Proc

ComputeNode == Range(NodeOf)

(* MPIConfigurator sets the size to the node's number of processes.        *)
AggregatorSize(node) == Cardinality({p \in Proc : NodeOf[p] = node})

GatheredKinds(class) ==
    CASE class = "none"  -> {}
      [] class = "sieve" -> {"read"}
      [] class = "view"  -> {"read", "write"}

(* Mutant of Gathers: independent accesses are gathered too.              *)
GathersAll(class, r) == r.kind \in GatheredKinds(class)

Gathers(class, r) == r.kind \in GatheredKinds(class) /\ r.collective

(* performUnion: one request for the members' data.  It is of the kind of  *)
(* the first member in the order of their addresses, any of them; data     *)
(* sieving expects reads only.                                             *)
JoinedRequests(all, r) == {[r EXCEPT !.kind = first.kind, !.joined = TRUE] : first \in all}

(* A request that is not gathered is forwarded as it is.                   *)
PassThrough(gathering, r) == {[gathering |-> gathering, forwarded |-> {r}]}

(* Mutant of HandleCollectiveIORequest: the members are not counted.       *)
OneMemberMissing(gathering, r) ==
    LET node == NodeOf[r.proc]
        all  == gathering[node] \cup {r}
    IN  {[gathering |-> [gathering EXCEPT ![node] = all],
          forwarded |-> {j}] : j \in JoinedRequests(all, r)}

HandleCollectiveIORequest(gathering, r) ==
    LET node     == NodeOf[r.proc]
        all      == gathering[node] \cup {r}
        gathered == [gathering EXCEPT ![node] = all]
    IN  IF Cardinality(all) = AggregatorSize(node)
        THEN {[gathering |-> gathered, forwarded |-> {j}] : j \in JoinedRequests(all, r)}
        ELSE {[gathering |-> gathered, forwarded |-> {}]}

(* A request of the application: the [gathering, forwarded] that may       *)
(* follow.                                                                 *)
AggregatorRequest(class, gathering, r) ==
    IF Gathers(class, r) THEN HandleCollectiveIORequest(gathering, r)
    ELSE PassThrough(gathering, r)


(* Every member is answered, the response's own request is deleted.        *)
HandleCollectiveIOResponse(gathering, r) ==
    [gathering |-> [gathering EXCEPT ![NodeOf[r.proc]] = {}],
     answered  |-> gathering[NodeOf[r.proc]]]

(* A response of the cache to request r: [gathering, answered].  While     *)
(* members are gathered, it is taken for the collective's own, whichever   *)
(* request it answers.                                                     *)
AggregatorResponse(class, gathering, r) ==
    IF r.kind \in GatheredKinds(class) /\ gathering[NodeOf[r.proc]] # {}
    THEN HandleCollectiveIOResponse(gathering, r)
    ELSE [gathering |-> gathering, answered |-> {r}]
=============================================================================
