--------------------------- MODULE Communicators ---------------------------
(***************************************************************************)
(* The communicators (CommMan) and the collectives performed on them       *)
(* (MPICommunicationHelper), both singletons shared by every process.      *)
(*                                                                         *)
(* ranks: communicator -> (world rank -> rank in the communicator), the    *)
(* map rankMapByCommunicator_.  waiting: communicator -> the requests of   *)
(* the participants that arrived, in order (callbacksByCommunicator_; the  *)
(* count the code keeps beside it is its length, both are erased           *)
(* together).                                                              *)
(***************************************************************************)
EXTENDS Integers, Sequences, Functions, FiniteSets

CONSTANTS
    Proc,        \* the world ranks, 0 .. n-1
    SELF, WORLD, \* SPFS_COMM_SELF and SPFS_COMM_WORLD
    DupComm      \* the other communicators the traces name

Comm == {SELF, WORLD} \cup DupComm

ASSUME CommunicatorsAssumption ==
    /\ Proc = 0 .. Cardinality(Proc) - 1
    /\ SELF # WORLD
    /\ {SELF, WORLD} \cap DupComm = {}

NoRanks == [p \in {} |-> 0]

(* setCommSelf, setCommWorld, then registerRank for every process: the     *)
(* rank itself in WORLD, rank 0 in SELF.                                   *)
RegisteredRanks ==
    [c \in Comm |->
        CASE c = WORLD -> [p \in Proc |-> p]
          [] c = SELF  -> [p \in Proc |-> 0]
          [] OTHER     -> NoRanks]

CommExists(ranks, c) == ranks[c] # NoRanks

CommRank(ranks, c, p) == ranks[c][p]

(* Mutant of CommSize: the entries are counted, not the ranks.             *)
EntryCount(ranks, c) == Cardinality(DOMAIN ranks[c])

(* Unique ranks are counted: COMM_SELF has one, whatever registers there.  *)
CommSize(ranks, c) == Cardinality(Range(ranks[c]))

DupRanks(ranks, old, new) == [ranks EXCEPT ![new] = ranks[old]]

(* performCollective: the request joins the others of its communicator;    *)
(* when as many have arrived as the communicator has ranks, all are        *)
(* released together and the communicator's maps are cleared.              *)
Arrive(waiting, r) == [waiting EXCEPT ![r.comm] = Append(@, r)]


AllHere(ranks, waiting, c) == Len(waiting[c]) = CommSize(ranks, c)

(* completeCommunicationCB: every participant gets its response, after a   *)
(* random delay.                                                           *)
Complete(arrived, c) == Range(arrived[c])

PerformCollective(ranks, waiting, r) ==
    LET arrived == Arrive(waiting, r)
    IN  IF AllHere(ranks, arrived, r.comm)
        THEN [waiting  |-> [arrived EXCEPT ![r.comm] = << >>],
              released |-> Complete(arrived, r.comm)]
        ELSE [waiting |-> arrived, released |-> {}]
=============================================================================
