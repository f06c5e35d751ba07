SPECIFICATION Spec
CONSTANTS
    Proc <- MCProc
    NodeOf <- MCNodeOf
    SELF = "self"
    WORLD = "world"
    DupComm = {"dup"}
    Programs <- MCPrograms
    AggregatorClasses = {"none", "sieve", "view"}
    DisableCPUPause = FALSE
    IntWidth = 4
INVARIANTS TypeOK CollectivesSynchronise GatheredAccessesJoin PendingAreOutstanding NeverAborts RecordsNameTheirFile RecordedTimeKept
PROPERTIES EveryoneFinishes
CHECK_DEADLOCK FALSE
