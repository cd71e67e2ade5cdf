SPECIFICATION FairSpec
CONSTANTS
    Calls = {c1, c2, c3}
    Interfaces = {"rpc", "file"}
    Nobody = Nobody
INVARIANTS
    TypeOK
    ExclusiveWorker
    StoppedByOne
PROPERTIES
    NoWorkerDropped
    StoppedWorkerEnds
    EveryCallReturns
CHECK_DEADLOCK FALSE
