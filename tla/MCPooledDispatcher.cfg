SPECIFICATION FairSpec
CONSTANTS
    Requests = {q1, q2, q3}
    MaxWorkers = 2
    NoSupervisor = NoSupervisor
INVARIANTS
    TypeOK
    ExclusiveUse
    NoLostPermit
PROPERTIES
    ImplementsLeases
    WaitsOnlyForSends
    ShutdownCompletes
CHECK_DEADLOCK FALSE
