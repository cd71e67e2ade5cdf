SPECIFICATION FairSpec
CONSTANTS
    Requests = {q1, q2}
    MaxWorkers = 1
INVARIANTS
    TypeOK
    ResponseComplete
    FilesKept
PROPERTIES
    LeftoversKilled
CHECK_DEADLOCK FALSE
