SPECIFICATION Spec
CONSTANTS
    Requests = {q1, q2, q3}
    MaxInstances = 2
    NoInstance = NoInstance
INVARIANTS
    TypeOK
    InstancesConserved
    MemoryRestored
    ServingInstancesClosed
CHECK_DEADLOCK FALSE
