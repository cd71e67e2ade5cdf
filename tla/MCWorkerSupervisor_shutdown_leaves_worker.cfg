SPECIFICATION FairSpec
CONSTANTS
    Calls = {c1, c2}
    Interfaces = {"rpc"}
    Nobody = Nobody
PROPERTIES
    ShutdownTerminatesWorkers
CHECK_DEADLOCK FALSE
