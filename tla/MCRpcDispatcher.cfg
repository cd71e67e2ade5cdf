SPECIFICATION RpcFairSpec
CONSTANTS
    Calls = {start, c1, c2}
    Interfaces = {"rpc"}
    Nobody = Nobody
    Starter = start
    Transports = {"stdio", "http", "ipc", "unsupported"}
    BaseDelay = 3
    MaxDelay = 10
    Width = 6
INVARIANTS
    RpcTypeOK
    OneAwaited
PROPERTIES
    BackoffPaced
    ImplementsSupervisor
CHECK_DEADLOCK FALSE
