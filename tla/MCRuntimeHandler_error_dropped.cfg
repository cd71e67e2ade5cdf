SPECIFICATION Spec
CONSTANTS
    Cases = {}
    MaxCases = 0
INVARIANTS
    FailuresReported
CHECK_DEADLOCK FALSE
