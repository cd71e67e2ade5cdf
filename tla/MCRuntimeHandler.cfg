SPECIFICATION Spec
CONSTANTS
    Cases <- MCCases
    MaxCases = 3
INVARIANTS
    TypeOK
    ClientErrorsUnsent
    CasesAsSpecified
CHECK_DEADLOCK FALSE
