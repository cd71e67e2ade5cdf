SPECIFICATION FairSpec
CONSTANTS
    Waits = {w1, w2, w3}
    OverlappingWaits = FALSE
INVARIANTS
    TypeOK
    EventTruthful
    StderrWhole
PROPERTIES
    WaitEnds
CHECK_DEADLOCK FALSE
