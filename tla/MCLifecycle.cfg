SPECIFICATION FairSpec
CONSTANTS
    Requests = {q1, q2}
    Modes = {"serve", "h2c", "lambda"}
INVARIANTS
    TypeOK
    RequestsServed
    CleanExit
    FlagsDecide
PROPERTIES
    StartsOrExits
CHECK_DEADLOCK FALSE
