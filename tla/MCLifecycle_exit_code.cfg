SPECIFICATION FairSpec
CONSTANTS
    Requests = {q1}
    Modes = {"serve", "h2c", "lambda"}
INVARIANTS
    ExitCodeGiven
CHECK_DEADLOCK FALSE
