SPECIFICATION Spec
CONSTANTS
    Handles = {h1, h2}
    Clients = {"reusing"}
    LenderOps = {"wait", "timed", "get_mut"}
    MaxOps = 3
    Word = 64
INVARIANT
    ExclusiveAccess
CHECK_DEADLOCK FALSE
