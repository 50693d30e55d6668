SPECIFICATION FairSpec
CONSTANTS
    Handles = {h1, h2, h3}
    Clients = {"patient", "hasty"}
    LenderOps = {"get_mut", "poll", "wait", "timed", "cancel", "into", "drop"}
    MaxOps = 4
    Word = 64
INVARIANTS
    
    ExclusiveAccess
    
    NoFault
    AwaitsLast
PROPERTIES
    CollectResolves
CHECK_DEADLOCK FALSE
