SPECIFICATION FairSpec
CONSTANTS
    Streams = {"outer", "middle", "inner"}
    Outer = "outer"
    Parent <- Chain
    Width = 2
    MaxSend <- TwoTwoOne
    Uses <- AnyUse
INVARIANTS
    PollsNest
    SlotInnermost
    Delivered
    FlushedReceived
    NoPanic

    
CHECK_DEADLOCK FALSE
