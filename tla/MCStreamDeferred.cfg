SPECIFICATION FairSpec
CONSTANTS
    Streams = {"outer"}
    Outer = "outer"
    Parent <- Alone
    Width = 1
    MaxSend <- Two
    Uses <- Deferred
PROPERTY
    FlushResolves
CHECK_DEADLOCK FALSE
