SPECIFICATION TaskFairSpec
CONSTANTS
    Kinds = {"once", "stream", "task"}
    Patience = {TRUE, FALSE}
    SenderOps = {"send", "try_send", "drop"}
    ReceiverOps = {"poll", "try", "wait", "timed", "cancel", "drop"}
    MaxSend = 3
    Spurious = TRUE
INVARIANTS
    TaskInv
    
    FreedOnce
    WakerExclusive
    InOrder
    NoLostWakeup
    JoinFaithful
PROPERTIES
    EventuallySettled
CHECK_DEADLOCK FALSE
