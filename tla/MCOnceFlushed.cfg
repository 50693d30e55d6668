SPECIFICATION Spec
CONSTANTS
    Kinds = {"once"}
    Patience = {TRUE}
    SenderOps = {"send"}
    ReceiverOps = {"poll"}
    MaxSend = 1
    Spurious = FALSE
INVARIANT
    NoUseAfterFree
CHECK_DEADLOCK FALSE
