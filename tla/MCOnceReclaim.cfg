SPECIFICATION Spec
CONSTANTS
    Kinds = {"once"}
    Patience = {TRUE}
    SenderOps = {"try_send"}
    ReceiverOps = {"poll"}
    MaxSend = 1
    Spurious = FALSE
INVARIANT
    NoFault
CHECK_DEADLOCK FALSE
