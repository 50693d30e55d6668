SPECIFICATION FairSpec
CONSTANTS
    Kinds = {"stream"}
    Patience = {TRUE}
    SenderOps = {"drop"}
    ReceiverOps = {"wait"}
    MaxSend = 1
    Spurious = FALSE
PROPERTY
    DropObserved
CHECK_DEADLOCK FALSE
