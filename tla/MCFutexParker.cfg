SPECIFICATION FairSpec
CONSTANTS
    Threads = {t1, t2}
    Notifiers = {n1, n2}
INVARIANTS
    HandshakeInv
PROPERTIES
    NotificationDelivered
    ImplementsContract
