SPECIFICATION FairSpec
CONSTANTS
    Threads = {t1, t2}
    Notifiers = {n1, n2}
    Nobody = Nobody
INVARIANTS
    TypeOK
    GuardExclusive
    AssertionsHold
    InitExclusive
    HandshakeInv
PROPERTIES
    NotificationDelivered
    ImplementsContract
