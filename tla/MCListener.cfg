SPECIFICATION ListenerFairSpec
CONSTANTS
    Threads = {t1}
    Notifiers = {n1, n2}
    Nobody = Nobody
INVARIANTS
    CountInv
    NoUseAfterFree
PROPERTIES
    BlockReturns
