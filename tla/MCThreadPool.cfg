SPECIFICATION FairSpec
CONSTANTS
    Tasks = {k1, k2, k3}
    Scoped = {k1, k2}
    Workers = {w1, w2, w3, w4}
    Configs <- MCConfigs
    QueuePerIdle = 1
    NoTask = NoTask
INVARIANTS
    CountsExact
    ThreadBound
    DrainRunsAll
    
PROPERTIES
    TaskRuns
    ScopeReturns
    CloseReturns
