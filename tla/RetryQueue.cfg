CONSTANTS
    Items = {1, 2, 3}
    MaxQueueSize = 2
    DropExpired = TRUE
    ExpireAfter = 2
    Delays = {0, 1}
    DiskFaults = TRUE
    MaxTime = 2
SPECIFICATION Spec
INVARIANTS
    TypeOK
    FifoByDueTime
    RestartKeepsQueue
    LifeNotExtended
PROPERTIES
    RefinesRetrySet
