CONSTANTS
    None = None
    Messages = {m1, m2}
    Items = {i1, i2}
    NumParts = 2
    MaxAttempts = 2
    MaxQueueSize = 1
    DropExpired = TRUE
    ReplayFailed = TRUE
    DiskFaults = TRUE
    MaxInterrupts = 1
SPECIFICATION FairSpec
INVARIANTS
    TypeOK
    Inv
    Accounted
    ConfirmedIsFinal
    ForwardedOnce
PROPERTIES
    WireOrder
    KeepsContract
    EverySettles
