CONSTANTS
    None = None
    Messages = {m1}
    Items = {i1}
    NumParts = 2
    MaxAttempts = 2
    MaxQueueSize = 1
    DropExpired = TRUE
    ReplayFailed = TRUE
    DiskFaults = FALSE
    MaxInterrupts = 1
SPECIFICATION Spec
INVARIANTS
    AtLeastOnce
