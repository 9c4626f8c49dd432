CONSTANTS
    None = None
    Messages = {m1, m2}
    Items = {i1, i2, i3}
    NumParts = 2
    MaxAttempts = 3
    MaxQueueSize = 2
    DropExpired = TRUE
    ReplayFailed = TRUE
    DiskFaults = FALSE
    MaxInterrupts = 1
SYMMETRY MCSymmetry
SPECIFICATION Spec
INVARIANTS
    FreshBatch
    QueueOnDisk
    AttemptsCounted
PROPERTIES
    KeepsContract
