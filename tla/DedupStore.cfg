CONSTANTS
    Fingerprints = {f1, f2, f3}
    CacheSize = 2
    TTL = 2
    DiskFaults = TRUE
    MaxTime = 4
SYMMETRY MCSymmetry
SPECIFICATION Spec
INVARIANTS
    TypeOK
    NoFalseDuplicate
    NoFalseAccept
PROPERTIES
    RefinesSeenSet
