CONSTANTS
    Texts = {a, b, c}
    Window = 2
    CacheSize = 2
    Ttl = 3
    MaxQuiet = 1
    MaxLog = 3
    MaxClients = 2
    MaxFaults = 1
SPECIFICATION Spec
CHECK_DEADLOCK FALSE
INVARIANTS
    TypeOK
    ForwardedInOrder
PROPERTIES
    EveryLineHandled
    PollingGoesOn
