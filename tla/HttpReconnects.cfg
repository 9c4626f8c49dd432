CONSTANTS
    Texts = {a, b}
    Window = 2
    CacheSize = 2
    Ttl = 3
    MaxQuiet = 1
    MaxLog = 1
    MaxClients = 2
    MaxFaults = 1
SPECIFICATION Spec
CHECK_DEADLOCK FALSE
PROPERTY
    HttpReconnects
