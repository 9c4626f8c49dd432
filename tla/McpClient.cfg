CONSTANTS
    InitialDelay = 1
    MaxDelay = 5
    MaxFrames = 3
SPECIFICATION Spec
INVARIANTS
    TypeOK
    EventsInOrder
PROPERTIES
    AutoReconnects
    StopsEventually
