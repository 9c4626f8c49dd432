CONSTANTS
    Missing = Missing
    NoMessage = NoMessage
    DefaultLimit = 3
    Scenarios <- MCScenarios
SPECIFICATION Spec
CHECK_DEADLOCK FALSE
INVARIANTS
    Tightening
    DuplicateHasOrigin
    ChunksRebuild
