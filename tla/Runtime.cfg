CONSTANTS
    Callers = {c1, c2, c3}
    Configs <- MCConfigs
    Tasks = {t1, t2}
    Nobody = Nobody
    StartFaults = TRUE
SPECIFICATION FairSpec
INVARIANTS
    TypeOK
    OneGeneration
    StatusTruthful
PROPERTIES
    CallsReturn
