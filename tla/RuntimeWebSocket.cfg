CONSTANTS
    Callers = {c1}
    Configs <- WebSocketConfigs
    Tasks = {t1}
    Nobody = Nobody
    StartFaults = FALSE
SPECIFICATION Spec
PROPERTIES
    ConfiguredStarts
