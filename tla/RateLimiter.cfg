CONSTANTS
    Callers = {c1, c2}
    Rate = 2
    Capacity = 6
    Requests = {3, 4}
    MaxTime = 5
SPECIFICATION Spec
INVARIANTS
    TypeOK
    RateBound
    SleepIsExact
