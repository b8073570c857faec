SPECIFICATION Spec
CONSTANTS
    Callers = {c1, c2}
    Reconnectors = {r1}
    Threshold = 2
    MaxRetries = 2
    MaxReconnects = 2
    MaxCloses = 1
    MaxCount = 3
    MaxLate = 1
INVARIANTS
    LossIsPursued
    ClosedPlansNothing
PROPERTIES
    OpenIsEarned
    CallsEnd
