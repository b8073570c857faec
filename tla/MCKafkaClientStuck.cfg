SPECIFICATION Spec
CONSTANTS
    Callers = {c1, c2}
    Reconnectors = {}
    Threshold = 2
    MaxRetries = 1
    MaxReconnects = 1
    MaxCloses = 0
    MaxCount = 3
    MaxLate = 1
PROPERTIES
    OpenIsTested
