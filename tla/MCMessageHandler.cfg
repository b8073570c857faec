SPECIFICATION Spec
CONSTANTS
    Events = {1, 2, 3, 4}
    Malformed = {3}
    Empty = {4}
    Unhandled = {2}
    MaxRetries = 1
    HasDeadLetter = TRUE
    MaxFaults = 2
    MaxCrashes = 1
INVARIANTS
    NothingLost
    RetriesBounded
PROPERTIES
    SettledUnlessBlocked
    ImplementsConsumption
\* The topic may be consumed to its end.
CHECK_DEADLOCK FALSE
