SPECIFICATION Spec
CONSTANTS
    Events = {1, 2, 3}
    Replays = {r1}
    MaxParallel = 2
    StopOnError = TRUE
    MaxCrashes = 1
    None = None
INVARIANTS
    SlotsConserved
    CancelStopsSoon
    CompletedIsComplete
PROPERTIES
    ImplementsReplayRecord
    BatchEnds
\* Every session may have ended and every row be deleted.
CHECK_DEADLOCK FALSE
