\* Two pollers, one administrator, every kind of fault but lost replies.
SPECIFICATION Spec
CONSTANTS
    w1 = w1
    w2 = w2
    a1 = a1
    None = None
    Events = {1, 2, 3}
    Poison = {2}
    Workers <- TwoWorkers
    Admins <- OneAdmin
    MaxRetries = 2
    BatchSize = 2
    DeadLetterWired = TRUE
    Faults <- CleanFaults
    MaxFaults = 2
    MaxReplays = 2
    MaxRetryCount = 3
SYMMETRY Symmetry
INVARIANTS ExclusiveClaim RetryBudget
PROPERTIES ImplementsDelivery
