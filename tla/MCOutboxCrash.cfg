\* One poller process dies once.
SPECIFICATION FairSpec
CONSTANTS
    w1 = w1
    w2 = w2
    a1 = a1
    None = None
    Events = {1, 2}
    Poison = {}
    Workers <- TwoWorkers
    Admins = {}
    MaxRetries = 2
    BatchSize = 2
    DeadLetterWired = TRUE
    Faults = {"crash"}
    MaxFaults = 1
    MaxReplays = 0
    MaxRetryCount = 3
PROPERTIES EventuallySettled
