\* Two pollers, one Kafka error, no other fault: everything gets through.
SPECIFICATION FairSpec
CONSTANTS
    w1 = w1
    w2 = w2
    a1 = a1
    None = None
    Events = {1, 2, 3}
    Poison = {2}
    Workers <- TwoWorkers
    Admins = {}
    MaxRetries = 2
    BatchSize = 2
    DeadLetterWired = FALSE
    Faults = {"kafka"}
    MaxFaults = 1
    MaxReplays = 0
    MaxRetryCount = 4
PROPERTIES EventuallyPublished EventuallyGivenUp
