SPECIFICATION Spec
CONSTANTS
    t1 = t1
    t2 = t2
    e1 = e1
    e2 = e2
    p1 = p1
    p2 = p2
    w1 = w1
    w2 = w2
    Tenants = {t1, t2}
    Entries = {e1, e2}
    TenantOf <- MCTenantOf
    Present = {e1}
    Pollers = {p1, p2}
    Workers = {w1, w2}
    NoOne = NoOne
    NoJob = NoJob
    BatchSize = 1
    Attempts = 2
    MaxStalls = 1
    MaxVersion = 3
    Plans <- MCPlans
INVARIANTS
    LabelNeverAhead
    TransitionIsQueued
PROPERTIES
    TransitionsChain
    CompletionIsEarned
    ImplementsLedger
    QueueDrains
\* Without a poller nothing happens once every job has ended.
CHECK_DEADLOCK FALSE
