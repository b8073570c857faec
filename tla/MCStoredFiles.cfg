SPECIFICATION FairSpec
CONSTANTS
    f1 = f1
    f2 = f2
    u1 = u1
    i1 = i1
    e1 = e1
    p1 = p1
    p2 = p2
    j1 = j1
    j2 = j2
    None = None
    Files = {f1, f2}
    Users = {u1}
    Issues = {i1}
    Entries = {e1}
    Requests = {p1, p2}
    Jobs = {j1, j2}
    Plans <- MCPlans
INVARIANTS
    PurgedLeavesNoObject
    ReadyHasObject
PROPERTIES
    DeletedIsUnattached
    ImplementsLifecycle
    PendingSettles
    DeletedIsPurged
