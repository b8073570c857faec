SPECIFICATION Spec
CONSTANTS
    m1 = m1
    delivery = delivery
    complaint = complaint
    h1 = h1
    h2 = h2
    Messages = {m1}
    Events = {delivery, complaint}
    Handlers <- MCHandlers
    MessageOf <- MCMessageOf
    KindOf <- MCKindOf
    OccurredAt <- MCOccurredAt
    MaxDeliveries = 3
    MaxReprocesses = 1
    MaxFaults = 1
    MaxCrashes = 1
INVARIANTS
    ReceiptIsNewest
    WaitingIsHeld
PROPERTIES
    StatusMovesForward
    ImplementsRecord
    EventsSettle
\* Deliveries and commands are bounded, so the system may come to rest.
CHECK_DEADLOCK FALSE
