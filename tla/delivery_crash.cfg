CONSTANTS
    None = None
    d1 = d1
    Deliveries = {d1}
    LedgerCapacity = 1
    MaxWrites = 3
    MaxEvents = 2
    MaxFaults = 2
    MaxSeen = 2
SPECIFICATION FairSpec
CHECK_DEADLOCK FALSE
INVARIANTS QueuedOnce AcknowledgedIsDurable
PROPERTIES ImplementsNotice EventuallyDispatched
