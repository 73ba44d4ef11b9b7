CONSTANTS
    None = None
    d1 = d1
    Deliveries = {d1}
    LedgerCapacity = 1
    MaxWrites = 2
    MaxEvents = 2
    MaxFaults = 0
    MaxSeen = 2
SPECIFICATION Spec
CHECK_DEADLOCK FALSE
INVARIANTS ConsumedOnce
