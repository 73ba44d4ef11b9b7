CONSTANTS
    None = None
    d1 = d1
    d2 = d2
    Deliveries = {d1, d2}
    LedgerCapacity = 1
    MaxWrites = 2
    MaxEvents = 1
    MaxFaults = 0
    MaxSeen = 1
SPECIFICATION Spec
CHECK_DEADLOCK FALSE
SYMMETRY DeliverySymmetry
PROPERTIES UnacknowledgedKept
