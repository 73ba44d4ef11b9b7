SPECIFICATION Spec
CONSTANTS
    MaxMessages = 2
    MaxRevision = 2
    MaxFrames = 1
    Subs = {11}
    Nested = {}
    Keep = 0
    Big = {}
    MaxFaults = 0
PROPERTY RewindKeepsHistories
CHECK_DEADLOCK FALSE
