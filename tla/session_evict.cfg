SPECIFICATION Spec
CONSTANTS
    MaxMessages = 1
    MaxRevision = 2
    MaxFrames = 1
    Subs = {}
    Nested = {21}
    Keep = 0
    Big = {21}
    MaxFaults = 0
INVARIANT OnlyWrittenEvicted
CHECK_DEADLOCK FALSE
