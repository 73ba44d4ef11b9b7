SPECIFICATION Spec
CONSTANTS
    MaxMessages = 1
    MaxRevision = 2
    MaxFrames = 1
    Subs = {11}
    Nested = {}
    Keep = 0
    Big = {11}
    MaxFaults = 1
INVARIANT CursorsAligned
CHECK_DEADLOCK FALSE
