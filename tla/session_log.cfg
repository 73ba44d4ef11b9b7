SPECIFICATION MCSpec
CONSTANTS
    MaxMessages = 2
    MaxRevision = 3
    MaxFrames = 1
    Subs = {11, 13}
    Nested = {21}
    Keep = 0
    Big = {2, 13}
    MaxFaults = 2
INVARIANTS
    LogIsSnapshot
    AckedSurvives
    EvictedOnDisk
CHECK_DEADLOCK FALSE
