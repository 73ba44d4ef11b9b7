SPECIFICATION Spec
CONSTANTS
    Sessions = {1, 2, 3, 4}
    MaxDepth = 2
    MaxTotal = 2
    MaxActive = 1
    MaxJobs = 1
    MaxFaults = 1
INVARIANTS WithinLimits FocusedLive NoneBelowDeleted StoredHaveParents
CHECK_DEADLOCK FALSE
