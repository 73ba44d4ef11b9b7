SPECIFICATION FairSpec
CONSTANTS
    MaxSubs = 2
    MaxCancels = 1
    MaxFaults = 1
INVARIANTS TypeOK RestoredNotSent SentIsStored InOrder
PROPERTIES CancelStops DrainReleasesIdle Settles TurnsTaken
CHECK_DEADLOCK FALSE
