\* Three commands of any kind, in any order of arrival, one fault.
SPECIFICATION FairSpec
CONSTANTS MaxGeneration = 3
          MaxRevision = 2
          MaxFaults = 1
INVARIANTS NoResurrection PersistedIsDurable LoadSeesSaves CleanShutdown
PROPERTY EventuallyWritten
