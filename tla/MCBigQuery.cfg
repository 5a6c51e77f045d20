SPECIFICATION FairSinkSpec
CONSTANTS
    BatchSize = 2
    MaxRetries = 1
    MaxItems = 3
INVARIANTS
    LoadedOrKept
    HandedOnce
    StoppedIsFlushed
PROPERTIES
    ItemsLeave
