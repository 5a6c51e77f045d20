SPECIFICATION FairSpec
CONSTANTS
    BatchSize = 3
    MaxRetries = 1
    MaxItems = 4
INVARIANTS
    TypeOK
    NoneLeavesUntried
    AnswersMatchSlots
PROPERTIES
    ImplementsContract
    EveryItemSettled
    CallsReturn
