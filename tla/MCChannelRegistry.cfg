SPECIFICATION FairSpec
CONSTANTS
    a = a
    b = b
    other = other
    j1 = j1
    j2 = j2
    NoJob = NoJob
    NoName = NoName
    Name = {a, b, other}
    Job = {j1, j2}
    NumReceivers = 2
    NameOf <- TwoReceivers
INVARIANTS
    TypeOK
    OneEventPerSink
PROPERTIES
    ImplementsContract
    EventServed
    CloseCompletes
