SPECIFICATION FairSpec
CONSTANTS
    Event = {e1, e2}
    Sink = {s1, s2}
    NoSink = NoSink
INVARIANTS
    TypeOK
    HandledReachAll
PROPERTIES
    SendsEndBeforeClose
    RunningLeaderWaits
    ShutdownCompletes
CHECK_DEADLOCK FALSE
