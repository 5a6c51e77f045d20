SPECIFICATION ClientsSpec
CONSTANTS
    r1 = r1
    r2 = r2
    Receiver = {r1, r2}
    Event = {e1, e2}
    NoEvent = NoEvent
    Default = Default
    Torn = Torn
    Configurations <- TwoWebhooks
INVARIANTS
    OwnTransport
CHECK_DEADLOCK FALSE
