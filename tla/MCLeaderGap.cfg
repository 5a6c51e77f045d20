SPECIFICATION Spec
CONSTANTS
    Replica = {r1, r2}
    Nobody = Nobody
    Former = Former
    LeaseDuration = 15
    RenewDeadline = 10
    RetryPeriod = 2
    RetryMax = 4
    MaxEventAge = 5
    MaxGap = 14
SYMMETRY Symmetry
INVARIANTS
    NoEventLost
