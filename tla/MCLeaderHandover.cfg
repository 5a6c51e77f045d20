SPECIFICATION Spec
CONSTANTS
    Replica = {r1, r2}
    Nobody = Nobody
    Former = Former
    LeaseDuration = 8
    RenewDeadline = 5
    RetryPeriod = 1
    RetryMax = 2
    MaxEventAge = 4
    MaxGap = 8
SYMMETRY Symmetry
INVARIANTS
    TypeOK
    OneLeader
    GapBounded
    OverlapBounded
    NoEventLost
