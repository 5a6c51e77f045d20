SPECIFICATION Spec
CONSTANTS
    n1 = n1
    n2 = n2
    pod = pod
    node = node
    Name = {n1, n2}
    Kind = {pod, node}
    KindOf <- MCKindOf
    Uid = {u1, u2}
    NoUid = NoUid
    TTL = 2
    CacheSize = 2
    MappingCacheSize = 2
    MaxEventAge = 1
    MaxLatency = 1
    MaxTime = 5
    MaxEvents = 3
SYMMETRY Symmetry
INVARIANTS
    TypeOK
    MetadataFresh
    MetadataOfObject
    ProcessedAreHanded
    AgeRespected
CHECK_DEADLOCK FALSE
