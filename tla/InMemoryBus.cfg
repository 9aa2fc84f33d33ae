SPECIFICATION MCSpec
CONSTANTS
    Transport = {t1, t2, t3}
    Id = {i1, i2, i3}
    NoTransport = NoTransport
    NoId = NoId
    MaxDepth = 2
    TopOps <- AllOps
    NestedOps <- AllOps
    MayRaise = TRUE
    Disciplined = TRUE
SYMMETRY Symmetry
INVARIANTS
    TypeOK
    RegistryConsistent
    RegisteredIffLive
    QualityExact
PROPERTIES
    RepliesToCaller
    BroadcastReachesOthers
