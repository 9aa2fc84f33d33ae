SPECIFICATION FairSpec
CONSTANT
    MaxSent = 3
INVARIANTS
    TypeOK
    IntactIsHandled
PROPERTIES
    PositionMovesOn
    DispatchedIsApplied
    CloseEnds
    IntactIsHandledInTheEnd
CHECK_DEADLOCK FALSE
