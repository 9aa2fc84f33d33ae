SPECIFICATION Spec
CONSTANTS
    Id = {id1, id2, id3}
    NodeId = id1
    Target = id2
    NoId = none
INVARIANTS TypeOK TimelyAnswerCounts SuccessIsGenuine
PROPERTY SessionEnds
CHECK_DEADLOCK FALSE
