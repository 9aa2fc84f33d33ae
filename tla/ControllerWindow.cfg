SPECIFICATION Spec
CONSTANTS
    Node = {n1, n2}
    Pos = {p1, p2}
    None = None
    Blank = Blank
    Edited = Edited
    MaxPending = 1
CONSTRAINTS TwoNodesOrTwoPositions SmallLaunch
SYMMETRY Symmetry
INVARIANTS
    TypeOK
    EditedIsKnown
    SettledIsShown
    SelectionOfThisEdit
    TypedIsMarked
CHECK_DEADLOCK FALSE
