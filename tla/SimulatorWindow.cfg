SPECIFICATION FairSpec
CONSTANTS
    Node = {n1, n2}
    Client = {n1}
    Pos = {p1}
    None = None
    Blank = Blank
    Edited = Edited
    MaxQueue = 1
INVARIANTS
    TypeOK
    SettledIsShown
    SelectionOfThisEdit
PROPERTY RegisteredIsShown
CHECK_DEADLOCK FALSE
