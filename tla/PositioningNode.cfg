SPECIFICATION Spec
CONSTANTS
    Id = {n1, n2}
    None = None
    MinUsable = 1
    MaxReports = 4
    MaxEdits = 2
SYMMETRY Symmetry
CONSTRAINT FiveCalls
INVARIANTS TypeOK ReportsStand ChangesAnnounced
PROPERTY InferenceIsCurrent
CHECK_DEADLOCK FALSE
