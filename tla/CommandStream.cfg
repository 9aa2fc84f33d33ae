SPECIFICATION Spec
CONSTANTS
    Thread = {reader, ui}
    Nobody = nobody
    Command <- Plain
    MaxSent = 2
    MaxReturns = 1
INVARIANTS TypeOK NothingStaysBehind
PROPERTIES ImplementsChannel AllArrive
CHECK_DEADLOCK FALSE
