SPECIFICATION Spec
CONSTANTS
    Thread = {ui}
    Nobody = nobody
    Command <- Lines
    MaxSent = 1
    MaxReturns = 0
INVARIANT AnyDataPasses
CHECK_DEADLOCK FALSE
