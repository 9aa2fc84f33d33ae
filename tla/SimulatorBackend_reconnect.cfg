SPECIFICATION Spec
CONSTANTS
    n1 = n1
    n2 = n2
    c1 = c1
    c2 = c2
    c3 = c3
    None = None
    Node = {n1, n2}
    Conn = {c1, c2, c3}
    Owner <- OwnerOf
    Mode <- ModeOf
    Settings <- ReconnectSettings
PROPERTIES
    CleanupOnlyIfDisconnected
CHECK_DEADLOCK FALSE
