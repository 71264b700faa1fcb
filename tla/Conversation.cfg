CONSTANTS
    Requests = {p1, p2, p3, p4}
    Limit = 2
    Window = 3
    Patience = 1
    PendingTimeout = 2
    MaxClock = 3
    None = None
SPECIFICATION Spec
INVARIANTS Inv AllowanceKept
PROPERTIES TurnsGoForward
SYMMETRY Symmetry
CHECK_DEADLOCK FALSE
