SPECIFICATION Spec
CONSTANTS
    Summaries = {s1, s2}
    Jobs = {j1, j2}
    Requests = {p1, p2}
    MaxAttempts = 2
    MaxSummaries = 1
    MaxEdits = 1
    MaxClaims = 3
    Readings = 2
    None = None
CHECK_DEADLOCK FALSE
INVARIANTS
    LimitKept
    WrittenByItsAttempt
    StaleIsShown
    GeneratingIsAtWork
PROPERTIES
    ReadyIsFinal
SYMMETRY Symmetry
