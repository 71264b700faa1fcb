SPECIFICATION Spec
CONSTANTS
    a1 = a1
    a2 = a2
    Assets = {a1, a2}
    Requests = {p1, p2}
    MaxYear = 3
    Dates = {2, 3, 4, 5, 6}
    Totals = {2, 8}
    LaunchRule <- Launch
    Terms <- Rule
    MaxRules = 2
    Sheets <- OneSheet
    LastImported = 1
    None = None
CHECK_DEADLOCK FALSE
INVARIANTS
    NoDrift
    Reconciles
    WrittenDown
PROPERTIES
    BooksAreFrozen
SYMMETRY Symmetry
