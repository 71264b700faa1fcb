SPECIFICATION Spec
CONSTANTS
    r1 = r1
    r2 = r2
    l1 = l1
    l2 = l2
    l3 = l3
    Requests = {r1, r2}
    Lines = {l1, l2, l3}
    Of <- TwoAndOne
    Batches = {b1, b2}
    Amounts = {0}
    MaxRate = 1
    None = None
CHECK_DEADLOCK FALSE
INVARIANTS
    PaidTogether
    OneLiveBatch
    PdfTellsTheBatch
PROPERTIES
    KeepsTheLedger
SYMMETRY Symmetry
