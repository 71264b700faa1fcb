CONSTANTS
    Jobs = {j1}
    Procs = {p1, p2}
    MaxAttempts = 2
    Concurrency = 1
SPECIFICATION FairSpec
INVARIANTS
    OutcomeIsOwn
    LaunchedOnce
PROPERTIES
    ResultsInClaimOrder
    PromiseSpec
    LostClaimAborts
    EveryJobEnds
