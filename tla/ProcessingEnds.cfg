CONSTANTS
    PrepareJobs = {p1, p2}
    TranscribeJobs = {t1, t2}
    MaxAttempts = 1
    AtOnce = 4
    Erasures = {e1}
    AudioDeletes = {d1}
    Faults = {}
CHECK_DEADLOCK FALSE
SPECIFICATION FairSpec
INVARIANTS
    NothingRemains
    StuckForAReason
PROPERTIES
    ProcessingEnds
