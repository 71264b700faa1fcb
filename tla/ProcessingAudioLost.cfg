CONSTANTS
    PrepareJobs = {p1}
    TranscribeJobs = {t1}
    MaxAttempts = 2
    AtOnce = 2
    Erasures = {}
    AudioDeletes = {}
    Faults = {}
CHECK_DEADLOCK FALSE
SPECIFICATION Spec
INVARIANTS
    AudioKept
