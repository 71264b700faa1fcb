CONSTANTS
    PrepareJobs = {p1, p2}
    TranscribeJobs = {t1, t2}
    MaxAttempts = 2
    AtOnce = 2
    Erasures = {e1}
    AudioDeletes = {}
    Faults = {"process", "storage", "database"}
SYMMETRY Symmetry
VIEW View
CHECK_DEADLOCK FALSE
SPECIFICATION Spec
INVARIANTS
    SourcesKept
PROPERTIES
    StatusOrder
