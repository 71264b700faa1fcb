CONSTANTS
    Sessions = {s1, s2}
    MaxSeq = 1
    Calls = {r1, r2}
CHECK_DEADLOCK FALSE
SPECIFICATION RecordingSpec
SYMMETRY Symmetry
INVARIANTS
    OneRecording
    RowsAgree
PROPERTIES
    ProcessingIsFrozen
