CONSTANTS
    Deals = {d1, d2}
    Mortal = {d1}
    Requests = {r1}
    MaxSeq = 3
    MaxTitle = 1
    None = None
CHECK_DEADLOCK FALSE
SPECIFICATION FairSpec
INVARIANTS
    DeliveredIsDecided
    NoTitleOutlivesTheMeeting
PROPERTIES
    DeletedStaysAway
    TitleNeverGoesBack
    RemovalEnds
