SPECIFICATION FairSpec
CONSTANTS
    Endpoints = {129, 131}
    IntrEps = {131}
    Slot = 1
    MaxInFlight = 1
    MaxUrbs = 2
    MaxSegs = 2
INVARIANTS
    ReturnedOnce
    TablesAgree
    OwnReply
PROPERTY
    EventuallyReturned
CHECK_DEADLOCK FALSE
