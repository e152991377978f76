SPECIFICATION SecureSpec
CONSTANTS
    Window = 1
    Majors = {1, 2}
    RecordOffers = {0, 2, 4}
    Caps = {"reset"}
    Floor = 1
    HandshakeMax = 2
    Ceiling = 4
    RekeyInterval = 1
    MaxData = 1
    MaxStore = 1
INVARIANTS
    AgreedBeforeUse
    FailedForCause
PROPERTY HandshakeEnds
CHECK_DEADLOCK FALSE
