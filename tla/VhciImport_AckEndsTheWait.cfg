SPECIFICATION Spec
CONSTANTS
    Endpoints = {129, 131}
    IntrEps = {131}
    Slot = 1
    MaxInFlight = 1
    MaxUrbs = 2
    MaxSegs = 2
PROPERTY
    AckEndsTheWait
CHECK_DEADLOCK FALSE
