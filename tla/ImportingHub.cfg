SPECIFICATION Spec
CONSTANTS
    Presenters = {"Probe", "Plane"}
    Ids = 8
    MaxUser = 6
    MaxLate = 1
    MaxFaults = 1
INVARIANTS
    AttachedIsHeld
    OwnCompletion
PROPERTIES
    CallsEnd
    PairingCompletes
CHECK_DEADLOCK FALSE
