SPECIFICATION Spec
CONSTANTS
    Presenters = {"Probe", "Plane"}
    Ids = 6
    MaxUser = 3
    MaxLate = 1
    MaxFaults = 1
PROPERTY EveryCallEnds
CHECK_DEADLOCK FALSE
