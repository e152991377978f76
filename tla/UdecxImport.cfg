SPECIFICATION FairSpec
CONSTANTS
    Endpoints = {2, 129}
    IntrEps = {129}
    Slot = 1
    MaxInFlight = 1
    MaxUrbs = 2
    FetchDepth = 2
    CompleteSlots = 1
    MaxRetired = 1
    MaxPresents = 1
    MaxCancels = 1
    MaxConfigures = 1
INVARIANTS
    OneOutcome
    AdmissionSlotsAgree
PROPERTIES
    EventuallyAnswered
CHECK_DEADLOCK FALSE
