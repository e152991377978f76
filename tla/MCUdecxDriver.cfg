SPECIFICATION FairSpec
CONSTANTS
    e1 = e1
    Eps = {e1}
    Urbs = {u1}
    EpOf <- MCEpOf
    Resets = {r1}
    MaxOutstanding = 1
    Wrap = 4
    MaxWork = 1
    MaxBinds = 2
    MaxPlugs = 1
    MaxPurges = 1
    MaxFetch = 1
    MaxPumps = 1
INVARIANT
    NothingEvaporates
PROPERTIES
    PlugOutFreesGuest
    ResetsEnd
CHECK_DEADLOCK FALSE
