SPECIFICATION ProbeSpec
CONSTANTS
    Blocks = 2
    Multi = 2
    MaxBlocks = 2
    RestoreOriginal = TRUE
    MaxProbes = 2
INVARIANTS
    PassedIsInPhase
    RestoredIsTrue
CHECK_DEADLOCK FALSE
