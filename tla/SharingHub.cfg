SPECIFICATION FairSpec
CONSTANTS
    Peers = {p1, p2, p3}
    Uids = {u1, u2}
    NoPeer = NoPeer
    NoUid = NoUid
    LeaseExporter = 2
    Sas = {7, 8}
    TracksClaims = TRUE
    PrePinned = {p1}
    MaxAttachId = 3
    MaxConns = 3
INVARIANTS
    HubTypeOK
    OnlyOwnerDrives
    HeldIsCaptured
    AdmittingIsLeased
    PinnedWasApproved
PROPERTIES
    FreedByDecision
    ImplementsOwnership
    SilenceEndsSession
