SPECIFICATION AuthoritySpec
CONSTANTS
    Peers = {p1, p2}
    Uids = {u1, u2}
    NoPeer = NoPeer
    NoUid = NoUid
    LeaseExporter = 2
    MaxAttachId = 4
INVARIANTS
    TypeOK
    TokenBinding
    AttachIdsDistinct
PROPERTY
    AuthorityImplementsOwnership
