SPECIFICATION FairSpec
CONSTANTS
    Endpoints = {0, 2, 129}
    IntrEps = {129}
    CreditUrbs = 2
    MaxReqs = 3
INVARIANTS
    TransfersTypeOK
    AnsweredOnce
    SlotsAccounted
    IssuedInOrder
PROPERTY
    EventuallyAnswered
