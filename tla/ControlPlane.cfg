SPECIFICATION Spec
CONSTANTS
    Windows = {"w1", "w2", "old", "foreign"}
    Allowed = {"w1", "w2", "old"}
    Skewed = {"old"}
    Peers = {"p"}
    SocketRoom = 1
    MaxConns = 1
    MaxQuestions = 2
    MaxInputs = 4
INVARIANTS
    AnswerIsOwn
    PairedWasOnScreen
CHECK_DEADLOCK FALSE
PROPERTY
    WindowIsServed
