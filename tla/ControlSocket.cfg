SPECIFICATION FairSpec
CONSTANTS
    k1 = k1
    p1 = p1
    Clients = {k1}
    Peers = {p1}
    BufLen = 3
    MaxTries = 3
    MaxConns = 3
    MaxRequests = 2
    MaxPieces = 2
    MaxTimeouts = 1
INVARIANTS
    TypeOK
    AnswerIsMine
PROPERTIES
    CallsEnd
CHECK_DEADLOCK FALSE
