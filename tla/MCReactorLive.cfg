SPECIFICATION FairSpec
CONSTANTS
    Fds = {f1}
    Clients = {c1}
    Workers = {w1, w2}
    NoFd = NoFd
    NoClient = NoClient
    MaxPieces = 2
    ReplySize = 2
    SendRoom = 1
    MaxEvents = 5
    Asks = {"stop", "signal"}
CHECK_DEADLOCK FALSE
INVARIANTS
    NoLostEdge
PROPERTIES
    EveryRequestIsResolved
    PeerEndIsNoticed
    ShutdownCompletes
