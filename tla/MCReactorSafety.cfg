SPECIFICATION Spec
CONSTANTS
    Fds = {f1, f2}
    Clients = {c1, c2}
    Workers = {w1, w2}
    NoFd = NoFd
    NoClient = NoClient
    MaxPieces = 1
    ReplySize = 1
    SendRoom = 1
    MaxEvents = 2
    Asks = {}
SYMMETRY Symmetric
CHECK_DEADLOCK FALSE
INVARIANTS
    TypeOK
    WorkMatchesConnection
    EventsFollowMode
    RepliesReachTheirClient
    NoStrandedBacklog
    CompletionWillBeSeen
PROPERTIES
    ServiceSpec
