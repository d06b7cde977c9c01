SPECIFICATION Spec
CONSTANTS
    Workers = {w1, w2, w3}
    Hosts = {h1}
    Fds = {f1, f2, f3}
    Requests = {r1, r2, r3}
    NoFd = NoFd
    NoHost = NoHost
    NoRequest = NoRequest
    MaxIdle = 2
    IdleTimeout = 0
    MaxTime = 1
    Replies = {"end", "endClose"}
    Unasked = {"end"}
    Reaping = TRUE
SYMMETRY Symmetric
CHECK_DEADLOCK FALSE
INVARIANTS
    TypeOK
    OneOwnerPerDescriptor
    PoolIsSound
    ResponsesMatchRequests
