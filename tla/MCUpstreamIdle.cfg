SPECIFICATION Spec
CONSTANTS
    Workers = {w1}
    Hosts = {h1}
    Fds = {f1}
    Requests = {r1, r2}
    NoFd = NoFd
    NoHost = NoHost
    NoRequest = NoRequest
    MaxIdle = 1
    IdleTimeout = 1
    MaxTime = 2
    Replies = {"end"}
    Unasked = {}
    Reaping = FALSE
CHECK_DEADLOCK FALSE
PROPERTIES
    LeaseIsFresh
