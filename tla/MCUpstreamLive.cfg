SPECIFICATION FairSpec
CONSTANTS
    Workers = {w1, w2}
    Hosts = {h1}
    Fds = {f1, f2}
    Requests = {r1, r2}
    NoFd = NoFd
    NoHost = NoHost
    NoRequest = NoRequest
    MaxIdle = 1
    IdleTimeout = 0
    MaxTime = 0
    Replies = {"end", "bad"}
    Unasked = {"part", "end", "bad"}
    Reaping = FALSE
CHECK_DEADLOCK FALSE
PROPERTIES
    ForwardReturns
