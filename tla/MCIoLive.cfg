SPECIFICATION MCFairSpec
CONSTANTS
    h1 = h1
    h2 = h2
    r1 = r1
    r2 = r2
    f1 = f1
    f2 = f2
    Handles <- OneHandle
    Requests <- MCRequests
    UringRequests <- OneRequest
    NoRequest = NoRequest
    Fds <- MCFds
    GenMax = 3
    MaxSockets = 2
    UringSockets = 1
    Ops = {"accept", "recv", "connect"}
    UringOps = {"recv", "timeout"}
    Depth = 1
    MaxOperations = 2

PROPERTIES Completes
CHECK_DEADLOCK FALSE
