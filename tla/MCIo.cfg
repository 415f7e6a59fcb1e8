SPECIFICATION MCSpec
CONSTANTS
    h1 = h1
    h2 = h2
    r1 = r1
    r2 = r2
    f1 = f1
    f2 = f2
    Handles <- MCHandles
    Requests <- MCRequests
    UringRequests <- MCRequests
    NoRequest = NoRequest
    Fds <- MCFds
    GenMax = 3
    MaxSockets = 3
    UringSockets = 2
    Ops = {"accept", "recv"}
    UringOps = {"accept"}
    Depth = 1
    MaxOperations = 2
SYMMETRY Symmetric
INVARIANTS OneClaim OneCompletion RightSocket NoLeak OperationLifetime
CHECK_DEADLOCK FALSE
