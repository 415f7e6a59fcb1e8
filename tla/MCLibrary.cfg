CONSTANTS
    Ps = {1, 2}
    MaxSpans = 2
    ObjectCount = 2
    CacheMax = 2
    CacheRefill = 2
    MaxHeld = 2
    MaxLarge = 1
    MaxPool = 1
    Page = 4
    SizeMax = 31
    BlockSize = 6
    Sizes = {2, 3, 9, 30}
    Alignments = {1, 8}
    f1 = f1
    f2 = f2
    f3 = f3
    Fibers = {f1, f2, f3}
    Root = root
    StackPages <- MCStackPages
    c1 = c1
    c2 = c2
    Connections = {c1, c2}
    Spawners = {s1, s2}
    NoConnection = none
    MessagesOf <- MCMessagesOf
    SegmentsOf <- MCSegmentsOf
    MaxConnections = 1
    PieceMax = 2
    MaxRequestLine = 3
    MaxHeaderBytes = 8
    MaxBodyBytes = 2
    MaxHeaders = 2
    HeaderBytes = 2
SPECIFICATION MCSpec
INVARIANTS SpanAccounting HeapSound CacheBound ArenaSound FiberSound  
 
CHECK_DEADLOCK FALSE
