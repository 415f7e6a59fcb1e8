CONSTANTS
    Tasks = {1, 2}
    Workers = {1, 2}
    Timers = {1}
    None = 0
    Delays = {0, 3}
    MaxNow = 4
    NsPerMs = 2
    IntMax = 2
    Sharing = TRUE
    Nodes = {0, 1}
    Deadlines = {1, 2}
    FirstCapacity = 2
    MaxCapacity = 8
    MaxLength = 1
SPECIFICATION MCSpec
CHECK_DEADLOCK FALSE
INVARIANTS SleeperHasTimer
