CONSTANTS
    Tasks = {1, 2}
    Workers = {1, 2}
    Timers = {1, 2}
    None = 0
    Delays = {0, 3}
    MaxNow = 4
    NsPerMs = 2
    IntMax = 2
    Sharing = FALSE
    Nodes = {0, 1, 2, 3, 4, 5, 6}
    Deadlines = {1, 2, 3}
    FirstCapacity = 2
    MaxCapacity = 8
    MaxLength = 6
SPECIFICATION MCSpec
CHECK_DEADLOCK FALSE
INVARIANTS SleeperHasTimer OneWake ResultTruthful TimeoutIsCeiling
PROPERTIES SleeperWakes QueueStep
