CONSTANTS
    Tasks = {a, b, c}
    None = None
    PtrdiffMax = 1
    Permits = {0, 1}
    Capacities = {0, 2}
    MaxSends = 3
    Programs <- MCPrograms
SPECIFICATION FairSpec
INVARIANTS NoLostWakeup CountsExact OutcomeTruthful
PROPERTIES LockSpec FifoSpec 
CHECK_DEADLOCK FALSE
