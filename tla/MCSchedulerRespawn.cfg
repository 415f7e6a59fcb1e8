CONSTANTS
    Tasks = {a, b}
    NWorkers = 2
    LocalCapacity = 4
    StealBatchMax = 2
    Programs <- RespawnPrograms
    NoTask = NoTask
SPECIFICATION Spec
INVARIANTS NoTaskLost
