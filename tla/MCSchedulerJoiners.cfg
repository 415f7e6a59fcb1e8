CONSTANTS
    Tasks = {a, b}
    NWorkers = 2
    LocalCapacity = 4
    StealBatchMax = 2
    Programs <- JoinPrograms
    NoTask = NoTask
SPECIFICATION Spec
INVARIANTS ParkedHasWaker
