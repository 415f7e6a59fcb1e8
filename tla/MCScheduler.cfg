CONSTANTS
    Tasks = {a, b, c, d}
    NWorkers = 3
    LocalCapacity = 1
    StealBatchMax = 3
    Programs <- SafePrograms
    NoTask = NoTask
SPECIFICATION Spec
SYMMETRY Symmetry
INVARIANTS SingleMembership NoTaskLost ParkedHasWaker NoStaleWaker Accounting Quiescent
PROPERTIES DeadlockSound LifecycleSpec
