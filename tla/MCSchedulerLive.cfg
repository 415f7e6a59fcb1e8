CONSTANTS
    Tasks = {a, b}
    NWorkers = 2
    LocalCapacity = 4
    StealBatchMax = 2
    Programs <- LivePrograms
    NoTask = NoTask
SPECIFICATION FairSpec
PROPERTIES RunnableRuns DeadlockReported ShutdownEnds
