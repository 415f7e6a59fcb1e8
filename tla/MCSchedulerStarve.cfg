CONSTANTS
    Tasks = {a, b, c}
    NWorkers = 2
    LocalCapacity = 4
    StealBatchMax = 2
    Programs <- YieldPrograms
    NoTask = NoTask
SPECIFICATION FairSpec
PROPERTIES RunnableRuns
