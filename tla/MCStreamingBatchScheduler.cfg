CONSTANTS
    t1 = t1
    t2 = t2
    t3 = t3
    Tasks = {t1, t2, t3}
    Size <- MCSize
    MaxBatchSize = 2
    NumBatchThreads = 2
    BatchTimeout = 1
    MaxBatchNum = 3
SPECIFICATION FairSpec
INVARIANTS
    OpenBatchWillBeClosed
    TasksHaveThreads
    NoBatchAfterDestruction
PROPERTIES
    ImplementsBatchScheduler
    WorkComesToAnEnd
