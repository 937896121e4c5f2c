CONSTANTS
    q1 = q1
    q2 = q2
    t1 = t1
    t2 = t2
    t4 = t4
    Queues = {q1, q2}
    Tasks = {t1, t2, t4}
    Threads = {th1, th2}
    QueueOf <- MCQueueOf
    Size <- MCSize
    MaxBatchSize <- MCMaxBatchSize
    MaxEnqueuedBatches <- MCMaxEnqueuedBatches
    ZeroTimeout = {q2}
    NoScan = NoScan
    NoBatch = NoBatch
SPECIFICATION FairSpec
INVARIANTS
    UsedQueuesExist
    EmptyNotificationIsSound
    NoLostWakeUp
PROPERTIES
    CapacityIsGuaranteed
    ImplementsBatchScheduler
    AcceptedTasksAreProcessed
    DestructorsReturn
