\* An owner that waits for done callbacks, under fairness; one retry, estimates
\* may fail.
CONSTANTS
    i1 = i1
    i2 = i2
    l1 = l1
    l2 = l2
    Ids = {i1, i2}
    LoadThreads = {l1, l2}
    LoadPools <- TwoThreads
    Inline = inline
    UnloadThreads = {u1}
    Clients = {c1}
    Nobody = nobody
    NoId = noId
    LoadEstimate <- MCLoadEstimate
    ServeEstimate <- MCServeEstimate
    TotalResources = 3
    MaxNumLoadRetries = 1
    EstimatesFail = TRUE
SPECIFICATION PatientFairSpec
INVARIANTS
    EventsTellState
PROPERTIES
    EventsMoveForward
    RequestsSettle
