\* Loads in the calling thread or in two load threads, which is changed at any
\* time; one unload thread, one client; loads compete for resources.
CONSTANTS
    i1 = i1
    i2 = i2
    l1 = l1
    l2 = l2
    Ids = {i1, i2}
    LoadThreads = {l1, l2}
    LoadPools <- InlineOrTwo
    Inline = inline
    UnloadThreads = {u1}
    Clients = {c1}
    Nobody = nobody
    NoId = noId
    LoadEstimate <- MCLoadEstimate
    ServeEstimate <- MCServeEstimate
    TotalResources = 3
    MaxNumLoadRetries = 0
    EstimatesFail = FALSE
SPECIFICATION Spec
SYMMETRY Symmetry
INVARIANTS
    HandlesAreLive
    ResourceBound
    HarnessAsExpected
    NoLostWakeup
PROPERTIES
    StaysAvailable
