\* ResourcePreservingPolicy under fairness, one of two versions at a time, loads
\* in the manager thread, an unload thread, a client.
SPECIFICATION AspiredFairSpec
CONSTANTS
    l1 = l1
    Ids <- TwoVersions
    Names <- MCNames
    Name <- MCName
    Version <- MCVersion
    AspiredLists <- OneVersion
    Policy = "resource"
    InlineUnload = FALSE
    LoadThreads = {}
    LoadPools <- InlineOnly
    Inline = Inline
    UnloadThreads = {u1}
    Clients = {c1}
    Nobody = Nobody
    NoId = NoId
    LoadEstimate <- OneUnit
    ServeEstimate <- OneUnit
    TotalResources = 3
    MaxNumLoadRetries = 0
    EstimatesFail = FALSE
PROPERTIES
    OldVersionsUnloadFirst
    RequestsProcessed
    ImplementsAspiredServables
