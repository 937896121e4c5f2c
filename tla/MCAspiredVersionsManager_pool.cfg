\* AvailabilityPreservingPolicy under fairness, two versions, a load thread,
\* unloads in the manager thread, one retry, resources for both versions.
SPECIFICATION AspiredFairSpec
CONSTANTS
    l1 = l1
    Ids <- TwoVersions
    Names <- MCNames
    Name <- MCName
    Version <- MCVersion
    AspiredLists <- SomeVersions
    Policy = "availability"
    InlineUnload = TRUE
    LoadThreads = {l1}
    LoadPools <- OneThread
    Inline = Inline
    UnloadThreads = {u1}
    Clients = {}
    Nobody = Nobody
    NoId = NoId
    LoadEstimate <- OneUnit
    ServeEstimate <- OneUnit
    TotalResources = 2
    MaxNumLoadRetries = 1
    EstimatesFail = FALSE
INVARIANTS
    CallsAccepted
PROPERTIES
    NoSpontaneousUnload
    StreamStaysAvailable
    StreamsSettle
