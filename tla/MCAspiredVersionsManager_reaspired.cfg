\* AvailabilityPreservingPolicy under fairness: a request for a version that
\* is kept for availability is never processed.
SPECIFICATION AspiredFairSpec
CONSTANTS
    l1 = l1
    Ids <- TwoVersions
    Names <- MCNames
    Name <- MCName
    Version <- MCVersion
    AspiredLists <- AnyVersions
    Policy = "availability"
    InlineUnload = TRUE
    LoadThreads = {}
    LoadPools <- InlineOnly
    Inline = Inline
    UnloadThreads = {u1}
    Clients = {c1}
    Nobody = Nobody
    NoId = NoId
    LoadEstimate <- OneUnit
    ServeEstimate <- OneUnit
    TotalResources = 3
    MaxNumLoadRetries = 0
    EstimatesFail = FALSE
PROPERTIES
    RequestsProcessed
