\* Three clients, two servables, one load thread, resources for both servables.
SPECIFICATION CachingFairSpec
CONSTANTS
    l1 = l1
    Ids = {i1, i2}
    LoadThreads = {l1}
    LoadPools <- OneThread
    Inline = Inline
    UnloadThreads = {}
    Clients = {c1, c2, c3}
    Nobody = Nobody
    NoId = NoId
    LoadEstimate <- OneUnit
    ServeEstimate <- OneUnit
    TotalResources = 2
    MaxNumLoadRetries = 0
    EstimatesFail = FALSE
    Mutexes = {m1, m2, m3, m4, m5}
    NoMutex = NoMutex
INVARIANTS
    LoadsAreExclusive
    LoadedIsServed
PROPERTIES
    CallsReturn
