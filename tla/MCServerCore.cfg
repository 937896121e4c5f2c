\* Two models; up to three reloads of five configs, among them one that changes
\* a platform, one with an unsupported platform and a custom one.
SPECIFICATION FairSpec
CONSTANTS
    a = a
    b = b
    pa = pa
    pb = pb
    Names = {a, b}
    Paths = {pa, pb}
    Children <- MCChildren
    NotANumber = NotANumber
    Number <- MCNumber
    NumOutputPorts = 3
    PlatformPort <- MCPlatformPort
    ModelServerConfigs <- MCConfigs
    FileSystemStates <- MCFileSystemStates
    NoPort = NoPort
    MaxReloads = 3
    MaxFileSystemChanges = 1
    MaxDelayed = 1
INVARIANTS
    NothingIsMisrouted
PROPERTIES
    PlatformIsKept
    FirstReloadReturns
    SourceCatchesUp
    RemovedModelsUnload
CHECK_DEADLOCK FALSE
