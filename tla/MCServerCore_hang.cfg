\* A first list that fails, then two more.
SPECIFICATION FairSpec
CONSTANTS
    a = a
    b = b
    pa = pa
    pb = pb
    Names = {a, b}
    Paths = {pa, pb}
    Children <- MCChildren
    NotANumber = NotANumber
    Number <- MCNumber
    NumOutputPorts = 3
    PlatformPort <- MCPlatformPort
    ModelServerConfigs <- MCConfigs
    FileSystemStates <- MCFileSystemStates
    NoPort = NoPort
    MaxReloads = 3
    MaxFileSystemChanges = 1
    MaxDelayed = 1
PROPERTIES
    ReloadsReturn
CHECK_DEADLOCK FALSE
