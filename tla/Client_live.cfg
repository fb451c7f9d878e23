SPECIFICATION FairSpec
CONSTANTS
    a = a
    b = b
    s1 = s1
    Free = Free
    Threads <- MCThreads
    Sockets <- MCSockets
    Protocols <- MCProtocols
    Workloads <- LiveLoads
    Timed <- AlwaysTimed
    MaxHandles = 3
    MaxStreams = 1
PROPERTIES
    WaitsEnd
CHECK_DEADLOCK FALSE
