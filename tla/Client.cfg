SPECIFICATION FairSpec
CONSTANTS
    a = a
    b = b
    s1 = s1
    Free = Free
    Threads <- MCThreads
    Sockets <- MCSockets
    Protocols <- MCProtocols
    Workloads <- AllLoads
    Timed <- AlwaysTimed
    MaxHandles = 4
    MaxStreams = 1
INVARIANTS
    ReferencesExact
    ReceivedOnce
    NoMissedWakeup
PROPERTIES
    OutcomeFinal
CHECK_DEADLOCK FALSE
