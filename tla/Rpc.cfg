CONSTANTS
    c1 = c1
    c2 = c2
    Clients = {c1, c2}
    Scripts <- MCScripts
    Results <- MCResults
    Sources <- MCSources
    VectorSize = 2
    FetchChunks = 2
    MaxChunks = 4
    TargetBytes = 4
    AppendMaxBytes = 8
    RequestMax = 9
    PrefixBytes = 1
    MaxBinds = 2
    MaxFaults = 2
SPECIFICATION Spec
INVARIANTS
    
    SessionsReleased
    
    
