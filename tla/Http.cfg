SPECIFICATION Spec
CONSTANTS
    SegmentLength <- MCSegmentLength
    Params = {"{id}"}
    Reserved = {"b?"}
    BadParams = {"{x"}
    Mount <- MCMount
    RecvMax = 4
    WsConns = {"w1", "w2"}
    WsFrames = 1
    Conns = {"c1", "c2"}
    Workers = {"k1", "k2"}
    MaxInflight = 1
    Chunks = 1
    Turns = 1
    Plans <- MCPlans

    
PROPERTIES
    ServedBySpecificRoute
    StopReturns
