SPECIFICATION FairSpec
CONSTANTS
    gate = gate
    back = back
    h1 = h1
    h2 = h2
    w1 = w1
    Services = {gate, back}
    Handlers = {h1, h2}
    HttpWorkers = {}
    Home <- SiblingHome
    Admin = admin
    Managed = {gate}
    Capacity = 2
    Ceilings = {}
    Warm = 2
    Subjects = {}
    Models = {"service", "request"}
    Calls <- GatewayCalls
    CallModels = {"service", "request"}
    None = None
PROPERTIES
    RequestsEnd
    
CHECK_DEADLOCK FALSE
