SPECIFICATION Spec
CONSTANTS
    gate = gate
    back = back
    h1 = h1
    h2 = h2
    w1 = w1
    Services = {gate, back}
    Handlers = {h1}
    HttpWorkers = {w1}
    Home <- PairHome
    Admin = admin
    Managed = {gate, back}
    Capacity = 2
    Ceilings = {1, 2}
    Warm = 1
    Subjects = {alice}
    Models = {"shared", "service", "request"}
    Calls <- GatewayCalls
    CallModels = {"service", "request"}
    None = None
INVARIANTS
    PoolConsistent
    SubjectsKept
PROPERTIES
    ImplementsLease
CHECK_DEADLOCK FALSE
