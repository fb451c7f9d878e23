SPECIFICATION Spec
CONSTANTS
    alice = alice
    bob = bob
    Anonymous = Anonymous
    None = None
    Stopper = stopper
    Workers = {w1, w2}
    MaxSessionId = 2
    Clients = {alice, bob, Anonymous}
    Conns = {c1, c2}
    Requests <- QueryRequests
    MaxOpen = 0
    MaxPerIdentity = 1
    MaxRows = 1
    PruneEnabled = TRUE
    SqlUsesService = TRUE
    SqlLeavesTxn = FALSE
SYMMETRY Symmetry
INVARIANTS
    TypeOK
    RefCountExact
    NoUseAfterFree
    SessionsOwned
PROPERTIES
    NoReanimation
CHECK_DEADLOCK FALSE
