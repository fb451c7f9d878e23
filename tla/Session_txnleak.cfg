SPECIFICATION Spec
CONSTANTS
    alice = alice
    bob = bob
    Anonymous = Anonymous
    None = None
    Stopper = stopper
    Workers = {w1, w2}
    MaxSessionId = 1
    Clients = {alice, bob, Anonymous}
    Conns = {c1}
    Requests <- FetchRequests
    MaxOpen = 0
    MaxPerIdentity = 0
    MaxRows = 1
    PruneEnabled = TRUE
    SqlUsesService = FALSE
    SqlLeavesTxn = TRUE
INVARIANTS
    FreeConnectionsClean
