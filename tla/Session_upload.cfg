SPECIFICATION Spec
CONSTANTS
    alice = alice
    bob = bob
    Anonymous = Anonymous
    None = None
    Stopper = stopper
    Workers = {w1, w2}
    MaxSessionId = 2
    Clients = {alice, bob, Anonymous}
    Conns = {c1, c2}
    Requests <- UploadRequests
    MaxOpen = 1
    MaxPerIdentity = 0
    MaxRows = 2
    PruneEnabled = TRUE
    SqlUsesService = FALSE
    SqlLeavesTxn = FALSE
SYMMETRY Symmetry
INVARIANTS
    FreeConnectionsClean
    SessionsOwned
    UploadsWhole
    StopLeavesNothing
