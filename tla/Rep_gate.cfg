SPECIFICATION FairSpec
CONSTANTS
    r1 = r1
    r2 = r2
    alice = alice
    None = None
    NContexts = 2
    Reqs = {r1, r2}
    Peers = {alice}
    Peer <- Mixed
    MaxSends <- ThreeCopies
    LimitSettings <- TightLimits
INVARIANTS
    GateExact
PROPERTIES
    TeardownQuiet
    KeepsServing
CHECK_DEADLOCK FALSE
