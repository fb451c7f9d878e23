SPECIFICATION Spec
CONSTANTS
    Callers = {c1, c2}
    SqlNames = {"m", "upload_append"}
    Scripts <- MCScripts
    CallNames = {"m", "query_open"}
    MaxAdmin = 2
    MaxLuck = 6
    Pipes = {"p1", "p2"}
    Address <- MCAddress
    Certificate <- MCCertificate
    RequireIdentity = FALSE
    IpLists <- MCIpLists
    PeerLists <- MCPeerLists
    ByteBits = 2
    Window = 3
    Rates = {0, 1, 2}
    MaxClock = 5
    MaxEdits = 2
    MaxActivePipes = 1
    RingCap = 2
    VectorRows = 1
    MaxSocketEvents = 3
    MaxLogLines = 3
    MaxLost = 1
    ProfileIds = {"one", "two"}
    ProfileInputs <- MCProfileInputs
    Targets <- MCTargets
    HeaderSets <- MCHeaderSets
    Users = {"u1", "u2"}
    InRequest <- MCInRequest
    ThreadSubject <- MCThreadSubject
    ConnectionSubject <- MCConnectionSubject
    Lower <- MCLower
    Upper <- MCUpper
    ContentTypes = {"JSON", "json"}
    CodecNames = {"f", "g"}
    Admins = {a1, a2}
    ServiceNames = {"x", "y"}
    ScanRows = 1
    MaxServices = 3
    MaxListings = 1
    Base = 3
    FlagBytes = 1
    LenBytes = 1
    PayloadLenBytes = 2
    RpcError = 0
    RpcEvent = 1
    StatusInternal = 1
    StatusDisabled = 1
    StatusUnspecified = 2
    MaxMethodNameLen = 1
    TokenMax = 1
    SizeMax = 11
    MaxBody = 2
    Group = 2
    WordBits = 5
    Responses <- MCResponses
    DigitBase = 2
    CounterMax = 2
    LineMax = 2
    RawMax = 2
    MaxRoom = 2
    Sent <- MCSent
    MaxArrived <- MCMaxArrived
    MaxChanges = 3
    MaxTime = 2
INVARIANTS
    
    
    
    CredentialInScope
    
    CodecsExact
    StreamBodyExact
PROPERTIES
    FailedRegistrationLeavesNoTrace
CHECK_DEADLOCK FALSE
