\* Three clients on two frontends; c2 and c3 compete for one seat, and c2 uses
\* its tid again at will.
SPECIFICATION Spec
CONSTANTS
    c1 = c1
    c2 = c2
    c3 = c3
    None = None
    Star = Star
    Unordered = Unordered
    TcpFrontends = {"tcp"}
    UnixFrontends = {"unix"}
    Backends = {"serial"}
    Clients = {c1, c2, c3}
    FrontendOf <- SharedUnix
    Allowed = {c1}
    MaxClients <- OneSeat
    Tids = {1}
    Pdus <- AnyPdu
    Asks <- Assorted
    Rules <- MixedRules
    QueueSize = 2
    SockBuf = 0
    HighWater = 1
    LowWater = 0
    Prompt = {}
    Careful = {c1}
    MaxRequests = 3
INVARIANTS
    TypeOK
    PendingIsInFlight
    ReplyToOwnRequest
    RepliesInOrder
    ClosedHasNoPending
    SeatsAreTaken
PROPERTIES
    ReplyPopsItsRequest
    SilentAfterCleanup
    ServiceIsProvided
\* A request that ends the dispatcher leaves the bus full for good.
CHECK_DEADLOCK FALSE
