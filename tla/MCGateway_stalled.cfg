\* Client c1 never reads, client c2 does.
SPECIFICATION FairSpec
CONSTANTS
    c1 = c1
    c2 = c2
    c3 = c3
    None = None
    Star = Star
    Unordered = Unordered
    TcpFrontends = {"tcp"}
    UnixFrontends = {"unix"}
    Backends = {"serial"}
    Clients = {c1, c2}
    FrontendOf <- OneEach
    Allowed = {c1}
    MaxClients <- OneSeat
    Tids = {1}
    Pdus <- AnyPdu
    Asks <- AllRead
    Rules <- Override
    QueueSize = 1
    SockBuf = 0
    HighWater = 0
    LowWater = 0
    Prompt = {c2}
    Careful = {}
    MaxRequests = 2
PROPERTIES
    PendingIsSettled
