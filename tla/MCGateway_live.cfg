\* Client c2 need not read, and makes enough requests to fill the bus behind itself; c1
\* makes one, for which it may have to wait.  Both may leave at any point.
SPECIFICATION FairSpec
CONSTANTS
    c1 = c1
    c2 = c2
    c3 = c3
    None = None
    Star = Star
    Unordered = Unordered
    TcpFrontends = {"tcp"}
    UnixFrontends = {"unix"}
    Backends = {"serial"}
    Clients = {c1, c2}
    FrontendOf <- OneEach
    Allowed = {c1}
    MaxClients <- OneSeat
    Tids = {1}
    Pdus <- AnyPdu
    Asks <- OrphanOrRead
    Rules <- Override
    QueueSize = 1
    SockBuf = 0
    HighWater = 0
    LowWater = 0
    Prompt = {c1}
    Careful = {c1}
    MaxRequests = 5
PROPERTIES
    SettledUnlessStalled
    PutSucceeds
    HandlersEnd
