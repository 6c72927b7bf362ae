\* Four requests, in one write or two, of an application that outwaits the
\* gateway or gives up at any time.
SPECIFICATION FairSpec
CONSTANTS
    MaxRequests = 4
INVARIANTS
    BufferIsWatched
    RepliesAreOwn
    RepliesComeOnce
PROPERTIES
    ExchangesEnd
CHECK_DEADLOCK FALSE
