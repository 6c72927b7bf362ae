\* Three callers on a pool of two; answers may come twice, and the transaction
\* ids do not come around.
SPECIFICATION FairSpec
CONSTANTS
    t1 = t1
    t2 = t2
    t3 = t3
    Tasks <- MCTasks
    PoolSize = 2
    TxMod = 8
    Copies = 2
    MaxSubmits = 4
INVARIANTS
    PoolIsBounded
    ConnectionsAreExclusive
    ClosedForGood
PROPERTIES
    WaitsOnlyForUsers
    ContractIsKept
    CallsGetThrough
CHECK_DEADLOCK FALSE
