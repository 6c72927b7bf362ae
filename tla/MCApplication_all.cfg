\* Two frontends, a client, three configurations of any kind, three SIGHUPs and a SIGTERM
\* at any time.
SPECIFICATION FairSpec
CONSTANTS
    Frontends = 2
    Clients = {1}
    MaxEdits = 2
    MaxHups = 3
INVARIANTS
    OneRuntimeAtATime
    RuntimeIsWhole
    HandlersEndWithTheirFrontend
PROPERTIES
    ReloadIsHonouredWhileUp
    ShutdownIsHonoured
CHECK_DEADLOCK FALSE
