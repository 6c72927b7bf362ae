\* As above, with the promise of the command line.
SPECIFICATION FairSpec
CONSTANTS
    Frontends = 1
    Clients = {1}
    MaxEdits = 2
    MaxHups = 2
PROPERTIES
    ReloadIsHonoured
CHECK_DEADLOCK FALSE
