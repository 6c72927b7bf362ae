\* Two administrators and two gateways, with crashes, hangs and signals from elsewhere.
SPECIFICATION FairSpec
CONSTANTS
    Admins = {1, 2}
    MaxPids = 2
INVARIANTS
    SingleInstance
    PidFileIsTrue
    StopLeavesNothing
PROPERTIES
    StopIsHonoured
CHECK_DEADLOCK FALSE
