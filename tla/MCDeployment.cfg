SPECIFICATION FairSpec
CONSTANTS
    NoSlot = NoSlot
    FaultMixes = {
        {}, {"unready"},
        {"crash", "probe", "nosite"}, {"crash", "ssh", "probe"},
        {"crash", "caddy", "probe", "unready", "nosite"},
        {"reboot", "sync", "probe"}}
    MaxDeploys = 3
    MaxTroubles = 2
INVARIANTS
    DeployTypeOK
    DoneMeansMoved
    ApiStaysUp
PROPERTIES
    RollbackRestores
    ServesAgain
    ReportsAreHeard
CHECK_DEADLOCK FALSE
