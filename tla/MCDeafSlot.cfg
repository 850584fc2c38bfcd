\* Checked by hand: violated, see README section 5.
SPECIFICATION FairSpec
CONSTANTS
    NoSlot = NoSlot
    FaultMixes = {{"unready"}}
    MaxDeploys = 2
    MaxTroubles = 0
PROPERTIES
    SocketComesBack
CHECK_DEADLOCK FALSE
