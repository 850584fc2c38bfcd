SPECIFICATION FairSpec
CONSTANTS
    NoSlot = NoSlot
    FaultMixes = {{}}
    MaxDeploys = 3
    MaxTroubles = 2
INVARIANTS
    WebhooksPassTheGate
CHECK_DEADLOCK FALSE
