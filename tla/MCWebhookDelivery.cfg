SPECIFICATION FairSpec
CONSTANTS
    d1 = d1
    d2 = d2
    h1 = h1
    h2 = h2
    h3 = h3
    NoHandler = NoHandler
    Deliveries = {d1, d2}
    Handlers = {h1, h2, h3}
    MaxDeliveries = 1
INVARIANTS
    OneProcessor
    ProcessedMeansApplied
PROPERTIES
    ClaimsEnd
CHECK_DEADLOCK FALSE
