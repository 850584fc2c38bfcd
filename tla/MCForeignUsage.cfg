SPECIFICATION UsageSpec
CONSTANTS
    RunCount = 2
    Runtimes = {"codex"}
    Modes = {"all"}
    Faults = {"lost"}
    MaxTurns = 4
    MaxTokens = 1
    MaxCounted = 4
    LastUsages = {TRUE, FALSE}
    AfterLoss = TRUE
INVARIANT
    ChargedOnlyItsOwn
CHECK_DEADLOCK FALSE
