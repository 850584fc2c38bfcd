SPECIFICATION UsageSpec
CONSTANTS
    RunCount = 3
    Runtimes = {"codex", "claude", "goose-codex"}
    Modes = {"off", "all"}
    Faults = {"disk", "lost", "crash", "list", "corrupt", "reset"}
    MaxTurns = 4
    MaxTokens = 1
    MaxCounted = 3
    LastUsages = {TRUE, FALSE}
    AfterLoss = FALSE
INVARIANTS
    UsageTypeOK
    ChargedOnlyItsOwn
PROPERTIES
    ContinuesItsSession
    SwitchForgets
CHECK_DEADLOCK FALSE
