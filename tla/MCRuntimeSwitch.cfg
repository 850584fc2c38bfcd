SPECIFICATION Spec
CONSTANTS
    RunCount = 2
    Runtimes = {"goose-codex", "goose-claude"}
    Modes = {"all"}
    Faults = {}
    MaxTurns = 2
INVARIANTS
    SwitchStartsFresh
CHECK_DEADLOCK FALSE
