SPECIFICATION Spec
CONSTANTS
    RunCount = 2
    Runtimes = {"codex"}
    Modes = {"pr-only"}
    Faults = {}
    MaxTurns = 2
INVARIANTS
    ToldWhatWasKept
CHECK_DEADLOCK FALSE
