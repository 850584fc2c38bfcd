\* Checked by hand: violated, see README section 5.
SPECIFICATION Spec
CONSTANTS
    RunCount = 3
    Runtimes = {"codex", "claude"}
    Modes = {"pr-only"}
    Faults = {}
    MaxTurns = 3
PROPERTIES
    SwitchAlwaysForgets
CHECK_DEADLOCK FALSE
