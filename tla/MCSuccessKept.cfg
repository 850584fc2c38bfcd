SPECIFICATION FairSpec
CONSTANTS
    r1 = r1
    t1 = t1
    p1 = p1
    p2 = p2
    NoTask = NoTask
    Nobody = Nobody
    NoFile = NoFile
    Runs = {r1}
    Tasks = {t1}
    TaskOf <- MCTaskOf
    PRRuns = {}
    MaxRuns = 1
    Run = r1
    Procs = {p1, p2}
    First = p1
    FaultMixes = {{"cancel"}}
    MaxTurns = 2
PROPERTIES
    SuccessIsKept
CHECK_DEADLOCK FALSE
