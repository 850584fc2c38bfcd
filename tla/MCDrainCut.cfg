SPECIFICATION Spec
CONSTANTS
    r1 = r1
    r2 = r2
    r3 = r3
    t1 = t1
    p1 = p1
    p2 = p2
    c1 = c1
    c2 = c2
    NoTask = NoTask
    NoProc = NoProc
    NoRun = NoRun
    Runs = {r1}
    Tasks = {t1}
    TaskOf <- OneTask1
    PRRuns = {}
    MaxRuns = 1
    Procs = {p1}
    Copies = {0, 1}
    MaxAlive = 1
    Mortal = {p1}
    MaxConcurrent = 1
    Outcomes = {"ok"}
    Faults = {}
    Clients = {c1}
    Cancelable = {}
    Completable = {}
PROPERTIES
    DrainWaitsForRuns
CHECK_DEADLOCK FALSE
