SPECIFICATION FairSpec
CONSTANTS
    r1 = r1
    r2 = r2
    r3 = r3
    t1 = t1
    p1 = p1
    p2 = p2
    c1 = c1
    c2 = c2
    NoTask = NoTask
    NoProc = NoProc
    NoRun = NoRun
    Runs = {r1, r2}
    Tasks = {t1}
    TaskOf <- OneTask2
    PRRuns = {r1, r2}
    MaxRuns = 2
    Procs = {p1}
    Copies = {0, 1}
    MaxAlive = 1
    Mortal = {}
    MaxConcurrent = 1
    Outcomes = {"ok"}
    Faults = {"launch"}
    Clients = {c1, c2}
    Cancelable = {}
    Completable = {}
PROPERTIES
    NoRunIsForgotten
CHECK_DEADLOCK FALSE
