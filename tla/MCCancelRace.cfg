SPECIFICATION Spec
CONSTANTS
    r1 = r1
    r2 = r2
    r3 = r3
    t1 = t1
    p1 = p1
    p2 = p2
    c1 = c1
    c2 = c2
    NoTask = NoTask
    NoProc = NoProc
    NoRun = NoRun
    Runs = {r1, r2, r3}
    Tasks = {t1}
    TaskOf <- OneTask3
    PRRuns = {r2}
    MaxRuns = 3
    Procs = {p1}
    Copies = {0, 1}
    MaxAlive = 1
    Mortal = {}
    MaxConcurrent = 2
    Outcomes = {"ok"}
    Faults = {}
    Clients = {c1}
    Cancelable = {r2}
    Completable = {}
INVARIANTS
    SerialContainers
CHECK_DEADLOCK FALSE
