SPECIFICATION Spec
CONSTANTS
    r1 = r1
    r2 = r2
    r3 = r3
    t1 = t1
    p1 = p1
    p2 = p2
    c1 = c1
    c2 = c2
    NoTask = NoTask
    NoProc = NoProc
    NoRun = NoRun
    Runs = {r1, r2}
    Tasks = {t1}
    TaskOf <- OneTask2
    PRRuns = {r2}
    MaxRuns = 2
    Procs = {p1, p2}
    Copies = {0, 1}
    MaxAlive = 1
    Mortal = {p1}
    MaxConcurrent = 1
    Outcomes = {"ok", "limited"}
    Faults = {"launch", "docker", "credential", "crash"}
    Clients = {c1}
    Cancelable = {}
    Completable = {}
INVARIANTS
    SerialContainers
    Adoptable
    SupTypeOK
    FreshGoroutine
    NoLeakedLease
    RunningAttended
CHECK_DEADLOCK FALSE
