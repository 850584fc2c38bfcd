SPECIFICATION Spec
CONSTANTS
    r1 = r1
    r2 = r2
    r3 = r3
    t1 = t1
    h1 = h1
    h2 = h2
    th1 = th1
    s1 = s1
    s2 = s2
    NoTask = NoTask
    Nothing = Nothing
    Runs = {r1, r2}
    Tasks = {t1}
    TaskOf <- MCTaskOf
    PRRuns = {r2}
    MaxRuns = 2
    Handlers = {h1, h2}
    Mixes = {
        {"issueReopened", "unresolved", "resolved", "merged", "prClosed", "prReopened", "draft"},
        {"issueReopened", "synchronize", "checkFailed", "retry", "merged", "draft", "ready"},
        {"labeled", "unlabeled", "edited", "issueClosed", "createTask", "createIssueTask"}}
    MaxEvents = 3
    Lost = {"prClosed"}
    Threads = {th1}
    Commits = {s1}
SYMMETRY Peers
INVARIANTS
    OneRunningPerTask
    DraftStopsWork
PROPERTIES
    SweepMissesNothing
    ReviewsAreResolved
    TasksImplementStore
CHECK_DEADLOCK FALSE
