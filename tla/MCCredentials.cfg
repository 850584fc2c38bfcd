SPECIFICATION Spec
CONSTANTS
    r1 = r1
    u1 = u1
    u2 = u2
    p1 = p1
    p2 = p2
    NoCred = NoCred
    NoProc = NoProc
    NoRun = NoRun
    Everyone = Everyone
    Creds = {1, 2}
    Users = {u1, u2}
    Stored = {1}
    Owner0 <- MCOwner
    Weight <- MCWeight
    Configured = {"requester_own_then_shared", "shared_weighted_usage"}
    Patchable = {2}
    Broken = {1}
    Runs = {r1}
    UserOf <- MCUserOf
    Procs = {p1, p2}
    MaxRequests = 1
    AskedStatus = {"active"}
    AskedOwner = {u2}
    MaxLeases = 2
    MaxAttempts = 2
    MaxAlive = 2
SYMMETRY Slots
INVARIANTS
    OneLeasePerRun
    NoOrphanLease
    ChargedOnce
CHECK_DEADLOCK FALSE
