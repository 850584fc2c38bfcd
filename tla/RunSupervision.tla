--------------------------- MODULE RunSupervision ---------------------------
(***************************************************************************)
(* The orchestrator (internal/orchestrator): rascald processes that share  *)
(* the state store and one container engine, schedule queued runs, launch  *)
(* a detached container for each, supervise it under a run lease, settle   *)
(* the run when the container exits, and recover at startup what an        *)
(* earlier process left behind.                                            *)
(*                                                                         *)
(* A process is an instance of rascald with its own InstanceID: it lives   *)
(* once, so a restart is another process.  Its goroutines are the threads  *)
(* that execute or adopt a run, the one caller inside ScheduleRuns         *)
(* (scheduleMu), the recovery loop, and request handlers.  A step of a     *)
(* goroutine spans what it does between two points where another goroutine *)
(* or process can change what it relies on.                                *)
(*                                                                         *)
(* Time is not modelled.  A lease or a start time may be found expired     *)
(* whenever nothing keeps it fresh, see LeaseMayBeExpired.                 *)
(***************************************************************************)
EXTENDS RunStore

CONSTANTS
    Procs,          \* rascald instances
    NoProc,         \* the owner of a lease that does not exist
    NoRun,
    Copies,         \* numbers goroutines of one process on one run, below
    MaxAlive,       \* 1: restarts only; 2: blue/green slots overlap
    Mortal,         \* the processes that may be told to stop, or crash
    MaxConcurrent,  \* concurrencyLimit
    Outcomes,       \* how a container may exit: subset of Exits
    Faults,         \* what may fail: subset of FaultKinds
    Clients,        \* requests that may be in progress at the same time
    Cancelable,     \* runs a user may ask to cancel, once each, unless the
                    \* request that created them has closed them again
    Completable     \* tasks whose issue may be closed

\* How a container exits: with success, with a failure, or with a failure
\* in which detectUsageLimitPause recognises a provider usage limit.
Exits == {"ok", "failed", "limited"}

\* Writing a new run's files, preparing or launching a container, a request
\* to the container engine, renewing the credential lease, and the process.
FaultKinds == {"write", "launch", "docker", "credential", "crash"}

ASSUME SupervisionConstants ==
    /\ NoProc \notin Procs
    /\ NoRun \notin Runs
    /\ Copies \subseteq Nat /\ {0, 1} \subseteq Copies
    /\ Clients \cap (Runs \X Copies) = {}
    /\ MaxAlive \in Nat \ {0}
    /\ Mortal \subseteq Procs
    /\ MaxConcurrent \in Nat \ {0}
    /\ Outcomes \subseteq Exits
    /\ Faults \subseteq FaultKinds
    /\ Cancelable \subseteq Runs
    /\ Completable \subseteq Tasks

\* Trimming of rows is RunStore's subject; here every run fits.
ASSUME NoTrimming == MaxRuns >= Cardinality(Runs)

VARIABLES
    lease,      \* run_leases: the owner of each run's lease, or NoProc
    execRow,    \* runs with a row in run_executions
    container,  \* each run's container: "absent", "running", or how it exited
    paused,     \* an unexpired row in scheduler_pauses
    proc,       \* life of each process
    pc,         \* where each goroutine of each process is
    registered, \* runCancels: the goroutines that supervise
    debt,       \* goroutines that delete their lease when they return
    todo,       \* runs RecoverRunningRuns still has to look at
    sched,      \* the goroutine inside ScheduleRuns, of each process
    wake,       \* a ScheduleRuns("") call pending, at startup or from a timer
    armed,      \* resumeTimer is set
    request,    \* the requests being handled
    asked       \* runs and tasks that a request has closed, or was to close

supVars == <<lease, execRow, container, paused, proc, pc, registered, debt,
             todo, sched, wake, armed, request, asked>>
vars == <<storeVars, supVars>>

\* Copy 0 is the recovery loop when it settles the run itself; the others
\* are goroutines of their own.
Threads == Runs \X Copies
Main(r) == <<r, 0>>

Alive(p)    == proc[p] \notin {"unborn", "dead"}
Draining(p) == proc[p] \in {"draining", "stopping"}

\* The caller inside ScheduleRuns: a thread, a request handler, or the
\* process itself at startup or from its resume timer.
Itself == <<"itself">>
NobodySched == [step |-> "free", by |-> Itself, prefer |-> NoTask, run |-> NoRun]
Free(p)     == sched[p] = NobodySched

NoRequest == [step |-> "none", at |-> NoProc, run |-> NoRun, task |-> NoTask]

SupInit ==
    /\ StoreInit
    /\ lease = [r \in Runs |-> NoProc]
    /\ execRow = {}
    /\ container = [r \in Runs |-> "absent"]
    /\ paused = FALSE
    /\ proc = [p \in Procs |-> "unborn"]
    /\ pc = [p \in Procs |-> [th \in Threads |-> "idle"]]
    /\ registered = [p \in Procs |-> {}]
    /\ debt = [p \in Procs |-> {}]
    /\ todo = [p \in Procs |-> {}]
    /\ sched = [p \in Procs |-> NobodySched]
    /\ wake = [p \in Procs |-> FALSE]
    /\ armed = [p \in Procs |-> FALSE]
    /\ request = [c \in Clients |-> NoRequest]
    /\ asked = {}

\* Variable groups, for UNCHANGED.
queueVars  == <<seq, lastSeq, taskDone, taskDraft>>
dockerVars == <<execRow, container>>
procVars   == <<proc, todo, wake>>
threadVars == <<pc, registered, debt>>
timerVars  == <<paused, armed>>
apiVars    == <<request, asked>>

-----------------------------------------------------------------------------
(* Defects someone could write into the definitions below, each with the   *)
(* signature of the one it would replace: they show what the properties    *)
(* notice, and are no part of the specification.                           *)

UncheckedTransition(r, to)  == status' = [status EXCEPT ![r] = to]
KeepRunExecution(r)         == UNCHANGED execRow
LaunchBeforePersisting(r)   == UNCHANGED execRow
KeepRunLease(p, r)          == lease
RoomForOneMore(p)           == Cardinality({r \in Runs : lease[r] = p}) <= MaxConcurrent
ForgetResumeTimer(p)        == UNCHANGED armed
ListUnleasedRuns            == {r \in Runs : status[r] = "running" /\ lease[r] = NoProc}
StopLeavesNoExit(r)         == container' = [container EXCEPT ![r] = "stopped"]

-----------------------------------------------------------------------------
(* Helpers shared by the goroutines.                                       *)

Goto(p, th, l) == pc' = [pc EXCEPT ![p][th] = l]

\* transitionOrGetRun: an illegal transition leaves the status alone.
TransitionOrGet(r, to) ==
    status' = IF CanTransition(r, to) THEN [status EXCEPT ![r] = to] ELSE status

\* DeleteRunLeaseForOwner.
LeaseWithout(p, r) == IF lease[r] = p THEN [lease EXCEPT ![r] = NoProc] ELSE lease

ActiveRunCount(p) == Cardinality({r \in Runs : lease[r] = p})

UpsertRunExecution(r) == execRow' = execRow \cup {r}
DeleteRunExecution(r) == execRow' = execRow \ {r}

\* docker stop: the container, if running, is made to exit with an error.
StopContainer(r) ==
    \/ container' = IF container[r] = "running"
                    THEN [container EXCEPT ![r] = "failed"] ELSE container
    \/ "docker" \in Faults /\ UNCHANGED container

-----------------------------------------------------------------------------
(* ScheduleRuns.  A caller that finds the workers paused arms the resume   *)
(* timer and returns; otherwise it takes scheduleMu and loops.             *)

EnsureResumeTimer(p) == armed' = [armed EXCEPT ![p] = armed[p] \/ ~Draining(p)]

HasRoom(p) == ActiveRunCount(p) < MaxConcurrent

CallScheduleRuns(p, by, task) ==
    /\ Free(p) /\ ~paused /\ ~Draining(p)
    /\ sched' = [sched EXCEPT ![p] =
                    [step |-> "check", by |-> by, prefer |-> task, run |-> NoRun]]
    /\ UNCHANGED armed

ScheduleRunsReturnsAtOnce(p) ==
    /\ paused \/ Draining(p)
    /\ EnsureResumeTimer(p)
    /\ UNCHANGED sched

\* The caller goes on where it called from.
ReturnFromSchedule(p) ==
    LET by == sched[p].by IN
    /\ sched' = [sched EXCEPT ![p] = NobodySched]
    /\ IF by \in Threads THEN Goto(p, by, "unwind") ELSE UNCHANGED pc
    /\ request' = [c \in Clients |-> IF c = by THEN NoRequest ELSE request[c]]

\* Head of the loop: pause, capacity and drain are read before the claim.
ScheduleCheck(p) ==
    /\ sched[p].step = "check"
    /\ \/ /\ ~paused /\ HasRoom(p) /\ ~Draining(p)
          /\ sched' = [sched EXCEPT ![p].step = "claim"]
          /\ UNCHANGED <<armed, pc, request>>
       \/ /\ paused
          /\ EnsureResumeTimer(p)
          /\ ReturnFromSchedule(p)
       \/ /\ ~paused /\ (~HasRoom(p) \/ Draining(p))
          /\ ReturnFromSchedule(p)
          /\ UNCHANGED armed
    /\ UNCHANGED <<storeVars, lease, dockerVars, paused, procVars, registered, debt, asked>>

ScheduleClaim(p) ==
    /\ sched[p].step = "claim"
    /\ \/ \E r \in Runs :
            /\ ClaimNextQueuedRun(sched[p].prefer, r)
            /\ sched' = [sched EXCEPT ![p].step = "claimed", ![p].run = r,
                                      ![p].prefer = NoTask]
            /\ UNCHANGED <<pc, request>>
       \/ /\ ~\E r \in Runs : Claimable(r)
          /\ ReturnFromSchedule(p)
          /\ UNCHANGED status
    /\ UNCHANGED <<queueVars, cancelReq, lease, dockerVars, timerVars, procVars,
                   registered, debt, asked>>

\* The first goroutine of the run that is not in use.
IsNewThread(p, r, th) ==
    LET unused == {c \in Copies \ {0} : pc[p][<<r, c>>] = "idle"} IN
    th[1] = r /\ th[2] \in unused /\ \A c \in unused : th[2] <= c

\* The claimed run is canceled if asked to be, or if the process began to
\* drain; else it gets its lease and its goroutine.
ScheduleSpawn(p) ==
    /\ sched[p].step = "claimed"
    /\ LET r == sched[p].run IN
       \/ /\ r \in cancelReq
          /\ TransitionOrGet(r, "canceled")
          /\ ClearRunCancel(r)
          /\ sched' = [sched EXCEPT ![p].step = "check", ![p].run = NoRun]
          /\ UNCHANGED <<lease, pc, request>>
       \/ /\ r \notin cancelReq /\ Draining(p)
          /\ TransitionOrGet(r, "canceled")
          /\ ReturnFromSchedule(p)
          /\ UNCHANGED <<cancelReq, lease>>
       \/ /\ r \notin cancelReq /\ ~Draining(p)
          /\ lease' = [lease EXCEPT ![r] = p]
          /\ \E th \in Threads : IsNewThread(p, r, th) /\ Goto(p, th, "exec")
          /\ sched' = [sched EXCEPT ![p].step = "check", ![p].run = NoRun]
          /\ UNCHANGED <<status, cancelReq, request>>
    /\ UNCHANGED <<queueVars, dockerVars, timerVars, procVars, registered, debt, asked>>

Schedule(p) == ScheduleCheck(p) \/ ScheduleClaim(p) \/ ScheduleSpawn(p)

-----------------------------------------------------------------------------
(* ExecuteRun, one goroutine per scheduled run.                            *)

\* Entry checks.  A return from here leaves the lease ScheduleRuns took: the
\* deferred delete is registered only once these checks have passed.
ExecuteRun(p, th) ==
    LET r == th[1] IN
    /\ pc[p][th] = "exec"
    /\ \/ /\ r \in cancelReq \/ TaskOf[r] \in taskDone
          /\ TransitionOrGet(r, "canceled")
          /\ Goto(p, th, "finish")
          /\ UNCHANGED <<lease, debt>>
       \/ /\ r \notin cancelReq /\ TaskOf[r] \notin taskDone
          /\ status[r] # "running"
          /\ Goto(p, th, "finish")
          /\ UNCHANGED <<status, lease, debt>>
       \/ /\ r \notin cancelReq /\ TaskOf[r] \notin taskDone
          /\ status[r] = "running"
          /\ lease' = [lease EXCEPT ![r] = p]
          /\ debt' = [debt EXCEPT ![p] = @ \cup {th}]
          /\ Goto(p, th, "prepare")
          /\ UNCHANGED status
    /\ UNCHANGED <<queueVars, cancelReq, dockerVars, timerVars, procVars,
                   registered, sched, apiVars>>

\* Credential, session directory and session record; then the second look
\* for a cancel request, and the execution row written ahead of the launch.
Prepare(p, th) ==
    LET r == th[1] IN
    /\ pc[p][th] = "prepare"
    /\ \/ /\ "launch" \in Faults
          /\ TransitionOrGet(r, "failed")
          /\ Goto(p, th, "finish")
          /\ UNCHANGED execRow
       \/ /\ r \in cancelReq
          /\ TransitionOrGet(r, "canceled")
          /\ Goto(p, th, "finish")
          /\ UNCHANGED execRow
       \/ /\ r \notin cancelReq /\ r \in execRow
          /\ Goto(p, th, "register")
          /\ UNCHANGED <<status, execRow>>
       \/ /\ r \notin cancelReq /\ r \notin execRow
          /\ UpsertRunExecution(r)
          /\ Goto(p, th, "launch")
          /\ UNCHANGED status
    /\ UNCHANGED <<queueVars, cancelReq, lease, container, timerVars, procVars,
                   registered, debt, sched, apiVars>>

\* startDetachedWithRetry: the container's name is taken from the run id, so
\* a launch fails when a container of that name exists.
Launch(p, th) ==
    LET r == th[1] IN
    /\ pc[p][th] = "launch"
    /\ \/ /\ container[r] = "absent"
          /\ container' = [container EXCEPT ![r] = "running"]
          /\ Goto(p, th, "record")
          /\ UNCHANGED <<status, execRow>>
       \/ /\ "launch" \in Faults \/ container[r] # "absent"
          /\ DeleteRunExecution(r)
          /\ TransitionOrGet(r, "failed")
          /\ Goto(p, th, "finish")
          /\ UNCHANGED container
    /\ UNCHANGED <<queueVars, cancelReq, lease, timerVars, procVars,
                   registered, debt, sched, apiVars>>

Record(p, th) ==
    /\ pc[p][th] = "record"
    /\ execRow' = execRow \cup {th[1]}
    /\ Goto(p, th, "register")
    /\ UNCHANGED <<storeVars, lease, container, timerVars, procVars,
                   registered, debt, sched, apiVars>>

\* superviseDetachedRunLoop: one supervisor of a run per process, none once
\* StopSupervisors is set.
Register(p, th) ==
    /\ pc[p][th] = "register"
    /\ IF proc[p] = "stopping" \/ \E o \in registered[p] : o[1] = th[1]
       THEN /\ Goto(p, th, "unwind")
            /\ UNCHANGED <<registered, debt>>
       ELSE /\ registered' = [registered EXCEPT ![p] = @ \cup {th}]
            /\ debt' = [debt EXCEPT ![p] = @ \cup {th}]
            /\ Goto(p, th, "watch")
    /\ UNCHANGED <<storeVars, lease, dockerVars, timerVars, procVars, sched, apiVars>>

-----------------------------------------------------------------------------
(* superviseRun: the tick of a supervisor.  "halted" is "watch" with       *)
(* stopRequested set.                                                      *)

Watching == {"watch", "halted"}

\* The context is canceled, or the lease turns out to be another's.
StopWatching(p, th) ==
    /\ pc[p][th] \in Watching
    /\ proc[p] = "stopping" \/ lease[th[1]] # p
    /\ Goto(p, th, "unwind")
    /\ UNCHANGED <<storeVars, lease, dockerVars, timerVars, procVars,
                   registered, debt, sched, apiVars>>

\* A running container with a cancel request is stopped, once.
WatchCancel(p, th) ==
    LET r == th[1] IN
    /\ pc[p][th] = "watch"
    /\ container[r] = "running" /\ r \in cancelReq
    /\ StopContainer(r)
    /\ Goto(p, th, "halted")
    /\ UNCHANGED <<storeVars, lease, execRow, timerVars, procVars,
                   registered, debt, sched, apiVars>>

\* The credential lease cannot be renewed: the supervisor itself asks for
\* the cancellation, and stops the container unless it already did.
WatchCredential(p, th) ==
    LET r == th[1] IN
    /\ pc[p][th] \in Watching
    /\ "credential" \in Faults
    /\ RequestRunCancel(r)
    /\ IF pc[p][th] = "watch" THEN StopContainer(r) ELSE UNCHANGED container
    /\ Goto(p, th, "halted")
    /\ UNCHANGED <<status, queueVars, lease, execRow, timerVars, procVars,
                   registered, debt, sched, apiVars>>

\* The exit is observed; the goroutine goes on to settle it.
WatchExit(p, th) ==
    /\ pc[p][th] \in Watching
    /\ container[th[1]] \in Exits
    /\ Goto(p, th, container[th[1]])
    /\ UNCHANGED <<storeVars, lease, dockerVars, timerVars, procVars,
                   registered, debt, sched, apiVars>>

\* failRunForMissingExecution.
FailMissing(r) ==
    /\ TransitionOrGet(r, "failed")
    /\ DeleteRunExecution(r)
    /\ lease' = [lease EXCEPT ![r] = NoProc]

WatchMissing(p, th) ==
    /\ pc[p][th] \in Watching
    /\ container[th[1]] = "absent"
    /\ FailMissing(th[1])
    /\ Goto(p, th, "finish")
    /\ UNCHANGED <<queueVars, cancelReq, container, timerVars, procVars,
                   registered, debt, sched, apiVars>>

Watch(p, th) ==
    \/ StopWatching(p, th) \/ WatchCancel(p, th) \/ WatchCredential(p, th)
    \/ WatchExit(p, th) \/ WatchMissing(p, th)

-----------------------------------------------------------------------------
(* finalizeDetachedRun and finishRun.                                      *)

\* The status a finished execution asks for; a pending cancel request
\* explains a failure and never replaces a success.
SettledStatuses(r, exit) ==
    CASE exit = "ok" -> IF r \in PRRuns THEN {"review"} ELSE {"review", "succeeded"}
      [] exit # "ok" /\ r \in cancelReq -> {"canceled"}
      [] OTHER -> {"failed"}

\* A result that is refused, since the run was handed back to the queue
\* meanwhile, fails the run.
SettleRun(r, to) ==
    IF CanTransition(r, to) THEN SetRunStatus(r, to) ELSE TransitionOrGet(r, "failed")

\* A run another goroutine closed is left alone.  A usage limit pauses the
\* workers and gives the run back to the queue, cancel request or not.
Settle(p, th) ==
    LET r == th[1]
        exit == pc[p][th] IN
    /\ exit \in Exits
    /\ \/ status[r] \in Final /\ UNCHANGED <<status, timerVars>>
       \/ /\ status[r] \notin Final
          /\ exit = "limited"
          /\ paused' = TRUE
          /\ EnsureResumeTimer(p)
          /\ IF status[r] = "running" THEN Requeue(r) ELSE UNCHANGED status
       \/ /\ status[r] \notin Final
          /\ exit # "limited"
          /\ \E to \in SettledStatuses(r, exit) : SettleRun(r, to)
          /\ UNCHANGED timerVars
    /\ Goto(p, th, "remove")
    /\ UNCHANGED <<queueVars, cancelReq, lease, dockerVars, procVars,
                   registered, debt, sched, apiVars>>

\* cleanupDetachedExecution, in two steps: the container, then the rows.
RemoveContainer(p, th) ==
    LET r == th[1] IN
    /\ pc[p][th] = "remove"
    /\ \/ container' = [container EXCEPT ![r] = "absent"]
       \/ "docker" \in Faults /\ UNCHANGED container
    /\ Goto(p, th, "forget")
    /\ UNCHANGED <<storeVars, lease, execRow, timerVars, procVars,
                   registered, debt, sched, apiVars>>

ForgetExecution(p, th) ==
    LET r == th[1] IN
    /\ pc[p][th] = "forget"
    /\ DeleteRunExecution(r)
    /\ lease' = [lease EXCEPT ![r] = NoProc]
    /\ Goto(p, th, "finish")
    /\ UNCHANGED <<storeVars, container, timerVars, procVars,
                   registered, debt, sched, apiVars>>

CancelPendingIfCompleted(r) ==
    IF TaskOf[r] \in taskDone THEN CancelQueuedRuns(TaskOf[r]) ELSE UNCHANGED status

\* finishRun, up to its call of ScheduleRuns.
FinishRun(p, th) ==
    LET r == th[1] IN
    /\ pc[p][th] = "finish"
    /\ IF status[r] \in Final THEN ClearRunCancel(r) ELSE UNCHANGED cancelReq
    /\ CancelPendingIfCompleted(r)
    /\ Goto(p, th, IF Draining(p) THEN "unwind" ELSE "resched")
    /\ UNCHANGED <<queueVars, lease, dockerVars, timerVars, procVars,
                   registered, debt, sched, apiVars>>

Reschedule(p, th) ==
    /\ pc[p][th] = "resched"
    /\ \/ CallScheduleRuns(p, th, TaskOf[th[1]]) /\ Goto(p, th, "insched")
       \/ ScheduleRunsReturnsAtOnce(p) /\ Goto(p, th, "unwind")
    /\ UNCHANGED <<storeVars, lease, dockerVars, paused, procVars,
                   registered, debt, apiVars>>

\* The deferred calls: unregister, and delete the lease if it is still ours.
Unwind(p, th) ==
    LET r == th[1] IN
    /\ pc[p][th] = "unwind"
    /\ registered' = [registered EXCEPT ![p] = @ \ {th}]
    /\ debt' = [debt EXCEPT ![p] = @ \ {th}]
    /\ lease' = IF th \in debt[p] THEN LeaseWithout(p, r) ELSE lease
    /\ Goto(p, th, "idle")
    /\ UNCHANGED <<storeVars, dockerVars, timerVars, procVars, sched, apiVars>>

Thread(p, th) ==
    \/ ExecuteRun(p, th) \/ Prepare(p, th) \/ Launch(p, th) \/ Record(p, th)
    \/ Register(p, th) \/ Watch(p, th) \/ Settle(p, th)
    \/ RemoveContainer(p, th) \/ ForgetExecution(p, th)
    \/ FinishRun(p, th) \/ Reschedule(p, th) \/ Unwind(p, th)

-----------------------------------------------------------------------------
(* Startup: RecoverQueuedCancels, then RecoverRunningRuns, each over the   *)
(* list it read when it began, then ScheduleRuns("") and the HTTP server.  *)

Boot(p) ==
    /\ proc[p] = "unborn"
    /\ Cardinality({q \in Procs : Alive(q)}) < MaxAlive
    /\ proc' = [proc EXCEPT ![p] = "booting"]
    /\ todo' = [todo EXCEPT ![p] = {r \in Runs : status[r] = "queued"}]
    /\ UNCHANGED <<storeVars, lease, dockerVars, timerVars, wake, threadVars, sched, apiVars>>

RecoverQueuedCancel(p) ==
    /\ proc[p] = "booting"
    /\ \E r \in todo[p] :
        /\ IF r \in cancelReq
           THEN TransitionOrGet(r, "canceled") /\ ClearRunCancel(r)
           ELSE UNCHANGED <<status, cancelReq>>
        /\ todo' = [todo EXCEPT ![p] = @ \ {r}]
    /\ UNCHANGED <<queueVars, lease, dockerVars, timerVars, proc, wake, threadVars,
                   sched, apiVars>>

ListRunningRuns == {r \in Runs : status[r] = "running"}

BeginRecovery(p) ==
    /\ proc[p] = "booting" /\ todo[p] = {}
    /\ proc' = [proc EXCEPT ![p] = "recovering"]
    /\ todo' = [todo EXCEPT ![p] = ListRunningRuns]
    /\ UNCHANGED <<storeVars, lease, dockerVars, timerVars, wake, threadVars, sched, apiVars>>

\* A lease of 90s renewed every 30s is live as long as its owner's goroutine
\* on the run is; any other may have expired, or not yet.
LeaseMayBeExpired(r) ==
    ~\E th \in Threads : th[1] = r /\ pc[lease[r]][th] # "idle"

\* A start less than 90s ago protects the run between its claim and its lease.
StartMayBeOld(r) == ~\E q \in Procs : sched[q].run = r

\* The loop itself settles a run that exited, before it looks at the next.
RecoveryIdle(p) == \A r \in Runs : pc[p][Main(r)] = "idle"

RecoverDetached(p, r) ==
    /\ r \in execRow
    /\ \/ /\ container[r] = "absent"
          /\ FailMissing(r)
          /\ Goto(p, Main(r), "finish")
       \/ /\ container[r] = "running" \/ "docker" \in Faults
          /\ lease' = [lease EXCEPT ![r] = p]
          /\ \E th \in Threads : IsNewThread(p, r, th) /\ Goto(p, th, "register")
          /\ UNCHANGED <<status, execRow>>
       \/ /\ container[r] \in Exits
          /\ Goto(p, Main(r), container[r])
          /\ UNCHANGED <<status, execRow, lease>>
    /\ UNCHANGED cancelReq

RecoverUnlaunched(p, r) ==
    /\ r \notin execRow
    /\ \/ /\ r \in cancelReq
          /\ TransitionOrGet(r, "canceled")
          /\ ClearRunCancel(r)
          /\ UNCHANGED lease
       \/ /\ r \notin cancelReq
          /\ UNCHANGED <<status, cancelReq, lease>>
       \/ /\ r \notin cancelReq
          /\ IF lease[r] # NoProc THEN LeaseMayBeExpired(r) ELSE StartMayBeOld(r)
          /\ lease' = [lease EXCEPT ![r] = NoProc]
          /\ IF status[r] = "running" THEN Requeue(r) ELSE UNCHANGED status
          /\ UNCHANGED cancelReq
    /\ UNCHANGED <<execRow, pc>>

RecoverRunningRun(p) ==
    /\ proc[p] = "recovering" /\ RecoveryIdle(p)
    /\ \E r \in todo[p] :
        /\ RecoverDetached(p, r) \/ RecoverUnlaunched(p, r)
        /\ todo' = [todo EXCEPT ![p] = @ \ {r}]
    /\ UNCHANGED <<queueVars, container, timerVars, proc, wake, registered, debt,
                   sched, apiVars>>

EndRecovery(p) ==
    /\ proc[p] = "recovering" /\ todo[p] = {} /\ RecoveryIdle(p)
    /\ proc' = [proc EXCEPT ![p] = "up"]
    /\ wake' = [wake EXCEPT ![p] = TRUE]
    /\ UNCHANGED <<storeVars, lease, dockerVars, timerVars, todo, threadVars, sched, apiVars>>

Startup(p) ==
    RecoverQueuedCancel(p) \/ BeginRecovery(p) \/ RecoverRunningRun(p) \/ EndRecovery(p)

\* The process's own call of ScheduleRuns, at startup and from its timer.
Wake(p) ==
    /\ wake[p] /\ Alive(p)
    /\ CallScheduleRuns(p, Itself, NoTask) \/ ScheduleRunsReturnsAtOnce(p)
    /\ wake' = [wake EXCEPT ![p] = FALSE]
    /\ UNCHANGED <<storeVars, lease, dockerVars, paused, proc, todo, threadVars, apiVars>>

ResumeTimer(p) ==
    /\ armed[p] /\ ~paused
    /\ armed' = [armed EXCEPT ![p] = FALSE]
    /\ wake' = [wake EXCEPT ![p] = TRUE]
    /\ UNCHANGED <<storeVars, lease, dockerVars, paused, proc, todo, threadVars, sched, apiVars>>

-----------------------------------------------------------------------------
(* The end of a process.                                                   *)

\* Its goroutines are gone; the store and the containers stay.
Die(p) ==
    /\ proc' = [proc EXCEPT ![p] = "dead"]
    /\ pc' = [pc EXCEPT ![p] = [th \in Threads |-> "idle"]]
    /\ registered' = [registered EXCEPT ![p] = {}]
    /\ debt' = [debt EXCEPT ![p] = {}]
    /\ todo' = [todo EXCEPT ![p] = {}]
    /\ sched' = [sched EXCEPT ![p] = NobodySched]
    /\ wake' = [wake EXCEPT ![p] = FALSE]
    /\ armed' = [armed EXCEPT ![p] = FALSE]
    /\ request' = [c \in Clients |-> IF request[c].at = p THEN NoRequest ELSE request[c]]
    /\ UNCHANGED <<storeVars, lease, dockerVars, paused, asked>>

Crash(p) == "crash" \in Faults /\ p \in Mortal /\ Alive(p) /\ Die(p)

\* SIGUSR1, SIGUSR2 or SIGTERM.
BeginDrain(p) ==
    /\ p \in Mortal /\ proc[p] = "up"
    /\ proc' = [proc EXCEPT ![p] = "draining"]
    /\ armed' = [armed EXCEPT ![p] = FALSE]
    /\ UNCHANGED <<storeVars, lease, dockerVars, paused, todo, wake, threadVars, sched, apiVars>>

\* A drain closes the listener, and main returns with ListenAndServe: it does
\* not get to wait for the slot's runs.  One that was told to stop its
\* supervisors leaves after a bounded wait, whatever it still holds.
Leave(p) == proc[p] \in {"draining", "stopping"} /\ Die(p)

\* SIGUSR2 and SIGTERM stop the supervisors first.
StopRunSupervisors(p) ==
    /\ proc[p] = "draining"
    /\ proc' = [proc EXCEPT ![p] = "stopping"]
    /\ UNCHANGED <<storeVars, lease, dockerVars, timerVars, todo, wake, threadVars, sched, apiVars>>

-----------------------------------------------------------------------------
(* Requests, handled by a process that is up.                              *)

Receive(c, p, step, r, t) ==
    /\ proc[p] = "up" /\ request[c] = NoRequest
    /\ request' = [request EXCEPT ![c] = [step |-> step, at |-> p, run |-> r, task |-> t]]

RequestStep(c, from, to) ==
    /\ request[c].step = from
    /\ request' = [request EXCEPT ![c] = IF to = "none" THEN NoRequest
                                         ELSE [@ EXCEPT !.step = to]]

\* CreateAndQueueRun: the task is looked at, the row is added, and then the
\* run's files are written.
CreateRun(c, p, r) ==
    /\ status[r] = "absent" /\ \A d \in Clients : request[d].run # r
    /\ TaskOf[r] \notin taskDone
    /\ Receive(c, p, "add", r, TaskOf[r])
    /\ UNCHANGED <<storeVars, asked>>

AddQueuedRun(c) ==
    /\ RequestStep(c, "add", "write")
    /\ AddRun(request[c].run)
    /\ UNCHANGED <<cancelReq, taskDone, taskDraft, asked>>

WriteRunFiles(c) ==
    /\ \/ RequestStep(c, "write", "schedule") /\ UNCHANGED <<status, asked>>
       \/ /\ "write" \in Faults
          /\ RequestStep(c, "write", "none")
          /\ TransitionOrGet(request[c].run, "failed")
          /\ asked' = asked \cup {request[c].run}
    /\ UNCHANGED <<queueVars, cancelReq>>

\* HandleCancelRun reads the run, persists the request, and then acts on the
\* status it read.
CancelRun(c, p, r) ==
    /\ r \in Cancelable \ asked
    /\ asked' = asked \cup {r}
    /\ \/ /\ status[r] \in {"succeeded", "failed", "canceled"}
          /\ proc[p] = "up"
          /\ ClearRunCancel(r)
          /\ UNCHANGED request
       \/ /\ status[r] = "queued"
          /\ Receive(c, p, "cancelQueued", r, TaskOf[r])
          /\ UNCHANGED cancelReq
       \/ /\ status[r] \in {"running", "review"}
          /\ Receive(c, p, "cancelActive", r, TaskOf[r])
          /\ UNCHANGED cancelReq
    /\ UNCHANGED <<status, queueVars>>

PersistCancel(c) ==
    /\ \/ RequestStep(c, "cancelQueued", "dequeue")
       \/ RequestStep(c, "cancelActive", "stop")
    /\ RequestRunCancel(request[c].run)
    /\ UNCHANGED <<status, queueVars, asked>>

Dequeue(c) ==
    /\ request[c].step = "dequeue"
    /\ LET r == request[c].run IN
       \/ /\ CanTransition(r, "canceled")
          /\ RequestStep(c, "dequeue", "schedule")
          /\ SetRunStatus(r, "canceled")
          /\ ClearRunCancel(r)
       \/ /\ ~CanTransition(r, "canceled")
          /\ RequestStep(c, "dequeue", "none")
          /\ UNCHANGED <<status, cancelReq>>
    /\ UNCHANGED <<queueVars, asked>>

\* An issue is closed: its task is completed, its queued runs are canceled,
\* and its running run is asked to stop.
CloseIssue(c, p, t) ==
    /\ t \in Completable \ asked
    /\ asked' = asked \cup {t}
    /\ MarkTaskCompleted(t)
    /\ Receive(c, p, "sweep", NoRun, t)
    /\ UNCHANGED <<status, seq, lastSeq, taskDraft, cancelReq>>

SweepQueued(c) ==
    /\ RequestStep(c, "sweep", "flush")
    /\ CancelQueuedRuns(request[c].task)
    /\ UNCHANGED <<queueVars, cancelReq, asked>>

\* cancelRunningTaskRuns lists the running runs and asks each of the task's to
\* stop: at most one is running, see OneRunningPerTask.
CancelRunning(c) ==
    /\ \/ \E r \in ListRunningRuns :
            /\ TaskOf[r] = request[c].task
            /\ request[c].step = "flush"
            /\ request' = [request EXCEPT ![c].step = "cancelActive", ![c].run = r]
       \/ /\ RequestStep(c, "flush", "none")
          /\ ~TaskBusy(request[c].task)
    /\ UNCHANGED <<status, cancelReq, queueVars, asked>>

\* stopRunExecutionBestEffort.
StopExecution(c) ==
    LET r == request[c].run IN
    /\ RequestStep(c, "stop", "none")
    /\ IF r \in execRow THEN StopContainer(r) ELSE UNCHANGED container
    /\ UNCHANGED <<storeVars, asked>>

RequestSchedule(c) ==
    LET p == request[c].at IN
    /\ \/ RequestStep(c, "schedule", "insched") /\ CallScheduleRuns(p, c, request[c].task)
       \/ RequestStep(c, "schedule", "none") /\ ScheduleRunsReturnsAtOnce(p)
    /\ UNCHANGED <<storeVars, asked>>

Request(c) ==
    /\ \/ \E p \in Procs, r \in Runs : CreateRun(c, p, r) \/ CancelRun(c, p, r)
       \/ \E p \in Procs, t \in Tasks : CloseIssue(c, p, t)
    /\ UNCHANGED <<lease, dockerVars, timerVars, procVars, threadVars, sched>>

HandleRequest(c) ==
    \/ /\ AddQueuedRun(c) \/ WriteRunFiles(c) \/ PersistCancel(c) \/ Dequeue(c)
          \/ SweepQueued(c) \/ CancelRunning(c)
       /\ UNCHANGED <<lease, dockerVars, timerVars, procVars, threadVars, sched>>
    \/ /\ StopExecution(c)
       /\ UNCHANGED <<lease, execRow, timerVars, procVars, threadVars, sched>>
    \/ /\ RequestSchedule(c)
       /\ UNCHANGED <<lease, dockerVars, paused, procVars, threadVars>>

-----------------------------------------------------------------------------
(* The container engine and the provider.                                  *)

ContainerExits(r) ==
    /\ container[r] = "running"
    /\ \E exit \in Outcomes : container' = [container EXCEPT ![r] = exit]
    /\ UNCHANGED <<storeVars, lease, execRow, timerVars, procVars, threadVars, sched, apiVars>>

\* A pause lasts at least a minute: longer than any goroutine needs, once the
\* run it works on is back in the queue, to return.
PauseExpires ==
    /\ paused
    /\ \A p \in Procs, th \in Threads : status[th[1]] = "queued" => pc[p][th] = "idle"
    /\ paused' = FALSE
    /\ UNCHANGED <<storeVars, lease, dockerVars, armed, procVars, threadVars, sched, apiVars>>

Next ==
    \/ \E p \in Procs :
        \/ \E th \in Threads : Thread(p, th)
        \/ Schedule(p)
        \/ Boot(p) \/ Startup(p) \/ Wake(p) \/ ResumeTimer(p)
        \/ Crash(p) \/ BeginDrain(p) \/ Leave(p) \/ StopRunSupervisors(p)
    \/ \E c \in Clients : Request(c) \/ HandleRequest(c)
    \/ \E r \in Runs : ContainerExits(r)
    \/ PauseExpires

Spec == SupInit /\ [][Next]_vars

\* Goroutines run, Go's mutexes are starvation free, timers fire, a container
\* ends, and an outage of the provider is over one day.  Nothing makes a user
\* ask, a process crash, or an operator drain a slot.
Fairness ==
    /\ \A p \in Procs :
        /\ \A th \in Threads : WF_vars(Thread(p, th))
        /\ WF_vars(Boot(p)) /\ WF_vars(Startup(p)) /\ WF_vars(Leave(p))
        /\ WF_vars(Schedule(p)) /\ WF_vars(Wake(p)) /\ WF_vars(ResumeTimer(p))
    /\ \A c \in Clients : WF_vars(HandleRequest(c))
    /\ \A r \in Runs : WF_vars(ContainerExits(r))
    /\ \A r \in Runs : SF_vars(ContainerExits(r) /\ container'[r] # "limited")
    /\ WF_vars(PauseExpires)

FairSpec == Spec /\ Fairness

-----------------------------------------------------------------------------
(* Properties.                                                             *)

PCs == {"idle", "exec", "prepare", "launch", "record", "register", "watch",
        "halted", "remove", "forget", "finish", "resched", "insched", "unwind"}
       \cup Exits

RequestSteps == {"none", "add", "write", "schedule", "insched", "cancelQueued",
                 "cancelActive", "dequeue", "stop", "sweep", "flush"}

\* Type invariant, goroutine positions and request steps included.
SupTypeOK ==
    /\ StoreTypeOK
    /\ lease \in [Runs -> Procs \cup {NoProc}]
    /\ execRow \subseteq Runs
    /\ container \in [Runs -> {"absent", "running"} \cup Exits]
    /\ paused \in BOOLEAN
    /\ proc \in [Procs -> {"unborn", "booting", "recovering", "up", "draining",
                           "stopping", "dead"}]
    /\ pc \in [Procs -> [Threads -> PCs]]
    /\ registered \in [Procs -> SUBSET Threads]
    /\ debt \in [Procs -> SUBSET Threads]
    /\ todo \in [Procs -> SUBSET Runs]
    /\ sched \in [Procs -> [step : {"free", "check", "claim", "claimed"},
                            by : Threads \cup Clients \cup {Itself},
                            prefer : Tasks \cup {NoTask},
                            run : Runs \cup {NoRun}]]
    /\ wake \in [Procs -> BOOLEAN]
    /\ armed \in [Procs -> BOOLEAN]
    /\ request \in [Clients -> [step : RequestSteps, at : Procs \cup {NoProc},
                                run : Runs \cup {NoRun}, task : Tasks \cup {NoTask}]]
    /\ asked \subseteq Runs \cup Tasks

\* Someone in process p works on run r.
Working(p, r) == \E th \in Threads : th[1] = r /\ pc[p][th] # "idle"
Attended(p, r) == Working(p, r) \/ sched[p].run = r

\* A task's runs are executed one after the other, never two containers of
\* one task at a time.  The store's claims only keep two runs from being in
\* status running; that the container follows its run's status is up to the
\* order in which the goroutines write the row, the lease and the launch.
SerialContainers ==
    \A r, x \in Runs :
        /\ container[r] = "running" /\ container[x] = "running"
        /\ TaskOf[r] = TaskOf[x]
        => r = x

\* ExecuteRun writes the execution row before the launch and cleanup deletes
\* it after the removal, so that whenever the process may die, a container at
\* work can be found by the process that starts next.
Adoptable == \A r \in Runs : container[r] = "running" => r \in execRow

\* When ScheduleRuns claims a run, the goroutine this process had on that run
\* is gone: a run requeued for a usage limit is back in the queue long before
\* its goroutine has cleaned up, and only the pause and the lease it still
\* holds keep the scheduler away from it.
FreshGoroutine == \A p \in Procs : sched[p].run # NoRun => ~Working(p, sched[p].run)

\* A process never has two goroutines that ready, supervise or settle one run,
\* and claims no run it has such a goroutine on, at any limit.  The goroutine of
\* a run that went back to the queue may still be cleaning up: FreshGoroutine
\* says that with one run at a time not even that.
Engaged == {"exec", "prepare", "launch", "record", "register", "watch", "halted"} \cup Exits

OneAtWork ==
    \A p \in Procs, th \in Threads : pc[p][th] \in Engaged =>
        /\ sched[p].run # th[1]
        /\ \A o \in Threads : pc[p][o] \in Engaged /\ o[1] = th[1] => o = th

\* A user's cancel, or a failing write of the request that created it, closed a
\* run that may have been claimed or launched meanwhile.
Overtaken(r) == status[r] \in {"canceled", "failed"} /\ r \in asked

\* Such a run is all that ever lets a second container of its task begin.
SerialUnlessOvertaken ==
    \A r, x \in Runs :
        /\ container[r] = "running" /\ container[x] = "running"
        /\ TaskOf[r] = TaskOf[x]
        => r = x \/ Overtaken(r) \/ Overtaken(x)

\* The end of its task closes a run, too, when its goroutine begins.
ClosedByRequest(r) == Overtaken(r) \/ (status[r] = "canceled" /\ TaskOf[r] \in asked)

\* A lease held by a living process stands for work of that process: leases
\* are what ActiveRunCount counts, so a forgotten one takes capacity for good.
\* One is forgotten all the same when its run is closed by a request between
\* its claim and its goroutine: ExecuteRun then returns before it has deferred
\* the delete.  A process that stops its supervisors needs none: a run it has
\* adopted but does not supervise yet then leaves its lease behind.
NoLeakedLease ==
    \A p \in Procs, r \in Runs :
        proc[p] \notin {"unborn", "stopping", "dead"} /\ lease[r] = p
            => Attended(p, r) \/ ClosedByRequest(r)

\* As long as no process is on its way out or dead, somebody works on every run
\* in status running, through all the error paths of ExecuteRun and supervision.
RunningAttended ==
    (\A p \in Procs : proc[p] \notin {"draining", "stopping", "dead"})
    => \A r \in Runs : status[r] = "running" => \E p \in Procs : Attended(p, r)

\* A cancel request is forgotten only once its run is over, whichever of the
\* scheduler, the supervisor, the recovery or the handler clears the row.
NoLostCancel ==
    [][\A r \in cancelReq \ cancelReq' : status'[r] \in Final]_vars

\* No process ever drains, stops or crashes: none comes back from that, so that
\* "always" may be said as "again and again".
Undisturbed == []<>(\A p \in Procs : proc[p] # "dead" /\ ~Draining(p))

\* A goroutine that calls the scheduler has given back the lease it owes.  One
\* whose launch failed has not: its delete is deferred.
CalledInTime ==
    [](\A p \in Procs, th \in Threads :
        pc[p][th] = "resched" /\ th \in debt[p] => lease[th[1]] # p)

\* A lease that nobody will give back, see NoLeakedLease.
LeaseForgotten == \E p \in Procs, r \in Runs : Alive(p) /\ lease[r] = p /\ ~Attended(p, r)

Closed(r) == status[r] \in Final \cup {"absent", "forgotten"}

\* As long as no process is told to stop or crashes, every run is closed one
\* day, usage limits and pauses included: each exit of a container leads to
\* another call of ScheduleRuns.  So does a run that CreateAndQueueRun adds
\* after its task was completed and swept.  Two things end that, and are left
\* out by name: a launch that fails calls the scheduler too early
\* (CalledInTime), and a forgotten lease may have taken the room.
QueuedRunsClose ==
    Undisturbed /\ CalledInTime => <>[]((\A r \in Runs : Closed(r)) \/ LeaseForgotten)

\* The same without these exceptions: what failed launches and the early returns
\* of ExecuteRun break.
NoRunIsForgotten == Undisturbed => <>[](\A r \in Runs : Closed(r))

\* Every cancel request is answered by closing its run.
CancelsAreHonoured == \A r \in Runs : r \in cancelReq ~> status[r] \in Final

\* The container and the execution row of a closed run are removed.
ClosedRunsAreCleanedUp ==
    Undisturbed => <>[](\A r \in Runs : status[r] \in Final
                                            => container[r] = "absent" /\ r \notin execRow)

\* A run whose execution row was written is closed or handed back, by the
\* process that launched it or, if that one dies, by the next: there is always
\* another moment when no such run is still running.
LaunchedRunsClose == []<>(\A r \in execRow : status[r] # "running")

\* "Exits only after those active runs finish, unless a later deploy reclaims
\* it": a slot that goes from its drain leaves no container of its runs at work.
DrainWaitsForRuns ==
    [][\A p \in Procs : proc[p] = "draining" /\ proc'[p] = "dead"
        => \A r \in Runs : lease[r] = p => container[r] # "running"]_vars
=============================================================================
