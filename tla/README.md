# A verification project for rascal

rascal runs coding agents for GitHub repositories: a daemon (`rascald`) takes
GitHub webhooks and API requests, turns them into *runs* of *tasks*, and executes
each run in a detached container. Several things happen at once in it: request
handlers, one goroutine per supervised run, timers, a second `rascald` during a
blue/green deployment, and containers that outlive the process that started them.
The TLA+ modules in this directory model that control logic. TLC checks them on
small instances; TLAPS proves the theorems for every value of the constants.

All paths are relative to the repository, which is `src/` in the maps.

## 1. Inventory

| Component | Where | State it keeps | Operations |
|---|---|---|---|
| State store | `internal/state` | SQLite tables: runs, tasks, `run_cancels`, `run_leases`, `run_executions`, `scheduler_pauses`, `deliveries`, `task_sessions`, credentials and their leases, notifications | add, claim, requeue, cancel, trim, upsert, renew |
| Run state machine | `internal/orchestrator/statemachine.go` | none | `Transition`, `TransitionBatch`, `Requeue` over `runStatusTransitions` |
| Scheduler | `internal/orchestrator/scheduler.go` | `scheduleMu` | `ScheduleRuns`, the sweeps of closed and reopened pull requests and resolved threads |
| Execution, supervision, recovery | `internal/orchestrator/execution.go` | `runCancels`, `stopRequested` | `ExecuteRun`, `superviseDetachedRun`, `finalizeDetachedRun`, `recoverDetachedRun`, `RecoverRunningRuns` |
| Service and drain | `internal/orchestrator/service.go`, `cmd/rascald/main.go` | `draining`, `InstanceID`, capacity | start, `BeginDrain`, `Reclaim`, `Shutdown`, `finishRun` |
| Run creation | `internal/orchestrator/runs.go` | run directories | `CreateAndQueueRun` |
| Pause and resume timer | `internal/orchestrator/notifications.go` | pause row, `resumeTimer` | record a pause, arm the timer |
| Webhook deliveries | `webhook.go`, `store.go` | one row per delivery id | claim, complete, release, trim |
| Webhook actions | `webhook.go`, `webhook_interpreter.go` | through the store | what each event does to tasks and runs |
| HTTP API | `api.go` | none | create a task, retry or cancel a run, credentials, users, logs |
| Notifier and completion comment | `notifier.go` | claim columns of a run, `run_notifications` | post once, mark posted or failed |
| Run result reporter | `run_result_reporter.go` | a unix socket whose path both slots bind | take a container's result |
| Agent sessions | `execution.go`, `worker/agent_runtime.go` | `task_sessions`, session directories | resume, fall back, discover, clean up |
| Token usage | `worker/codex_usage.go`, `runsummary/usage.go`, `notifications.go` | `run_token_usage.json` of a run, `run_token_usage` | measure a session, record, charge |
| Credential broker, manager, strategies | `internal/credentials` | credentials, credential leases | acquire, renew, release, reclaim, cool down |
| Container runner | `internal/runner` | none; the docker engine is external | start, stop, inspect, remove |
| Blue/green deployment | `internal/deploy`, `cmd/rascal` | active slot, systemd units, proxy upstream | cut over, drain, reclaim, roll back |
| In-container worker | `internal/worker`, `cmd/rascal-runner` | files of one run | run the agent, push, open a pull request, report |
| CLI, GitHub client, configuration, logs | `cmd/rascal`, `internal/github`, ... | none of their own | requests, parsing, printing |

### How the components interact

* The **store** is the only thing two `rascald` processes share besides the
  container engine and the path of the result socket. It has no transactions across
  operations: a read and the write that relies on it are two steps, except inside
  the SQL statements that carry their own conditions (`ClaimNextQueuedRunForTask`,
  `ClaimDelivery`, `TryAdoptRunExecution`, `RenewRunLease`).
* A **webhook or API request** reads tasks and runs, changes rows one statement
  after the other, adds a run and calls the **scheduler**, which holds
  `scheduleMu`, claims rows, writes a run lease for each and starts a goroutine.
* The **goroutine** prepares the run, writes its execution row, launches the
  container, and then polls: it renews the lease, looks for a cancel request, and
  inspects the container. When the container has exited it settles the run
  (`review`, `succeeded`, `failed`, `canceled`, or back to `queued` on a usage
  limit), removes container, row and lease, and then calls the scheduler through
  `finishRun`. After a failed launch the order is another one: `finishRun` is called
  while a deferred delete still holds the lease.
* The **worker** in the container tells its result twice: in `meta.json`, and over
  the result socket, whose handler writes it into the execution row. Whoever
  finalizes the run makes a status of the two copies and the exit code.
* The **notifier** comments when a run starts, fails and completes. The completion
  comment has a claim of its own, since two processes may finalize one run.
* **Recovery** at startup looks once at every running run: it leaves alone those
  with a live lease of another process, adopts containers, settles what has ended,
  and requeues what never started.
* A **deploy** starts the new slot, leads Caddy to it, writes the active slot, and
  sends SIGUSR1 to the old one. That process closes its listener and stops
  claiming. `ListenAndServe` then returns and `main` returns with it, so that the
  slot does not wait for its runs; systemd (`Restart=always`) starts it again, not
  active. SIGUSR2 reclaims a slot that is drained.

### What is hard

Interleavings of goroutines that each read, decide and write; a process that dies
between any two of these steps; containers that go on without a supervisor; leases
that are checked at a distance; events that are handled late or in another order;
copies of one result that disagree; calls to `ScheduleRuns` that come too early to
find room; claims that outlive their claimant; a deploy that is cut off.
`PROJECT.json` lists each at its line ("hazards") with the properties that are
about it. By component, correctness means:

* store: one running run per task; nothing newer than a kept run is trimmed;
  every change of status is one the life cycle allows;
* scheduler, execution, service: containers of one task never overlap; a container
  at work can always be adopted; nothing is stuck: no leaked lease, no running run
  that nobody looks after, no queued run that nobody will claim; a cancel request
  is never lost;
* webhook actions and run creation: whoever withdraws work misses no run of it; a
  draft has no run at work; a closed pull request leaves no run in review that was
  found there; a run that is added late to a closed task is closed, too;
* deliveries: one handler processes a delivery at a time; recorded as processed
  means processed; no delivery is claimed for ever;
* outcome: a success was earned, by this execution; one copy of the result is
  enough; at most one completion comment, and none is owed;
* agent sessions: a run goes on in the conversation its task was in last, and starts
  afresh after a switch of runtime;
* token usage: no run is charged for what another run of its task took;
* credentials: a run has one lease at a time; every lease is given back and charged
  once; a lease follows its run from slot to slot; a cooldown ends;
* deployment: done means moved, a rollback leads back, the API has no gap, and
  the API and the result socket come back after a failure.

Not all of this holds: section 3 says what each property leaves out, and section 5
what fails.

## 2. Modules

| Module | Models | State and actions against the code |
|---|---|---|
| `RunLifecycle` | the abstract promise: what a client may see a run do | one status per run; a step changes statuses along `runStatusTransitions`, claims, requeues or forgets; at most one running run per task |
| `RunStore` | `store.go`, `types.go`, `queries.sql`, `statemachine.go` for runs | `seq`, `lastSeq` are the AUTOINCREMENT column; `status` the runs table; `taskDone`, `taskDraft` the tasks; `cancelReq` is `run_cancels`. One action per store operation. `INSTANCE`s `RunLifecycle` |
| `RunSupervision` | `scheduler.go`, `execution.go`, `service.go`, `runs.go`, the pause of `notifications.go`, cancel and close of `api.go` and `webhook.go` | extends `RunStore`; adds leases, execution rows, containers, the pause row, and for each process its life, goroutines, registrations, scheduler, timer and requests. A step is what a goroutine does between two points where another one can interfere |
| `WebhookTasks` | `webhook_interpreter.go`, the actions of `webhook.go`, the sweeps of `scheduler.go`, run requests of `api.go` | extends `RunStore`; `pull` is GitHub, `taskPR` and `info` the columns of tasks and runs; `job` is what each handler is at: its event and the plan of steps its actions still have to take. One step is one read or one statement |
| `RunOutcome` | `worker.go`, `run_result_reporter.go`, `finalizeDetachedRun` and what follows it, `notifier.go` | extends `RunStore` for one run; `worker` is the container with its stage and exit code, `meta`, `output` and `row` the copies of the result, `seen` the finalizers' own, `claim`, `posted`, `comments` the notifier |
| `AgentSessions` | session code of `execution.go`, `runs.go`, `notifications.go`, `worker/agent_runtime.go` | `row` is `task_sessions`, `dir` and `age` the task's directory, `own` those of runs, `told` the worker's environment, `args` how goose is called, `found` the id it reports |
| `TokenUsage` | `codex_usage.go`, `usage.go`, `loadRunTokenUsage` and the charge in `finalizeDetachedRun` | extends `AgentSessions`, each step being one there; `counts` is what the `token_count` events of each session file come to, `baseline` the worker's local, `recorded` `run_token_usage.json`, `charged` what a step writes to `run_token_usage`; `spent` is history |
| `Deployment` | `internal/deploy/deploy.go`, `cmd/rascald/main.go`, the systemd unit of `infra.go`, `auth_sync.go` | `unit`, `runs`, `enabled` are systemd's view of the two slots, `installed` and `bad` the files, `activeSlot`, `upstream`, `caddy` the host; `pc`, `old`, `new` the deploy. One action per remote script of `Execute` and of the rollback |
| `WebhookDelivery` | `HandleWebhook` around its claim, `ClaimDelivery`, `CompleteDeliveryClaim`, `ReleaseDeliveryClaim`, the trim | `row`, `token`, `seenAt` are the columns of `deliveries`; `pc`, `of`, `claimed`, `excess` the locals of each request. `applied` and `evicted` are history |
| `AllocationStrategies` | `internal/credentials/strategies` | pure operators over a set of candidates: `MinBy` is `minBy` on the list sorted by id, `Select` is `ByName` and the chosen strategy's `Select` |
| `CredentialLease` | `broker.go`, `manager.go`, `state/credentials.go`, the handle's path through `execution.go`, POST, PATCH and DELETE of a credential | `with`, `of`, `open`, `fresh` are the columns of `credential_leases` (credential, run, `released_at IS NULL`, `expires_at > now`); `status`, `cooling`, `owner`, `usage` the credentials; `handle`, `chosen`, `tries` the locals of the goroutine that runs or adopts a run. One action per statement of `Acquire`, `Release` and the supervisor |
| `RunStoreProofs`, `RunSupervisionProofs`, `WebhookTasksProofs`, `RunOutcomeProofs`, `DeploymentProofs`, `WebhookDeliveryProofs`, `CredentialLeaseProofs`, `TokenUsageProofs` | theorems about these modules, the last about `AgentSessions` too | section 4 |
| `MCRunSupervision`, `MCWebhookTasks`, `MCRunOutcome`, `MCDeployment`, `MCWebhookDelivery`, `MCCredentialLease` | model values and constants for TLC | |

`RunStore` is the contract between the parts: `RunSupervision`, `WebhookTasks` and
`RunOutcome` extend it, and each is shown to change its tables only by its
operations (or, for `RunSupervision`, to implement the life cycle directly). So each
of the three may leave out what the others do between its own steps only where that
is said below.

The section "Defects" of a module holds mutated forms of its definitions. They are
no part of the specification: replacing a definition by its mutant must make the
property named with it in `PROJECT.json` fail, which shows that the property can.

### Abstractions of `RunSupervision`

* **Time** is left out. A lease or a start time may be found expired whenever
  nothing keeps it fresh (`LeaseMayBeExpired`, `StartMayBeOld`): the owner is dead,
  or its goroutine no longer renews. A pause ends only after the goroutines of the
  runs it requeued are through, because its shortest length is one minute.
* **Steps.** A read and the write after it are separate steps wherever another
  goroutine or process could come between with an effect. Inside `Settle` the reads
  of the run and the write of its final status are one step, since one goroutine
  settles a run and the conditions of the transition are evaluated again in it.
* **Trimming** is `RunStore`'s subject; here every run fits (`NoTrimming`), so the
  branches for a row that vanished are unreachable. `ExecuteRun`'s own claim of a
  queued run is unreachable as well: every caller has claimed.
* **Errors of the store** are not modelled here. `Faults` are those of the file
  system, the container engine, the launch and the credential lease.
* Each run is created once and a user asks once to cancel it. A process is an
  instance of `rascald` that lives once; a restart is another process.

### Abstractions of `WebhookTasks`

* **Events.** `Mixes` are the kinds of events and requests that are looked at
  together, `MaxEvents` bounds their number, and those in `Lost` may never be
  delivered. An event changes GitHub when it happens; its handler may begin at any
  later time, so that events overtake each other. Redelivery is the subject of
  `WebhookDelivery`.
* **Handlers.** The texts of comments and instructions, labels other than rascal's,
  authorized users and the search for a task by repository and number are left out:
  an event is one that concerns its task. A plan is the actions of
  `WebhookInterpreter` in order, unfolded into their statements. The label of an issue
  may name no runtime; its handler then gives up.
* **The orchestrator** claims, begins, settles and hands back runs as
  `RunSupervision` does; its pauses, leases and containers are left out.

### Abstractions of `RunOutcome`

* **Faults** come in mixes chosen at the beginning (`FaultMixes`): a process that
  crashes or leaves, a claim or lease that lapses, GitHub answering with an error, a
  file that is lost or not written, docker failing, a worker that is killed, a cancel
  request. A post that reports an error may have landed, and a pull request that was
  opened may have no number.
* **The worker's** Git and GitHub calls are stages (cloned, agent ran, pushed, pull
  request open): it may end after any of them, and each leaves what it has written.
* **Time.** A pause for a usage limit outlasts a finalization, as in `RunSupervision`.
  A completion claim becomes stale only when its claimant is gone (five minutes
  against a call that times out in seconds). A run lease may lapse while its run is
  being finalized, since nothing renews it there: that is how two processes come to
  finalize one run.

### Abstractions of `AgentSessions`

One task; its executions do not overlap (that is what `RunStore` and
`RunSupervision` show). What an agent does with a session it is given is external:
codex goes on, begins a session or fails. The age of the session directory is
`new`, `known` or `old` against the retention time; it is judged by the directory's
modification time, which writing into a session does not change, so that a directory
in use can look old. The session mode is constant in a behaviour. The claude runtime
only ever hands on the id it was configured with, which is always empty: its runs
never resume. Of the times of session files it is kept which one of an agent's is the
latest, since only that one is ever looked for.

### Abstractions of `TokenUsage`

Only totals are counted: the kinds of tokens, provider and model are left out, and a
session's events are taken to tell some kind beside the total, as codex's do. An event
may or may not tell the last turn (`LastUsages`); one that cannot be decoded is no event.
A session file only grows, so that it is kept as its last total and the number and sum of
the turns it tells of, and an offset as what the file was then.
An execution of codex adds one event, or none. The other agents are charged what the log
of their last attempt tells, which is their own. What is not read again is forgotten: the
record of a closed run, and sessions in directories that were removed.

The usage of a behaviour is counted or not (`counting`), so that the sessions can be
checked with more executions than their usage (`MaxCounted`).

### Abstractions of `Deployment`

Builds, uploads and the provisioning of a host are one step (`Install`), since they
change nothing that is in service. A time-out is a choice: a wait may end in failure
while its condition does not hold. The faults of a behaviour are a set: `unready`
versions never get ready; `caddy` cannot be reloaded or restarted; `probe` fails
although the proxy answers; `nosite` has no local site, so that nothing is probed;
`ssh` cuts a script off; `crash` ends a process, `reboot` the host, `sync` restarts
the active slot after a token rotation. The runs of a slot are the subject of
`RunSupervision`.

### Abstractions of `WebhookDelivery`

Requests without a delivery id skip the claim in the code and are left out.
Requests die one by one (`Abandon`), which includes the crash of the process and an
error from the store in the middle. A claim gets stale, ten minutes in the code,
only when its handler is gone: a handler does not take that long. The trim counts
rows in one step and deletes in a later one, as `ClaimDelivery` does.

### Abstractions of `CredentialLease`

* **The run** is reduced to what a credential handle can notice: its phase, its
  container, who owns its run lease and whether it was canceled because its
  credential lease was lost. `RunSupervision` has the rest. A usage limit requeues a
  run at its settlement; the goroutine that requeued it is through before the same
  process takes the run again, since a pause lasts a minute at least.
* **Time.** A lease is in force or expired. It expires at any moment at which no
  living supervisor renews it, which includes the time between its creation and the
  first tick. A cooldown ends at any moment, and the usage window, an hour, holds any
  part of the usage there was.
* **Data.** One provider. Scope and owner are one value (`Everyone` for a shared
  credential). The credentials in `Stored` exist from the beginning, the others may be
  created. The strategies' scores are compared as fractions; tokens are left out,
  since `Release` records none. The contents of the auth file are left out, its
  writing may fail.
* **Errors of the database** are not modelled, except those `Acquire` itself undoes
  (lookup, and recording the credential of the run). The supervisor of an adopted run
  is taken to begin before its process is told to stop.

## 3. Runs

| Run | Question | Instance | Distinct states |
|---|---|---|---|
| `supervision` | Do crashes, drains, reclaims, recoveries and every error path keep containers serial and adoptable, and leave nothing behind? | 2 processes one after the other, 2 runs of a task, failing launches, docker commands and credential renewals, usage limits, limit 1 | 1.1 million |
| `overlap` | Do two living processes lose a cancel or break the life cycle? | 2 processes at once, 1 run, 1 cancel, crashes | 664 thousand |
| `progress` | Under fair scheduling, do queued and launched runs close, and closed runs get cleaned up? Is a lease forgotten? | 2 processes one after the other, 2 runs of a task at limit 1, usage limits, failing launches and file writes, an issue closed at any time | 153 thousand |
| `tasks` | What do late, lost and concurrent events and requests do to tasks and runs beside the scheduler? | 1 task, 2 runs, 2 handlers, 3 events from each of three mixes | 761 thousand |
| `outcome` | Is the outcome true, and announced once, whatever is lost or killed? | 1 run, 2 processes, 2 executions, three mixes of faults | 234 thousand |
| `sessions` | Does a run go on in the newest session of its task, start afresh after a switch, and pay for no other run's tokens? | `TokenUsage`: 3 runs, 4 executions, 3 of them counted, 3 runtimes, 2 modes, all faults | 2.7 million |
| `deploy` | Does a deploy keep its promises when it fails anywhere? | 3 deploys, 2 troubles, six mixes of faults | 177 thousand |
| `webhook` | Are redelivered, abandoned and trimmed deliveries processed properly? | 2 deliveries, 3 requests, a table of 1 row | 158 thousand |
| `credentials` | Do leases stay one per run, given back and charged once? | 2 processes that overlap, 1 run, 2 credentials, 2 leases, 1 request of an operator | 1.5 million |
| `cancel_race`, `success_kept`, `drain_cut` | The disagreements of section 5 | the smallest instance that shows each | stops at the violation |

**Why the bounds are enough.** What two actors can do to each other needs two: two
runs of one task, two processes, two goroutines on one run (`Copies`), two handlers,
two deliveries for a table that keeps one. A third run is only needed where two are
active and one is old (`cancel_race`). A third request to the webhook is needed for a
claim that was lost, taken over and trimmed. A process crashes at most once since it
lives once, but at any step.

In `tasks`, three events are what it takes for one to change a task, a second to undo
that late, and a third to find the result; a run made for the issue and one made for
the pull request (`PRRuns`) are treated differently by every sweep. The kinds are
split into mixes so that those that touch the same columns meet: issue events with
task creation, pull request events with commits and check failures, review threads
with closing and reopening. `Peers` is sound as symmetry because handlers are
interchangeable and no property is a liveness property (`TasksImplementStore`
expands to an action property).

In `outcome`, two executions (`MaxTurns`) let what the first left behind be taken for
the second's; two processes are needed for two finalizers and for a claim that
outlives its claimant. The mixes separate faults of processes and GitHub from faults
of the worker; the empty mix is the one in which comments are owed.

In `progress`, a behaviour begins with one run in the queue (`BacklogInit`). Either the
process that has come up and stays is about to add a second run to the task, which waits
at the limit of one while the first is launched, fails, is paused, or is closed with its
issue. Or the second run is over, no process has started, and the one that starts may
crash. Both are states of the program; from the very first state, with two runs and a
crash, TLC does not get through the liveness properties.

In `sessions`, three runs and four executions let a runtime be switched and switched
back, or an execution be requeued between. Three counted executions, of one token each or of
none, let one leave a session behind, a second begin or continue one, and a third find
either of them. In `deploy`, three deploys bring the first
slot back as the new one, after a rollback, a failure or a drain; two troubles are a
crash in each slot, or a reboot during the restart after a rotation.

In `credentials`, two lease rows let a run be executed a second time while its first
lease is open, released or expired (`MaxLeases`; `CreateLease` stops there). One credential is shared and
cannot be decrypted (`Broken`), the other is created by its user and an operator may take it
away, cool it, or disable it in one request (`MaxRequests`, `AskedStatus`,
`AskedOwner`): that is enough for a choice that is stale, and for a retry that chooses
otherwise. `MaxAttempts`, twelve in the code, is two, so that retrying and giving up both
happen. The run is configured with a strategy that prefers own credentials and with the
weighted one; `Slots` is sound as symmetry because processes are interchangeable and no
property is a liveness property.

**Restricted on purpose.** What a property leaves out is named in its formula or is the
choice of its run, and is noted at a hazard in `PROJECT.json`:

* `FreshGoroutine` is checked with a concurrency limit of one: with two, a scheduler that
  passed the pause check just before a usage limit claims the requeued run under its old
  goroutine, which is cleaning up. `OneAtWork` is what remains then.
* `SerialContainers` and `Adoptable` are checked with one living process: with two, the
  new slot may recover a run in the window between its execution row and `docker run`.
* `NoLeakedLease` excepts a run that a request closed between its claim and its
  `ExecuteRun`, whose early returns forget the lease (`ClosedByRequest`), and a process
  that is stopping.
* `QueuedRunsClose` excepts behaviours in which a failed launch calls the scheduler while
  its lease is still held (`CalledInTime`), and those with a forgotten lease
  (`LeaseForgotten`). `NoRunIsForgotten` is the property without them, and fails
  (section 5).
* `ClosedRunsAreCleanedUp`, `QueuedRunsClose` and `CommentsAreAnswered` are stated for
  behaviours in which no process goes down (`Undisturbed`, `faults = {}`): recovery lists
  only running runs, and nothing revisits a closed one. The `progress` run has no failing
  engine requests, since a failed `docker stop` is not tried again.
* `OneProcessor` excepts claims that were trimmed under their handler (`evicted`).
* `SwitchForgets` and `ChargedOnlyItsOwn` are about the modes `off` and `all`. In
  `pr-only` mode a late row survives a switch, and a run may be told a foreign session
  (section 5). `ChargedOnlyItsOwn` is checked up to the loss of a session's id
  (`AfterLoss`), after which it fails (section 5).
* `ApiStaysUp` is about deploys where at most the new version fails. `ServesAgain` leaves
  out versions that never get ready (a reboot starts one again), a Caddy that cannot be
  started, and scripts that are cut off. `ReportsAreHeard` leaves out versions that never
  get ready and scripts that are cut off: after either the slot that serves can be left
  without its socket for good, and `SocketComesBack` fails (section 5).

`CHECK_DEADLOCK FALSE` is set where the system may stop: runs, requests, deploys and
processes are finitely many, and when all are done nothing remains to be done.

**Fairness.** `FairSpec` of `RunSupervision` asks weak fairness of each goroutine of
a living process, of its scheduler, startup, wake-up and resume timer, of a drained
process that may leave, of a request that is being handled, of a container's exit
(agents run under a time limit), of the end of a pause (it has a date), and of the
start of a process (systemd restarts it). Go runs every runnable goroutine, its
mutexes are starvation free and the loops have tickers, so weak fairness is what the
code offers. The one strong fairness is about the world: a container that runs again
and again does not meet the provider's usage limit every time. Without it a run could
be requeued for ever, by design. Nothing is asked of users, crashes, drains or faults.
In `RunOutcome` the worker and the goroutines of each process are fair; nothing makes a
process start. In `Deployment` the deploy that was begun and the units are (every wait
in `Execute` has a time-out, systemd restarts after three seconds); nothing makes
anyone deploy. In `WebhookDelivery` the handlers and the passing of ten minutes are
fair; nothing makes GitHub send a delivery again, so `ClaimsEnd` promises only that
one sent again would be taken. `WebhookTasks`, `AgentSessions` and `CredentialLease`
state no liveness.

## 4. Proofs

`RunStoreProofs` shows, for any sets of runs and tasks, any assignment of tasks and
any trim bound, that `StoreSpec` keeps `StoreTypeOK`, `OneRunningPerTask` and
`OldestForgotten` and implements `RunLifecycle`. The invariants are nearly inductive
together: that two runs of a task are not both running needs the types, and that the
trim forgets oldest first needs that no stored run has a sequence number above
`lastSeq` and that different runs have different numbers. The refinement then has one
step per action; a trim maps to forgetting.

`WebhookTasksProofs` shows that `WebhookTasks` implements `StoreSpec`
(`TasksImplementStore`): every step of every handler is an operation of the store or
leaves its tables alone. What that needs of the handlers is `JobsShape`: a plan is
carried out for a task, and on runs that are in the store. `OneRunningPerTask` follows
through `RunStoreProofs`.

It then shows, for any sets of runs, handlers and events in any order, beside the
scheduler: `SweepMissesNothing`, `ReviewsAreResolved` and `DraftStopsWork`. Their
invariant, `HandlersInv`, says what each handler still owes at each step of its plan. A
plan has one of a few shapes and begins at a step its event calls for (`PlanShape`,
`StartsWell`); every run that was active when a withdrawal began has ended, has been asked
to stop, went back to the queue on a usage limit, or is still owed by the steps that
remain (`NothingForgotten`): it is on the list of the sweep, or running and will be
listed. `ReviewsLeft` says the same of the runs in review that a handler which merges or
closes has found, and `DraftHeld` of the running runs of a draft: the flag is
written before the runs are listed, so that a run claimed in between is on the list.
`TargetsPending` keeps the thread of a run what it was when the run was listed.

`RunSupervisionProofs` shows that any number of processes, with any limits, faults,
crashes and overlaps, keeps `SupTypeOK`, implements `RunLifecycle`, keeps
`OneRunningPerTask` and never drops a cancel request of a run that is not over
(`NoLostCancel`). The store changes in some forty actions, so the argument goes by way of
`StoreMoves`: a step writes one status as one of the store's operations does, or adds a
run, or neither, and deletes requests of ended runs only. `SupInv` adds to the types that
what is held for later (the run a scheduler has claimed, the list a recovery works
through, the run of a request) is a run of the store.

The rest of that module is about slots that follow one another. `OneSlot` says that at
most one process lives at a time, and that one run is executed at a time or no provider
sets limits; any number of processes may follow each other, and each may crash, drain or
stop at any step. It is no mere convenience: with two living processes `Adoptable` and
`SerialContainers` fail in the window at `execution.go:71`, and with room for two runs and
usage limits `FreshGoroutine` fails at `scheduler.go:29`; both are hazards. Users may
cancel, issues be closed and files fail to be written. The `supervision` and `progress`
runs have such constants. The inductive invariant `SlotInv` says
what each goroutine holds at each step:

* `ProcsOK`: one process lives, the others rest, and one that boots has no lease;
* `ProcOK`, in parts: where the scheduler is and what it has claimed (`SchedOK`), that
  nobody works on what a recovery has still to do (`TodoOK`), that a run has one
  goroutine (`OneEach`), the status of its run (`StatusOK`), its lease, row, container
  and registration at each step (`PlaceOK`), and, with a limit of one, that a run which
  was launched leaves room for no other (`LimitOK`);
* `RunOK`: a container at work has its row, and its run is not in the queue;
* `OneLaunched`: with a limit of one, at most one running run has a row.

From it follow `Adoptable`, `FreshGoroutine` and `RunningAttended`. `SerialContainers` is
false where a cancel closes a run it has read as queued (the `cancel_race` run), or where
the files of a new run cannot be written and it is closed after a scheduler has claimed
it. Such a run is `Overtaken`, and what is proved, with those requests in the model, is
that nothing else ever lets two containers of a task work at once
(`SerialUnlessOvertaken`). It rests on `UsedRuns`: a run whose container is at work, or
on its way, is running or overtaken. `Asks` ties requests in progress to what a user or
the end of a task asked for.

`NoLeakedLease` holds with cancels and closed issues, up to the runs they close before
`ExecuteRun` has deferred the delete of the lease (`execution.go:132`). It needs `Calm` (a
run between its claim and its `ExecuteRun` is to be canceled only because somebody asked)
and `Leased` (a lease is answered by a goroutine that is going to delete it, or its run
was closed by a request). A process that stops its supervisors may leave the lease of a
run it has adopted and not yet supervised (`execution.go:371`); `NoLeakedLease` is about
the others.

`OneGoroutineAtWork` needs no limit of one. With one process at a time, any concurrency
limit and usage limits, no run is readied, supervised or settled by two goroutines, and
none is claimed that has such a goroutine. `AloneInv` is its invariant: what a scheduler
has claimed, what a goroutine works on before it has settled it, and what a recovery has
still to do is neither new nor queued, and nobody else's.

`RunOutcomeProofs` shows, for any set of processes, any number of executions and any
faults: the store is used as specified (`OutcomeImplementsStore`), `SuccessIsEarned`,
`OneCopyIsEnough`, and `CommentedOnce`. The first three rest on `OutcomeInv`: where each
process can be (before the exit only one process has the run; after it several may
finalize, and those that may still settle it have seen its exit code), what a worker at work implies for row and result, that what an earlier
execution left in row, file or container does not look like a success of this one
(`Copies`), and that a verdict is the one the copies give, whoever looks at them
(`Judged`). `CommentedOnce` rests on `CommentInv`: whoever is between claim and mark holds
the claim, and knows whether the comment is there. `OutcomeTypeOK` joins the two with
what neither needs (`Others`), and that a run of no execution yet is in the queue
(`Fresh`).

`DeploymentProofs` shows, for any number of deploys and troubles and any mix of faults,
`DeployTypeOK`, `DoneMeansMoved`, `ApiStaysUp` and `RollbackRestores`. `DeployInv` follows
the order of `Execute`: how far a deploy has come tells which of unit, upstream file,
Caddy and active slot have moved (`MovedInv`), until the flip the active slot is the old
one or none (`SlotsInv`), a rollback goes back in the same terms (`RollbackInv`), and while
at most the new version fails Caddy leads to the active slot, or to a new one that serves
(`UpInv`).

`WebhookDeliveryProofs` shows `WebhookTypeOK`, `OneProcessor` and `ProcessedMeansApplied`
for any set of deliveries and requests and any table size. `OneProcessor` is not
inductive: a second claim is kept out by the row, not by the first handler. `ClaimInv`
adds what links the two: tokens are claims that were made, an idle request has
claimed nothing, a request at work holds the row's token unless its row was trimmed,
the claim of a living handler is fresh (so that nobody takes it over), a request
about to record completion has applied the delivery, and so has some request for
every row recorded as processed.

`CredentialLeaseProofs` shows `CredentialTypeOK` and `OneLeasePerRun` for any sets of credentials, users, runs and processes, any strategy and any bounds.
`LeaseInv` joins to them what they rest on: leases are on record with both their
credential and their run (so that a number is never reused), a handle names a lease of
the run it is held for (an adopted one too, `AdoptedLease`), and only a credential that
could not be opened is on its way to a cooldown. The argument for one lease per run has
two cases (`SuperviseAcquires`): a step either acquires a lease, under the condition of
the INSERT (`AcquiresLinked`), or puts none in force (`OpensNoneLinked`): renewing, above all,
only extends a lease that is in force. That the strategies return a candidate or nothing
is `SelectType`. `NoOrphanLease` and `ChargedOnce` rest on `HoldInv`, which says for each
step of the code what a goroutine there holds: no lease before the insert
(`NothingYet`), and one that is given back once it refuses or counts (`GivenBack`). Every
open lease is the handle of a goroutine that will not just forget it (`HeldToRelease`),
through every failing step of `Acquire`, and a released one is counted by one goroutine
(`CountedApart`).

`TokenUsageProofs` begins with the session directories: `FilesOK` says that one holds
every session once, numbered by the execution that began it, and has one newest session
of codex; using a session keeps that and makes it the newest (`UseOfCodex`), and goose's
sessions leave codex's alone (`UseOfGoose`). `SessionInv` adds that runs execute one by
one and in order, and what workers are told. From it follows `SessionTypeOK`.
`SwitchForgets` is about a run of codex that ends, and writes its session into the task's
row, after the task was switched: by `RowOfLast` that row is of the runtime that ran last,
so that codex after another agent finds none of its own. `ContinuesItsSession` holds in every mode. `CurrentInv` says where the session that the
task is in can be read: it is the newest of the directory, and in the row or about to be
found again by the run of codex at work.

`UsageSpec` implements `Spec` of the sessions (`CountingIsOfSessions`). `UsageTypeOK`
needs `Measured`: a session that is still there has not lost what it was measured at, so
that no difference is negative. `ChargedOnlyItsOwn` rests on three more invariants.
`Agreed`: the row, what a worker is told and what it found are the newest session of the
directory, unless that was removed. `Unused`: sessions of later executions count nothing.
`Covered`: while codex runs, the newest session grew by no more than the run took, or
began with this execution. The theorem assumes the modes `off` and `all`, and counting
that ends when the id of a session is lost (`AfterLoss` FALSE): otherwise a run can be
charged for another (`MCForeignUsage.cfg`).

Assumed are only the named `ASSUME`s on the constants (sets of the right kind, finite
where rows are counted, a model value outside them for "none").

**Only model-checked:** liveness, since TLAPS does not reason about fairness and
`ENABLED`: `QueuedRunsClose` and the other properties that something eventually happens.
`SerialContainers` is model-checked where nobody cancels; the theorem is the
`SerialUnlessOvertaken` that holds with cancels. Every other safety property of the
passing runs is proved: `Adoptable`, `FreshGoroutine`, `RunningAttended` and
`NoLeakedLease` for slots that follow one another, `ChargedOnlyItsOwn` for the modes named
above, and all others for every value of the constants.

## 5. Disagreements with the documents

Runs of `PROJECT.json`:

* `cancel_race` (`api.go:781`): a cancel that read "queued" closes the run after it
  was claimed and launched; the next run of the task starts beside its container,
  against the architecture's "serially per task".
* `success_kept` (`execution.go:502`): a worker reports its success and is then stopped
  by a late cancel; the exit code of the stop overwrites the reported one, and the run is
  closed as canceled although its pull request is open. The comment at
  `execution.go:594` says that a cancel "should not overwrite a successful terminal
  result".
* `drain_cut` (`cmd/rascald/main.go:92`): a slot told to drain exits as soon as its
  listener is closed, with its containers at work, where `docs/deployment.md:121` says
  "Exits only after those active runs finish". systemd then starts the slot again, and
  that process recovers what the drained one left.

The configurations below are run by hand (`tlc -config <cfg> <module>`), and each ends
in a violation:

* `MCLimitedCancel.cfg` with `MCRunSupervision` (`execution.go:557`): a canceled run that
  ends with a usage limit goes back to the queue with its cancel request; no claim takes
  it and nothing cancels it before the next restart.
* `MCForgottenQueue.cfg` with `MCRunSupervision` (`service.go:260`, `execution.go:175`,
  `execution.go:193-201`): a launch fails, `finishRun` calls the scheduler, and the lease
  that a deferred call deletes afterwards still fills the limit. The run that waits is
  never claimed, since nothing else calls the scheduler (`NoRunIsForgotten`).
* `MCHandover.cfg` with `MCCredentialLease` (`execution.go:394`): a supervisor that is
  told to stop, or that lost the run's lease to another slot, releases the credential
  lease of a run whose container goes on. The adopting process finds none and supervises
  without one; a slot that adopted it earlier fails to renew it and cancels the run. The
  domain glossary says that adoption recovers the credential lease, which "is tied to the
  Run, not the slot".
* `MCCooldown.cfg` with `MCCredentialLease` (`broker.go:142`): a credential that was put
  to cool down keeps that status when the time is over, and only active credentials are
  candidates (`queries.sql:978-979`): it is out of use until an operator changes it
  (`CooldownsEnd`).
* `MCDeafSlot.cfg` with `MCDeployment` (`run_result_reporter.go:44`): a version that never
  gets ready has removed the socket of the slot that serves and bound its own. It is
  stopped (`deploy.go:290-295`), removes that one, too (`run_result_reporter.go:76`), and
  nobody binds the path again, so that workers find
  nobody to report to (`SocketComesBack`).
* `MCWebhookGate.cfg` with `MCDeployment`: between the reload of Caddy and the write of
  the active slot, webhooks reach a slot that is not the active one and are turned away,
  where the deployment document speaks of avoiding webhook downtime.
* `MCRuntimeSwitch.cfg` with `AgentSessions` (`execution.go:240`): the name of a goose
  session has no runtime in it and both goose runtimes share the task's directory, so
  that after a switch one resumes the session of the other; `docs/architecture.md:286`
  promises a fresh one.
* `MCForeignSession.cfg` with `AgentSessions` (`execution.go:543`): in `pr-only` mode a
  run that does not resume writes the id of a session in its own directory into the
  task's row, and the next run is told to resume it in the task's directory
  (`ToldWhatWasKept`, `docs/architecture.md:284`).
* `MCLateRow.cfg` with `AgentSessions` (`execution.go:543`): in `pr-only` mode a run of
  codex ends, and writes its session into the row, after the task was switched to another
  agent; a run of that agent which keeps no session leaves the row alone, and the next
  run of codex resumes the session from before the switch (`SwitchAlwaysForgets`,
  `docs/architecture.md:286`).
* `MCForeignUsage.cfg` with `TokenUsage` (`worker/codex_usage.go:98`): a run is told a
  session that is gone, and fails before codex begins one. Its worker has measured
  nothing, finds the newest session of the directory, which an earlier run began whose
  result was lost, and records all of it: the run is charged for the other's tokens.

## 6. Plan

Done: the life cycle, the store, supervision with restarts and overlapping slots,
webhook deliveries and actions, credential leases, outcome and comments, agent sessions,
token usage, deployment; theorems about all of them. Next, in this order:

1. The `pr-only` mode in the `sessions` run, with what holds of it up to the first run
   that keeps a session of its own.
2. The strategies against what each promises (own before shared, the least loaded of the
   pool, a reserve kept), over all small sets of candidates.

### Not modelled

Parsing and formatting (configuration, logs, summaries, texts of comments and prompts),
the GitHub client, the single requests of the command line client, lists and log
streaming of the API, authentication and users: they change no shared state that another
actor relies on. The generated query layer (`sqlitegen`) is modelled through the
statements of `queries.sql` it wraps. Opening and migrating the database happens before
any process serves. `RecordDelivery`, `ReleaseCredentialLeaseByRunID`,
`MarkCredentialCooldown` and `CancelActiveRunsWithReason` have no caller in the program.
