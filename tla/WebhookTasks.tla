---------------------------- MODULE WebhookTasks ----------------------------
(***************************************************************************)
(* What GitHub events and API requests do to tasks and their runs:         *)
(* WebhookInterpreter, executeWebhookAction and the sweeps of scheduler.go *)
(* (internal/orchestrator).  Events are handled concurrently, each by its  *)
(* own goroutine, and a late goroutine handles a late event.               *)
(*                                                                         *)
(* A handler carries out a plan: the names of the steps its actions still  *)
(* have to take, each of them one read or one statement of the store.  The *)
(* orchestrator's side is reduced to what it does to a run: claim, begin,  *)
(* settle, finish; RunSupervision has the rest.                            *)
(***************************************************************************)
EXTENDS RunStore, Sequences, Functions

CONSTANTS
    Handlers,   \* goroutines that handle an event or request
    Mixes,      \* the sets of kinds of events and requests to look at together
    MaxEvents,  \* bound on their number
    Lost,       \* the kinds whose delivery may never arrive
    Threads,    \* review threads
    Commits,    \* head commits of pull requests
    Nothing     \* no run, thread or commit

IssueKinds == {"labeled", "unlabeled", "edited", "issueClosed", "issueReopened"}
Feedback   == {"comment", "review", "reviewComment"}
PRKinds    == Feedback \cup {"unresolved", "resolved", "merged", "prClosed", "prReopened",
                             "synchronize", "draft", "ready"}
Requests   == {"createTask", "createIssueTask", "retry"}
AllKinds   == IssueKinds \cup PRKinds \cup Requests \cup {"checkFailed"}

ASSUME TaskConstants ==
    /\ \A mix \in Mixes : mix \subseteq AllKinds
    /\ Lost \subseteq PRKinds
    /\ MaxEvents \in Nat
    /\ Nothing \notin Runs \cup Threads \cup Commits
    /\ MaxRuns >= Cardinality(Runs)     \* trimming is RunStore's subject

VARIABLES
    kinds,      \* the mix of this behaviour
    pull,       \* GitHub: the state of each task's pull request
    events,     \* events so far
    job,        \* what each handler is at
    taskPR,     \* tasks with a pr_number
    info,       \* of each run: trigger, review thread, head_sha and pr_status
    phase,      \* of the goroutine that executes each run
    requeued    \* history: runs handed back to the queue

vars == <<storeVars, kinds, pull, events, job, taskPR, info, phase, requeued>>

NoEvent == [kind |-> "none", task |-> NoTask, about |-> Nothing]
Idle    == [event |-> NoEvent, plan |-> <<>>, run |-> Nothing, withPR |-> FALSE,
            prStatus |-> "none", left |-> {}, review |-> {}, before |-> {}]
NewRun  == [trigger |-> "none", thread |-> Nothing, sha |-> Nothing, prStatus |-> "none"]

\* A task may be older than the runs here: an earlier run of it, gone by now,
\* may have left a pull request.
Init ==
    /\ StoreInit
    /\ kinds \in Mixes
    /\ taskPR \in SUBSET Tasks
    /\ pull = [t \in Tasks |-> IF t \in taskPR THEN "open" ELSE "none"]
    /\ events = 0
    /\ job = [h \in Handlers |-> Idle]
    /\ info = [r \in Runs |-> NewRun]
    /\ phase = [r \in Runs |-> "idle"]
    /\ requeued = {}

Of(t)      == {r \in Runs : TaskOf[r] = t}
Active(t)  == {r \in Of(t) : status[r] \in {"queued", "running"}}
Running(t) == {r \in Of(t) : status[r] = "running"}

\* A run's pr_number is set when it is created for a pull request or has made one.
HasPR(r) == r \in PRRuns \/ info[r].prStatus # "none"

\* LastRunForTask.
IsLast(r) == r \in Rows /\ \A x \in Rows : TaskOf[x] = TaskOf[r] => seq[x] <= seq[r]

-----------------------------------------------------------------------------
(* Defects someone could write into the definitions below, each with the   *)
(* signature of the one it would replace: they show what the properties    *)
(* notice, and are no part of the specification.                           *)

ListBeforeSweep        == <<"list", "ask", "sweep">>
HoldAfterAsking        == <<"find", "list", "ask", "hold">>
ResolveOnlyOpen(r, to, prStatus) ==
    IF CanTransition(r, to) /\ info[r].prStatus # "open"
    THEN SetRunStatus(r, to) /\ info' = [info EXCEPT ![r].prStatus = prStatus]
    ELSE UNCHANGED <<status, info>>
ResolveAnyStatus(r, to, prStatus) ==
    status' = [status EXCEPT ![r] = to] /\ info' = [info EXCEPT ![r].prStatus = prStatus]

-----------------------------------------------------------------------------
(* executeWebhookAction: the steps of each action an event stands for.     *)

CancelTaskRuns  == <<"sweep", "list", "ask">>
CreateRun       == <<"check", "add">>
CreateIssueRun(kind) == (IF kind = "labeled" THEN <<"idle">> ELSE <<>>) \o CreateRun
CompleteIssueTask    == <<"complete">> \o CancelTaskRuns
ReopenIssueTask      == <<"open">>
CreateFeedbackRun       == <<"active">> \o CreateRun
CreatePRThreadRun       == <<"active">> \o CreateRun \o <<"target">>
CreatePRCheckFailureRun == <<"active", "idle", "fresh">> \o CreateRun \o <<"sha">>
CancelPRThreadRuns      == <<"find", "threads", "drop">>
ClosePullRequest(kind)  ==
    IF kind = "merged"
    THEN <<"find", "complete">> \o CancelTaskRuns \o <<"runs", "merge">>
    ELSE <<"find">> \o CancelTaskRuns \o <<"runs", "close">>
ReopenPullRequest       == <<"runs", "reopen">>
SynchronizePullRequest  == <<"continue">> \o CancelTaskRuns \o CreateRun
ConvertToDraft          == <<"find", "hold", "list", "ask">>
ReadyPullRequest        == <<"find", "release">>

\* The requests of users that add runs.
CreateTask      == CreateRun
CreateIssueTask == CreateRun \o <<"target">>
RetryRun        == <<"copy">> \o CreateRun \o <<"target">>

-----------------------------------------------------------------------------
(* Interpretation of GitHub's events.                                      *)

IsOpen(state) == state \in {"open", "draft"}

\* Events of a bot, of an issue without a rascal label, and about a pull
\* request that is not open mean nothing, with these exceptions: whoever
\* closes, reopens, converts or readies a pull request, or resolves a thread,
\* is heard.
Ignored(kind, bot, labeled, open) ==
    \/ kind \in IssueKinds /\ (bot \/ ~labeled)
    \/ kind \in Feedback \cup {"unresolved", "synchronize"} /\ (bot \/ ~open)
    \/ kind = "resolved" /\ ~open

InterpretIssues(kind) ==
    CASE kind = "labeled"       -> CreateIssueRun(kind)
      [] kind = "unlabeled"     -> CancelTaskRuns
      [] kind = "edited"        -> CancelTaskRuns \o CreateIssueRun(kind)
      [] kind = "issueClosed"   -> CompleteIssueTask
      [] kind = "issueReopened" -> ReopenIssueTask \o CreateIssueRun(kind)

InterpretFeedback == CreateFeedbackRun

InterpretReviewThread(kind) ==
    IF kind = "unresolved" THEN CreatePRThreadRun ELSE CancelPRThreadRuns

InterpretPullRequest(kind) ==
    CASE kind \in {"merged", "prClosed"} -> ClosePullRequest(kind)
      [] kind = "prReopened"  -> ReopenPullRequest
      [] kind = "synchronize" -> SynchronizePullRequest
      [] kind = "draft"       -> ConvertToDraft
      [] kind = "ready"       -> ReadyPullRequest

InterpretCheck == CreatePRCheckFailureRun

Interpret(kind) ==
    CASE kind \in IssueKinds -> InterpretIssues(kind)
      [] kind \in Feedback   -> InterpretFeedback
      [] kind \in {"unresolved", "resolved"} -> InterpretReviewThread(kind)
      [] kind = "checkFailed" -> InterpretCheck
      [] kind = "createTask"  -> CreateTask
      [] kind = "createIssueTask" -> CreateIssueTask
      [] kind = "retry"       -> RetryRun
      [] OTHER                -> InterpretPullRequest(kind)

\* GitHub: when an event may happen, and what becomes of the pull request.
PullBefore(kind) ==
    CASE kind \in IssueKinds \cup Requests -> {"none", "open", "draft", "closed", "merged"}
      [] kind = "prReopened" -> {"closed"}
      [] kind = "draft"      -> {"open"}
      [] kind = "ready"      -> {"draft"}
      [] kind \in {"merged", "prClosed", "synchronize"} -> {"open", "draft"}
      [] OTHER -> {"open", "draft", "closed", "merged"}

PullAfter(kind, now) ==
    CASE kind = "merged" -> "merged"
      [] kind = "prClosed" -> "closed"
      [] kind = "draft" -> "draft"
      [] kind \in {"ready", "prReopened"} -> "open"
      [] OTHER -> now

\* What an event is about: a thread, a commit, or the run to retry.
Subject(kind, t) ==
    CASE kind \in {"unresolved", "resolved"} -> Threads
      [] kind \in {"checkFailed", "synchronize"} -> Commits
      [] kind = "retry" -> Of(t) \cap Rows
      [] OTHER -> {Nothing}

Event(h, t) ==
    /\ job[h] = Idle /\ events < MaxEvents
    /\ \E kind \in kinds : \E about \in Subject(kind, t), bot, labeled \in BOOLEAN :
        /\ pull[t] \in PullBefore(kind)
        /\ ~Ignored(kind, bot, labeled, IsOpen(pull[t]))
        /\ pull' = [pull EXCEPT ![t] = PullAfter(kind, pull[t])]
        /\ events' = events + 1
        /\ job' = [job EXCEPT ![h] =
                      [Idle EXCEPT !.event = [kind |-> kind, task |-> t, about |-> about],
                                   !.plan = Interpret(kind)]]
    /\ UNCHANGED <<storeVars, taskPR, info, phase, requeued>>

\* A delivery that never arrives: the service was down, and GitHub gave up.
LostEvent(t) ==
    /\ \E kind \in Lost \cap kinds :
        /\ pull[t] \in PullBefore(kind)
        /\ pull' = [pull EXCEPT ![t] = PullAfter(kind, pull[t])]
    /\ UNCHANGED <<storeVars, events, job, taskPR, info, phase, requeued>>

-----------------------------------------------------------------------------
(* Steps that only read.  A handler that finds nothing to do gives up.     *)

Doing(h, step) == job[h].plan # <<>> /\ Head(job[h].plan) = step
TaskFor(h)     == job[h].event.task

Withdrawal == {"sweep", "list", "ask", "drop"}
Advance(h, j) ==
    LET plan == Tail(j.plan) IN
    job' = [job EXCEPT ![h] =
               IF plan = <<>> THEN Idle
               ELSE [j EXCEPT !.plan = plan,
                              !.before = IF Range(plan) \cap Withdrawal = {} THEN {} ELSE @]]

\* The step after a list goes through it, if there is something in it.
Loop(h, j, rows) ==
    Advance(h, IF rows = {} THEN [j EXCEPT !.plan = Tail(@)] ELSE [j EXCEPT !.left = rows])

GoOnIf(h, found) == IF found THEN Advance(h, job[h]) ELSE job' = [job EXCEPT ![h] = Idle]

FindTask(h) == Doing(h, "find") /\ GoOnIf(h, TaskFor(h) \in taskPR)

\* activeTaskForPR, and activeTaskForCheckFailure, which can also find the task
\* by its branch.  The sender of a feedback may turn out not to be authorized.
ActiveTask(h) ==
    LET t      == TaskFor(h)
        broken == job[h].event.kind = "checkFailed"
        known  == t \in taskPR \/ (broken /\ \E r \in Of(t) : r \in Rows)
    IN
    /\ Doing(h, "active")
    /\ \/ /\ known /\ t \notin taskDone \cup taskDraft
          /\ \E named \in BOOLEAN :
                /\ named => pull[t] # "none"
                /\ Advance(h, [job[h] EXCEPT
                      !.withPR = broken => named \/ t \in taskPR,
                      !.prStatus = IF broken /\ t \notin taskPR THEN "none" ELSE "open"])
       \/ /\ ~broken \/ ~known \/ t \in taskDone \cup taskDraft
          /\ GoOnIf(h, FALSE)

\* A run is added only to an idle task, and for a failed check only if the last
\* run was not made for the same commit.
TaskIdle(h)    == Doing(h, "idle") /\ GoOnIf(h, Active(TaskFor(h)) = {})
FreshCommit(h) ==
    /\ Doing(h, "fresh")
    /\ GoOnIf(h, ~\E r \in Of(TaskFor(h)) :
                    /\ IsLast(r) /\ info[r].trigger = "checkFailed"
                    /\ info[r].sha = job[h].event.about)

\* A synchronized pull request restarts its task only if it was at work and
\* may go on: decided before the sweep.
ContinueTask(h) ==
    LET t == TaskFor(h)
        goOn == Active(t) # {} /\ t \notin taskDone \cup taskDraft
    IN
    /\ Doing(h, "continue")
    /\ IF t \in taskPR
       THEN Advance(h, [job[h] EXCEPT
                           !.plan = IF goOn THEN @ ELSE <<"continue">> \o CancelTaskRuns,
                           !.withPR = TRUE, !.prStatus = "open"])
       ELSE GoOnIf(h, FALSE)

\* hydrateRetryRunRequest.
CopySource(h) ==
    LET source == job[h].event.about
        withPR == HasPR(source) \/ TaskFor(h) \in taskPR
    IN
    /\ Doing(h, "copy")
    /\ Advance(h, [job[h] EXCEPT
          !.withPR = withPR,
          !.prStatus = CASE info[source].prStatus # "none" -> info[source].prStatus
                         [] info[source].prStatus = "none" /\ withPR -> "open"
                         [] OTHER -> "none"])

CheckOpen(h) == Doing(h, "check") /\ GoOnIf(h, TaskFor(h) \notin taskDone)

\* runtimeFromIssueLabels: a label that names an unknown runtime is an error.
RuntimeFromIssueLabels(h) ==
    /\ Doing(h, "check") /\ job[h].event.kind \in IssueKinds
    /\ GoOnIf(h, FALSE)

\* History: what was active when a withdrawal began, with a sweep or a list that
\* the other is still to follow.
Ahead(h, step) == \E i \in 2..Len(job[h].plan) : job[h].plan[i] = step
Beginning(h, other) ==
    [job[h] EXCEPT !.before = IF Ahead(h, other) THEN Active(TaskFor(h)) ELSE @]

\* The lists the later steps go through, as they are now.
ListRunning(h) ==
    Doing(h, "list") /\ Loop(h, Beginning(h, "sweep"), Running(TaskFor(h)))

ListThreadRuns(h) ==
    LET waiting == {r \in Of(TaskFor(h)) : /\ status[r] = "queued" /\ HasPR(r)
                                           /\ info[r].trigger = "unresolved"}
    IN
    /\ Doing(h, "threads")
    /\ Loop(h, [job[h] EXCEPT !.before = {r \in waiting : info[r].thread = job[h].event.about}],
            waiting)

ListPRRuns(h) ==
    LET ofPR == {r \in Of(TaskFor(h)) \cap Rows : HasPR(r)}
        skip == {r \in ofPR : job[h].event.kind # "merged" /\ info[r].prStatus = "merged"}
    IN
    /\ Doing(h, "runs")
    /\ TaskFor(h) \in taskPR
    /\ Loop(h, [job[h] EXCEPT !.review = {r \in ofPR \ skip : status[r] = "review"}], ofPR \ skip)

NoPRRuns(h) == Doing(h, "runs") /\ TaskFor(h) \notin taskPR /\ GoOnIf(h, FALSE)

Read(h) ==
    /\ \/ FindTask(h) \/ ActiveTask(h) \/ TaskIdle(h) \/ FreshCommit(h) \/ ContinueTask(h)
       \/ CopySource(h) \/ CheckOpen(h) \/ RuntimeFromIssueLabels(h) \/ ListRunning(h) \/ ListThreadRuns(h)
       \/ ListPRRuns(h) \/ NoPRRuns(h)
    /\ UNCHANGED <<storeVars, pull, events, taskPR, info, phase, requeued>>

-----------------------------------------------------------------------------
(* Steps that write the tasks.                                             *)

CompleteTask(h) ==
    /\ Doing(h, "complete") /\ Advance(h, job[h])
    /\ MarkTaskCompleted(TaskFor(h)) /\ UNCHANGED taskDraft

OpenTask(h) ==
    /\ Doing(h, "open") /\ Advance(h, job[h])
    /\ MarkTaskOpen(TaskFor(h)) /\ UNCHANGED taskDraft

SetDraft(h) ==
    /\ \E draft \in BOOLEAN :
        /\ Doing(h, IF draft THEN "hold" ELSE "release")
        /\ SetTaskPRDraft(TaskFor(h), draft)
    /\ Advance(h, job[h])
    /\ UNCHANGED taskDone

WriteTask(h) ==
    /\ CompleteTask(h) \/ OpenTask(h) \/ SetDraft(h)
    /\ UNCHANGED <<status, seq, lastSeq, cancelReq, pull, events, taskPR, info, phase, requeued>>

-----------------------------------------------------------------------------
(* Steps that write the runs.                                              *)

\* The loops go from the newest run to the oldest.
Next1(h, r) == r \in job[h].left /\ \A x \in job[h].left : seq[x] <= seq[r]
EachLeft(h, r) ==
    IF job[h].left = {r} THEN Advance(h, [job[h] EXCEPT !.left = {}])
                         ELSE job' = [job EXCEPT ![h].left = @ \ {r}]

\* The columns of a new run, and the task that gets to know its pull request.
InsertRun(r, columns) == info' = [info EXCEPT ![r] = columns]
UpsertTask(t, withPR) == taskPR' = IF withPR THEN taskPR \cup {t} ELSE taskPR

AddTaskRun(h) ==
    LET e == job[h].event IN
    /\ Doing(h, "add")
    /\ UpsertTask(e.task, job[h].withPR)
    /\ \E r \in Of(e.task) :
        /\ r \in PRRuns <=> job[h].withPR
        /\ AddRun(r)
        /\ InsertRun(r, [trigger |-> e.kind, thread |-> Nothing, prStatus |-> job[h].prStatus,
                         sha |-> IF e.kind = "synchronize" THEN e.about ELSE Nothing])
        /\ Advance(h, [job[h] EXCEPT !.run = r])
    /\ UNCHANGED <<cancelReq, taskDone, taskDraft>>

\* WriteRunResponseTarget: only now is the run known to be about its thread.
UpsertRunResponseTarget(r, thread) == info' = [info EXCEPT ![r].thread = thread]

WriteTarget(h) ==
    LET e == job[h].event
        thread == CASE e.kind = "unresolved" -> e.about
                    [] e.kind = "retry" -> info[e.about].thread
                    [] OTHER -> Nothing
    IN
    /\ Doing(h, "target") /\ Advance(h, job[h])
    /\ UpsertRunResponseTarget(job[h].run, thread)
    /\ UNCHANGED <<storeVars, taskPR>>

WriteHeadSHA(h) ==
    /\ Doing(h, "sha") /\ Advance(h, job[h])
    /\ info' = [info EXCEPT ![job[h].run].sha = job[h].event.about]
    /\ UNCHANGED <<storeVars, taskPR>>

SweepQueued(h) ==
    /\ Doing(h, "sweep")
    /\ Advance(h, Beginning(h, "list"))
    /\ CancelQueuedRuns(TaskFor(h))
    /\ UNCHANGED <<seq, lastSeq, cancelReq, taskDone, taskDraft, taskPR, info>>

AskToStop(h, r) ==
    /\ Doing(h, "ask") /\ Next1(h, r) /\ EachLeft(h, r)
    /\ RequestRunCancel(r)
    /\ UNCHANGED <<status, seq, lastSeq, taskDone, taskDraft, taskPR, info>>

\* A run of the resolved thread is canceled, if it is still queued.
Droppable(h) == {r \in Runs : info[r].thread = job[h].event.about}
DropThreadRun(h, r) ==
    /\ Doing(h, "drop") /\ Next1(h, r) /\ EachLeft(h, r)
    /\ status' = IF r \in Droppable(h) /\ CanTransition(r, "canceled")
                 THEN [status EXCEPT ![r] = "canceled"] ELSE status
    /\ UNCHANGED <<seq, lastSeq, cancelReq, taskDone, taskDraft, taskPR, info>>

\* A run that was in review is resolved with its pull request, unless its status
\* changed meanwhile: then all is refused.  Any other only gets to know of it.
Resolve(r, to, prStatus) ==
    IF CanTransition(r, to)
    THEN SetRunStatus(r, to) /\ info' = [info EXCEPT ![r].prStatus = prStatus]
    ELSE UNCHANGED <<status, info>>

NoteOnly(r, prStatus) == info' = [info EXCEPT ![r].prStatus = prStatus] /\ UNCHANGED status

ReconcileClosed(h, r) ==
    LET merged == Doing(h, "merge") IN
    /\ merged \/ Doing(h, "close")
    /\ Next1(h, r) /\ EachLeft(h, r)
    /\ IF r \in job[h].review
       THEN Resolve(r, IF merged THEN "succeeded" ELSE "canceled", IF merged THEN "merged" ELSE "closed")
       ELSE NoteOnly(r, IF merged THEN "merged" ELSE "closed")
    /\ UNCHANGED <<seq, lastSeq, cancelReq, taskDone, taskDraft, taskPR>>

\* Looked at again inside the transaction: a merged run stays merged.
NoteReopened(r) ==
    info' = [info EXCEPT ![r].prStatus = IF @ = "merged" THEN @ ELSE "open"]

ReconcileReopened(h, r) ==
    /\ Doing(h, "reopen") /\ Next1(h, r) /\ EachLeft(h, r)
    /\ NoteReopened(r)
    /\ UNCHANGED <<storeVars, taskPR>>

WriteRun(h) ==
    /\ \/ AddTaskRun(h) \/ WriteTarget(h) \/ WriteHeadSHA(h) \/ SweepQueued(h)
       \/ \E r \in Runs : \/ AskToStop(h, r) \/ DropThreadRun(h, r)
                          \/ ReconcileClosed(h, r) \/ ReconcileReopened(h, r)
    /\ UNCHANGED <<pull, events, phase, requeued>>

-----------------------------------------------------------------------------
(* The goroutine that executes a run.                                      *)

\* ScheduleRuns and the entry checks of ExecuteRun.
Claim(r) ==
    /\ phase[r] = "idle"
    /\ \/ /\ TaskOf[r] \notin taskDone
          /\ \E p \in Tasks \cup {NoTask} : ClaimNextQueuedRun(p, r)
          /\ phase' = [phase EXCEPT ![r] = "working"]
       \/ /\ TaskOf[r] \in taskDone /\ Claimable(r)
          /\ SetRunStatus(r, "canceled")
          /\ phase' = [phase EXCEPT ![r] = "ending"]
    /\ UNCHANGED <<seq, lastSeq, cancelReq, taskDone, taskDraft, taskPR, info, requeued, pull>>

\* The worker in the container opens the pull request of its task.
OpenPull(r) ==
    /\ phase[r] = "working" /\ pull[TaskOf[r]] = "none"
    /\ pull' = [pull EXCEPT ![TaskOf[r]] = "open"]
    /\ UNCHANGED <<storeVars, taskPR, info, phase, requeued>>

SetTaskPR(t) == taskPR' = taskPR \cup {t}

\* finalizeDetachedRun, for each way a container can exit.  UpdateRun writes the
\* run and its task's pr_number in one transaction; setTaskPRBestEffort, later,
\* writes the same number once more.
SettleOk(r) ==
    LET hasPR == pull[TaskOf[r]] # "none" \/ HasPR(r) IN
    /\ SetRunStatus(r, IF hasPR THEN "review" ELSE "succeeded")
    /\ \E c \in Commits \cup {info[r].sha} :
        info' = [info EXCEPT ![r].sha = c, ![r].prStatus = IF hasPR THEN "open" ELSE "none"]
    /\ IF hasPR THEN SetTaskPR(TaskOf[r]) ELSE UNCHANGED taskPR
    /\ UNCHANGED requeued

SettleFailed(r) ==
    /\ SetRunStatus(r, IF r \in cancelReq THEN "canceled" ELSE "failed")
    /\ info' = [info EXCEPT ![r].prStatus = "none"]
    /\ UNCHANGED <<taskPR, requeued>>

SettleLimited(r) ==
    /\ Requeue(r)
    /\ requeued' = requeued \cup {r}
    /\ UNCHANGED <<info, taskPR>>

Settle(r) ==
    /\ phase[r] = "working"
    /\ phase' = [phase EXCEPT ![r] = "ending"]
    /\ \/ status[r] = "running" /\ (SettleOk(r) \/ SettleFailed(r) \/ SettleLimited(r))
       \/ status[r] # "running" /\ UNCHANGED <<status, info, taskPR, requeued>>
    /\ UNCHANGED <<seq, lastSeq, cancelReq, taskDone, taskDraft, pull>>

\* finishRun: the cancel request of a closed run goes, and what is still queued
\* in a completed task.
FinishRun(r) ==
    /\ \/ /\ phase[r] = "ending"
          /\ phase' = [phase EXCEPT ![r] = "last"]
          /\ IF status[r] \in Final THEN ClearRunCancel(r) ELSE UNCHANGED cancelReq
          /\ UNCHANGED status
       \/ /\ phase[r] = "last"
          /\ phase' = [phase EXCEPT ![r] = "idle"]
          /\ IF TaskOf[r] \in taskDone THEN CancelQueuedRuns(TaskOf[r]) ELSE UNCHANGED status
          /\ UNCHANGED cancelReq
    /\ UNCHANGED <<seq, lastSeq, taskDone, taskDraft, taskPR, info, requeued, pull>>

Execute(r) ==
    /\ Claim(r) \/ OpenPull(r) \/ Settle(r) \/ FinishRun(r)
    /\ UNCHANGED <<events, job>>

Next ==
    /\ \/ \E h \in Handlers :
            \/ \E t \in Tasks : Event(h, t)
            \/ Read(h) \/ WriteTask(h) \/ WriteRun(h)
       \/ \E t \in Tasks : LostEvent(t)
       \/ \E r \in Runs : Execute(r)
    /\ UNCHANGED kinds

Spec == Init /\ [][Next]_vars

-----------------------------------------------------------------------------
(* Properties.                                                             *)

Leaves(h, step)  == Doing(h, step) /\ ~Doing(h, step)'
Withdrawing(h)   == Range(job[h].plan) \cap Withdrawal # {}

\* Whoever withdraws a task's work (label removed, issue edited or closed, pull
\* request closed, merged or synchronized, thread resolved) misses no run that
\* was active when he began: it is closed, or asked to stop, when he is done,
\* whatever the scheduler claims between his statements.  Only a run that a
\* usage limit sends back to the queue in the middle can escape.
SweepMissesNothing ==
    [][\A h \in Handlers :
        Withdrawing(h) /\ ~Withdrawing(h)' =>
            \A r \in job[h].before :
                status'[r] \in Final \/ r \in cancelReq' \/ r \in requeued']_vars

\* Once those who convert a pull request to a draft are through, no run of it
\* is at work without having been asked to stop, and none starts, however
\* claims and events interleave.
DraftStopsWork ==
    \A t \in taskDraft :
        (\A h \in Handlers : TaskFor(h) = t => ~(job[h].event.kind = "draft" /\ job[h].plan # <<>>))
        => \A r \in PRRuns \cap Running(t) : r \in cancelReq

\* When the handler of a closed or merged pull request is through, none of the
\* runs it found in review is left there, whatever another handler of another
\* event of that pull request did meanwhile.
ReviewsAreResolved ==
    [][\A h \in Handlers : Leaves(h, "merge") \/ Leaves(h, "close")
        => \A r \in job[h].review : status'[r] # "review"]_vars

\* Events and runs use the store as its specification says, so that what is
\* proved of the store holds here.
TasksImplementStore == StoreSpec
=============================================================================
