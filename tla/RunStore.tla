------------------------------ MODULE RunStore ------------------------------
(***************************************************************************)
(* The run, task and cancel-request tables of the state store              *)
(* (internal/state) and every operation the orchestrator applies to the    *)
(* status of a run.  Each operation is one SQL statement or one            *)
(* transaction, so it is one action here, whichever goroutine or process   *)
(* issues it.                                                              *)
(*                                                                         *)
(* Two kinds of write change a status: UpdateRun, which validates the      *)
(* change against runStatusTransitions, and the raw UPDATE statements      *)
(* (ClaimRunStart, ClaimNextQueuedRun, CancelQueuedRuns), which do not.    *)
(***************************************************************************)
EXTENDS Naturals, FiniteSets

CONSTANTS
    Runs,       \* run ids, each used for one run
    Tasks,      \* task ids
    TaskOf,     \* the task of each run
    PRRuns,     \* the runs created for a pull request (pr_number > 0)
    MaxRuns,    \* rows TrimOldRuns keeps
    NoTask      \* the empty preferred task of ClaimNextQueuedRun

ASSUME StoreConstants ==
    /\ IsFiniteSet(Runs)
    /\ TaskOf \in [Runs -> Tasks]
    /\ PRRuns \subseteq Runs
    /\ MaxRuns \in Nat \ {0}
    /\ NoTask \notin Tasks

VARIABLES
    status,     \* runs.status; "absent" before AddRun, "forgotten" once trimmed
    seq,        \* runs.seq, 0 for a run not added yet
    lastSeq,    \* the AUTOINCREMENT counter of runs.seq
    cancelReq,  \* run ids with a row in run_cancels
    taskDone,   \* tasks whose status is 'completed'
    taskDraft   \* tasks whose pr_draft flag is set

storeVars == <<status, seq, lastSeq, cancelReq, taskDone, taskDraft>>

Lifecycle == INSTANCE RunLifecycle
    WITH Runs <- Runs, Tasks <- Tasks, TaskOf <- TaskOf, status <- status

\* runStatusIsDone, and IsFinalRunStatus: the same four statuses.
Final    == {"review", "succeeded", "failed", "canceled"}
Statuses == {"absent", "queued", "running", "forgotten"} \cup Final

\* Defects someone could write into the definitions below: they show what the
\* properties notice, and are no part of the specification.
OnlySuccessTransitions(from) ==
    CASE from = "queued"  -> {"queued", "running", "failed", "canceled"}
      [] from = "running" -> {"queued", "running", "review", "succeeded"}
      [] OTHER -> {from}
ClaimableInBusyTask(r) == status[r] = "queued" /\ r \notin cancelReq

\* runStatusTransitions: where UpdateRun lets a status go.
Transitions(from) ==
    CASE from = "queued"  -> {"queued", "running", "failed", "canceled"}
      [] from = "running" -> {"queued", "running"} \cup Final
      [] from = "review"  -> {"review", "succeeded", "canceled"}
      [] from \in {"succeeded", "failed", "canceled"} -> {from}
      [] OTHER -> {}

Rows == {r \in Runs : status[r] \notin {"absent", "forgotten"}}

TaskBusy(t) == \E r \in Runs : TaskOf[r] = t /\ status[r] = "running"

StoreInit ==
    /\ status = [r \in Runs |-> "absent"]
    /\ seq = [r \in Runs |-> 0]
    /\ lastSeq = 0
    /\ cancelReq = {}
    /\ taskDone = {}
    /\ taskDraft = {}

-----------------------------------------------------------------------------
(* Operations.  Each constrains the variables its statement writes; Next   *)
(* below, and the modules built on this one, say what it leaves alone.     *)

\* The rows that fall off the end when one more is inserted.
TrimOldRuns ==
    {x \in Rows : Cardinality({y \in Rows : seq[y] > seq[x]}) + 1 >= MaxRuns}

AddRun(r) ==
    /\ status[r] = "absent"
    /\ lastSeq' = lastSeq + 1
    /\ seq' = [seq EXCEPT ![r] = lastSeq + 1]
    /\ status' = [x \in Runs |-> CASE x = r -> "queued"
                                   [] x \in TrimOldRuns -> "forgotten"
                                   [] OTHER -> status[x]]

\* A queued run is claimable when its task runs nothing, no cancel request
\* waits for it, and its pull request, if it has one, is not a draft.
Claimable(r) ==
    /\ status[r] = "queued"
    /\ r \in PRRuns => TaskOf[r] \notin taskDraft
    /\ ~TaskBusy(TaskOf[r])
    /\ r \notin cancelReq

\* The claimable run the next claim takes: the oldest of the preferred task,
\* failing that the oldest of all.  ORDER BY created_at, seq is the order of seq
\* where AddRun is one step: created_at is the clock just before the insert, and
\* only inserts that overlap could be stamped in another order.
NextQueuedRun(preferred, r) ==
    LET all   == {x \in Runs : Claimable(x)}
        local == {x \in all : TaskOf[x] = preferred}
        pool  == IF local # {} THEN local ELSE all
    IN r \in pool /\ \A x \in pool : seq[r] <= seq[x]

ClaimNextQueuedRun(preferred, r) ==
    /\ NextQueuedRun(preferred, r)
    /\ status' = [status EXCEPT ![r] = "running"]

\* ClaimRunStart names its run, and looks neither at the queue's order nor
\* at cancel requests nor at the draft flag.
ClaimRunStart(r) ==
    /\ status[r] = "queued"
    /\ \A x \in Runs \ {r} : TaskOf[x] = TaskOf[r] => status[x] # "running"
    /\ status' = [status EXCEPT ![r] = "running"]

\* SetRunStatusWithReason and TransitionBatch.  Every caller asks for one of
\* the four final statuses.
CanTransition(r, to) == to \in Transitions(status[r])

SetRunStatus(r, to) ==
    /\ to \in Final
    /\ CanTransition(r, to)
    /\ status' = [status EXCEPT ![r] = to]

Requeue(r) ==
    /\ status[r] = "running"
    /\ status' = [status EXCEPT ![r] = "queued"]

CancelQueuedRuns(t) ==
    status' = [r \in Runs |-> IF TaskOf[r] = t /\ status[r] = "queued"
                              THEN "canceled" ELSE status[r]]

RequestRunCancel(r) == cancelReq' = cancelReq \cup {r}
ClearRunCancel(r)   == cancelReq' = cancelReq \ {r}

MarkTaskCompleted(t) == taskDone' = taskDone \cup {t}
MarkTaskOpen(t)      == taskDone' = taskDone \ {t}

SetTaskPRDraft(t, draft) ==
    taskDraft' = IF draft THEN taskDraft \cup {t} ELSE taskDraft \ {t}

-----------------------------------------------------------------------------
(* The store under any use of its operations.                              *)

StatusWrite ==
    \/ \E r \in Runs :
        \/ \E p \in Tasks \cup {NoTask} : ClaimNextQueuedRun(p, r)
        \/ ClaimRunStart(r)
        \/ \E to \in Final : SetRunStatus(r, to)
        \/ Requeue(r)
    \/ \E t \in Tasks : CancelQueuedRuns(t)

StatusOp == StatusWrite /\ UNCHANGED <<seq, lastSeq, cancelReq, taskDone, taskDraft>>

\* run_cancels has no foreign key: a request may be for a run trimmed meanwhile.
\* A task row may exist without a run, made by UpsertTask when its issue closes.
FlagOp ==
    /\ \/ \E r \in Runs :
            /\ status[r] # "absent"
            /\ RequestRunCancel(r) \/ ClearRunCancel(r)
            /\ UNCHANGED <<taskDone, taskDraft>>
       \/ \E t \in Tasks :
            /\ MarkTaskCompleted(t) \/ MarkTaskOpen(t)
            /\ UNCHANGED <<cancelReq, taskDraft>>
       \/ \E t \in Tasks, draft \in BOOLEAN :
            /\ SetTaskPRDraft(t, draft)
            /\ UNCHANGED <<cancelReq, taskDone>>
    /\ UNCHANGED <<status, seq, lastSeq>>

StoreNext ==
    \/ \E r \in Runs : AddRun(r) /\ UNCHANGED <<cancelReq, taskDone, taskDraft>>
    \/ StatusOp
    \/ FlagOp

StoreSpec == StoreInit /\ [][StoreNext]_storeVars

-----------------------------------------------------------------------------
(* Type invariant of the tables.                                           *)
StoreTypeOK ==
    /\ status \in [Runs -> Statuses]
    /\ seq \in [Runs -> Nat]
    /\ lastSeq \in Nat
    /\ cancelReq \subseteq Runs
    /\ taskDone \subseteq Tasks
    /\ taskDraft \subseteq Tasks

\* At most one run of a task is in status running, whatever mix of claims,
\* requeues and validated transitions the processes issue: the claims are
\* raw UPDATEs that bypass runStatusTransitions and must exclude each other
\* by their own NOT EXISTS clauses.
OneRunningPerTask ==
    \A r, x \in Runs :
        /\ status[r] = "running"
        /\ status[x] = "running"
        /\ TaskOf[r] = TaskOf[x]
        => r = x

\* TrimOldRuns forgets from the old end only: every forgotten run was added
\* before every run still stored, although the trim of each insert looks
\* only at the rows left by the trims before it.
OldestForgotten ==
    \A r \in Runs, x \in Rows :
        status[r] = "forgotten" => seq[r] < seq[x]

\* The store implements the run life cycle: whatever is written to a status,
\* validated or raw, is one of the moves RunLifecycle allows.  In particular a
\* closed run is never reopened and a run starts only in an idle task.
ImplementsLifecycle == Lifecycle!Spec
=============================================================================
