----------------------------- MODULE RunOutcome -----------------------------
(***************************************************************************)
(* How the outcome of a run gets from the worker in its container to the   *)
(* store and to GitHub: the stages of the worker (internal/worker), the    *)
(* two copies of its result (meta.json and the report over the result      *)
(* socket), finalizeDetachedRun, which makes a status of them, and the     *)
(* notifier, which comments on it (internal/orchestrator).                 *)
(*                                                                         *)
(* One run, executed again when a usage limit sends it back to the queue,  *)
(* and the processes of the slots, of which two may finalize one run: a    *)
(* finalizer does not renew the run's lease.                               *)
(***************************************************************************)
EXTENDS RunStore, Sequences

CONSTANTS
    Run,        \* the run
    Procs,      \* rascald processes
    First,      \* the one that is up at the start
    Nobody,     \* no process
    NoFile,     \* no meta.json, or an unreadable one
    FaultMixes, \* sets of faults to look at together
    MaxTurns    \* bound on the executions of the run

AllFaults == {"crash", "leave", "lapse", "github", "disk", "docker", "kill", "cancel"}
Kinds     == {"start", "completion", "failure"}

ASSUME OutcomeConstants ==
    /\ Runs = {Run} /\ PRRuns = {}     \* drafts are the subject of WebhookTasks
    /\ First \in Procs /\ Nobody \notin Procs
    /\ NoFile \notin [ok : BOOLEAN, pr : BOOLEAN]
    /\ \A mix \in FaultMixes : mix \subseteq AllFaults
    /\ MaxTurns \in Nat \ {0}

VARIABLES
    faults,     \* the faults of this behaviour
    forPull,    \* the run answers a comment on a pull request
    turn,       \* executions so far
    prKnown,    \* the run's pr_number is set
    worker,     \* the container: stage, result so far, exit code
    pull,       \* GitHub: the head branch has an open pull request
    meta,       \* meta.json, NoFile if it is missing or unreadable
    output,     \* agent_output.txt
    row,        \* the run's row in run_executions
    socket,     \* the process that bound the result socket's path last
    up,         \* processes: unborn, up, gone
    pc,         \* what each process is at with the run
    seen,       \* its copies of row, exit code, result and status
    claim,      \* completion_comment_state, and who claimed
    posted,     \* run_notifications
    comments,   \* GitHub: comments of each kind
    succeeded   \* history: executions whose worker came through

outcomeVars == <<faults, forPull, turn, prKnown, worker, pull, meta, output, row, socket,
                 up, pc, seen, claim, posted, comments, succeeded>>
vars == <<storeVars, outcomeVars>>

Result   == [ok : BOOLEAN, pr : BOOLEAN]
Unfinished == [ok |-> FALSE, pr |-> FALSE]     \* the meta a worker begins with
NoWorker == [stage |-> "none", result |-> Unfinished, code |-> 0]
NoRow    == [there |-> FALSE, reported |-> FALSE, result |-> Unfinished]
Unseen   == [row |-> NoRow, code |-> 0, result |-> Unfinished, status |-> "queued", pr |-> FALSE]

Init ==
    /\ status = [r \in Runs |-> "queued"]
    /\ seq = [r \in Runs |-> 1]
    /\ lastSeq = 1
    /\ cancelReq = {} /\ taskDone = {} /\ taskDraft = {}
    /\ faults \in FaultMixes
    /\ forPull \in BOOLEAN
    /\ turn = 0
    /\ prKnown = forPull
    /\ worker = NoWorker
    /\ pull = forPull
    /\ meta = NoFile
    /\ output = "none"
    /\ row = NoRow
    /\ socket = First
    /\ up = [p \in Procs |-> IF p = First THEN "up" ELSE "unborn"]
    /\ pc = [p \in Procs |-> "idle"]
    /\ seen = [p \in Procs |-> Unseen]
    /\ claim = [state |-> "pending", by |-> Nobody]
    /\ posted = {}
    /\ comments = [k \in Kinds |-> 0]
    /\ succeeded = {}

-----------------------------------------------------------------------------
(* Defects someone could write into the definitions below: they show what  *)
(* the properties notice, and are no part of the specification.            *)

TrustFallback(copy, file, code) ==
    IF copy.reported THEN copy.result
    ELSE IF file # NoFile THEN [file EXCEPT !.ok = @ /\ code = 0] ELSE [ok |-> TRUE, pr |-> FALSE]
TrustFileOnly(copy, file, code) ==
    IF file # NoFile THEN [file EXCEPT !.ok = @ /\ code = 0] ELSE [ok |-> code = 0, pr |-> FALSE]
ClaimableUnlessPosted(c) == c.state # "posted"
RequeueAnyStatus == status' = [status EXCEPT ![Run] = "queued"]
TornMeta(result) == meta' \in {result, [ok |-> result.ok]}
AnswerSuccessOnly(p) ==
    /\ up[p] = "up" /\ pc[p] = "notify" /\ pc' = [pc EXCEPT ![p] = "clean"]
    /\ seen[p].status # "failed" /\ (seen[p].status = "succeeded" => ~forPull)
    /\ UNCHANGED <<claim, posted, comments>>
PostOnce(p) ==
    /\ up[p] = "up" /\ pc[p] = "post" /\ pc' = [pc EXCEPT ![p] = "found"]
    /\ \/ comments' = [comments EXCEPT !["completion"] = @ + 1]
       \/ "github" \in faults /\ UNCHANGED comments
    /\ UNCHANGED <<claim, posted>>

-----------------------------------------------------------------------------
(* The worker.  RunWithExecutor goes through its stages; a failed stage    *)
(* skips to the deferred functions, which write meta.json and report.      *)

Working == worker.stage \notin {"none", "exited"}

At(stage)   == worker.stage = stage
GoTo(stage) == worker' = [worker EXCEPT !.stage = stage]

\* WriteMeta truncates the file before it writes: it may fail half way.
WriteMeta(result) == meta' \in {result} \cup (IF "disk" \in faults THEN {NoFile, meta} ELSE {})

Begin == At("boot") /\ GoTo("begun") /\ WriteMeta(Unfinished)
         /\ UNCHANGED <<pull, output, row, succeeded>>

\* prepare_workspace to configure_repo_identity.
CheckoutRepo ==
    /\ At("begun") /\ (GoTo("checkedOut") \/ GoTo("done"))
    /\ UNCHANGED <<pull, meta, output, row, succeeded>>

\* run_agent: the agent may write agent_output.txt, or leave what is there; and
\* may stop for a usage limit, in which case the error says only that it failed.
RunAgent ==
    /\ At("checkedOut")
    /\ \/ GoTo("ran") /\ output' \in {output, "plain"}
       \/ GoTo("done") /\ output' \in {output, "plain", "limit"}
    /\ UNCHANGED <<pull, meta, row, succeeded>>

\* prepare_commit, check_branch_diff and push_branch.
PushBranch ==
    /\ At("ran") /\ (GoTo("pushed") \/ GoTo("done"))
    /\ UNCHANGED <<pull, meta, output, row, succeeded>>

\* loadPRView takes any error of gh for "there is none".
LoadPR ==
    /\ At("pushed")
    /\ \/ pull /\ worker' = [worker EXCEPT !.stage = "ready", !.result.pr = TRUE]
       \/ (~pull \/ "github" \in faults) /\ GoTo("unopened")
    /\ UNCHANGED <<pull, meta, output, row, succeeded>>

\* If GitHub does not show the new pull request, and the output of gh holds no
\* URL of it, the worker goes on without its number.
CreatePR ==
    /\ At("unopened")
    /\ \/ ~pull /\ pull' = TRUE /\ worker' = [worker EXCEPT !.stage = "ready", !.result.pr = TRUE]
       \/ "github" \in faults /\ ~pull /\ pull' = TRUE /\ GoTo("ready")
       \/ (pull \/ "github" \in faults) /\ pull' = pull /\ GoTo("done")
    /\ UNCHANGED <<meta, output, row, succeeded>>

\* The pull request is part of the result only once finalize_meta is through.
FinalizeMeta ==
    /\ At("ready")
    /\ \/ /\ worker' = [worker EXCEPT !.stage = "done", !.result.ok = TRUE]
          /\ succeeded' = succeeded \cup {turn}
       \/ /\ worker' = [worker EXCEPT !.stage = "done", !.result.pr = FALSE]
          /\ UNCHANGED succeeded
    /\ UNCHANGED <<pull, meta, output, row>>

SaveMeta ==
    /\ At("done") /\ GoTo("saved") /\ WriteMeta(worker.result)
    /\ UNCHANGED <<pull, output, row, succeeded>>

\* A process that is sent the result keeps it in the execution's row, if any.
ReportRunExecutionResult(result) ==
    row' = IF row.there THEN [row EXCEPT !.reported = TRUE, !.result = result] ELSE row

\* ReportRunResultWithRetry gets through while the socket's path leads to a
\* process; otherwise the worker gives up in the end.
Reachable == socket # Nobody /\ up[socket] = "up"
ReportResult ==
    /\ At("saved") /\ GoTo("reported")
    /\ IF Reachable THEN ReportRunExecutionResult(worker.result) ELSE UNCHANGED row
    /\ UNCHANGED <<pull, meta, output, succeeded>>

Exit ==
    /\ At("reported")
    /\ worker' = [worker EXCEPT !.stage = "exited", !.code = IF worker.result.ok THEN 0 ELSE 1]
    /\ UNCHANGED <<pull, meta, output, row, succeeded>>

\* The end of a worker by a signal, at any stage, possibly within WriteMeta.
Killed ==
    /\ Working
    /\ worker' = [worker EXCEPT !.stage = "exited", !.code = 1]
    /\ meta' \in {meta} \cup (IF worker.stage \in {"boot", "done"} THEN {NoFile} ELSE {})

Kill == "kill" \in faults /\ Killed /\ UNCHANGED <<pull, output, row, succeeded>>

Work ==
    /\ \/ Begin \/ CheckoutRepo \/ RunAgent \/ PushBranch \/ LoadPR \/ CreatePR
       \/ FinalizeMeta \/ SaveMeta \/ ReportResult \/ Exit \/ Kill
    /\ UNCHANGED <<storeVars, faults, forPull, turn, prKnown, socket, up, pc, seen, claim,
                   posted, comments>>

-----------------------------------------------------------------------------
(* ExecuteRun: from the claim to supervision.                              *)

Is(p, step) == up[p] = "up" /\ pc[p] = step
Go(p, step) == pc' = [pc EXCEPT ![p] = step]

\* A claim after a usage limit waits for the pause, which outlasts whatever a
\* process is still at with the run.
Claim(p) ==
    /\ Is(p, "idle") /\ turn < MaxTurns
    /\ \A q \in Procs : pc[q] = "idle"
    /\ ClaimNextQueuedRun(NoTask, Run)
    /\ turn' = turn + 1
    /\ Go(p, "claimed")
    /\ UNCHANGED <<cancelReq, prKnown, worker, meta, row, seen, comments, posted, claim>>

\* UpsertRunExecution replaces the row: what a worker reported is gone.
UpsertRunExecution == row' = [NoRow EXCEPT !.there = TRUE]
DeleteRunExecution == row' = NoRow

PersistHandle(p) ==
    /\ Is(p, "claimed") /\ Go(p, "persisted")
    /\ UpsertRunExecution
    /\ UNCHANGED <<status, cancelReq, turn, prKnown, worker, meta, seen, comments, posted, claim>>

Launch(p) ==
    /\ Is(p, "persisted")
    /\ \/ /\ worker' = [NoWorker EXCEPT !.stage = "boot"]
          /\ Go(p, "launched")
          /\ UNCHANGED <<status, row, seen>>
       \/ /\ "docker" \in faults
          /\ DeleteRunExecution
          /\ SetRunStatus(Run, "failed")
          /\ seen' = [seen EXCEPT ![p].status = "failed"]
          /\ Go(p, "notify")
          /\ UNCHANGED worker
    /\ UNCHANGED <<cancelReq, turn, prKnown, meta, comments, posted, claim>>

Record(p) ==
    /\ Is(p, "launched") /\ Go(p, "start")
    /\ UpsertRunExecution
    /\ seen' = [seen EXCEPT ![p] = [Unseen EXCEPT !.row = row']]
    /\ UNCHANGED <<status, cancelReq, turn, prKnown, worker, meta, comments, posted, claim>>

-----------------------------------------------------------------------------
(* superviseRun, recoverDetachedRun and finalizeDetachedRun.               *)

\* A container found still running after a cancel request is stopped.
StopWorker(p) ==
    /\ Is(p, "watch") /\ Run \in cancelReq /\ Killed
    /\ UNCHANGED <<status, cancelReq, turn, prKnown, row, pc, seen, comments, posted, claim>>

\* UpdateRunExecutionState overwrites the exit code, a reported one too.
UpdateRunExecutionState(code) ==
    row' = IF row.there THEN [row EXCEPT !.result.ok = code = 0] ELSE row

NoticeExit(p) ==
    /\ Is(p, "watch") /\ At("exited")
    /\ UpdateRunExecutionState(worker.code)
    /\ Go(p, "ended")
    /\ seen' = [seen EXCEPT ![p].code = worker.code]
    /\ UNCHANGED <<status, cancelReq, turn, prKnown, worker, meta, comments, posted, claim>>

\* The run is read first; if it is closed already, only the cleaning is left.
BeginFinalize(p) ==
    /\ Is(p, "ended")
    /\ Go(p, IF status[Run] \in Final THEN "clean" ELSE "load")
    /\ seen' = [seen EXCEPT ![p].pr = prKnown, ![p].status = status[Run]]
    /\ UNCHANGED <<status, cancelReq, turn, prKnown, worker, meta, row, comments, posted, claim>>

\* loadDetachedRunMeta: the report if there is one, else the file, else what
\* the exit code tells.  An unreported success does not outlive a failing exit.
ResultOf(copy, file, code) ==
    IF copy.reported THEN copy.result
    ELSE IF file # NoFile THEN [file EXCEPT !.ok = @ /\ code = 0]
    ELSE [ok |-> code = 0, pr |-> FALSE]

LoadMeta(p) ==
    LET copy == IF row.there THEN row ELSE seen[p].row
        code == seen[p].code
    IN
    /\ Is(p, "load") /\ Go(p, "decide")
    /\ seen' = [seen EXCEPT ![p].row = copy, ![p].result = ResultOf(copy, meta, code)]
    /\ meta' = IF meta = NoFile /\ ~copy.reported THEN ResultOf(copy, meta, code) ELSE meta
    /\ UNCHANGED <<status, cancelReq, turn, prKnown, worker, row, comments, posted, claim>>

\* A run that failed is handed back when its agent's output, this one's or an
\* earlier one's, tells of a usage limit.
DetectUsageLimitPause(result) == ~result.ok /\ output = "limit"

RequeueIfRunning == status' = IF status[Run] = "running"
                              THEN [status EXCEPT ![Run] = "queued"] ELSE status

HandBack(p) ==
    /\ Is(p, "decide") /\ DetectUsageLimitPause(seen[p].result)
    /\ RequeueIfRunning
    /\ Go(p, "clean")
    /\ UNCHANGED <<cancelReq, turn, prKnown, worker, meta, row, seen, comments, posted, claim>>

\* A cancel request explains a failure and yields to a success.
Verdict(p) ==
    IF seen[p].result.ok
    THEN IF seen[p].result.pr \/ seen[p].pr THEN "review" ELSE "succeeded"
    ELSE IF Run \in cancelReq THEN "canceled" ELSE "failed"

\* TransitionBatch; if the move is refused, the run fails, and if that is
\* refused too, it stays what another finalizer made of it.
Settle(p) ==
    /\ Is(p, "decide") /\ ~DetectUsageLimitPause(seen[p].result)
    /\ \/ /\ CanTransition(Run, Verdict(p))
          /\ SetRunStatus(Run, Verdict(p))
          /\ prKnown' = (prKnown \/ seen[p].result.pr)
       \/ /\ ~CanTransition(Run, Verdict(p)) /\ CanTransition(Run, "failed")
          /\ SetRunStatus(Run, "failed")
          /\ UNCHANGED prKnown
       \/ /\ ~CanTransition(Run, Verdict(p)) /\ ~CanTransition(Run, "failed")
          /\ UNCHANGED <<status, prKnown>>
    /\ seen' = [seen EXCEPT ![p].status = status'[Run]]
    /\ Go(p, "notify")
    /\ UNCHANGED <<cancelReq, turn, worker, meta, row, comments, posted, claim>>

RemoveContainer(p) ==
    /\ Is(p, "clean") /\ Go(p, "forget")
    /\ worker' = NoWorker
    /\ UNCHANGED <<status, cancelReq, turn, prKnown, meta, row, seen, comments, posted, claim>>

\* The rest of the cleaning, and finishRun.
Finish(p) ==
    /\ Is(p, "forget") /\ Go(p, "idle")
    /\ DeleteRunExecution
    /\ IF status[Run] \in Final THEN ClearRunCancel(Run) ELSE UNCHANGED cancelReq
    /\ seen' = [seen EXCEPT ![p] = Unseen]
    /\ UNCHANGED <<status, turn, prKnown, worker, meta, comments, posted, claim>>

-----------------------------------------------------------------------------
(* The notifier.  GitHub may refuse a comment, and may take one and fail   *)
(* to say so.                                                              *)

Posts(k)       == comments' = [comments EXCEPT ![k] = @ + 1]
PostedUnheard(k) == "github" \in faults /\ (Posts(k) \/ UNCHANGED comments)

\* NotifyRunStarted and NotifyRunFailed: look for the record, post, record.
Tell(p, k, step, told, after) ==
    /\ Is(p, step)
    /\ \/ k \in posted /\ UNCHANGED comments /\ Go(p, after)
       \/ k \notin posted /\ Posts(k) /\ Go(p, told)
       \/ k \notin posted /\ PostedUnheard(k) /\ Go(p, after)
    /\ UNCHANGED <<posted, claim>>

NotifyRunStarted(p) == Tell(p, "start", "start", "started", "watch")
NotifyRunFailed(p)  == seen[p].status = "failed" /\ Tell(p, "failure", "notify", "told", "clean")

UpsertRunNotification(p, k, step, after) ==
    /\ Is(p, step) /\ Go(p, after)
    /\ posted' = posted \cup {k}
    /\ UNCHANGED <<claim, comments>>

\* ClaimRunCompletionComment: a claim is stale after five minutes, while a
\* comment takes 15 seconds: only that of a process that is gone gets so old.
Claimable1(c) == c.state \in {"pending", "failed"} \/ (c.state = "posting" /\ up[c.by] = "gone")

\* A canceled run, and a run that answers no comment, get no comment.
NotifyNothing(p) ==
    /\ Is(p, "notify")
    /\ \/ seen[p].status \in {"canceled", "queued"}
       \/ seen[p].status \in {"review", "succeeded"}
          /\ (~forPull \/ "completion" \in posted \/ ~Claimable1(claim))
    /\ Go(p, "clean")
    /\ UNCHANGED <<claim, posted, comments>>

ClaimRunCompletionComment(p) ==
    /\ Is(p, "notify") /\ seen[p].status \in {"review", "succeeded"} /\ forPull
    /\ "completion" \notin posted /\ Claimable1(claim)
    /\ claim' = [state |-> "posting", by |-> p]
    /\ Go(p, "look")
    /\ UNCHANGED <<posted, comments>>

\* Neither mark looks at who holds the claim.
MarkFailed(p) == claim' = [claim EXCEPT !.state = "failed"] /\ Go(p, "clean")

\* completionCommentAlreadyPosted, by the token every completion comment carries.
LookForComment(p) ==
    /\ Is(p, "look")
    /\ \/ comments["completion"] > 0 /\ Go(p, "found") /\ UNCHANGED claim
       \/ comments["completion"] = 0 /\ Go(p, "post") /\ UNCHANGED claim
       \/ "github" \in faults /\ MarkFailed(p)
    /\ UNCHANGED <<posted, comments>>

PostComment(p) ==
    /\ Is(p, "post")
    /\ \/ Posts("completion") /\ Go(p, "found")
       \/ PostedUnheard("completion") /\ Go(p, "relook")
    /\ UNCHANGED <<claim, posted>>

LookAgain(p) ==
    /\ Is(p, "relook")
    /\ \/ comments["completion"] > 0 /\ Go(p, "found") /\ UNCHANGED claim
       \/ MarkFailed(p)
    /\ UNCHANGED <<posted, comments>>

MarkPosted(p) ==
    /\ Is(p, "mark") /\ Go(p, "clean")
    /\ claim' = [claim EXCEPT !.state = "posted"]
    /\ UNCHANGED <<posted, comments>>

Notify(p) ==
    /\ \/ NotifyRunStarted(p) \/ UpsertRunNotification(p, "start", "started", "watch")
       \/ NotifyRunFailed(p)  \/ UpsertRunNotification(p, "failure", "told", "clean")
       \/ NotifyNothing(p) \/ ClaimRunCompletionComment(p) \/ LookForComment(p)
       \/ PostComment(p) \/ LookAgain(p)
       \/ UpsertRunNotification(p, "completion", "found", "mark") \/ MarkPosted(p)
    /\ UNCHANGED <<status, cancelReq, turn, prKnown, worker, meta, row, seen>>

Serve(p) ==
    /\ \/ Claim(p) \/ PersistHandle(p) \/ Launch(p) \/ Record(p)
       \/ StopWorker(p) \/ NoticeExit(p)
       \/ BeginFinalize(p) \/ LoadMeta(p) \/ HandBack(p) \/ Settle(p)
       \/ RemoveContainer(p) \/ Finish(p)
       \/ Notify(p)
    /\ UNCHANGED <<seq, lastSeq, taskDone, taskDraft, faults, forPull, pull, output, socket,
                   up, succeeded>>

-----------------------------------------------------------------------------
(* Processes come and go, and users cancel.                                *)

Finalizing == {"ended", "load", "decide", "notify", "told", "look", "post", "relook", "found",
               "mark", "clean", "forget"}

\* Another process holds the run's lease; a finalizer's may lapse.
HeldByAnother(p) ==
    \E q \in Procs \ {p} :
        /\ up[q] = "up" /\ pc[q] # "idle"
        /\ ~("lapse" \in faults /\ pc[q] \in Finalizing)

\* recoverDetachedRun, and what is left to do for a run that was not launched.
Recover(p) ==
    \/ /\ status[Run] # "running" \/ HeldByAnother(p)
       /\ UNCHANGED <<status, row, pc, seen>>
    \/ /\ status[Run] = "running" /\ ~HeldByAnother(p) /\ ~row.there
       /\ Requeue(Run)
       /\ UNCHANGED <<row, pc, seen>>
    \/ /\ status[Run] = "running" /\ ~HeldByAnother(p) /\ row.there
       /\ seen' = [seen EXCEPT ![p] = [Unseen EXCEPT !.row = row, !.code = worker.code]]
       /\ \/ /\ At("none")
             /\ SetRunStatus(Run, "failed") /\ DeleteRunExecution /\ UNCHANGED pc
          \/ Working /\ Go(p, "watch") /\ UNCHANGED <<status, row>>
          \/ /\ At("exited")
             /\ UpdateRunExecutionState(worker.code) /\ Go(p, "ended") /\ UNCHANGED status

\* StartRunResultReporter takes the socket's path from whoever has it.
Boot(p) ==
    /\ up[p] = "unborn"
    /\ up' = [up EXCEPT ![p] = "up"]
    /\ socket' = p
    /\ Recover(p)
    /\ UNCHANGED cancelReq

Forgotten(p) ==
    /\ up' = [up EXCEPT ![p] = "gone"]
    /\ Go(p, "idle")
    /\ seen' = [seen EXCEPT ![p] = Unseen]
    /\ UNCHANGED <<status, row, cancelReq>>

Crash(p) == "crash" \in faults /\ up[p] = "up" /\ Forgotten(p) /\ UNCHANGED socket

\* A drain closes the listener, and main returns with ListenAndServe, wherever
\* the goroutines are.  StopRunResultReporter removes the path, whoever has bound
\* it meanwhile.
Leave(p) == "leave" \in faults /\ up[p] = "up" /\ Forgotten(p) /\ socket' = Nobody

Cancel ==
    /\ "cancel" \in faults /\ status[Run] = "running"
    /\ RequestRunCancel(Run)
    /\ UNCHANGED <<status, row, socket, up, pc, seen>>

Manage ==
    /\ Cancel \/ \E p \in Procs : Boot(p) \/ Crash(p) \/ Leave(p)
    /\ UNCHANGED <<seq, lastSeq, taskDone, taskDraft, faults, forPull, turn, prKnown, worker,
                   pull, meta, output, claim, posted, comments, succeeded>>

Next == Work \/ Manage \/ \E p \in Procs : Serve(p)

\* The worker comes to an end, and each process goes on with what it does;
\* nothing makes processes start, or anything fail.
FairSpec ==
    /\ Init /\ [][Next]_vars
    /\ WF_vars(Work)
    /\ \A p \in Procs : WF_vars(Serve(p))

-----------------------------------------------------------------------------
(* Properties.                                                             *)

WorkerStages == {"none", "boot", "begun", "checkedOut", "ran", "pushed", "unopened", "ready",
                 "done", "saved", "reported", "exited"}
PCs == {"idle", "claimed", "persisted", "launched", "start", "started", "watch"} \cup Finalizing

\* Type invariant of the worker, the copies of its result and the notifier.
OutcomeTypeOK ==
    /\ faults \in FaultMixes /\ forPull \in BOOLEAN /\ turn \in 0..MaxTurns
    /\ prKnown \in BOOLEAN /\ pull \in BOOLEAN
    /\ worker \in [stage : WorkerStages, result : Result, code : {0, 1}]
    /\ meta \in Result \cup {NoFile} /\ output \in {"none", "plain", "limit"}
    /\ row \in [there : BOOLEAN, reported : BOOLEAN, result : Result]
    /\ socket \in Procs \cup {Nobody}
    /\ up \in [Procs -> {"unborn", "up", "gone"}] /\ pc \in [Procs -> PCs]
    /\ seen \in [Procs -> [row : [there : BOOLEAN, reported : BOOLEAN, result : Result],
                           code : {0, 1}, result : Result, status : Statuses, pr : BOOLEAN]]
    /\ claim \in [state : {"pending", "posting", "posted", "failed"}, by : Procs \cup {Nobody}]
    /\ posted \subseteq Kinds
    /\ comments \in [Kinds -> Nat]
    /\ succeeded \subseteq 1..MaxTurns

Settles == status[Run] = "running" /\ status'[Run] \in Final

\* A run is closed as a success only if the worker of this very execution came
\* through all its stages: whatever meta.json an earlier execution left, however
\* the worker was killed, and whichever copy of the result was lost.
SuccessIsEarned ==
    [][Settles /\ status'[Run] \in {"review", "succeeded"} => turn \in succeeded]_vars

\* One copy of the result is enough: a success closes as a success unless both
\* the report and the file were lost, and in review, with the pull request its
\* worker knew of, unless all that is left is what the exit code tells.
OneCopyIsEnough ==
    [][Settles /\ turn \in succeeded /\ worker.code = 0 /\ At("exited")
       /\ (row.reported \/ meta \notin {NoFile, Unfinished})
        => /\ status'[Run] \in {"review", "succeeded"}
           /\ worker.result.pr => \/ status'[Run] = "review" /\ prKnown'
                                  \/ ~row.reported /\ meta = [ok |-> TRUE, pr |-> FALSE]]_vars

\* However many processes finalize the run, die at it, or are told by GitHub
\* that a comment failed that did not, it gets one completion comment at most,
\* and it has got each comment that is on record as posted.
CommentedOnce ==
    /\ comments["completion"] <= 1
    /\ \A k \in posted : comments[k] > 0
    /\ claim.state = "posted" => comments["completion"] = 1

\* As long as nothing fails, a run that answers a comment and succeeds does
\* answer it.
CommentsAreAnswered ==
    faults = {} /\ forPull /\ status[Run] \in {"review", "succeeded"} ~> comments["completion"] = 1

\* "Cancellation should explain a stopped execution, but it should not overwrite
\* a successful terminal result that raced with the request."
SuccessIsKept ==
    [][Settles /\ turn \in succeeded /\ row.reported => status'[Run] # "canceled"]_vars

\* The outcome is written to the store as the store's specification allows.
OutcomeImplementsStore == [][StoreNext]_storeVars
=============================================================================
