------------------------- MODULE WebhookTasksProofs -------------------------
(***************************************************************************)
(* WebhookTasks uses the store as RunStore specifies it, for any sets of   *)
(* runs, tasks, handlers, threads and commits and any bound on the events: *)
(* every step is one operation of the store or none.  What RunStoreProofs  *)
(* shows of the store therefore holds beside concurrent events.            *)
(*                                                                         *)
(* The second half is about the handlers themselves, whatever they do to   *)
(* each other: who withdraws work misses no run, drafts stop work, and     *)
(* threads that are resolved leave no run waiting for review.  That rests  *)
(* on the order of the steps in every plan the interpreter makes, and on   *)
(* what a handler at each of them has made sure of.                        *)
(***************************************************************************)
EXTENDS WebhookTasks, RunStoreProofs, SequenceTheorems

\* The runs that were added, which can be asked to stop.
Added == {r \in Runs : status[r] # "absent"}

\* What a handler must know for its writes to be operations of the store: the
\* task of its event, and that the runs it listed exist.
JobShape(j, rows) ==
    /\ {"event", "plan", "left"} \subseteq DOMAIN j
    /\ j.plan # <<>> => j.event.task \in Tasks
    /\ j.left \subseteq rows

JobsShape(jobs, rows) ==
    /\ jobs = [h \in Handlers |-> jobs[h]]
    /\ \A h \in Handlers : JobShape(jobs[h], rows)

TasksInv == StoreTypeOK /\ JobsShape(job, Added)

LEMMA IdleShape == ASSUME NEW rows PROVE JobShape(Idle, rows)
  BY DEF Idle, JobShape

LEMMA AdvanceShape ==
    ASSUME NEW rows, JobsShape(job, rows), NEW h \in Handlers, NEW j,
           JobShape(j, rows), j.event.task \in Tasks, Advance(h, j)
    PROVE  JobsShape(job', rows)
<1> DEFINE plan == Tail(j.plan)
           rest == [j EXCEPT !.plan = plan,
                             !.before = IF Range(plan) \cap Withdrawal = {} THEN {} ELSE @]
           next == IF plan = <<>> THEN Idle ELSE rest
<1>1. job' = [job EXCEPT ![h] = next]
    BY DEF Advance
<1>2. JobShape(rest, rows)
    BY DEF JobShape
<1>3. JobShape(next, rows)
    BY <1>2, IdleShape
<1> HIDE DEF next
<1> QED BY <1>1, <1>3 DEF JobsShape

LEMMA LoopShape ==
    ASSUME NEW rows, JobsShape(job, rows), NEW h \in Handlers, NEW j,
           JobShape(j, rows), j.event.task \in Tasks,
           NEW left \in SUBSET rows, Loop(h, j, left)
    PROVE  JobsShape(job', rows)
<1>1. /\ JobShape([j EXCEPT !.plan = Tail(@)], rows)
      /\ [j EXCEPT !.plan = Tail(@)].event.task \in Tasks
      /\ JobShape([j EXCEPT !.left = left], rows)
      /\ [j EXCEPT !.left = left].event.task \in Tasks
    BY DEF JobShape
<1> QED BY <1>1, AdvanceShape DEF Loop

LEMMA GoOnShape ==
    ASSUME NEW rows, JobsShape(job, rows), NEW h \in Handlers,
           TaskFor(h) \in Tasks, NEW found, GoOnIf(h, found)
    PROVE  JobsShape(job', rows)
  BY AdvanceShape, IdleShape DEF GoOnIf, JobsShape, TaskFor

LEMMA EachLeftShape ==
    ASSUME NEW rows, JobsShape(job, rows), NEW h \in Handlers,
           TaskFor(h) \in Tasks, NEW r, EachLeft(h, r)
    PROVE  JobsShape(job', rows)
<1>1. JobShape(job[h], rows) /\ job[h].event.task \in Tasks
    BY DEF JobsShape, TaskFor
<1>2. CASE job[h].left = {r}
  <2>1. /\ JobShape([job[h] EXCEPT !.left = {}], rows)
        /\ [job[h] EXCEPT !.left = {}].event.task \in Tasks
      BY <1>1 DEF JobShape
  <2> QED BY <1>2, <2>1, AdvanceShape DEF EachLeft
<1>3. CASE job[h].left # {r}
  <2>1. JobShape([job[h] EXCEPT !.left = @ \ {r}], rows)
      BY <1>1 DEF JobShape
  <2>2. job' = [job EXCEPT ![h] = [job[h] EXCEPT !.left = @ \ {r}]]
      BY <1>3 DEF EachLeft
  <2> QED BY <2>1, <2>2 DEF JobsShape
<1> QED BY <1>2, <1>3

\* A handler with a step to take handles an event of a task.
LEMMA DoingHasTask ==
    ASSUME NEW rows, JobsShape(job, rows), NEW h \in Handlers, NEW step, Doing(h, step)
    PROVE  TaskFor(h) \in Tasks /\ JobShape(job[h], rows)
  BY DEF JobsShape, JobShape, Doing, TaskFor

-----------------------------------------------------------------------------
(* The steps of the handlers.                                              *)

LEMMA EventShape ==
    ASSUME TasksInv, NEW h \in Handlers, NEW t \in Tasks, Event(h, t)
    PROVE  JobsShape(job', Added)
<1>1. PICK kind, about : job' = [job EXCEPT ![h] =
                      [Idle EXCEPT !.event = [kind |-> kind, task |-> t, about |-> about],
                                   !.plan = Interpret(kind)]]
    BY DEF Event
<1> DEFINE j == [Idle EXCEPT !.event = [kind |-> kind, task |-> t, about |-> about],
                             !.plan = Interpret(kind)]
<1>2. JobShape(j, Added)
    BY DEF JobShape, Idle
<1> HIDE DEF j
<1> QED BY <1>1, <1>2 DEF TasksInv, JobsShape, j

LEMMA ReadShape ==
    ASSUME TasksInv, NEW h \in Handlers, Read(h)
    PROVE  JobsShape(job', Added)
<1> USE DEF TasksInv
<1>1. CASE FindTask(h) \/ TaskIdle(h) \/ FreshCommit(h) \/ CheckOpen(h) \/ RuntimeFromIssueLabels(h) \/ NoPRRuns(h)
    BY <1>1, DoingHasTask, GoOnShape DEF FindTask, TaskIdle, FreshCommit, CheckOpen, RuntimeFromIssueLabels, NoPRRuns
<1>2. CASE ActiveTask(h)
  <2>1. TaskFor(h) \in Tasks /\ JobShape(job[h], Added)
      BY <1>2, DoingHasTask DEF ActiveTask
  <2>2. ASSUME NEW withPR, NEW prStatus,
               Advance(h, [job[h] EXCEPT !.withPR = withPR, !.prStatus = prStatus])
        PROVE  JobsShape(job', Added)
    <3>1. /\ JobShape([job[h] EXCEPT !.withPR = withPR, !.prStatus = prStatus], Added)
          /\ [job[h] EXCEPT !.withPR = withPR, !.prStatus = prStatus].event.task \in Tasks
        BY <2>1 DEF JobShape, TaskFor
    <3> QED BY <2>2, <3>1, AdvanceShape
  <2> QED BY <1>2, <2>1, <2>2, GoOnShape DEF ActiveTask
<1>3. CASE ContinueTask(h)
  <2>1. TaskFor(h) \in Tasks /\ JobShape(job[h], Added)
      BY <1>3, DoingHasTask DEF ContinueTask
  <2>2. ASSUME NEW plan,
               Advance(h, [job[h] EXCEPT !.plan = plan, !.withPR = TRUE, !.prStatus = "open"])
        PROVE  JobsShape(job', Added)
    <3>1. /\ JobShape([job[h] EXCEPT !.plan = plan, !.withPR = TRUE, !.prStatus = "open"], Added)
          /\ [job[h] EXCEPT !.plan = plan, !.withPR = TRUE,
                             !.prStatus = "open"].event.task \in Tasks
        BY <2>1 DEF JobShape, TaskFor
    <3> QED BY <2>2, <3>1, AdvanceShape
  <2> QED BY <1>3, <2>1, <2>2, GoOnShape DEF ContinueTask
<1>4. CASE CopySource(h)
  <2>1. TaskFor(h) \in Tasks /\ JobShape(job[h], Added)
      BY <1>4, DoingHasTask DEF CopySource
  <2>2. ASSUME NEW withPR, NEW prStatus,
               Advance(h, [job[h] EXCEPT !.withPR = withPR, !.prStatus = prStatus])
        PROVE  JobsShape(job', Added)
    <3>1. /\ JobShape([job[h] EXCEPT !.withPR = withPR, !.prStatus = prStatus], Added)
          /\ [job[h] EXCEPT !.withPR = withPR, !.prStatus = prStatus].event.task \in Tasks
        BY <2>1 DEF JobShape, TaskFor
    <3> QED BY <2>2, <3>1, AdvanceShape
  <2> QED BY <1>4, <2>2 DEF CopySource
<1>5. CASE ListRunning(h)
  <2>1. TaskFor(h) \in Tasks /\ JobShape(job[h], Added)
      BY <1>5, DoingHasTask DEF ListRunning
  <2>2. JobShape(Beginning(h, "sweep"), Added) /\ Beginning(h, "sweep").event.task \in Tasks
      BY <2>1 DEF Beginning, JobShape, TaskFor
  <2>3. Running(TaskFor(h)) \in SUBSET Added
      BY DEF Running, Of, Added
  <2> QED BY <1>5, <2>2, <2>3, LoopShape DEF ListRunning
<1>6. CASE ListThreadRuns(h)
  <2> DEFINE waiting == {r \in Of(TaskFor(h)) : /\ status[r] = "queued" /\ HasPR(r)
                                                /\ info[r].trigger = "unresolved"}
             mine    == {r \in waiting : info[r].thread = job[h].event.about}
  <2>1. TaskFor(h) \in Tasks /\ JobShape(job[h], Added)
      BY <1>6, DoingHasTask DEF ListThreadRuns
  <2>2. waiting \in SUBSET Added
      BY DEF Of, Added
  <2>3. Loop(h, [job[h] EXCEPT !.before = mine], waiting)
      BY <1>6 DEF ListThreadRuns
  <2> HIDE DEF waiting, mine
  <2>4. /\ JobShape([job[h] EXCEPT !.before = mine], Added)
        /\ [job[h] EXCEPT !.before = mine].event.task \in Tasks
      BY <2>1 DEF JobShape, TaskFor
  <2> QED BY <2>2, <2>3, <2>4, LoopShape
<1>7. CASE ListPRRuns(h)
  <2> DEFINE ofPR == {r \in Of(TaskFor(h)) \cap Rows : HasPR(r)}
             skip == {r \in ofPR : job[h].event.kind # "merged" /\ info[r].prStatus = "merged"}
             review == {r \in ofPR \ skip : status[r] = "review"}
             left == ofPR \ skip
  <2>1. TaskFor(h) \in Tasks /\ JobShape(job[h], Added)
      BY <1>7, DoingHasTask DEF ListPRRuns
  <2>2. left \in SUBSET Added
      BY DEF Of, Rows, Added
  <2>3. Loop(h, [job[h] EXCEPT !.review = review], left)
      BY <1>7 DEF ListPRRuns
  <2> HIDE DEF left, review
  <2>4. /\ JobShape([job[h] EXCEPT !.review = review], Added)
        /\ [job[h] EXCEPT !.review = review].event.task \in Tasks
      BY <2>1 DEF JobShape, TaskFor
  <2> QED BY <2>2, <2>3, <2>4, LoopShape
<1> QED BY <1>1, <1>2, <1>3, <1>4, <1>5, <1>6, <1>7 DEF Read

-----------------------------------------------------------------------------
(* The steps that write.                                                   *)

LEMMA WriteTaskStep ==
    ASSUME TasksInv, NEW h \in Handlers, WriteTask(h)
    PROVE  StoreNext /\ JobsShape(job', Added)
<1>1. /\ TaskFor(h) \in Tasks
      /\ JobShape(job[h], Added)
      /\ Advance(h, job[h])
    BY DoingHasTask DEF TasksInv, WriteTask, CompleteTask, OpenTask, SetDraft
<1>2. JobsShape(job', Added)
    BY <1>1, AdvanceShape DEF TasksInv, TaskFor
<1>3. FlagOp
    BY <1>1 DEF WriteTask, CompleteTask, OpenTask, SetDraft, FlagOp
<1> QED BY <1>2, <1>3 DEF StoreNext

LEMMA WriteRunStep ==
    ASSUME TasksInv, NEW h \in Handlers, WriteRun(h)
    PROVE  (StoreNext \/ UNCHANGED storeVars) /\ JobsShape(job', Added)
<1> USE DEF TasksInv
<1>1. CASE AddTaskRun(h)
  <2>1. TaskFor(h) \in Tasks /\ JobShape(job[h], Added)
      BY <1>1, DoingHasTask DEF AddTaskRun
  <2>2. PICK r \in Runs : AddRun(r) /\ Advance(h, [job[h] EXCEPT !.run = r])
      BY <1>1 DEF AddTaskRun, Of
  <2>3. /\ JobShape([job[h] EXCEPT !.run = r], Added)
        /\ [job[h] EXCEPT !.run = r].event.task \in Tasks
      BY <2>1 DEF JobShape, TaskFor
  <2>4. JobsShape(job', Added)
      BY <2>2, <2>3, AdvanceShape
  <2> QED BY <1>1, <2>2, <2>4 DEF AddTaskRun, StoreNext
<1>2. CASE WriteTarget(h) \/ WriteHeadSHA(h)
  <2>1. TaskFor(h) \in Tasks /\ JobShape(job[h], Added)
      BY <1>2, DoingHasTask DEF WriteTarget, WriteHeadSHA
  <2>2. Advance(h, job[h]) /\ UNCHANGED storeVars
      BY <1>2 DEF WriteTarget, WriteHeadSHA
  <2> QED BY <2>1, <2>2, AdvanceShape DEF TaskFor
<1>3. CASE SweepQueued(h)
  <2>1. TaskFor(h) \in Tasks /\ JobShape(job[h], Added)
      BY <1>3, DoingHasTask DEF SweepQueued
  <2>2. JobShape(Beginning(h, "list"), Added) /\ Beginning(h, "list").event.task \in Tasks
      BY <2>1 DEF Beginning, JobShape, TaskFor
  <2>3. JobsShape(job', Added)
      BY <1>3, <2>2, AdvanceShape DEF SweepQueued
  <2>4. StatusOp
      BY <1>3, <2>1 DEF SweepQueued, StatusOp, StatusWrite
  <2> QED BY <2>3, <2>4 DEF StoreNext
<1>4. ASSUME NEW r \in Runs, AskToStop(h, r)
      PROVE  StoreNext /\ JobsShape(job', Added)
  <2>1. TaskFor(h) \in Tasks /\ JobShape(job[h], Added)
      BY <1>4, DoingHasTask DEF AskToStop
  <2>2. JobsShape(job', Added)
      BY <1>4, <2>1, EachLeftShape DEF AskToStop
  <2>3. status[r] # "absent"
      BY <1>4, <2>1 DEF AskToStop, Next1, JobShape, Added
  <2>4. FlagOp
      BY <1>4, <2>3 DEF AskToStop, FlagOp
  <2> QED BY <2>2, <2>4 DEF StoreNext
<1>5. ASSUME NEW r \in Runs, DropThreadRun(h, r)
      PROVE  (StoreNext \/ UNCHANGED storeVars) /\ JobsShape(job', Added)
  <2>1. TaskFor(h) \in Tasks
      BY <1>5, DoingHasTask DEF DropThreadRun
  <2>2. JobsShape(job', Added)
      BY <1>5, <2>1, EachLeftShape DEF DropThreadRun
  <2>3. CASE r \in Droppable(h) /\ CanTransition(r, "canceled")
    <3>1. SetRunStatus(r, "canceled") /\ "canceled" \in Final
        BY <1>5, <2>3 DEF DropThreadRun, SetRunStatus, Final
    <3>2. StatusOp
        BY <1>5, <3>1 DEF DropThreadRun, StatusOp, StatusWrite
    <3> QED BY <2>2, <3>2 DEF StoreNext
  <2>4. CASE ~(r \in Droppable(h) /\ CanTransition(r, "canceled"))
      BY <1>5, <2>2, <2>4 DEF DropThreadRun, storeVars
  <2> QED BY <2>3, <2>4
<1>6. ASSUME NEW r \in Runs, ReconcileClosed(h, r)
      PROVE  (StoreNext \/ UNCHANGED storeVars) /\ JobsShape(job', Added)
  <2>1. TaskFor(h) \in Tasks
      BY <1>6, DoingHasTask DEF ReconcileClosed
  <2>2. JobsShape(job', Added)
      BY <1>6, <2>1, EachLeftShape DEF ReconcileClosed
  <2>3. PICK to \in Final : \E prStatus : Resolve(r, to, prStatus) \/ NoteOnly(r, prStatus)
      BY <1>6 DEF ReconcileClosed, Final
  <2>4. SetRunStatus(r, to) \/ UNCHANGED status
      BY <2>3 DEF Resolve, NoteOnly
  <2>5. StatusOp \/ UNCHANGED storeVars
      BY <1>6, <2>4 DEF ReconcileClosed, StatusOp, StatusWrite, storeVars
  <2> QED BY <2>2, <2>5 DEF StoreNext
<1>7. ASSUME NEW r \in Runs, ReconcileReopened(h, r)
      PROVE  UNCHANGED storeVars /\ JobsShape(job', Added)
    BY <1>7, DoingHasTask, EachLeftShape DEF ReconcileReopened
<1> QED BY <1>1, <1>2, <1>3, <1>4, <1>5, <1>6, <1>7 DEF WriteRun

LEMMA ExecuteStep ==
    ASSUME TasksInv, NEW r \in Runs, Execute(r)
    PROVE  (StoreNext \/ UNCHANGED storeVars) /\ UNCHANGED job
<1>1. CASE Claim(r)
  <2>1. StatusWrite
      BY <1>1 DEF Claim, StatusWrite, Final
  <2> QED BY <1>1, <2>1 DEF Claim, StatusOp, StoreNext, Execute
<1>2. CASE OpenPull(r)
    BY <1>2 DEF OpenPull, Execute
<1>3. CASE Settle(r)
  <2>1. ASSUME SettleOk(r) \/ SettleFailed(r) \/ SettleLimited(r)
        PROVE  StatusWrite
      BY <2>1 DEF SettleOk, SettleFailed, SettleLimited, StatusWrite, Final
  <2>2. StatusWrite \/ UNCHANGED status
      BY <1>3, <2>1 DEF Settle
  <2> QED BY <1>3, <2>2 DEF Settle, StatusOp, StoreNext, storeVars, Execute
<1>4. CASE FinishRun(r)
  <2>1. CASE phase[r] = "ending"
    <3>1. status[r] \in Final => status[r] # "absent"
        BY DEF Final
    <3>2. FlagOp \/ UNCHANGED storeVars
        BY <1>4, <2>1, <3>1 DEF FinishRun, FlagOp, storeVars
    <3> QED BY <3>2 DEF StoreNext, Execute
  <2>2. CASE phase[r] # "ending"
    <3>1. TaskOf[r] \in Tasks
        BY StoreConstants
    <3>2. StatusOp \/ UNCHANGED storeVars
        BY <1>4, <2>2, <3>1 DEF FinishRun, StatusOp, StatusWrite, storeVars
    <3> QED BY <3>2 DEF StoreNext, Execute
  <2> QED BY <2>1, <2>2
<1> QED BY <1>1, <1>2, <1>3, <1>4 DEF Execute

-----------------------------------------------------------------------------

\* Runs, once added, stay so.
LEMMA AddedGrows ==
    ASSUME StoreTypeOK, [StoreNext]_storeVars
    PROVE  Added \subseteq Added'
<1>1. ASSUME NEW r \in Runs, AddRun(r)
      PROVE  Added \subseteq Added'
    BY <1>1 DEF AddRun, Added
<1>2. CASE StatusOp \/ FlagOp \/ UNCHANGED storeVars
    BY <1>2, OnlyAddRunMovesRows DEF StableRows, KeepsRows, Added
<1> QED BY <1>1, <1>2 DEF StoreNext

LEMMA TasksStep ==
    ASSUME TasksInv, [Next]_vars
    PROVE  [StoreNext]_storeVars /\ TasksInv'
<1>1. [StoreNext]_storeVars /\ JobsShape(job', Added)
  <2>1. ASSUME NEW h \in Handlers, NEW t \in Tasks, Event(h, t)
        PROVE  UNCHANGED storeVars /\ JobsShape(job', Added)
      BY <2>1, EventShape DEF Event
  <2>2. ASSUME NEW h \in Handlers, Read(h)
        PROVE  UNCHANGED storeVars /\ JobsShape(job', Added)
      BY <2>2, ReadShape DEF Read
  <2>3. ASSUME NEW t \in Tasks, LostEvent(t)
        PROVE  UNCHANGED storeVars /\ UNCHANGED job
      BY <2>3 DEF LostEvent
  <2>4. CASE UNCHANGED vars
      BY <2>4 DEF vars, TasksInv
  <2> QED BY <2>1, <2>2, <2>3, <2>4, WriteTaskStep, WriteRunStep, ExecuteStep
          DEF Next, TasksInv
<1>2. StoreTypeOK'
    BY <1>1, TypeStep DEF TasksInv
<1>3. Added \subseteq Added'
    BY <1>1, AddedGrows DEF TasksInv
<1>4. JobsShape(job', Added')
    BY <1>1, <1>3 DEF JobsShape, JobShape
<1> QED BY <1>1, <1>2, <1>4 DEF TasksInv

LEMMA TasksInit == Init => StoreInit /\ TasksInv
<1> SUFFICES ASSUME Init PROVE JobsShape(job, Added) /\ StoreInit
    BY TypeInit DEF TasksInv
<1> QED BY IdleShape DEF Init, JobsShape

\* Events and runs use the store as its specification says, however many
\* handlers handle however many events of any kinds at once.
THEOREM TasksUseStore == Spec => TasksImplementStore
  BY TasksInit, TasksStep, PTL DEF Spec, StoreSpec, TasksImplementStore

\* So the work of one task stays serial beside any mix of events: no sweep,
\* reconciliation or late withdrawal lets two of its runs be running.
THEOREM TasksStaySerial == Spec => []OneRunningPerTask
  BY TasksUseStore, OneRunning, PTL DEF TasksImplementStore

-----------------------------------------------------------------------------
(* What a plan looks like.                                                *)

\* The names of the steps.
StepNames ==
    {"sweep", "list", "ask", "check", "add", "target", "idle", "complete", "open", "active",
     "fresh", "sha", "find", "threads", "drop", "runs", "merge", "close", "reopen", "continue",
     "hold", "release", "copy"}

StepShape(plan, i) ==
    /\ plan[i] \in {"sweep", "hold"} => i < Len(plan) /\ plan[i + 1] = "list"
    /\ plan[i] = "list"    => i < Len(plan) /\ plan[i + 1] = "ask"
    /\ plan[i] = "threads" => i < Len(plan) /\ plan[i + 1] = "drop"
    /\ plan[i] = "runs"    => i < Len(plan) /\ plan[i + 1] \in {"merge", "close", "reopen"}
    /\ plan[i] \in {"merge", "close"} /\ i > 1 => plan[i - 1] = "runs"
    /\ plan[i] \in {"merge", "close", "reopen"} => i = Len(plan)
    /\ plan[i] = "target" => i = Len(plan) /\ (i > 1 => plan[i - 1] = "add")
    /\ plan[i] \in {"ask", "drop"} =>
           \A k \in 1..Len(plan) : k > i => plan[k] \notin Withdrawal

PlanShape(plan) ==
    /\ plan \in Seq(StepNames)
    /\ \A i \in 1..Len(plan) : StepShape(plan, i)

LEMMA Joined ==
    ASSUME NEW S, NEW s \in Seq(S), NEW t \in Seq(S), NEW u \in Seq(S),
           Len(u) = Len(s) + Len(t),
           \A i \in 1..Len(s) : u[i] = s[i],
           \A i \in 1..Len(t) : u[Len(s) + i] = t[i]
    PROVE  s \o t = u
<1> DEFINE c == s \o t
<1>1. /\ c \in Seq(S) /\ Len(c) = Len(u)
      /\ \A i \in 1..Len(u) : c[i] = IF i <= Len(s) THEN s[i] ELSE t[i - Len(s)]
    BY ConcatProperties
<1> HIDE DEF c
<1>2. \A i \in 1..Len(u) : c[i] = u[i]
  <2> TAKE i \in 1..Len(u)
  <2>1. CASE i <= Len(s)
      BY <1>1, <2>1
  <2>2. CASE ~(i <= Len(s))
    <3> DEFINE k == i - Len(s)
    <3>1. k \in 1..Len(t) /\ i = Len(s) + k
        BY <2>2
    <3> QED BY <1>1, <2>2, <3>1
  <2> QED BY <2>1, <2>2
<1> QED BY <1>1, <1>2, SeqEqual DEF c

LEMMA Join12 ==
    ASSUME NEW a, NEW b, NEW c
    PROVE  <<a>> \o <<b, c>> = <<a, b, c>>
<1> DEFINE S == {a, b, c}
<1>1. <<a>> \in Seq(S) /\ <<b, c>> \in Seq(S) /\ <<a, b, c>> \in Seq(S)
    OBVIOUS
<1>2. /\ \A i \in 1..Len(<<a>>) : <<a, b, c>>[i] = <<a>>[i]
      /\ \A i \in 1..Len(<<b, c>>) : <<a, b, c>>[Len(<<a>>) + i] = <<b, c>>[i]
      /\ Len(<<a, b, c>>) = Len(<<a>>) + Len(<<b, c>>)
    OBVIOUS
<1> QED BY <1>1, <1>2, Joined, Zenon

LEMMA Join13 ==
    ASSUME NEW a, NEW b, NEW c, NEW d
    PROVE  <<a>> \o <<b, c, d>> = <<a, b, c, d>>
<1> DEFINE S == {a, b, c, d}
<1>1. <<a>> \in Seq(S) /\ <<b, c, d>> \in Seq(S) /\ <<a, b, c, d>> \in Seq(S)
    OBVIOUS
<1>2. /\ \A i \in 1..Len(<<a>>) : <<a, b, c, d>>[i] = <<a>>[i]
      /\ \A i \in 1..Len(<<b, c, d>>) : <<a, b, c, d>>[Len(<<a>>) + i] = <<b, c, d>>[i]
      /\ Len(<<a, b, c, d>>) = Len(<<a>>) + Len(<<b, c, d>>)
    OBVIOUS
<1> QED BY <1>1, <1>2, Joined, Zenon

LEMMA Join21 ==
    ASSUME NEW a, NEW b, NEW c
    PROVE  <<a, b>> \o <<c>> = <<a, b, c>>
<1> DEFINE S == {a, b, c}
<1>1. <<a, b>> \in Seq(S) /\ <<c>> \in Seq(S) /\ <<a, b, c>> \in Seq(S)
    OBVIOUS
<1>2. /\ \A i \in 1..Len(<<a, b>>) : <<a, b, c>>[i] = <<a, b>>[i]
      /\ \A i \in 1..Len(<<c>>) : <<a, b, c>>[Len(<<a, b>>) + i] = <<c>>[i]
      /\ Len(<<a, b, c>>) = Len(<<a, b>>) + Len(<<c>>)
    OBVIOUS
<1> QED BY <1>1, <1>2, Joined, Zenon

LEMMA Join23 ==
    ASSUME NEW a, NEW b, NEW c, NEW d, NEW e
    PROVE  <<a, b>> \o <<c, d, e>> = <<a, b, c, d, e>>
<1> DEFINE S == {a, b, c, d, e}
<1>1. <<a, b>> \in Seq(S) /\ <<c, d, e>> \in Seq(S) /\ <<a, b, c, d, e>> \in Seq(S)
    OBVIOUS
<1>2. /\ \A i \in 1..Len(<<a, b>>) : <<a, b, c, d, e>>[i] = <<a, b>>[i]
      /\ \A i \in 1..Len(<<c, d, e>>) : <<a, b, c, d, e>>[Len(<<a, b>>) + i] = <<c, d, e>>[i]
      /\ Len(<<a, b, c, d, e>>) = Len(<<a, b>>) + Len(<<c, d, e>>)
    OBVIOUS
<1> QED BY <1>1, <1>2, Joined, Zenon

LEMMA Join31 ==
    ASSUME NEW a, NEW b, NEW c, NEW d
    PROVE  <<a, b, c>> \o <<d>> = <<a, b, c, d>>
<1> DEFINE S == {a, b, c, d}
<1>1. <<a, b, c>> \in Seq(S) /\ <<d>> \in Seq(S) /\ <<a, b, c, d>> \in Seq(S)
    OBVIOUS
<1>2. /\ \A i \in 1..Len(<<a, b, c>>) : <<a, b, c, d>>[i] = <<a, b, c>>[i]
      /\ \A i \in 1..Len(<<d>>) : <<a, b, c, d>>[Len(<<a, b, c>>) + i] = <<d>>[i]
      /\ Len(<<a, b, c, d>>) = Len(<<a, b, c>>) + Len(<<d>>)
    OBVIOUS
<1> QED BY <1>1, <1>2, Joined, Zenon

LEMMA Join32 ==
    ASSUME NEW a, NEW b, NEW c, NEW d, NEW e
    PROVE  <<a, b, c>> \o <<d, e>> = <<a, b, c, d, e>>
<1> DEFINE S == {a, b, c, d, e}
<1>1. <<a, b, c>> \in Seq(S) /\ <<d, e>> \in Seq(S) /\ <<a, b, c, d, e>> \in Seq(S)
    OBVIOUS
<1>2. /\ \A i \in 1..Len(<<a, b, c>>) : <<a, b, c, d, e>>[i] = <<a, b, c>>[i]
      /\ \A i \in 1..Len(<<d, e>>) : <<a, b, c, d, e>>[Len(<<a, b, c>>) + i] = <<d, e>>[i]
      /\ Len(<<a, b, c, d, e>>) = Len(<<a, b, c>>) + Len(<<d, e>>)
    OBVIOUS
<1> QED BY <1>1, <1>2, Joined, Zenon

LEMMA Join42 ==
    ASSUME NEW a, NEW b, NEW c, NEW d, NEW e, NEW f
    PROVE  <<a, b, c, d>> \o <<e, f>> = <<a, b, c, d, e, f>>
<1> DEFINE S == {a, b, c, d, e, f}
<1>1. <<a, b, c, d>> \in Seq(S) /\ <<e, f>> \in Seq(S) /\ <<a, b, c, d, e, f>> \in Seq(S)
    OBVIOUS
<1>2. /\ \A i \in 1..Len(<<a, b, c, d>>) : <<a, b, c, d, e, f>>[i] = <<a, b, c, d>>[i]
      /\ \A i \in 1..Len(<<e, f>>) : <<a, b, c, d, e, f>>[Len(<<a, b, c, d>>) + i] = <<e, f>>[i]
      /\ Len(<<a, b, c, d, e, f>>) = Len(<<a, b, c, d>>) + Len(<<e, f>>)
    OBVIOUS
<1> QED BY <1>1, <1>2, Joined, Zenon

LEMMA Join51 ==
    ASSUME NEW a, NEW b, NEW c, NEW d, NEW e, NEW f
    PROVE  <<a, b, c, d, e>> \o <<f>> = <<a, b, c, d, e, f>>
<1> DEFINE S == {a, b, c, d, e, f}
<1>1. <<a, b, c, d, e>> \in Seq(S) /\ <<f>> \in Seq(S) /\ <<a, b, c, d, e, f>> \in Seq(S)
    OBVIOUS
<1>2. /\ \A i \in 1..Len(<<a, b, c, d, e>>) : <<a, b, c, d, e, f>>[i] = <<a, b, c, d, e>>[i]
      /\ \A i \in 1..Len(<<f>>) : <<a, b, c, d, e, f>>[Len(<<a, b, c, d, e>>) + i] = <<f>>[i]
      /\ Len(<<a, b, c, d, e, f>>) = Len(<<a, b, c, d, e>>) + Len(<<f>>)
    OBVIOUS
<1> QED BY <1>1, <1>2, Joined, Zenon

LEMMA Join52 ==
    ASSUME NEW a, NEW b, NEW c, NEW d, NEW e, NEW f, NEW g
    PROVE  <<a, b, c, d, e>> \o <<f, g>> = <<a, b, c, d, e, f, g>>
<1> DEFINE S == {a, b, c, d, e, f, g}
<1>1. <<a, b, c, d, e>> \in Seq(S) /\ <<f, g>> \in Seq(S) /\ <<a, b, c, d, e, f, g>> \in Seq(S)
    OBVIOUS
<1>2. /\ \A i \in 1..Len(<<a, b, c, d, e>>) : <<a, b, c, d, e, f, g>>[i] = <<a, b, c, d, e>>[i]
      /\ \A i \in 1..Len(<<f, g>>) :
             <<a, b, c, d, e, f, g>>[Len(<<a, b, c, d, e>>) + i] = <<f, g>>[i]
      /\ Len(<<a, b, c, d, e, f, g>>) = Len(<<a, b, c, d, e>>) + Len(<<f, g>>)
    OBVIOUS
<1> QED BY <1>1, <1>2, Joined, Zenon

\* The plan an event or request starts with.
StartsWell(plan, kind) ==
    /\ PlanShape(plan)
    /\ plan # <<>> /\ Head(plan) \notin {"target", "merge", "close"}
    /\ \A i \in 1..Len(plan) : /\ plan[i] = "hold" => kind = "draft"
                               /\ plan[i] = "drop" => kind = "resolved"

LEMMA IssuePlans ==
    ASSUME NEW kind \in IssueKinds
    PROVE  StartsWell(InterpretIssues(kind), kind)
<1>1. <<>> \o <<"check", "add">> = <<"check", "add">>
  <2>1. <<"check", "add">> \in Seq(StepNames)
      BY DEF StepNames
  <2> QED BY <2>1, ConcatEmptySeq
<1>2. StartsWell(InterpretIssues("labeled"), "labeled")
  <2>1. InterpretIssues("labeled") = <<"idle", "check", "add">>
      BY Join12 DEF InterpretIssues, CreateIssueRun, CreateRun
  <2>2. StartsWell(<<"idle", "check", "add">>, "labeled")
      BY DEF StartsWell, PlanShape, StepShape, Withdrawal, StepNames
  <2> QED BY <2>1, <2>2
<1>3. StartsWell(InterpretIssues("unlabeled"), "unlabeled")
  <2>1. InterpretIssues("unlabeled") = <<"sweep", "list", "ask">>
      BY DEF InterpretIssues, CancelTaskRuns
  <2>2. StartsWell(<<"sweep", "list", "ask">>, "unlabeled")
      BY DEF StartsWell, PlanShape, StepShape, Withdrawal, StepNames
  <2> QED BY <2>1, <2>2
<1>4. StartsWell(InterpretIssues("edited"), "edited")
  <2>1. InterpretIssues("edited") = <<"sweep", "list", "ask", "check", "add">>
      BY <1>1, Join32 DEF InterpretIssues, CancelTaskRuns, CreateIssueRun, CreateRun
  <2>2. StartsWell(<<"sweep", "list", "ask", "check", "add">>, "edited")
      BY DEF StartsWell, PlanShape, StepShape, Withdrawal, StepNames
  <2> QED BY <2>1, <2>2
<1>5. StartsWell(InterpretIssues("issueClosed"), "issueClosed")
  <2>1. InterpretIssues("issueClosed") = <<"complete", "sweep", "list", "ask">>
      BY Join13 DEF InterpretIssues, CompleteIssueTask, CancelTaskRuns
  <2>2. StartsWell(<<"complete", "sweep", "list", "ask">>, "issueClosed")
      BY DEF StartsWell, PlanShape, StepShape, Withdrawal, StepNames
  <2> QED BY <2>1, <2>2
<1>6. StartsWell(InterpretIssues("issueReopened"), "issueReopened")
  <2>1. InterpretIssues("issueReopened") = <<"open", "check", "add">>
      BY <1>1, Join12 DEF InterpretIssues, ReopenIssueTask, CreateIssueRun, CreateRun
  <2>2. StartsWell(<<"open", "check", "add">>, "issueReopened")
      BY DEF StartsWell, PlanShape, StepShape, Withdrawal, StepNames
  <2> QED BY <2>1, <2>2
<1> QED BY <1>2, <1>3, <1>4, <1>5, <1>6 DEF IssueKinds

LEMMA PullPlans ==
    ASSUME NEW kind \in {"merged", "prClosed", "prReopened", "synchronize", "draft", "ready"}
    PROVE  StartsWell(InterpretPullRequest(kind), kind)
<1>1. StartsWell(InterpretPullRequest("merged"), "merged")
  <2>1a. <<"find", "complete">> \o <<"sweep", "list", "ask">> =
            <<"find", "complete", "sweep", "list", "ask">>
      BY Join23
  <2>1b. <<"find", "complete", "sweep", "list", "ask">> \o <<"runs", "merge">> =
            <<"find", "complete", "sweep", "list", "ask", "runs", "merge">>
      BY Join52
  <2>1. InterpretPullRequest("merged") =
               <<"find", "complete", "sweep", "list", "ask", "runs", "merge">>
      BY <2>1a, <2>1b DEF InterpretPullRequest, ClosePullRequest, CancelTaskRuns
  <2>2. StartsWell(<<"find", "complete", "sweep", "list", "ask", "runs", "merge">>, "merged")
      BY DEF StartsWell, PlanShape, StepShape, Withdrawal, StepNames
  <2> QED BY <2>1, <2>2
<1>2. StartsWell(InterpretPullRequest("prClosed"), "prClosed")
  <2>1a. <<"find">> \o <<"sweep", "list", "ask">> = <<"find", "sweep", "list", "ask">>
      BY Join13
  <2>1b. <<"find", "sweep", "list", "ask">> \o <<"runs", "close">> =
            <<"find", "sweep", "list", "ask", "runs", "close">>
      BY Join42
  <2>1. InterpretPullRequest("prClosed") = <<"find", "sweep", "list", "ask", "runs", "close">>
      BY <2>1a, <2>1b DEF InterpretPullRequest, ClosePullRequest, CancelTaskRuns
  <2>2. StartsWell(<<"find", "sweep", "list", "ask", "runs", "close">>, "prClosed")
      BY DEF StartsWell, PlanShape, StepShape, Withdrawal, StepNames
  <2> QED BY <2>1, <2>2
<1>3. StartsWell(InterpretPullRequest("prReopened"), "prReopened")
  <2>1. InterpretPullRequest("prReopened") = <<"runs", "reopen">>
      BY DEF InterpretPullRequest, ReopenPullRequest
  <2>2. StartsWell(<<"runs", "reopen">>, "prReopened")
      BY DEF StartsWell, PlanShape, StepShape, Withdrawal, StepNames
  <2> QED BY <2>1, <2>2
<1>4. StartsWell(InterpretPullRequest("synchronize"), "synchronize")
  <2>1a. <<"continue">> \o <<"sweep", "list", "ask">> = <<"continue", "sweep", "list", "ask">>
      BY Join13
  <2>1b. <<"continue", "sweep", "list", "ask">> \o <<"check", "add">> =
            <<"continue", "sweep", "list", "ask", "check", "add">>
      BY Join42
  <2>1. InterpretPullRequest("synchronize") = <<"continue", "sweep", "list", "ask", "check", "add">>
      BY <2>1a, <2>1b DEF InterpretPullRequest, SynchronizePullRequest, CancelTaskRuns, CreateRun
  <2>2. StartsWell(<<"continue", "sweep", "list", "ask", "check", "add">>, "synchronize")
      BY DEF StartsWell, PlanShape, StepShape, Withdrawal, StepNames
  <2> QED BY <2>1, <2>2
<1>5. StartsWell(InterpretPullRequest("draft"), "draft")
  <2>1. InterpretPullRequest("draft") = <<"find", "hold", "list", "ask">>
      BY DEF InterpretPullRequest, ConvertToDraft
  <2>2. StartsWell(<<"find", "hold", "list", "ask">>, "draft")
      BY DEF StartsWell, PlanShape, StepShape, Withdrawal, StepNames
  <2> QED BY <2>1, <2>2
<1>6. StartsWell(InterpretPullRequest("ready"), "ready")
  <2>1. InterpretPullRequest("ready") = <<"find", "release">>
      BY DEF InterpretPullRequest, ReadyPullRequest
  <2>2. StartsWell(<<"find", "release">>, "ready")
      BY DEF StartsWell, PlanShape, StepShape, Withdrawal, StepNames
  <2> QED BY <2>1, <2>2
<1> QED BY <1>1, <1>2, <1>3, <1>4, <1>5, <1>6

LEMMA InterpretShape ==
    ASSUME NEW kind \in AllKinds
    PROVE  StartsWell(Interpret(kind), kind)
<1>1. CASE kind \in IssueKinds
  <2>1. Interpret(kind) = InterpretIssues(kind)
      BY <1>1 DEF Interpret, IssueKinds, Feedback
  <2> QED BY <1>1, <2>1, IssuePlans
<1>2. CASE kind \in {"merged", "prClosed", "prReopened", "synchronize", "draft", "ready"}
  <2>1. Interpret(kind) = InterpretPullRequest(kind)
      BY <1>2 DEF Interpret, IssueKinds, Feedback
  <2> QED BY <1>2, <2>1, PullPlans
<1>3. CASE kind \in Feedback
  <2>1. Interpret(kind) = InterpretFeedback
      BY <1>3 DEF Interpret, IssueKinds, Feedback
  <2>2. InterpretFeedback = <<"active", "check", "add">>
      BY Join12 DEF InterpretFeedback, CreateFeedbackRun, CreateRun
  <2>3. StartsWell(<<"active", "check", "add">>, kind)
      BY DEF StartsWell, PlanShape, StepShape, Withdrawal, StepNames
  <2> QED BY <2>1, <2>2, <2>3
<1>4. CASE kind = "unresolved"
  <2>1. Interpret(kind) = CreatePRThreadRun
      BY <1>4 DEF Interpret, IssueKinds, Feedback, InterpretReviewThread
  <2>2a. <<"active">> \o <<"check", "add">> = <<"active", "check", "add">>
      BY Join12
  <2>2b. <<"active", "check", "add">> \o <<"target">> = <<"active", "check", "add", "target">>
      BY Join31
  <2>2. CreatePRThreadRun = <<"active", "check", "add", "target">>
      BY <2>2a, <2>2b DEF CreatePRThreadRun, CreateRun
  <2>3. StartsWell(<<"active", "check", "add", "target">>, kind)
      BY DEF StartsWell, PlanShape, StepShape, Withdrawal, StepNames
  <2> QED BY <2>1, <2>2, <2>3
<1>5. CASE kind = "resolved"
  <2>1. Interpret(kind) = CancelPRThreadRuns
      BY <1>5 DEF Interpret, IssueKinds, Feedback, InterpretReviewThread
  <2>2. CancelPRThreadRuns = <<"find", "threads", "drop">>
      BY DEF CancelPRThreadRuns
  <2>3. StartsWell(<<"find", "threads", "drop">>, "resolved")
      BY DEF StartsWell, PlanShape, StepShape, Withdrawal, StepNames
  <2> QED BY <1>5, <2>1, <2>2, <2>3
<1>6. CASE kind = "checkFailed"
  <2>1. Interpret(kind) = CreatePRCheckFailureRun
      BY <1>6 DEF Interpret, IssueKinds, Feedback, InterpretCheck
  <2>2a. <<"active", "idle", "fresh">> \o <<"check", "add">> =
            <<"active", "idle", "fresh", "check", "add">>
      BY Join32
  <2>2b. <<"active", "idle", "fresh", "check", "add">> \o <<"sha">> =
            <<"active", "idle", "fresh", "check", "add", "sha">>
      BY Join51
  <2>2. CreatePRCheckFailureRun = <<"active", "idle", "fresh", "check", "add", "sha">>
      BY <2>2a, <2>2b DEF CreatePRCheckFailureRun, CreateRun
  <2>3. StartsWell(<<"active", "idle", "fresh", "check", "add", "sha">>, kind)
      BY DEF StartsWell, PlanShape, StepShape, Withdrawal, StepNames
  <2> QED BY <2>1, <2>2, <2>3
<1>7. CASE kind = "createTask"
  <2>1. Interpret(kind) = CreateTask
      BY <1>7 DEF Interpret, IssueKinds, Feedback
  <2>2. CreateTask = <<"check", "add">>
      BY DEF CreateTask, CreateRun
  <2>3. StartsWell(<<"check", "add">>, kind)
      BY DEF StartsWell, PlanShape, StepShape, Withdrawal, StepNames
  <2> QED BY <2>1, <2>2, <2>3
<1>8. CASE kind = "createIssueTask"
  <2>1. Interpret(kind) = CreateIssueTask
      BY <1>8 DEF Interpret, IssueKinds, Feedback
  <2>2. CreateIssueTask = <<"check", "add", "target">>
      BY Join21 DEF CreateIssueTask, CreateRun
  <2>3. StartsWell(<<"check", "add", "target">>, kind)
      BY DEF StartsWell, PlanShape, StepShape, Withdrawal, StepNames
  <2> QED BY <2>1, <2>2, <2>3
<1>9. CASE kind = "retry"
  <2>1. Interpret(kind) = RetryRun
      BY <1>9 DEF Interpret, IssueKinds, Feedback
  <2>2a. <<"copy">> \o <<"check", "add">> = <<"copy", "check", "add">>
      BY Join12
  <2>2b. <<"copy", "check", "add">> \o <<"target">> = <<"copy", "check", "add", "target">>
      BY Join31
  <2>2. RetryRun = <<"copy", "check", "add", "target">>
      BY <2>2a, <2>2b DEF RetryRun, CreateRun
  <2>3. StartsWell(<<"copy", "check", "add", "target">>, kind)
      BY DEF StartsWell, PlanShape, StepShape, Withdrawal, StepNames
  <2> QED BY <2>1, <2>2, <2>3
<1> QED BY <1>1, <1>2, <1>3, <1>4, <1>5, <1>6, <1>7, <1>8, <1>9
        DEF AllKinds, PRKinds, Requests, Feedback

\* What the step at the head of a plan says of the rest.
LEMMA PlanFacts ==
    ASSUME NEW p, PlanShape(p), p # <<>>
    PROVE  /\ PlanShape(Tail(p))
           /\ Head(p) \in {"sweep", "hold"} => Tail(p) # <<>> /\ Head(Tail(p)) = "list"
           /\ Head(p) = "list" => Tail(p) # <<>> /\ Head(Tail(p)) = "ask"
           /\ Head(p) = "threads" => Tail(p) # <<>> /\ Head(Tail(p)) = "drop"
           /\ Head(p) = "runs" => /\ Tail(p) # <<>>
                                  /\ Head(Tail(p)) \in {"merge", "close", "reopen"}
           /\ Head(p) \in {"merge", "close", "reopen", "target"} => Tail(p) = <<>>
           /\ Tail(p) # <<>> /\ Head(Tail(p)) \in {"merge", "close"} => Head(p) = "runs"
           /\ Tail(p) # <<>> /\ Head(Tail(p)) = "target" => Head(p) = "add"
           /\ Head(p) \in {"ask", "drop"} => Range(Tail(p)) \cap Withdrawal = {}
<1>1. /\ p \in Seq(StepNames) /\ Len(p) \in Nat \ {0} /\ Head(p) = p[1]
      /\ Tail(p) \in Seq(StepNames) /\ Len(Tail(p)) = Len(p) - 1
      /\ \A i \in 1..Len(p) - 1 : Tail(p)[i] = p[i + 1]
      /\ DOMAIN Tail(p) = 1..Len(p) - 1
    BY HeadTailProperties, LenProperties, EmptySeq DEF PlanShape
<1>2. Tail(p) # <<>> <=> Len(p) > 1
  <2> DEFINE q == Tail(p)
  <2>1. q \in Seq(StepNames) /\ Len(q) = Len(p) - 1 /\ Len(p) \in Nat
      BY <1>1
  <2> HIDE DEF q
  <2>2. Len(<<>>) = 0 /\ (q # <<>> => Len(q) \in Nat \ {0})
      BY <2>1, EmptySeq
  <2>3. q # <<>> <=> Len(p) > 1
      BY <2>1, <2>2
  <2> QED BY <2>3, Zenon DEF q
<1>3. Tail(p) # <<>> => Head(Tail(p)) = p[2]
  <2> DEFINE q == Tail(p)
  <2>1. q \in Seq(StepNames)
      BY <1>1
  <2> HIDE DEF q
  <2>2. q # <<>> => Head(q) = q[1]
      BY <2>1
  <2> QED BY <1>1, <1>2, <2>2 DEF q
<1>4. PlanShape(Tail(p))
  <2> DEFINE q == Tail(p)
             n == Len(p) - 1
  <2>1. q \in Seq(StepNames) /\ Len(q) = n /\ n \in Nat /\ Len(p) = n + 1
        /\ \A k \in 1..n : k + 1 \in 1..Len(p) /\ q[k] = p[k + 1]
      BY <1>1
  <2> HIDE DEF q, n
  <2>2. SUFFICES ASSUME NEW i \in 1..n
                 PROVE  StepShape(q, i)
      BY <2>1 DEF PlanShape, q
  <2>3. /\ StepShape(p, i + 1)
        /\ q[i] = p[i + 1]
        /\ i < n => q[i + 1] = p[(i + 1) + 1]
        /\ i > 1 => q[i - 1] = p[(i + 1) - 1]
      BY <2>1 DEF PlanShape
  <2>4. ASSUME q[i] \in {"ask", "drop"}, NEW k \in 1..n, k > i
        PROVE  q[k] \notin Withdrawal
    <3>1. k + 1 \in 1..Len(p) /\ k + 1 > i + 1 /\ q[k] = p[k + 1]
        BY <2>1, <2>4
    <3> QED BY <2>3, <2>4, <3>1 DEF StepShape
  <2>5. /\ i < n <=> i + 1 < Len(p)
        /\ i = n <=> i + 1 = Len(p)
        /\ i + 1 > 1
      BY <2>1
  <2> QED BY <2>1, <2>3, <2>4, <2>5 DEF StepShape
<1>5. Head(p) \in {"ask", "drop"} => Range(Tail(p)) \cap Withdrawal = {}
  <2>1. SUFFICES ASSUME p[1] \in {"ask", "drop"}, NEW i \in 1..Len(p) - 1
                 PROVE  Tail(p)[i] \notin Withdrawal
      BY <1>1 DEF Range
  <2>2. i + 1 \in 1..Len(p) /\ 1 \in 1..Len(p) /\ i + 1 > 1
      BY <1>1
  <2>3. StepShape(p, 1) /\ Tail(p)[i] = p[i + 1]
      BY <1>1, <2>2 DEF PlanShape
  <2> QED BY <1>1, <2>1, <2>2, <2>3 DEF StepShape
<1>6. /\ p[1] \in {"sweep", "hold"} => 1 < Len(p) /\ p[2] = "list"
      /\ p[1] = "list" => 1 < Len(p) /\ p[2] = "ask"
      /\ p[1] = "threads" => 1 < Len(p) /\ p[2] = "drop"
      /\ p[1] = "runs" => 1 < Len(p) /\ p[2] \in {"merge", "close", "reopen"}
      /\ p[1] \in {"merge", "close", "reopen", "target"} => Len(p) = 1
  <2>1. StepShape(p, 1)
      BY <1>1 DEF PlanShape
  <2> QED BY <1>1, <2>1 DEF StepShape
<1>7. Len(p) > 1 => /\ p[2] \in {"merge", "close"} => p[1] = "runs"
                    /\ p[2] = "target" => p[1] = "add"
  <2>1. Len(p) > 1 => StepShape(p, 2)
      BY <1>1 DEF PlanShape
  <2> QED BY <1>1, <2>1 DEF StepShape
<1> QED BY <1>1, <1>2, <1>3, <1>4, <1>5, <1>6, <1>7

\* What lies ahead of the two statements a withdrawal begins with.
LEMMA AheadFacts ==
    ASSUME NEW h \in Handlers, PlanShape(job[h].plan)
    PROVE  /\ Doing(h, "sweep") => Ahead(h, "list")
           /\ Doing(h, "list") =>
                  ~Ahead(h, "sweep") /\ Range(Tail(Tail(job[h].plan))) \cap Withdrawal = {}
<1> DEFINE p == job[h].plan
<1>1. SUFFICES ASSUME p # <<>>
               PROVE  /\ Head(p) = "sweep" => Ahead(h, "list")
                      /\ Head(p) = "list" =>
                             ~Ahead(h, "sweep") /\ Range(Tail(Tail(p))) \cap Withdrawal = {}
    BY DEF Doing
<1>2. p \in Seq(StepNames) /\ Len(p) \in Nat \ {0} /\ Head(p) = p[1]
    BY <1>1, HeadTailProperties, LenProperties, EmptySeq DEF PlanShape
<1>3. p[1] = "sweep" => 2 \in 2..Len(p) /\ p[2] = "list"
  <2>1. StepShape(p, 1)
      BY <1>2 DEF PlanShape
  <2> QED BY <1>2, <2>1 DEF StepShape
<1>4. ASSUME p[1] = "list" PROVE ~Ahead(h, "sweep")
  <2>1. StepShape(p, 1) /\ (Len(p) > 1 => StepShape(p, 2))
      BY <1>2 DEF PlanShape
  <2>2. Len(p) > 1 /\ p[2] = "ask"
      BY <1>2, <1>4, <2>1 DEF StepShape
  <2>3. \A k \in 1..Len(p) : k > 2 => p[k] \notin Withdrawal
      BY <1>2, <2>1, <2>2 DEF StepShape
  <2> QED BY <1>2, <2>2, <2>3 DEF Ahead, Withdrawal
<1>5. ASSUME Head(p) = "list" PROVE Range(Tail(Tail(p))) \cap Withdrawal = {}
    BY <1>1, <1>5, PlanFacts
<1> QED BY <1>2, <1>3, <1>4, <1>5 DEF Ahead

-----------------------------------------------------------------------------
(* How a handler moves along its plan.                                     *)

JobFields == {"event", "plan", "run", "withPR", "prStatus", "left", "review", "before"}

OthersStay(h) == \A g \in Handlers \ {h} : job'[g] = job[g]

\* With j for its state, the handler has taken the next step of its plan.
Onward(h, j) ==
    /\ JobFields \subseteq DOMAIN job'[h]
    /\ \/ Tail(j.plan) = <<>> /\ job'[h] = Idle
       \/ /\ Tail(j.plan) # <<>> /\ job'[h].plan = Tail(j.plan)
          /\ job'[h].event = j.event /\ job'[h].run = j.run
          /\ job'[h].left = j.left /\ job'[h].review = j.review
          /\ job'[h].before \in {{}, j.before}
          /\ Range(Tail(j.plan)) \cap Withdrawal = {} => job'[h].before = {}

LEMMA IdleFields ==
    /\ JobFields \subseteq DOMAIN Idle /\ Idle.plan = <<>> /\ Idle.before = {} /\ Idle.review = {}
    /\ Idle.left = {}
  BY DEF Idle, JobFields

LEMMA AdvanceMoves ==
    ASSUME job = [h \in Handlers |-> job[h]], NEW h \in Handlers, NEW j,
           JobFields \subseteq DOMAIN j, Advance(h, j)
    PROVE  OthersStay(h) /\ Onward(h, j)
<1> DEFINE plan == Tail(j.plan)
           rest == [j EXCEPT !.plan = plan,
                             !.before = IF Range(plan) \cap Withdrawal = {} THEN {} ELSE @]
           next == IF plan = <<>> THEN Idle ELSE rest
<1>1. job' = [job EXCEPT ![h] = next]
    BY DEF Advance
<1>2. /\ JobFields \subseteq DOMAIN rest /\ rest.plan = plan /\ rest.event = j.event
      /\ rest.run = j.run /\ rest.left = j.left /\ rest.review = j.review
      /\ rest.before = IF Range(plan) \cap Withdrawal = {} THEN {} ELSE j.before
    BY DEF JobFields
<1> HIDE DEF rest, plan
<1>3. job'[h] = next /\ OthersStay(h)
    BY <1>1 DEF OthersStay
<1> QED BY <1>2, <1>3, IdleFields DEF Onward, plan

\* The parts of PlanShape and StartsWell about where a step may be.
Hears(event, plan) ==
    /\ "hold" \in Range(plan) => event.kind = "draft"
    /\ "drop" \in Range(plan) => event.about \in Threads

LEMMA RangeFacts ==
    ASSUME NEW p, PlanShape(p), p # <<>>
    PROVE  Head(p) \in Range(p) /\ Range(Tail(p)) \subseteq Range(p)
<1>1. /\ p \in Seq(StepNames) /\ Len(p) \in Nat \ {0} /\ Head(p) = p[1]
      /\ \A i \in 1..Len(p) - 1 : Tail(p)[i] = p[i + 1]
      /\ DOMAIN Tail(p) = 1..Len(p) - 1
      /\ DOMAIN p = 1..Len(p)
    BY HeadTailProperties, LenProperties, EmptySeq DEF PlanShape
<1>2. \A i \in 1..Len(p) - 1 : i + 1 \in DOMAIN p
    BY <1>1
<1> QED BY <1>1, <1>2 DEF Range

JobOK(j) ==
    /\ JobFields \subseteq DOMAIN j
    /\ PlanShape(j.plan)
    /\ Hears(j.event, j.plan)

InfoShape ==
    /\ info = [r \in Runs |-> info[r]]
    /\ \A r \in Runs : {"trigger", "thread", "sha", "prStatus"} \subseteq DOMAIN info[r]

WorkInv ==
    /\ TasksInv
    /\ kinds \in Mixes
    /\ InfoShape
    /\ \A h \in Handlers : JobOK(job[h])

LEMMA IdleOK == JobOK(Idle)
<1>1. PlanShape(<<>>) /\ Range(<<>>) = {}
  <2>1. <<>> \in Seq(StepNames) /\ Len(<<>>) = 0
      BY EmptySeq
  <2>2. DOMAIN <<>> = {}
      OBVIOUS
  <2> QED BY <2>1, <2>2 DEF PlanShape, Range
<1> QED BY <1>1, IdleFields DEF JobOK, Hears

\* Steps that neither look at runs to withdraw nor go through a list.
Quiet(h) ==
    \/ FindTask(h) \/ ActiveTask(h) \/ TaskIdle(h) \/ FreshCommit(h) \/ CopySource(h)
    \/ CheckOpen(h) \/ RuntimeFromIssueLabels(h) \/ NoPRRuns(h) \/ CompleteTask(h) \/ OpenTask(h) \/ SetDraft(h)
    \/ AddTaskRun(h) \/ WriteTarget(h) \/ WriteHeadSHA(h)

QuietSteps == {"find", "active", "idle", "fresh", "copy", "check", "runs", "complete", "open",
               "hold", "release", "add", "target", "sha"}

QuietMove(h) ==
    /\ OthersStay(h)
    /\ \E x \in QuietSteps : Doing(h, x)
    /\ JobFields \subseteq DOMAIN job'[h]
    /\ job'[h].before \in {{}, job[h].before}
    /\ \/ job'[h] = Idle
       \/ /\ ~Doing(h, "runs") /\ Tail(job[h].plan) # <<>>
          /\ job'[h].plan = Tail(job[h].plan) /\ job'[h].event = job[h].event
          /\ job'[h].left = job[h].left /\ job'[h].review = job[h].review

LEMMA WorkJobs ==
    ASSUME WorkInv
    PROVE  /\ job = [h \in Handlers |-> job[h]]
           /\ \A h \in Handlers : JobOK(job[h]) /\ JobFields \subseteq DOMAIN job[h]
  BY DEF WorkInv, TasksInv, JobsShape, JobOK

LEMMA QuietOnward ==
    ASSUME WorkInv, NEW h \in Handlers, NEW x \in QuietSteps, Doing(h, x), x # "runs",
           NEW j, JobFields \subseteq DOMAIN j, Advance(h, j),
           j.plan = job[h].plan, j.event = job[h].event, j.left = job[h].left,
           j.review = job[h].review, j.before = job[h].before
    PROVE  QuietMove(h)
<1>1. OthersStay(h) /\ Onward(h, j)
    BY WorkJobs, AdvanceMoves
<1>2. ~Doing(h, "runs")
    BY DEF Doing
<1> QED BY <1>1, <1>2, IdleFields DEF QuietMove, Onward

LEMMA QuietEnd ==
    ASSUME WorkInv, NEW h \in Handlers, NEW x \in QuietSteps, Doing(h, x),
           job' = [job EXCEPT ![h] = Idle]
    PROVE  QuietMove(h)
<1>1. OthersStay(h) /\ job'[h] = Idle
    BY WorkJobs DEF OthersStay
<1> QED BY <1>1, IdleFields DEF QuietMove

LEMMA QuietMoves ==
    ASSUME WorkInv, NEW h \in Handlers, Quiet(h)
    PROVE  QuietMove(h)
<1> DEFINE Same(j) == /\ JobFields \subseteq DOMAIN j
                      /\ j.plan = job[h].plan /\ j.event = job[h].event /\ j.left = job[h].left
                      /\ j.review = job[h].review /\ j.before = job[h].before
<1>1. JobFields \subseteq DOMAIN job[h]
    BY WorkJobs
<1>2. /\ Same(job[h])
      /\ \A withPR, prStatus : Same([job[h] EXCEPT !.withPR = withPR, !.prStatus = prStatus])
      /\ \A r : Same([job[h] EXCEPT !.run = r])
    BY <1>1 DEF JobFields
<1>3. ASSUME NEW x \in QuietSteps, Doing(h, x), x # "runs", NEW j, Same(j), Advance(h, j)
      PROVE  QuietMove(h)
    BY <1>3, QuietOnward
<1> HIDE DEF Same
<1>4. ASSUME NEW x \in QuietSteps, Doing(h, x), x # "runs", NEW found, GoOnIf(h, found)
      PROVE  QuietMove(h)
    BY <1>2, <1>3, <1>4, QuietEnd DEF GoOnIf
<1>5. CASE FindTask(h) \/ TaskIdle(h) \/ FreshCommit(h) \/ CheckOpen(h) \/ RuntimeFromIssueLabels(h)
    BY <1>4, <1>5 DEF FindTask, TaskIdle, FreshCommit, CheckOpen, RuntimeFromIssueLabels, QuietSteps
<1>6. CASE NoPRRuns(h)
    BY <1>6, QuietEnd DEF NoPRRuns, GoOnIf, QuietSteps
<1>7. CASE ActiveTask(h)
  <2>1. Doing(h, "active") /\ "active" \in QuietSteps
      BY <1>7 DEF ActiveTask, QuietSteps
  <2>2. ASSUME NEW withPR, NEW prStatus,
               Advance(h, [job[h] EXCEPT !.withPR = withPR, !.prStatus = prStatus])
        PROVE  QuietMove(h)
      BY <1>2, <1>3, <2>1, <2>2
  <2> QED BY <1>4, <1>7, <2>1, <2>2 DEF ActiveTask
<1>8. CASE CopySource(h)
  <2>1. Doing(h, "copy") /\ "copy" \in QuietSteps
      BY <1>8 DEF CopySource, QuietSteps
  <2>2. ASSUME NEW withPR, NEW prStatus,
               Advance(h, [job[h] EXCEPT !.withPR = withPR, !.prStatus = prStatus])
        PROVE  QuietMove(h)
      BY <1>2, <1>3, <2>1, <2>2
  <2> QED BY <1>8, <2>2 DEF CopySource
<1>9. CASE CompleteTask(h) \/ OpenTask(h) \/ SetDraft(h) \/ WriteTarget(h) \/ WriteHeadSHA(h)
    BY <1>2, <1>3, <1>9 DEF CompleteTask, OpenTask, SetDraft, WriteTarget, WriteHeadSHA, QuietSteps
<1>10. CASE AddTaskRun(h)
  <2>1. PICK r : Advance(h, [job[h] EXCEPT !.run = r])
      BY <1>10 DEF AddTaskRun
  <2>2. Doing(h, "add") /\ "add" \in QuietSteps
      BY <1>10 DEF AddTaskRun, QuietSteps
  <2> QED BY <1>2, <1>3, <2>1, <2>2
<1> QED BY <1>5, <1>6, <1>7, <1>8, <1>9, <1>10 DEF Quiet

-----------------------------------------------------------------------------
(* ... through a list, ...                                                 *)

\* The handler has begun to go through rows, or found none to go through.
LoopMove(h, rows, before, review) ==
    /\ OthersStay(h)
    /\ JobFields \subseteq DOMAIN job'[h]
    /\ rows = {} =>
         \/ job'[h] = Idle
         \/ /\ Tail(Tail(job[h].plan)) # <<>> /\ job'[h].plan = Tail(Tail(job[h].plan))
            /\ job'[h].event = job[h].event
            /\ job'[h].before \in {{}, before}
            /\ Range(Tail(Tail(job[h].plan))) \cap Withdrawal = {} => job'[h].before = {}
    /\ rows # {} /\ Tail(job[h].plan) # <<>> =>
         /\ job'[h].plan = Tail(job[h].plan) /\ job'[h].event = job[h].event
         /\ job'[h].left = rows /\ job'[h].review = review
         /\ job'[h].before \in {{}, before}

LEMMA LoopMoves ==
    ASSUME WorkInv, NEW h \in Handlers, NEW j, JobFields \subseteq DOMAIN j,
           j.plan = job[h].plan, j.event = job[h].event,
           NEW rows, Loop(h, j, rows)
    PROVE  LoopMove(h, rows, j.before, j.review)
<1> DEFINE j1 == [j EXCEPT !.plan = Tail(@)]
           j2 == [j EXCEPT !.left = rows]
<1>1. /\ JobFields \subseteq DOMAIN j1 /\ j1.plan = Tail(job[h].plan)
      /\ j1.event = job[h].event /\ j1.before = j.before
    BY DEF JobFields
<1>2. /\ JobFields \subseteq DOMAIN j2 /\ j2.plan = job[h].plan /\ j2.left = rows
      /\ j2.event = job[h].event /\ j2.before = j.before /\ j2.review = j.review
    BY DEF JobFields
<1>3. IF rows = {} THEN Advance(h, j1) ELSE Advance(h, j2)
    BY DEF Loop
<1> HIDE DEF j1, j2
<1>4. CASE rows = {}
  <2>1. OthersStay(h) /\ Onward(h, j1)
      BY <1>1, <1>3, <1>4, WorkJobs, AdvanceMoves
  <2> QED BY <1>1, <1>4, <2>1 DEF LoopMove, Onward
<1>5. CASE rows # {}
  <2>1. OthersStay(h) /\ Onward(h, j2)
      BY <1>2, <1>3, <1>5, WorkJobs, AdvanceMoves
  <2> QED BY <1>2, <1>5, <2>1 DEF LoopMove, Onward
<1> QED BY <1>4, <1>5

\* The handler is through with one more run of its list.
EachMove(h, r) ==
    /\ OthersStay(h)
    /\ JobFields \subseteq DOMAIN job'[h]
    /\ job[h].left = {r} =>
         \/ job'[h] = Idle
         \/ /\ Tail(job[h].plan) # <<>> /\ job'[h].plan = Tail(job[h].plan)
            /\ job'[h].event = job[h].event
            /\ job'[h].before \in {{}, job[h].before}
            /\ Range(Tail(job[h].plan)) \cap Withdrawal = {} => job'[h].before = {}
    /\ job[h].left # {r} =>
         /\ job'[h].plan = job[h].plan /\ job'[h].event = job[h].event
         /\ job'[h].run = job[h].run /\ job'[h].left = job[h].left \ {r}
         /\ job'[h].review = job[h].review /\ job'[h].before = job[h].before

LEMMA EachMoves ==
    ASSUME WorkInv, NEW h \in Handlers, NEW r, EachLeft(h, r)
    PROVE  EachMove(h, r)
<1>1. JobFields \subseteq DOMAIN job[h] /\ job = [g \in Handlers |-> job[g]]
    BY WorkJobs
<1>2. CASE job[h].left = {r}
  <2> DEFINE j == [job[h] EXCEPT !.left = {}]
  <2>1. /\ JobFields \subseteq DOMAIN j /\ j.plan = job[h].plan
        /\ j.event = job[h].event /\ j.before = job[h].before
      BY <1>1 DEF JobFields
  <2>2. Advance(h, j)
      BY <1>2 DEF EachLeft
  <2> HIDE DEF j
  <2>3. OthersStay(h) /\ Onward(h, j)
      BY <1>1, <2>1, <2>2, AdvanceMoves
  <2> QED BY <1>2, <2>1, <2>3 DEF EachMove, Onward
<1>3. CASE job[h].left # {r}
  <2> DEFINE j == [job[h] EXCEPT !.left = @ \ {r}]
  <2>1. /\ JobFields \subseteq DOMAIN j /\ j.plan = job[h].plan /\ j.event = job[h].event
        /\ j.run = job[h].run /\ j.left = job[h].left \ {r}
        /\ j.review = job[h].review /\ j.before = job[h].before
      BY <1>1 DEF JobFields
  <2>2. job' = [job EXCEPT ![h] = j]
      BY <1>3 DEF EachLeft
  <2> HIDE DEF j
  <2>3. OthersStay(h) /\ job'[h] = j
      BY <1>1, <2>2 DEF OthersStay
  <2> QED BY <1>3, <2>1, <2>3 DEF EachMove
<1> QED BY <1>2, <1>3

-----------------------------------------------------------------------------
(* Every handler keeps to the plans there are.                             *)

LEMMA TailOK ==
    ASSUME NEW j, JobOK(j), j.plan # <<>>,
           NEW k, JobFields \subseteq DOMAIN k, k.event = j.event, k.plan = Tail(j.plan)
    PROVE  JobOK(k)
<1>1. PlanShape(k.plan) /\ Range(k.plan) \subseteq Range(j.plan)
    BY PlanFacts, RangeFacts DEF JobOK
<1> QED BY <1>1 DEF JobOK, Hears

LEMMA DoingPlan ==
    ASSUME NEW h, NEW x, Doing(h, x)
    PROVE  job[h].plan # <<>> /\ Head(job[h].plan) = x
  BY DEF Doing

LEMMA EventJob ==
    ASSUME WorkInv, NEW h \in Handlers, NEW t \in Tasks, Event(h, t)
    PROVE  /\ OthersStay(h) /\ JobOK(job'[h])
           /\ job'[h].before = {} /\ job'[h].review = {}
           /\ job'[h].plan # <<>> /\ Head(job'[h].plan) \notin {"target", "merge", "close"}
<1>1. PICK kind \in kinds : \E about \in Subject(kind, t) :
          job' = [job EXCEPT ![h] =
                      [Idle EXCEPT !.event = [kind |-> kind, task |-> t, about |-> about],
                                   !.plan = Interpret(kind)]]
    BY DEF Event
<1>2. PICK about \in Subject(kind, t) :
          job' = [job EXCEPT ![h] =
                      [Idle EXCEPT !.event = [kind |-> kind, task |-> t, about |-> about],
                                   !.plan = Interpret(kind)]]
    BY <1>1
<1> DEFINE j == [Idle EXCEPT !.event = [kind |-> kind, task |-> t, about |-> about],
                             !.plan = Interpret(kind)]
<1>3. StartsWell(Interpret(kind), kind)
    BY InterpretShape, TaskConstants DEF WorkInv
<1>4. kind = "resolved" => about \in Threads
    BY <1>2 DEF Subject
<1>5. /\ JobFields \subseteq DOMAIN j /\ j.plan = Interpret(kind) /\ j.before = {} /\ j.review = {}
      /\ j.event.kind = kind /\ j.event.about = about
    BY DEF JobFields, Idle
<1> HIDE DEF j
<1>6. OthersStay(h) /\ job'[h] = j
    BY <1>2, WorkJobs DEF OthersStay, j
<1>7. Hears(j.event, j.plan)
  <2>1. DOMAIN Interpret(kind) = 1..Len(Interpret(kind))
      BY <1>3, LenProperties DEF StartsWell, PlanShape
  <2> QED BY <1>3, <1>4, <1>5, <2>1 DEF Hears, Range, StartsWell
<1> QED BY <1>3, <1>5, <1>6, <1>7 DEF JobOK, StartsWell

\* What ContinueTask makes of its handler.
LEMMA ContinueMoves ==
    ASSUME WorkInv, NEW h \in Handlers, ContinueTask(h)
    PROVE  /\ OthersStay(h) /\ JobOK(job'[h])
           /\ job'[h].before \in {{}, job[h].before}
           /\ \/ job'[h] = Idle
              \/ job'[h].plan # <<>> /\ Head(job'[h].plan) \notin {"target", "merge", "close"}
<1>1. JobOK(job[h]) /\ JobFields \subseteq DOMAIN job[h] /\ job = [g \in Handlers |-> job[g]]
    BY WorkJobs
<1>2. job[h].plan # <<>> /\ Head(job[h].plan) = "continue"
    BY DEF ContinueTask, Doing
<1>3. CASE job' = [job EXCEPT ![h] = Idle]
  <2>1. OthersStay(h) /\ job'[h] = Idle
      BY <1>1, <1>3 DEF OthersStay
  <2> QED BY <2>1, IdleOK, IdleFields
<1>4. ASSUME NEW plan, plan = job[h].plan \/ plan = <<"continue">> \o CancelTaskRuns,
             Advance(h, [job[h] EXCEPT !.plan = plan, !.withPR = TRUE, !.prStatus = "open"])
      PROVE  /\ OthersStay(h) /\ JobOK(job'[h]) /\ job'[h].before \in {{}, job[h].before}
             /\ \/ job'[h] = Idle
                \/ job'[h].plan # <<>> /\ Head(job'[h].plan) \notin {"target", "merge", "close"}
  <2> DEFINE j == [job[h] EXCEPT !.plan = plan, !.withPR = TRUE, !.prStatus = "open"]
  <2>1. /\ JobFields \subseteq DOMAIN j /\ j.plan = plan
        /\ j.event = job[h].event /\ j.before = job[h].before
      BY <1>1 DEF JobFields
  <2>2. Advance(h, j)
      BY <1>4
  <2> HIDE DEF j
  <2>3. OthersStay(h) /\ Onward(h, j)
      BY <1>1, <2>1, <2>2, AdvanceMoves
  <2>4. PlanShape(plan) /\ plan # <<>> /\ Head(plan) = "continue" /\ Hears(job[h].event, plan)
    <3>1. CASE plan = job[h].plan
        BY <1>1, <1>2, <3>1 DEF JobOK
    <3>2. CASE plan = <<"continue">> \o CancelTaskRuns
      <4>1. plan = <<"continue", "sweep", "list", "ask">>
          BY <3>2, Join13 DEF CancelTaskRuns
      <4>2. StartsWell(<<"continue", "sweep", "list", "ask">>, "synchronize")
          BY DEF StartsWell, PlanShape, StepShape, Withdrawal, StepNames
      <4>3. Range(plan) \cap {"hold", "drop"} = {}
          BY <4>1 DEF Range
      <4>4. Head(plan) = "continue" /\ plan # <<>>
          BY <4>1
      <4> QED BY <4>1, <4>2, <4>3, <4>4 DEF StartsWell, Hears
    <3> QED BY <1>4, <3>1, <3>2
  <2>5. JobOK(j)
      BY <2>1, <2>4 DEF JobOK
  <2>6. CASE job'[h] = Idle
      BY <2>3, <2>6, IdleOK, IdleFields
  <2>7. CASE job'[h] # Idle
    <3>1. /\ Tail(plan) # <<>> /\ job'[h].plan = Tail(plan) /\ job'[h].event = j.event
          /\ JobFields \subseteq DOMAIN job'[h] /\ job'[h].before \in {{}, job[h].before}
        BY <2>1, <2>3, <2>7 DEF Onward
    <3>2. JobOK(job'[h])
        BY <2>1, <2>4, <2>5, <3>1, TailOK
    <3>3. Head(Tail(plan)) \notin {"target", "merge", "close"}
        BY <2>4, <3>1, PlanFacts
    <3> QED BY <2>3, <3>1, <3>2, <3>3
  <2> QED BY <2>6, <2>7
<1> QED BY <1>3, <1>4 DEF ContinueTask, GoOnIf

\* The steps that go through lists, one by one.
LEMMA BeginningFields ==
    ASSUME NEW h, JobFields \subseteq DOMAIN job[h], NEW other
    PROVE  /\ JobFields \subseteq DOMAIN Beginning(h, other)
           /\ Beginning(h, other).plan = job[h].plan
           /\ Beginning(h, other).event = job[h].event
           /\ Beginning(h, other).left = job[h].left
           /\ Beginning(h, other).review = job[h].review
           /\ Beginning(h, other).before =
                  IF Ahead(h, other) THEN Active(TaskFor(h)) ELSE job[h].before
  BY DEF Beginning, JobFields

LEMMA SweepMoves ==
    ASSUME WorkInv, NEW h \in Handlers, SweepQueued(h)
    PROVE  /\ OthersStay(h) /\ JobOK(job'[h])
           /\ job'[h].event = job[h].event
           /\ job'[h].plan # <<>> /\ Head(job'[h].plan) = "list"
           /\ job'[h].before \in {{}, Active(TaskFor(h))}
<1>1. JobOK(job[h]) /\ JobFields \subseteq DOMAIN job[h] /\ job = [g \in Handlers |-> job[g]]
    BY WorkJobs
<1> DEFINE j == Beginning(h, "list")
<1>2. Doing(h, "sweep") /\ Advance(h, j)
    BY DEF SweepQueued
<1>3. Ahead(h, "list")
    BY <1>1, <1>2, AheadFacts DEF JobOK
<1>4. /\ JobFields \subseteq DOMAIN j /\ j.plan = job[h].plan /\ j.event = job[h].event
      /\ j.before = Active(TaskFor(h))
    BY <1>1, <1>3, BeginningFields
<1> HIDE DEF j
<1>5. OthersStay(h) /\ Onward(h, j)
    BY <1>1, <1>2, <1>4, AdvanceMoves
<1>6. /\ PlanShape(job[h].plan) /\ job[h].plan # <<>>
      /\ Tail(job[h].plan) # <<>> /\ Head(Tail(job[h].plan)) = "list"
    BY <1>1, <1>2, PlanFacts DEF JobOK, Doing
<1>7. /\ JobFields \subseteq DOMAIN job'[h] /\ job'[h].plan = Tail(job[h].plan)
      /\ job'[h].event = job[h].event /\ job'[h].before \in {{}, Active(TaskFor(h))}
    BY <1>4, <1>5, <1>6 DEF Onward
<1> QED BY <1>1, <1>5, <1>6, <1>7, TailOK

\* What a list leads to.
LEMMA LoopOK ==
    ASSUME WorkInv, NEW h \in Handlers, NEW x \in {"list", "threads", "runs"}, Doing(h, x),
           NEW rows, NEW before, NEW review, LoopMove(h, rows, before, review)
    PROVE  /\ JobOK(job'[h])
           /\ rows = {} => \/ job'[h] = Idle
                           \/ /\ job'[h].event = job[h].event /\ x # "runs"
                              /\ job'[h].before = {} /\ job'[h].plan # <<>>
                              /\ Head(job'[h].plan) \notin {"target", "merge", "close"}
           /\ rows # {} => /\ job'[h].event = job[h].event /\ job'[h].plan # <<>>
                           /\ job'[h].left = rows /\ job'[h].review = review
                           /\ job'[h].before \in {{}, before}
                           /\ x = "list" => Head(job'[h].plan) = "ask"
                           /\ x = "threads" => Head(job'[h].plan) = "drop"
                           /\ x = "runs" => Head(job'[h].plan) \in {"merge", "close", "reopen"}
<1> DEFINE p == job[h].plan
<1>1. JobOK(job[h]) /\ PlanShape(p) /\ p # <<>> /\ Head(p) = x
    BY WorkJobs DEF Doing, JobOK
<1>2. /\ PlanShape(Tail(p)) /\ Tail(p) # <<>>
      /\ x = "list" => Head(Tail(p)) = "ask"
      /\ x = "threads" => Head(Tail(p)) = "drop"
      /\ x = "runs" => Head(Tail(p)) \in {"merge", "close", "reopen"}
    BY <1>1, PlanFacts
<1>3. CASE rows = {}
  <2>1. CASE job'[h] = Idle
      BY <1>3, <2>1, IdleOK
  <2>2. CASE job'[h] # Idle
    <3>1. /\ Tail(Tail(p)) # <<>> /\ job'[h].plan = Tail(Tail(p)) /\ job'[h].event = job[h].event
          /\ JobFields \subseteq DOMAIN job'[h] /\ job'[h].before \in {{}, before}
          /\ Range(Tail(Tail(p))) \cap Withdrawal = {} => job'[h].before = {}
        BY <1>3, <2>2 DEF LoopMove
    <3>2. x # "runs"
        BY <1>2, <3>1, PlanFacts
    <3>3. /\ Range(Tail(Tail(p))) \cap Withdrawal = {}
          /\ Head(Tail(Tail(p))) \notin {"target", "merge", "close"}
        BY <1>2, <3>1, <3>2, PlanFacts
    <3>4. JobOK([job[h] EXCEPT !.plan = Tail(p)])
      <4> DEFINE k == [job[h] EXCEPT !.plan = Tail(p)]
      <4>1. JobFields \subseteq DOMAIN k /\ k.plan = Tail(p) /\ k.event = job[h].event
          BY <1>1 DEF JobOK, JobFields
      <4> HIDE DEF k
      <4>2. JobOK(k)
          BY <1>1, <4>1, TailOK
      <4> QED BY <4>2 DEF k
    <3>5. JobOK(job'[h])
      <4> DEFINE k == [job[h] EXCEPT !.plan = Tail(p)]
      <4>1. k.plan = Tail(p) /\ k.event = job[h].event
          BY <1>1 DEF JobOK, JobFields
      <4> HIDE DEF k
      <4> QED BY <1>2, <3>1, <3>4, <4>1, TailOK DEF k
    <3> QED BY <1>3, <3>1, <3>2, <3>3, <3>5
  <2> QED BY <2>1, <2>2
<1>4. CASE rows # {}
  <2>1. /\ job'[h].plan = Tail(p) /\ job'[h].event = job[h].event
        /\ job'[h].left = rows /\ job'[h].review = review
        /\ JobFields \subseteq DOMAIN job'[h] /\ job'[h].before \in {{}, before}
      BY <1>2, <1>4 DEF LoopMove
  <2>2. JobOK(job'[h])
      BY <1>1, <2>1, TailOK
  <2> QED BY <1>2, <1>4, <2>1, <2>2
<1> QED BY <1>3, <1>4

LEMMA EachOK ==
    ASSUME WorkInv, NEW h \in Handlers, NEW x \in {"ask", "drop", "merge", "close", "reopen"},
           Doing(h, x), NEW r, EachMove(h, r)
    PROVE  /\ JobOK(job'[h])
           /\ job[h].left = {r} => \/ job'[h] = Idle
                                   \/ /\ job'[h].event = job[h].event /\ job'[h].plan # <<>>
                                      /\ job'[h].before = {}
                                      /\ Head(job'[h].plan) \notin {"target", "merge", "close"}
<1> DEFINE p == job[h].plan
<1>1. JobOK(job[h]) /\ PlanShape(p) /\ p # <<>> /\ Head(p) = x
    BY WorkJobs DEF Doing, JobOK
<1>2. /\ x \notin {"ask", "drop"} => Tail(p) = <<>>
      /\ x \in {"ask", "drop"} => Range(Tail(p)) \cap Withdrawal = {}
      /\ Tail(p) # <<>> => Head(Tail(p)) \notin {"target", "merge", "close"}
    BY <1>1, PlanFacts
<1>3. CASE job[h].left # {r}
    BY <1>1, <1>3 DEF EachMove, JobOK
<1>4. CASE job[h].left = {r} /\ job'[h] = Idle
    BY <1>4, IdleOK
<1>5. CASE job[h].left = {r} /\ job'[h] # Idle
  <2>1. /\ Tail(p) # <<>> /\ job'[h].plan = Tail(p) /\ job'[h].event = job[h].event
        /\ JobFields \subseteq DOMAIN job'[h]
        /\ Range(Tail(p)) \cap Withdrawal = {} => job'[h].before = {}
      BY <1>5 DEF EachMove
  <2>2. JobOK(job'[h])
      BY <1>1, <2>1, TailOK
  <2> QED BY <1>2, <2>1, <2>2
<1> QED BY <1>3, <1>4, <1>5

LEMMA QuietOK ==
    ASSUME WorkInv, NEW h \in Handlers, QuietMove(h)
    PROVE  /\ JobOK(job'[h])
           /\ \/ job'[h] = Idle
              \/ /\ job'[h].event = job[h].event
                 /\ job'[h].plan # <<>>
                 /\ Head(job'[h].plan) \notin {"merge", "close"}
                 /\ Head(job'[h].plan) = "target" => Doing(h, "add")
                 /\ Doing(h, "hold") => Head(job'[h].plan) = "list"
<1> DEFINE p == job[h].plan
<1>1. JobOK(job[h]) /\ PlanShape(p) /\ p # <<>>
    BY WorkJobs DEF Doing, JobOK, QuietMove
<1>2. CASE job'[h] = Idle
    BY <1>2, IdleOK
<1>3. CASE job'[h] # Idle
  <2>1. /\ Tail(p) # <<>> /\ job'[h].plan = Tail(p) /\ job'[h].event = job[h].event
        /\ JobFields \subseteq DOMAIN job'[h] /\ ~Doing(h, "runs")
      BY <1>3 DEF QuietMove
  <2>2. /\ Head(Tail(p)) \in {"merge", "close"} => Head(p) = "runs"
        /\ Head(Tail(p)) = "target" => Head(p) = "add"
        /\ Head(p) = "hold" => Head(Tail(p)) = "list"
      BY <1>1, <2>1, PlanFacts
  <2> QED BY <1>1, <2>1, <2>2, TailOK DEF Doing
<1> QED BY <1>2, <1>3

\* The runs a list finds.
ThreadRuns(h) == {r \in Of(TaskFor(h)) : /\ status[r] = "queued" /\ HasPR(r)
                                         /\ info[r].trigger = "unresolved"}
Dropped(h)    == {r \in ThreadRuns(h) : info[r].thread = job[h].event.about}

LEMMA ListMoves ==
    ASSUME WorkInv, NEW h \in Handlers
    PROVE  /\ ListRunning(h) =>
                 LoopMove(h, Running(TaskFor(h)), job[h].before, job[h].review)
           /\ ListThreadRuns(h) => LoopMove(h, ThreadRuns(h), Dropped(h), job[h].review)
           /\ ListPRRuns(h) =>
                 \E rows \in SUBSET Rows :
                     LET review == {r \in rows : status[r] = "review"} IN
                     LoopMove(h, rows, job[h].before, review)
<1>1. JobFields \subseteq DOMAIN job[h] /\ PlanShape(job[h].plan)
    BY WorkJobs DEF JobOK
<1>2. ASSUME ListRunning(h)
      PROVE  LoopMove(h, Running(TaskFor(h)), job[h].before, job[h].review)
  <2> DEFINE j == Beginning(h, "sweep")
  <2>1. Doing(h, "list") /\ Loop(h, j, Running(TaskFor(h)))
      BY <1>2 DEF ListRunning
  <2>2. ~Ahead(h, "sweep")
      BY <1>1, <2>1, AheadFacts
  <2>3. /\ JobFields \subseteq DOMAIN j /\ j.plan = job[h].plan /\ j.event = job[h].event
        /\ j.before = job[h].before /\ j.review = job[h].review
      BY <1>1, <2>2, BeginningFields
  <2> HIDE DEF j
  <2> QED BY <2>1, <2>3, LoopMoves
<1>3. ASSUME ListThreadRuns(h)
      PROVE  LoopMove(h, ThreadRuns(h), Dropped(h), job[h].review)
  <2> DEFINE j == [job[h] EXCEPT !.before = Dropped(h)]
  <2>1. Loop(h, j, ThreadRuns(h))
      BY <1>3 DEF ListThreadRuns, ThreadRuns, Dropped
  <2>2. /\ JobFields \subseteq DOMAIN j /\ j.plan = job[h].plan /\ j.event = job[h].event
        /\ j.before = Dropped(h) /\ j.review = job[h].review
      BY <1>1 DEF JobFields
  <2> HIDE DEF j
  <2> QED BY <2>1, <2>2, LoopMoves
<1>4. ASSUME ListPRRuns(h)
      PROVE  \E rows \in SUBSET Rows :
                 LET review == {r \in rows : status[r] = "review"} IN
                 LoopMove(h, rows, job[h].before, review)
  <2> DEFINE ofPR == {r \in Of(TaskFor(h)) \cap Rows : HasPR(r)}
             skip == {r \in ofPR : job[h].event.kind # "merged" /\ info[r].prStatus = "merged"}
             rows == ofPR \ skip
             review == {r \in rows : status[r] = "review"}
             j == [job[h] EXCEPT !.review = review]
  <2>1. Loop(h, j, rows)
      BY <1>4 DEF ListPRRuns
  <2>2. rows \in SUBSET Rows
      OBVIOUS
  <2> HIDE DEF rows
  <2>3. /\ JobFields \subseteq DOMAIN j /\ j.plan = job[h].plan /\ j.event = job[h].event
        /\ j.before = job[h].before /\ j.review = review
      BY <1>1 DEF JobFields
  <2> HIDE DEF j
  <2>4. LoopMove(h, rows, job[h].before, review)
      BY <2>1, <2>3, LoopMoves
  <2> QED BY <2>2, <2>4
<1> QED BY <1>2, <1>3, <1>4

\* Every step of a handler is one of these.
LEMMA HandlerSteps ==
    ASSUME NEW h \in Handlers, Read(h) \/ WriteTask(h) \/ WriteRun(h)
    PROVE  \/ Quiet(h) \/ ContinueTask(h)
           \/ SweepQueued(h) \/ ListRunning(h) \/ ListThreadRuns(h) \/ ListPRRuns(h)
           \/ \E r \in Runs : \/ AskToStop(h, r) \/ DropThreadRun(h, r)
                              \/ ReconcileClosed(h, r) \/ ReconcileReopened(h, r)
  BY DEF Read, WriteTask, WriteRun, Quiet

LEMMA HandlerJob ==
    ASSUME WorkInv, NEW h \in Handlers, Read(h) \/ WriteTask(h) \/ WriteRun(h)
    PROVE  OthersStay(h) /\ JobOK(job'[h])
<1>1. CASE Quiet(h)
    BY <1>1, QuietMoves, QuietOK DEF QuietMove
<1>2. CASE ContinueTask(h)
    BY <1>2, ContinueMoves
<1>3. CASE SweepQueued(h)
    BY <1>3, SweepMoves
<1>4. CASE ListRunning(h)
  <2>1. Doing(h, "list") /\ LoopMove(h, Running(TaskFor(h)), job[h].before, job[h].review)
      BY <1>4, ListMoves DEF ListRunning
  <2>2. OthersStay(h)
      BY <2>1 DEF LoopMove
  <2> QED BY <2>1, <2>2, LoopOK
<1>5. CASE ListThreadRuns(h)
  <2>1. Doing(h, "threads") /\ LoopMove(h, ThreadRuns(h), Dropped(h), job[h].review)
      BY <1>5, ListMoves DEF ListThreadRuns
  <2>2. OthersStay(h)
      BY <2>1 DEF LoopMove
  <2> QED BY <2>1, <2>2, LoopOK
<1>6. CASE ListPRRuns(h)
  <2>1. PICK rows \in SUBSET Rows :
            LoopMove(h, rows, job[h].before, {r \in rows : status[r] = "review"})
      BY <1>6, ListMoves
  <2>2. Doing(h, "runs")
      BY <1>6 DEF ListPRRuns
  <2>3. OthersStay(h)
      BY <2>1 DEF LoopMove
  <2> QED BY <2>1, <2>2, <2>3, LoopOK
<1>7. ASSUME NEW r \in Runs, \/ AskToStop(h, r) \/ DropThreadRun(h, r)
                             \/ ReconcileClosed(h, r) \/ ReconcileReopened(h, r)
      PROVE  OthersStay(h) /\ JobOK(job'[h])
  <2>1. EachLeft(h, r)
      BY <1>7 DEF AskToStop, DropThreadRun, ReconcileClosed, ReconcileReopened
  <2>2. EachMove(h, r)
      BY <2>1, EachMoves
  <2>3. \E x \in {"ask", "drop", "merge", "close", "reopen"} : Doing(h, x)
      BY <1>7 DEF AskToStop, DropThreadRun, ReconcileClosed, ReconcileReopened
  <2> QED BY <2>2, <2>3, EachOK DEF EachMove
<1> QED BY <1>1, <1>2, <1>3, <1>4, <1>5, <1>6, <1>7, HandlerSteps

LEMMA InfoStep ==
    ASSUME WorkInv, [Next]_vars
    PROVE  InfoShape'
<1> DEFINE Columns == {"trigger", "thread", "sha", "prStatus"}
<1>1. InfoShape
    BY DEF WorkInv
<1>2. ASSUME NEW r \in Runs, NEW c, Columns \subseteq DOMAIN c, info' = [info EXCEPT ![r] = c]
      PROVE  InfoShape'
    BY <1>1, <1>2 DEF InfoShape
<1>3. ASSUME UNCHANGED info PROVE InfoShape'
    BY <1>1, <1>3 DEF InfoShape
<1>4. ASSUME NEW h \in Handlers, AddTaskRun(h) PROVE InfoShape'
  <2>1. PICK r \in Runs : \E c : Columns \subseteq DOMAIN c /\ info' = [info EXCEPT ![r] = c]
      BY <1>4 DEF AddTaskRun, InsertRun, Of
  <2> QED BY <1>2, <2>1
<1>5. ASSUME NEW r, NEW x,
             \/ info' = [info EXCEPT ![r].thread = x]
             \/ info' = [info EXCEPT ![r].sha = x]
                           \/ info' = [info EXCEPT ![r].prStatus = x]
      PROVE  InfoShape'
    BY <1>1, <1>5 DEF InfoShape
<1>6. ASSUME NEW h \in Handlers, WriteTarget(h) \/ WriteHeadSHA(h) PROVE InfoShape'
    BY <1>5, <1>6 DEF WriteTarget, WriteHeadSHA, UpsertRunResponseTarget
<1>7. ASSUME NEW h \in Handlers, NEW r \in Runs, ReconcileClosed(h, r) \/ ReconcileReopened(h, r)
      PROVE  InfoShape'
  <2>1. ASSUME NEW x, NEW y, Resolve(r, x, y) \/ NoteOnly(r, y) PROVE InfoShape'
      BY <1>3, <1>5, <2>1 DEF Resolve, NoteOnly
  <2>2. CASE NoteReopened(r)
    <3>1. \E x : info' = [info EXCEPT ![r].prStatus = x]
        BY <2>2 DEF NoteReopened
    <3> QED BY <1>5, <3>1
  <2> QED BY <1>7, <2>1, <2>2 DEF ReconcileClosed, ReconcileReopened
<1>8. ASSUME NEW r \in Runs, Execute(r) PROVE InfoShape'
  <2>1. CASE SettleOk(r)
    <3>1. PICK c, x : info' = [info EXCEPT ![r].sha = c, ![r].prStatus = x]
        BY <2>1 DEF SettleOk
    <3>2. info' = [info EXCEPT ![r] = [[info[r] EXCEPT !.sha = c] EXCEPT !.prStatus = x]]
        BY <1>1, <3>1 DEF InfoShape
    <3>3. Columns \subseteq DOMAIN [[info[r] EXCEPT !.sha = c] EXCEPT !.prStatus = x]
        BY <1>1 DEF InfoShape
    <3> QED BY <1>2, <3>2, <3>3
  <2>2. CASE SettleFailed(r)
      BY <1>5, <2>2 DEF SettleFailed
  <2>3. CASE UNCHANGED info
      BY <1>3, <2>3
  <2> QED BY <1>8, <2>1, <2>2, <2>3 DEF Execute, Claim, OpenPull, Settle, SettleLimited, FinishRun
<1>9. ASSUME NEW h \in Handlers, WriteRun(h) PROVE InfoShape'
    BY <1>3, <1>4, <1>6, <1>7, <1>9 DEF WriteRun, SweepQueued, AskToStop, DropThreadRun
<1>10. ASSUME NEW h \in Handlers, NEW t \in Tasks, Event(h, t) PROVE InfoShape'
    BY <1>3, <1>10 DEF Event
<1>11. ASSUME NEW h \in Handlers, Read(h) \/ WriteTask(h) PROVE InfoShape'
    BY <1>3, <1>11 DEF Read, WriteTask
<1>12. ASSUME NEW t \in Tasks, LostEvent(t) PROVE InfoShape'
    BY <1>3, <1>12 DEF LostEvent
<1>13. CASE UNCHANGED vars
    BY <1>3, <1>13 DEF vars
<1> QED BY <1>8, <1>9, <1>10, <1>11, <1>12, <1>13 DEF Next

\* A step of Next, by who takes it.
LEMMA NextSteps ==
    ASSUME [Next]_vars
    PROVE  \/ \E h \in Handlers, t \in Tasks : Event(h, t)
           \/ \E h \in Handlers : Read(h) \/ WriteTask(h) \/ WriteRun(h)
           \/ UNCHANGED job
  BY DEF Next, vars, LostEvent, Execute

LEMMA WorkStep ==
    ASSUME WorkInv, [Next]_vars
    PROVE  WorkInv'
<1>1. TasksInv'
    BY TasksStep DEF WorkInv
<1>2. kinds' \in Mixes
    BY DEF WorkInv, Next, vars
<1>3. ASSUME NEW h \in Handlers, OthersStay(h), JobOK(job'[h])
      PROVE  \A g \in Handlers : JobOK(job'[g])
    BY <1>3 DEF WorkInv, OthersStay
<1>4. \A g \in Handlers : JobOK(job'[g])
  <2>1. ASSUME NEW h \in Handlers, NEW t \in Tasks, Event(h, t)
        PROVE  \A g \in Handlers : JobOK(job'[g])
      BY <1>3, <2>1, EventJob
  <2>2. ASSUME NEW h \in Handlers, Read(h) \/ WriteTask(h) \/ WriteRun(h)
        PROVE  \A g \in Handlers : JobOK(job'[g])
      BY <1>3, <2>2, HandlerJob
  <2>3. CASE UNCHANGED job
      BY <2>3 DEF WorkInv
  <2> QED BY <2>1, <2>2, <2>3, NextSteps
<1>5. \A g \in Handlers : JobOK(job[g])'
    BY <1>4 DEF JobOK, Hears, PlanShape, StepShape
<1> QED BY <1>1, <1>2, <1>5, InfoStep DEF WorkInv

LEMMA WorkInit == Init => WorkInv
<1> SUFFICES ASSUME Init PROVE WorkInv
    OBVIOUS
<1>1. InfoShape
    BY DEF Init, InfoShape, NewRun
<1>2. \A h \in Handlers : JobOK(job[h])
    BY IdleOK DEF Init
<1> QED BY <1>1, <1>2, TasksInit DEF WorkInv, Init

-----------------------------------------------------------------------------
(* What one step can do to a run.                                          *)

\* With room for every run, adding one forgets none.
LEMMA NothingTrimmed ==
    ASSUME StoreTypeOK, NEW r \in Runs, status[r] = "absent"
    PROVE  TrimOldRuns = {}
<1> SUFFICES ASSUME NEW x \in TrimOldRuns PROVE FALSE
    OBVIOUS
<1> DEFINE newer == {y \in Rows : seq[y] > seq[x]}
           all   == (newer \cup {x}) \cup {r}
<1>1. x \in Rows /\ Cardinality(newer) + 1 >= MaxRuns
    BY DEF TrimOldRuns
<1>2. x \in Runs /\ x # r /\ x \notin newer /\ r \notin newer /\ newer \in SUBSET Runs
    BY <1>1 DEF Rows, StoreTypeOK
<1>3. all \in SUBSET Runs
    BY <1>2
<1> HIDE DEF newer
<1>4. IsFiniteSet(newer)
    BY <1>2, FS_Subset, StoreConstants
<1>5. IsFiniteSet(newer \cup {x}) /\ Cardinality(newer \cup {x}) = Cardinality(newer) + 1
    BY <1>2, <1>4, FS_AddElement
<1>6. Cardinality(all) = Cardinality(newer \cup {x}) + 1
    BY <1>2, <1>5, FS_AddElement
<1>7. Cardinality(all) <= Cardinality(Runs)
    BY <1>3, FS_Subset, StoreConstants
<1>8. Cardinality(newer) \in Nat /\ Cardinality(Runs) \in Nat
    BY <1>4, FS_CardinalityType, StoreConstants
<1> HIDE DEF all
<1> QED BY <1>1, <1>5, <1>6, <1>7, <1>8, TaskConstants, StoreConstants

StatusMove(r) ==
    \/ status'[r] = status[r]
    \/ status[r] = "absent" /\ status'[r] = "queued"
    \/ status[r] = "queued" /\ status'[r] \in {"succeeded", "failed", "canceled"}
    \/ /\ status[r] = "queued" /\ status'[r] = "running"
       /\ (r \in PRRuns => TaskOf[r] \notin taskDraft) /\ UNCHANGED <<taskDraft, job>>
    \/ status[r] = "running" /\ status'[r] \in Final
    \/ status[r] = "running" /\ status'[r] = "queued" /\ r \in requeued'
    \/ status[r] = "review" /\ status'[r] \in {"succeeded", "canceled"}

RunMoves ==
    /\ \A r \in Runs : StatusMove(r)
    /\ \A r \in cancelReq : r \in cancelReq' \/ status[r] \in Final
    /\ requeued \subseteq requeued'

LEMMA Closing ==
    ASSUME StoreTypeOK, NEW r \in Runs, NEW to \in Final, SetRunStatus(r, to),
           status[r] = "running" \/ to # "review"
    PROVE  \A x \in Runs : StatusMove(x)
<1>1. status' = [status EXCEPT ![r] = to] /\ to \in Transitions(status[r])
    BY DEF SetRunStatus, CanTransition
<1>2. \A x \in Runs \ {r} : status'[x] = status[x]
    BY <1>1 DEF StoreTypeOK
<1>3. status'[r] = to
    BY <1>1 DEF StoreTypeOK
<1> QED BY <1>1, <1>2, <1>3 DEF StatusMove, Transitions, Final

LEMMA Sweeping ==
    ASSUME StoreTypeOK, NEW t, CancelQueuedRuns(t)
    PROVE  \A x \in Runs : StatusMove(x)
  BY DEF CancelQueuedRuns, StatusMove, StoreTypeOK

LEMMA Adding ==
    ASSUME StoreTypeOK, NEW r \in Runs, AddRun(r)
    PROVE  \A x \in Runs : StatusMove(x)
<1>1. status[r] = "absent" /\ TrimOldRuns = {}
    BY NothingTrimmed DEF AddRun
<1> QED BY <1>1 DEF AddRun, StatusMove, StoreTypeOK

LEMMA StartMoves ==
    ASSUME StoreTypeOK, NEW r \in Runs, Claim(r), UNCHANGED job
    PROVE  RunMoves
<1>1. UNCHANGED <<cancelReq, taskDraft, requeued>>
    BY DEF Claim
<1>2. \A x \in Runs : StatusMove(x)
  <2>1. CASE \E p \in Tasks \cup {NoTask} : ClaimNextQueuedRun(p, r)
    <3>1. Claimable(r) /\ status' = [status EXCEPT ![r] = "running"]
        BY <2>1 DEF ClaimNextQueuedRun, NextQueuedRun
    <3> QED BY <1>1, <3>1 DEF Claimable, StatusMove, StoreTypeOK
  <2>2. CASE SetRunStatus(r, "canceled")
      BY <2>2, Closing DEF Final
  <2> QED BY <2>1, <2>2 DEF Claim
<1> QED BY <1>1, <1>2 DEF RunMoves

LEMMA SettleMoves ==
    ASSUME StoreTypeOK, NEW r \in Runs, Settle(r)
    PROVE  RunMoves
<1>1. UNCHANGED cancelReq
    BY DEF Settle
<1>2. CASE status[r] = "running" /\ SettleOk(r)
    BY <1>1, <1>2, Closing DEF SettleOk, RunMoves, Final
<1>3. CASE status[r] = "running" /\ SettleFailed(r)
    BY <1>1, <1>3, Closing DEF SettleFailed, RunMoves, Final
<1>4. CASE status[r] = "running" /\ SettleLimited(r)
  <2>1. status' = [status EXCEPT ![r] = "queued"] /\ requeued' = requeued \cup {r}
      BY <1>4 DEF SettleLimited, Requeue
  <2> QED BY <1>1, <1>4, <2>1 DEF RunMoves, StatusMove, StoreTypeOK
<1>5. CASE UNCHANGED <<status, requeued>>
    BY <1>1, <1>5 DEF RunMoves, StatusMove
<1> QED BY <1>2, <1>3, <1>4, <1>5 DEF Settle

LEMMA FinishMoves ==
    ASSUME StoreTypeOK, NEW r \in Runs, FinishRun(r)
    PROVE  RunMoves
<1>1. UNCHANGED requeued
    BY DEF FinishRun
<1>2. CASE phase[r] = "ending"
  <2>1. /\ UNCHANGED status
        /\ cancelReq' = cancelReq \/ (cancelReq' = cancelReq \ {r} /\ status[r] \in Final)
      BY <1>2 DEF FinishRun, ClearRunCancel
  <2> QED BY <1>1, <2>1 DEF RunMoves, StatusMove
<1>3. CASE phase[r] # "ending"
  <2>1. UNCHANGED cancelReq /\ (UNCHANGED status \/ CancelQueuedRuns(TaskOf[r]))
      BY <1>3 DEF FinishRun
  <2> QED BY <1>1, <2>1, Sweeping DEF RunMoves, StatusMove
<1> QED BY <1>2, <1>3

LEMMA WriteMoves ==
    ASSUME StoreTypeOK, NEW h \in Handlers, WriteRun(h)
    PROVE  RunMoves
<1>1. UNCHANGED requeued
    BY DEF WriteRun
<1>2. CASE AddTaskRun(h)
  <2>1. PICK r \in Runs : AddRun(r)
      BY <1>2 DEF AddTaskRun, Of
  <2>2. UNCHANGED cancelReq
      BY <1>2 DEF AddTaskRun
  <2> QED BY <1>1, <2>1, <2>2, Adding DEF RunMoves
<1>3. CASE SweepQueued(h)
    BY <1>1, <1>3, Sweeping DEF SweepQueued, RunMoves
<1>4. ASSUME NEW r \in Runs, AskToStop(h, r)
      PROVE  RunMoves
    BY <1>1, <1>4 DEF AskToStop, RequestRunCancel, RunMoves, StatusMove
<1>5. ASSUME NEW r \in Runs, DropThreadRun(h, r)
      PROVE  RunMoves
  <2>1. UNCHANGED cancelReq /\ (UNCHANGED status \/ SetRunStatus(r, "canceled"))
      BY <1>5 DEF DropThreadRun, SetRunStatus, Final
  <2> QED BY <1>1, <2>1, Closing DEF RunMoves, StatusMove, Final
<1>6. ASSUME NEW r \in Runs, ReconcileClosed(h, r)
      PROVE  RunMoves
  <2>1. /\ UNCHANGED cancelReq
        /\ UNCHANGED status \/ SetRunStatus(r, "succeeded") \/ SetRunStatus(r, "canceled")
      BY <1>6 DEF ReconcileClosed, Resolve, NoteOnly
  <2> QED BY <1>1, <2>1, Closing DEF RunMoves, StatusMove, Final
<1>7. CASE UNCHANGED <<status, cancelReq>>
    BY <1>1, <1>7 DEF RunMoves, StatusMove
<1>8. ASSUME NEW r \in Runs, ReconcileReopened(h, r)
      PROVE  UNCHANGED <<status, cancelReq>>
    BY <1>8 DEF ReconcileReopened, storeVars
<1>9. CASE WriteTarget(h) \/ WriteHeadSHA(h)
    BY <1>7, <1>9 DEF WriteTarget, WriteHeadSHA, storeVars
<1> QED BY <1>2, <1>3, <1>4, <1>5, <1>6, <1>7, <1>8, <1>9 DEF WriteRun

LEMMA NextMoves ==
    ASSUME WorkInv, [Next]_vars
    PROVE  RunMoves
<1>1. StoreTypeOK
    BY DEF WorkInv, TasksInv
<1>2. CASE UNCHANGED <<status, cancelReq, requeued>>
    BY <1>2 DEF RunMoves, StatusMove
<1>3. ASSUME NEW h \in Handlers, NEW t \in Tasks, Event(h, t)
      PROVE  UNCHANGED <<status, cancelReq, requeued>>
    BY <1>3 DEF Event, storeVars
<1>4. ASSUME NEW h \in Handlers, Read(h) \/ WriteTask(h)
      PROVE  UNCHANGED <<status, cancelReq, requeued>>
    BY <1>4 DEF Read, WriteTask, storeVars, CompleteTask, OpenTask, SetDraft
<1>5. ASSUME NEW t \in Tasks, LostEvent(t)
      PROVE  UNCHANGED <<status, cancelReq, requeued>>
    BY <1>5 DEF LostEvent, storeVars
<1>6. ASSUME NEW r \in Runs, Execute(r)
      PROVE  RunMoves
  <2>1. CASE OpenPull(r)
      BY <1>2, <2>1 DEF OpenPull, storeVars
  <2> QED BY <1>1, <1>6, <2>1, StartMoves, SettleMoves, FinishMoves DEF Execute
<1>7. CASE UNCHANGED vars
    BY <1>2, <1>7 DEF vars, storeVars
<1> QED BY <1>1, <1>2, <1>3, <1>4, <1>5, <1>6, <1>7, WriteMoves DEF Next

\* Whose step it is, for one handler; and what it is, by the step its plan is at.
LEMMA StepOf ==
    ASSUME WorkInv, [Next]_vars, NEW h \in Handlers
    PROVE  \/ job'[h] = job[h]
           \/ \E t \in Tasks : Event(h, t)
           \/ Read(h) \/ WriteTask(h) \/ WriteRun(h)
<1>1. ASSUME NEW g \in Handlers, NEW t \in Tasks, Event(g, t), g # h
      PROVE  job'[h] = job[h]
    BY <1>1, EventJob DEF OthersStay
<1>2. ASSUME NEW g \in Handlers, Read(g) \/ WriteTask(g) \/ WriteRun(g), g # h
      PROVE  job'[h] = job[h]
    BY <1>2, HandlerJob DEF OthersStay
<1> QED BY <1>1, <1>2, NextSteps

LEMMA StepAt ==
    ASSUME NEW h \in Handlers, Read(h) \/ WriteTask(h) \/ WriteRun(h), NEW x, Doing(h, x)
    PROVE  /\ x = "list"  => ListRunning(h)
           /\ x = "ask"   => \E r \in Runs : AskToStop(h, r)
           /\ x = "drop"  => \E r \in Runs : DropThreadRun(h, r)
           /\ x \in {"merge", "close"} => \E r \in Runs : ReconcileClosed(h, r)
           /\ x = "target" => WriteTarget(h)
           /\ x = "add"    => AddTaskRun(h)
<1>1. \A y : Doing(h, y) => y = x
    BY DEF Doing
<1> QED BY <1>1, HandlerSteps
        DEF Quiet, FindTask, ActiveTask, TaskIdle, FreshCommit, CopySource, CheckOpen, RuntimeFromIssueLabels, NoPRRuns,
            CompleteTask, OpenTask, SetDraft, AddTaskRun, WriteTarget, WriteHeadSHA, ContinueTask,
            SweepQueued, ListRunning, ListThreadRuns, ListPRRuns, AskToStop, DropThreadRun,
            ReconcileClosed, ReconcileReopened

\* An idle handler has nothing to do.
LEMMA EventWasIdle ==
    ASSUME NEW h \in Handlers, NEW t \in Tasks, Event(h, t)
    PROVE  /\ job[h].plan = <<>> /\ job[h].before = {}
           /\ \A x : ~Doing(h, x)
  BY IdleFields DEF Event, Doing

\* What is closed stays closed, and what is resolved stays so.
LEMMA FinalStays ==
    ASSUME RunMoves, NEW r \in Runs, status[r] \in Final
    PROVE  status'[r] \in Final /\ (status[r] # "review" => status'[r] = status[r])
  BY DEF RunMoves, StatusMove, Final

-----------------------------------------------------------------------------
(* Reviews.                                                                *)

\* A handler of a closed pull request has still to go to every run it found in
\* review, or that run is resolved.
ReviewsLeft ==
    \A h \in Handlers :
        Doing(h, "merge") \/ Doing(h, "close") =>
            \A r \in job[h].review :
                /\ r \in Runs /\ status[r] \in Final
                /\ r \in job[h].left \/ status[r] # "review"

LEMMA ReviewKept ==
    ASSUME WorkInv, ReviewsLeft, [Next]_vars, NEW h \in Handlers,
           NEW x \in {"merge", "close"}, Doing(h, x), NEW r \in job[h].review
    PROVE  /\ r \in Runs /\ status'[r] \in Final
           /\ \/ status'[r] # "review"
              \/ Doing(h, x)' /\ r \in job'[h].left /\ job'[h].review = job[h].review
<1>1. /\ r \in Runs /\ status[r] \in Final
      /\ r \in job[h].left \/ status[r] # "review"
    BY DEF ReviewsLeft
<1>2. status'[r] \in Final /\ (status[r] # "review" => status'[r] = status[r])
    BY <1>1, NextMoves, FinalStays
<1>3. CASE job'[h] = job[h]
    BY <1>1, <1>2, <1>3 DEF Doing
<1>4. ASSUME NEW y \in Runs, ReconcileClosed(h, y)
      PROVE  \/ status'[r] # "review"
             \/ Doing(h, x)' /\ r \in job'[h].left /\ job'[h].review = job[h].review
  <2>1. EachMove(h, y)
      BY <1>4, EachMoves DEF ReconcileClosed
  <2>2. CASE r = y
    <3>1. PICK to \in {"succeeded", "canceled"} : \E prStatus : Resolve(r, to, prStatus)
        BY <1>4, <2>2 DEF ReconcileClosed
    <3>2. CASE CanTransition(r, to)
      <4>1. status' = [status EXCEPT ![r] = to]
          BY <3>1, <3>2 DEF Resolve, SetRunStatus
      <4> QED BY <1>1, <4>1 DEF WorkInv, TasksInv, StoreTypeOK
    <3>3. CASE ~CanTransition(r, to)
      <4>1. status[r] # "review"
          BY <3>3 DEF CanTransition, Transitions
      <4> QED BY <1>2, <4>1
    <3> QED BY <3>2, <3>3
  <2>3. CASE r # y /\ r \in job[h].left
      BY <2>1, <2>3 DEF EachMove, Doing
  <2> QED BY <1>1, <1>2, <2>2, <2>3
<1>5. ASSUME Read(h) \/ WriteTask(h) \/ WriteRun(h)
      PROVE  \E y \in Runs : ReconcileClosed(h, y)
    BY <1>5, StepAt
<1>6. ASSUME NEW t \in Tasks, Event(h, t) PROVE FALSE
    BY <1>6, EventWasIdle
<1> QED BY <1>1, <1>2, <1>3, <1>4, <1>5, <1>6, StepOf

LEMMA ReviewStep ==
    ASSUME WorkInv, ReviewsLeft, [Next]_vars
    PROVE  ReviewsLeft'
<1> SUFFICES ASSUME NEW h \in Handlers, NEW x \in {"merge", "close"}, Doing(h, x)',
                    NEW r \in job'[h].review
             PROVE  /\ r \in Runs
                    /\ status'[r] \in Final
                    /\ r \in job'[h].left \/ status'[r] # "review"
    BY DEF ReviewsLeft
<1>0. job'[h].plan # <<>> /\ Head(job'[h].plan) = x
    BY DEF Doing
<1>1. CASE Doing(h, x) /\ job'[h].review = job[h].review
    BY <1>1, ReviewKept
<1>2. CASE job'[h] = job[h]
    BY <1>1, <1>2 DEF Doing
<1>3. ASSUME NEW t \in Tasks, Event(h, t) PROVE FALSE
    BY <1>0, <1>3, EventJob
<1>4. CASE Quiet(h)
    BY <1>0, <1>4, QuietMoves, QuietOK, IdleFields
<1>5. CASE ContinueTask(h)
    BY <1>0, <1>5, ContinueMoves, IdleFields
<1>6. CASE SweepQueued(h)
    BY <1>0, <1>6, SweepMoves
<1>7. CASE ListRunning(h)
  <2>1. Doing(h, "list") /\ LoopMove(h, Running(TaskFor(h)), job[h].before, job[h].review)
      BY <1>7, ListMoves DEF ListRunning
  <2> QED BY <1>0, <2>1, LoopOK, IdleFields
<1>8. CASE ListThreadRuns(h)
  <2>1. Doing(h, "threads") /\ LoopMove(h, ThreadRuns(h), Dropped(h), job[h].review)
      BY <1>8, ListMoves DEF ListThreadRuns
  <2> QED BY <1>0, <2>1, LoopOK, IdleFields
<1>9. CASE ListPRRuns(h) /\ UNCHANGED status
  <2>1. PICK rows \in SUBSET Rows :
            LoopMove(h, rows, job[h].before, {y \in rows : status[y] = "review"})
      BY <1>9, ListMoves
  <2>2. Doing(h, "runs")
      BY <1>9 DEF ListPRRuns
  <2>3. rows # {}
      BY <1>0, <2>1, <2>2, LoopOK, IdleFields
  <2>4. job'[h].left = rows /\ job'[h].review = {y \in rows : status[y] = "review"}
      BY <2>1, <2>2, <2>3, LoopOK
  <2> QED BY <1>9, <2>4 DEF Rows, Final
<1>10. ASSUME NEW y \in Runs, \/ AskToStop(h, y) \/ DropThreadRun(h, y)
                              \/ ReconcileClosed(h, y) \/ ReconcileReopened(h, y)
       PROVE  Doing(h, x) /\ job'[h].review = job[h].review
  <2>1. EachMove(h, y)
      BY <1>10, EachMoves DEF AskToStop, DropThreadRun, ReconcileClosed, ReconcileReopened
  <2>2. \E z \in {"ask", "drop", "merge", "close", "reopen"} : Doing(h, z)
      BY <1>10 DEF AskToStop, DropThreadRun, ReconcileClosed, ReconcileReopened
  <2>3. job[h].left # {y}
      BY <1>0, <2>1, <2>2, EachOK, IdleFields
  <2> QED BY <1>0, <2>1, <2>3 DEF EachMove, Doing
<1>11. ASSUME Read(h) \/ WriteTask(h) \/ WriteRun(h)
       PROVE  ListPRRuns(h) => UNCHANGED status
  <2>1. ListPRRuns(h) => Doing(h, "runs")
      BY DEF ListPRRuns
  <2>2. Read(h) => UNCHANGED status
      BY DEF Read, storeVars
  <2>3. WriteTask(h) => UNCHANGED status
      BY DEF WriteTask
  <2>4. WriteRun(h) => ~Doing(h, "runs") \/ UNCHANGED status
      BY DEF WriteRun, AddTaskRun, WriteTarget, WriteHeadSHA, SweepQueued, AskToStop,
             DropThreadRun, ReconcileClosed, ReconcileReopened, Doing
  <2> QED BY <1>11, <2>1, <2>2, <2>3, <2>4
<1> QED BY <1>1, <1>2, <1>3, <1>4, <1>5, <1>6, <1>7, <1>8, <1>9, <1>10, <1>11, StepOf, HandlerSteps

-----------------------------------------------------------------------------
(* Threads.                                                                *)

\* A run that was added and not yet written its target has no thread, and
\* nobody else is about to write it one.
TargetsPending ==
    \A h \in Handlers : Doing(h, "target") =>
        /\ job[h].run \in Runs /\ status[job[h].run] # "absent"
        /\ info[job[h].run].thread = Nothing
        /\ \A g \in Handlers : Doing(g, "target") /\ job[g].run = job[h].run => g = h

LEMMA ThreadKept ==
    ASSUME WorkInv, [Next]_vars, NEW r \in Runs, status[r] # "absent"
    PROVE  \/ info'[r].thread = info[r].thread
           \/ \E h \in Handlers : WriteTarget(h) /\ job[h].run = r
<1>1. InfoShape
    BY DEF WorkInv
<1>2. CASE UNCHANGED info
    BY <1>2
<1>3. ASSUME NEW x, NEW y,
             \/ info' = [info EXCEPT ![x].sha = y]
             \/ info' = [info EXCEPT ![x].prStatus = y]
      PROVE  info'[r].thread = info[r].thread
    BY <1>1, <1>3 DEF InfoShape
<1>4. ASSUME NEW h \in Handlers, WriteRun(h)
      PROVE  info'[r].thread = info[r].thread \/ (WriteTarget(h) /\ job[h].run = r)
  <2>1. CASE AddTaskRun(h)
    <3>1. PICK x \in Runs : \E c : status[x] = "absent" /\ info' = [info EXCEPT ![x] = c]
        BY <2>1 DEF AddTaskRun, InsertRun, Of, AddRun
    <3> QED BY <1>1, <3>1 DEF InfoShape
  <2>2. CASE WriteTarget(h)
    <3>1. PICK x : info' = [info EXCEPT ![job[h].run].thread = x]
        BY <2>2 DEF WriteTarget, UpsertRunResponseTarget
    <3> QED BY <1>1, <2>2, <3>1 DEF InfoShape
  <2>3. CASE WriteHeadSHA(h)
      BY <1>3, <2>3 DEF WriteHeadSHA
  <2>4. ASSUME NEW x \in Runs, ReconcileClosed(h, x)
        PROVE  info'[r].thread = info[r].thread
      BY <1>2, <1>3, <2>4 DEF ReconcileClosed, Resolve, NoteOnly
  <2>5. ASSUME NEW x \in Runs, ReconcileReopened(h, x)
        PROVE  info'[r].thread = info[r].thread
    <3>1. \E y : info' = [info EXCEPT ![x].prStatus = y]
        BY <2>5 DEF ReconcileReopened, NoteReopened
    <3> QED BY <1>3, <3>1
  <2> QED BY <1>2, <1>4, <2>1, <2>2, <2>3, <2>4, <2>5
          DEF WriteRun, SweepQueued, AskToStop, DropThreadRun
<1>5. ASSUME NEW x \in Runs, Execute(x)
      PROVE  info'[r].thread = info[r].thread
  <2>1. CASE SettleOk(x)
    <3>1. PICK c, y : info' = [info EXCEPT ![x].sha = c, ![x].prStatus = y]
        BY <2>1 DEF SettleOk
    <3>2. info' = [info EXCEPT ![x] = [[info[x] EXCEPT !.sha = c] EXCEPT !.prStatus = y]]
        BY <1>1, <3>1 DEF InfoShape
    <3>3. [[info[x] EXCEPT !.sha = c] EXCEPT !.prStatus = y].thread = info[x].thread
        BY <1>1 DEF InfoShape
    <3> QED BY <1>1, <3>2, <3>3 DEF InfoShape
  <2>2. CASE SettleFailed(x)
      BY <1>3, <2>2 DEF SettleFailed
  <2> QED BY <1>2, <1>5, <2>1, <2>2 DEF Execute, Claim, OpenPull, Settle, SettleLimited, FinishRun
<1> QED BY <1>2, <1>4, <1>5 DEF Next, vars, Event, Read, WriteTask, LostEvent

\* A new run comes with its handler's job, and with no thread.
LEMMA AddMoves ==
    ASSUME WorkInv, NEW h \in Handlers, AddTaskRun(h)
    PROVE  \E r \in Runs :
               /\ status[r] = "absent" /\ status'[r] = "queued" /\ info'[r].thread = Nothing
               /\ job'[h] = Idle \/ job'[h].run = r
<1>1. JobFields \subseteq DOMAIN job[h] /\ job = [g \in Handlers |-> job[g]]
    BY WorkJobs
<1>2. PICK r \in Runs : /\ AddRun(r) /\ Advance(h, [job[h] EXCEPT !.run = r])
                        /\ \E c : c.thread = Nothing /\ info' = [info EXCEPT ![r] = c]
    BY DEF AddTaskRun, InsertRun, Of
<1> DEFINE j == [job[h] EXCEPT !.run = r]
<1>3. JobFields \subseteq DOMAIN j /\ j.run = r
    BY <1>1 DEF JobFields
<1>4. Advance(h, j)
    BY <1>2
<1> HIDE DEF j
<1>5. Onward(h, j)
    BY <1>1, <1>3, <1>4, AdvanceMoves
<1>6. status[r] = "absent" /\ status'[r] = "queued"
  <2>1. status[r] = "absent" /\ TrimOldRuns = {}
      BY <1>2, NothingTrimmed DEF AddRun, WorkInv, TasksInv
  <2> QED BY <1>2, <2>1 DEF AddRun
<1>7. info'[r].thread = Nothing
    BY <1>2 DEF WorkInv, InfoShape
<1> QED BY <1>3, <1>5, <1>6, <1>7 DEF Onward

\* When its target is written, the handler is through.
LEMMA TargetLast ==
    ASSUME WorkInv, NEW h \in Handlers, WriteTarget(h)
    PROVE  ~Doing(h, "target")'
<1>1. JobOK(job[h]) /\ JobFields \subseteq DOMAIN job[h] /\ job = [g \in Handlers |-> job[g]]
    BY WorkJobs
<1>2. Doing(h, "target") /\ Advance(h, job[h])
    BY DEF WriteTarget
<1>3. Onward(h, job[h]) /\ Tail(job[h].plan) = <<>>
    BY <1>1, <1>2, AdvanceMoves, PlanFacts DEF JobOK, Doing
<1>4. job'[h] = Idle
    BY <1>3 DEF Onward
<1> QED BY <1>4, IdleFields DEF Doing

\* Only a handler that just added its run comes to write the target.
LEMMA TargetComes ==
    ASSUME WorkInv, [Next]_vars, NEW h \in Handlers, Doing(h, "target")'
    PROVE  job'[h] = job[h] \/ AddTaskRun(h)
<1>0. job'[h].plan # <<>> /\ Head(job'[h].plan) = "target" /\ job'[h] # Idle
    BY IdleFields DEF Doing
<1>1. ASSUME NEW t \in Tasks, Event(h, t) PROVE FALSE
    BY <1>0, <1>1, EventJob
<1>2. ASSUME Read(h) \/ WriteTask(h) \/ WriteRun(h), Quiet(h) PROVE AddTaskRun(h)
  <2>1. Doing(h, "add")
      BY <1>0, <1>2, QuietMoves, QuietOK
  <2> QED BY <1>2, <2>1, StepAt
<1>3. CASE ContinueTask(h)
    BY <1>0, <1>3, ContinueMoves
<1>4. CASE SweepQueued(h)
    BY <1>0, <1>4, SweepMoves
<1>5. CASE ListRunning(h)
  <2>1. Doing(h, "list") /\ LoopMove(h, Running(TaskFor(h)), job[h].before, job[h].review)
      BY <1>5, ListMoves DEF ListRunning
  <2> QED BY <1>0, <2>1, LoopOK
<1>6. CASE ListThreadRuns(h)
  <2>1. Doing(h, "threads") /\ LoopMove(h, ThreadRuns(h), Dropped(h), job[h].review)
      BY <1>6, ListMoves DEF ListThreadRuns
  <2> QED BY <1>0, <2>1, LoopOK
<1>7. CASE ListPRRuns(h)
  <2>1. PICK rows \in SUBSET Rows :
            LoopMove(h, rows, job[h].before, {r \in rows : status[r] = "review"})
      BY <1>7, ListMoves
  <2>2. Doing(h, "runs")
      BY <1>7 DEF ListPRRuns
  <2> QED BY <1>0, <2>1, <2>2, LoopOK
<1>8. ASSUME NEW r \in Runs, \/ AskToStop(h, r) \/ DropThreadRun(h, r)
                             \/ ReconcileClosed(h, r) \/ ReconcileReopened(h, r)
      PROVE  FALSE
  <2>1. EachMove(h, r)
      BY <1>8, EachMoves DEF AskToStop, DropThreadRun, ReconcileClosed, ReconcileReopened
  <2>2. PICK x \in {"ask", "drop", "merge", "close", "reopen"} : Doing(h, x)
      BY <1>8 DEF AskToStop, DropThreadRun, ReconcileClosed, ReconcileReopened
  <2>3. job[h].left # {r}
      BY <1>0, <2>1, <2>2, EachOK
  <2>4. job'[h].plan = job[h].plan
      BY <2>1, <2>3 DEF EachMove
  <2> QED BY <1>0, <2>2, <2>4 DEF Doing
<1> QED BY <1>1, <1>2, <1>3, <1>4, <1>5, <1>6, <1>7, <1>8, StepOf, HandlerSteps

LEMMA TargetStep ==
    ASSUME WorkInv, TargetsPending, [Next]_vars
    PROVE  TargetsPending'
<1> DEFINE Ready(h) == /\ job'[h].run \in Runs /\ status'[job'[h].run] # "absent"
                       /\ info'[job'[h].run].thread = Nothing
<1>1. \A r \in Runs : status[r] # "absent" => status'[r] # "absent"
    BY NextMoves DEF RunMoves, StatusMove, Final
<1>2. ASSUME NEW h \in Handlers, Doing(h, "target"), job'[h] = job[h]
      PROVE  Ready(h)
  <2>1. /\ job[h].run \in Runs /\ status[job[h].run] # "absent"
        /\ info[job[h].run].thread = Nothing
      BY <1>2 DEF TargetsPending
  <2>2. ASSUME NEW g \in Handlers, WriteTarget(g), job[g].run = job[h].run
        PROVE  FALSE
    <3>1. g = h
        BY <1>2, <2>2 DEF TargetsPending, WriteTarget
    <3>2. ~Doing(h, "target")'
        BY <2>2, <3>1, TargetLast
    <3> QED BY <1>2, <3>2 DEF Doing
  <2>3. info'[job[h].run].thread = info[job[h].run].thread
      BY <2>1, <2>2, ThreadKept
  <2> QED BY <1>1, <1>2, <2>1, <2>3
<1>3. ASSUME NEW h \in Handlers, AddTaskRun(h), Doing(h, "target")'
      PROVE  Ready(h) /\ status[job'[h].run] = "absent"
  <2>1. job'[h] # Idle
      BY <1>3, IdleFields DEF Doing
  <2> QED BY <1>3, <2>1, AddMoves
<1>4. ASSUME NEW h \in Handlers, Doing(h, "target")'
      PROVE  \/ Doing(h, "target") /\ job'[h] = job[h]
             \/ AddTaskRun(h)
    BY <1>4, TargetComes DEF Doing
<1>5. ASSUME NEW h \in Handlers, NEW g \in Handlers, Doing(h, "target")', Doing(g, "target")',
             job'[g].run = job'[h].run
      PROVE  g = h
  <2>1. ASSUME NEW a \in Handlers, NEW b \in Handlers, AddTaskRun(a), Doing(a, "target")',
               Doing(b, "target"), job'[b] = job[b]
        PROVE  job'[a].run # job'[b].run
      BY <1>3, <2>1 DEF TargetsPending
  <2>2. ASSUME AddTaskRun(h), AddTaskRun(g), g # h
        PROVE  FALSE
    <3>1. job'[h] # job[h] /\ job'[g] # job[g]
        BY <1>5, <2>2 DEF AddTaskRun, Doing
    <3> QED BY <2>2, <3>1, QuietMoves DEF Quiet, QuietMove, OthersStay
  <2>3. CASE AddTaskRun(h) /\ ~AddTaskRun(g)
      BY <1>4, <1>5, <2>1, <2>3
  <2>4. CASE AddTaskRun(g) /\ ~AddTaskRun(h)
      BY <1>4, <1>5, <2>1, <2>4
  <2>5. CASE ~AddTaskRun(g) /\ ~AddTaskRun(h)
      BY <1>4, <1>5, <2>5 DEF TargetsPending
  <2> QED BY <2>2, <2>3, <2>4, <2>5
<1> HIDE DEF Ready
<1>6. \A h \in Handlers : Doing(h, "target")' => Ready(h)
    BY <1>2, <1>3, <1>4
<1> QED BY <1>5, <1>6 DEF TargetsPending, Ready, Doing

-----------------------------------------------------------------------------
(* Withdrawals.                                                            *)

Done(r) == status[r] \in Final \/ r \in cancelReq \/ r \in requeued

\* What a handler that withdraws runs still has to do about one of them.
Owed(h, r) ==
    \/ Done(r)
    \/ Doing(h, "list") /\ status[r] = "running"
    \/ Doing(h, "ask") /\ r \in job[h].left
    \/ /\ Doing(h, "drop") /\ r \in job[h].left
       /\ status[r] \in {"queued", "running"} /\ info[r].thread = job[h].event.about

Attends(h) == Doing(h, "list") \/ Doing(h, "ask") \/ Doing(h, "drop")

NothingForgotten ==
    \A h \in Handlers : \A r \in job[h].before :
        r \in Of(TaskFor(h)) /\ Attends(h) /\ Owed(h, r)

LEMMA DoneStays == ASSUME RunMoves, NEW r \in Runs, Done(r) PROVE Done(r)'
  BY FinalStays DEF RunMoves, Done

\* A withdrawal step hands on what is owed, or pays it.
LEMMA OwedKept ==
    ASSUME WorkInv, TargetsPending, NothingForgotten, [Next]_vars,
           NEW h \in Handlers, NEW r \in job[h].before
    PROVE  /\ r \in Runs
           /\ Done(r)' \/ (Owed(h, r)' /\ Attends(h)')
<1>1. r \in Runs /\ TaskOf[r] = TaskFor(h) /\ Attends(h) /\ Owed(h, r)
    BY DEF NothingForgotten, Of
<1>2. RunMoves
    BY NextMoves
<1>3. CASE Done(r)
    BY <1>1, <1>2, <1>3, DoneStays
<1>4. ASSUME NEW t \in Tasks, Event(h, t) PROVE FALSE
    BY <1>4, EventWasIdle
<1>5. CASE Doing(h, "list") /\ status[r] = "running"
  <2>1. CASE job'[h] = job[h]
      BY <1>1, <1>2, <1>5, <2>1 DEF RunMoves, StatusMove, Owed, Attends, Done, Doing
  <2>2. CASE ListRunning(h)
    <3>1. LoopMove(h, Running(TaskFor(h)), job[h].before, job[h].review)
        BY <2>2, ListMoves
    <3>2. r \in Running(TaskFor(h))
        BY <1>1, <1>5 DEF Running, Of
    <3>3. job'[h].plan # <<>> /\ Head(job'[h].plan) = "ask" /\ job'[h].left = Running(TaskFor(h))
        BY <1>5, <3>1, <3>2, LoopOK
    <3> QED BY <1>1, <3>2, <3>3 DEF Owed, Attends, Doing
  <2> QED BY <1>4, <1>5, <2>1, <2>2, StepOf, StepAt
<1>6. CASE Doing(h, "ask") /\ r \in job[h].left
  <2>1. CASE job'[h] = job[h]
      BY <1>1, <1>6, <2>1 DEF Owed, Attends, Doing
  <2>2. ASSUME NEW x \in Runs, AskToStop(h, x)
        PROVE  Done(r)' \/ (Owed(h, r)' /\ Attends(h)')
    <3>1. CASE x = r
        BY <2>2, <3>1 DEF AskToStop, RequestRunCancel, Done
    <3>2. CASE x # r
      <4>1. job'[h].plan = job[h].plan /\ job'[h].left = job[h].left \ {x}
          BY <1>6, <2>2, <3>2, EachMoves DEF AskToStop, EachMove
      <4> QED BY <1>6, <3>2, <4>1 DEF Owed, Attends, Doing
    <3> QED BY <3>1, <3>2
  <2> QED BY <1>1, <1>4, <1>6, <2>1, <2>2, StepOf, StepAt
<1>7. CASE /\ Doing(h, "drop") /\ r \in job[h].left
           /\ status[r] \in {"queued", "running"} /\ info[r].thread = job[h].event.about
  <2>1. info'[r].thread = info[r].thread
    <3>1. info[r].thread # Nothing
      <4>1. JobOK(job[h]) /\ job[h].plan # <<>> /\ Head(job[h].plan) = "drop"
          BY <1>7, WorkJobs DEF Doing
      <4>2. job[h].event.about \in Threads
          BY <4>1, RangeFacts DEF JobOK, Hears
      <4> QED BY <1>7, <4>2, TaskConstants
    <3>2. ~\E g \in Handlers : WriteTarget(g) /\ job[g].run = r
        BY <3>1 DEF TargetsPending, WriteTarget
    <3> QED BY <1>1, <1>7, <3>2, ThreadKept
  <2>2. status'[r] \in Final \cup {"queued", "running"}
      BY <1>1, <1>2, <1>7 DEF RunMoves, StatusMove, Final
  <2>3. CASE job'[h].plan = job[h].plan /\ job'[h].event = job[h].event /\ r \in job'[h].left
      BY <1>1, <1>7, <2>1, <2>2, <2>3 DEF Owed, Attends, Doing, Done
  <2>4. CASE job'[h] = job[h]
      BY <1>7, <2>3, <2>4
  <2>5. ASSUME NEW x \in Runs, DropThreadRun(h, x)
        PROVE  Done(r)' \/ (Owed(h, r)' /\ Attends(h)')
    <3>1. CASE x = r
      <4>1. r \in Droppable(h) /\ CanTransition(r, "canceled")
          BY <1>1, <1>7 DEF Droppable, CanTransition, Transitions, Final
      <4>2. status'[r] = "canceled"
          BY <1>1, <2>5, <3>1, <4>1 DEF DropThreadRun, WorkInv, TasksInv, StoreTypeOK
      <4> QED BY <4>2 DEF Done, Final
    <3>2. CASE x # r
        BY <1>7, <2>3, <2>5, <3>2, EachMoves DEF DropThreadRun, EachMove
    <3> QED BY <3>1, <3>2
  <2> QED BY <1>1, <1>4, <1>7, <2>4, <2>5, StepOf, StepAt
<1> QED BY <1>1, <1>3, <1>5, <1>6, <1>7 DEF Owed

\* A handler at no withdrawal step has nothing before it.
LEMMA QuietBefore ==
    ASSUME NothingForgotten, NEW h \in Handlers, NEW x, Doing(h, x),
           x \notin {"list", "ask", "drop"}
    PROVE  job[h].before = {}
  BY DEF NothingForgotten, Attends, Doing

LEMMA ForgottenStep ==
    ASSUME WorkInv, TargetsPending, NothingForgotten, [Next]_vars
    PROVE  NothingForgotten'
<1> SUFFICES ASSUME NEW h \in Handlers, NEW r \in job'[h].before
             PROVE  r \in Of(job'[h].event.task) /\ Attends(h)' /\ Owed(h, r)'
    BY DEF NothingForgotten, TaskFor, Of
<1>0. job'[h] # Idle
    BY IdleFields
\* Those it had.
<1>1. ASSUME r \in job[h].before, job'[h].event = job[h].event, Attends(h)'
      PROVE  r \in Of(job'[h].event.task) /\ Attends(h)' /\ Owed(h, r)'
    BY <1>1, OwedKept DEF NothingForgotten, Owed, Of, TaskFor
<1>2. CASE job'[h] = job[h]
  <2>1. Attends(h)
      BY <1>2 DEF NothingForgotten
  <2> QED BY <1>1, <1>2, <2>1 DEF Attends, Doing
<1>3. ASSUME NEW t \in Tasks, Event(h, t) PROVE FALSE
    BY <1>3, EventJob
<1>4. ASSUME Quiet(h) PROVE FALSE
  <2>1. QuietMove(h)
      BY <1>4, QuietMoves
  <2>2. job[h].before = {}
      BY <2>1, QuietBefore DEF QuietMove, QuietSteps
  <2> QED BY <2>1, <2>2 DEF QuietMove
<1>5. ASSUME ContinueTask(h) PROVE FALSE
  <2>1. job[h].before = {}
      BY <1>5, QuietBefore DEF ContinueTask
  <2> QED BY <1>5, <2>1, ContinueMoves
<1>6. CASE SweepQueued(h)
  <2>1. /\ job'[h].event = job[h].event /\ job'[h].plan # <<>> /\ Head(job'[h].plan) = "list"
        /\ r \in Active(TaskFor(h))
      BY <1>6, SweepMoves
  <2>2. status'[r] \in {"running", "canceled"} /\ r \in Of(TaskFor(h))
      BY <1>6, <2>1 DEF SweepQueued, CancelQueuedRuns, Active, Of
  <2> QED BY <2>1, <2>2 DEF Attends, Doing, Owed, Done, Final, TaskFor
<1>7. CASE ListRunning(h)
  <2>1. Doing(h, "list") /\ LoopMove(h, Running(TaskFor(h)), job[h].before, job[h].review)
      BY <1>7, ListMoves DEF ListRunning
  <2>2. Running(TaskFor(h)) # {}
      BY <1>0, <2>1, LoopOK
  <2>3. /\ job'[h].event = job[h].event /\ job'[h].plan # <<>> /\ Head(job'[h].plan) = "ask"
        /\ r \in job[h].before
      BY <2>1, <2>2, LoopOK
  <2> QED BY <1>1, <2>3 DEF Attends, Doing
<1>8. CASE ListThreadRuns(h) /\ UNCHANGED <<status, info>>
  <2>1. Doing(h, "threads") /\ LoopMove(h, ThreadRuns(h), Dropped(h), job[h].review)
      BY <1>8, ListMoves DEF ListThreadRuns
  <2>2. ThreadRuns(h) # {}
      BY <1>0, <2>1, LoopOK
  <2>3. /\ job'[h].event = job[h].event /\ job'[h].plan # <<>> /\ Head(job'[h].plan) = "drop"
        /\ job'[h].left = ThreadRuns(h) /\ r \in Dropped(h)
      BY <2>1, <2>2, LoopOK
  <2>4. /\ r \in Of(TaskFor(h)) /\ r \in ThreadRuns(h) /\ status[r] = "queued"
        /\ info[r].thread = job[h].event.about
      BY <2>3 DEF Dropped, ThreadRuns
  <2> QED BY <1>8, <2>3, <2>4 DEF Attends, Doing, Owed, TaskFor
<1>9. ASSUME ListPRRuns(h) PROVE FALSE
  <2>1. PICK rows \in SUBSET Rows :
            LoopMove(h, rows, job[h].before, {y \in rows : status[y] = "review"})
      BY <1>9, ListMoves
  <2>2. Doing(h, "runs")
      BY <1>9 DEF ListPRRuns
  <2>3. job[h].before = {}
      BY <2>2, QuietBefore
  <2> QED BY <1>0, <2>1, <2>2, <2>3, LoopOK
<1>10. ASSUME NEW y \in Runs, \/ AskToStop(h, y) \/ DropThreadRun(h, y)
                              \/ ReconcileClosed(h, y) \/ ReconcileReopened(h, y)
       PROVE  r \in Of(job'[h].event.task) /\ Attends(h)' /\ Owed(h, r)'
  <2>1. EachMove(h, y)
      BY <1>10, EachMoves DEF AskToStop, DropThreadRun, ReconcileClosed, ReconcileReopened
  <2>2. \E z \in {"ask", "drop", "merge", "close", "reopen"} : Doing(h, z)
      BY <1>10 DEF AskToStop, DropThreadRun, ReconcileClosed, ReconcileReopened
  <2>3. job[h].left # {y}
      BY <1>0, <2>1, <2>2, EachOK
  <2>4. /\ job'[h].plan = job[h].plan /\ job'[h].event = job[h].event
        /\ job'[h].before = job[h].before
      BY <2>1, <2>3 DEF EachMove
  <2>5. Attends(h)
      BY <2>4 DEF NothingForgotten
  <2> QED BY <1>1, <2>4, <2>5 DEF Attends, Doing
<1>11. ASSUME Read(h) \/ WriteTask(h) \/ WriteRun(h)
       PROVE  ListThreadRuns(h) => UNCHANGED <<status, info>>
  <2>1. ListThreadRuns(h) => Doing(h, "threads")
      BY DEF ListThreadRuns
  <2>2. Read(h) => UNCHANGED <<status, info>>
      BY DEF Read, storeVars
  <2>3. WriteTask(h) => UNCHANGED <<status, info>>
      BY DEF WriteTask
  <2>4. WriteRun(h) => ~Doing(h, "threads")
      BY DEF WriteRun, AddTaskRun, WriteTarget, WriteHeadSHA, SweepQueued, AskToStop,
             DropThreadRun, ReconcileClosed, ReconcileReopened, Doing
  <2> QED BY <1>11, <2>1, <2>2, <2>3, <2>4
<1> QED BY <1>2, <1>3, <1>4, <1>5, <1>6, <1>7, <1>8, <1>9, <1>10, <1>11, StepOf, HandlerSteps

-----------------------------------------------------------------------------
(* Drafts.                                                                 *)

\* A run at work for a draft has been asked to stop, or a handler of the
\* conversion has still to ask it.
DraftHeld ==
    \A t \in taskDraft : \A r \in PRRuns \cap Running(t) :
        \/ r \in cancelReq
        \/ \E h \in Handlers :
              /\ TaskFor(h) = t /\ job[h].event.kind = "draft"
              /\ Doing(h, "list") \/ (Doing(h, "ask") /\ r \in job[h].left)

LEMMA DraftFlags ==
    ASSUME [Next]_vars
    PROVE  UNCHANGED taskDraft \/ \E h \in Handlers : SetDraft(h)
<1>1. ASSUME NEW h \in Handlers, WriteRun(h) PROVE UNCHANGED taskDraft
    BY <1>1 DEF WriteRun, AddTaskRun, WriteTarget, WriteHeadSHA, SweepQueued, AskToStop,
                DropThreadRun, ReconcileClosed, ReconcileReopened, storeVars
<1>2. ASSUME NEW r \in Runs, Execute(r) PROVE UNCHANGED taskDraft
    BY <1>2 DEF Execute, Claim, OpenPull, Settle, FinishRun, storeVars
<1>3. ASSUME NEW h \in Handlers, WriteTask(h), ~SetDraft(h) PROVE UNCHANGED taskDraft
    BY <1>3 DEF WriteTask, CompleteTask, OpenTask
<1> QED BY <1>1, <1>2, <1>3 DEF Next, vars, storeVars, Event, Read, LostEvent

\* The flag goes up before the runs are listed.
LEMMA HoldMoves ==
    ASSUME WorkInv, NEW h \in Handlers, SetDraft(h), NEW t \in taskDraft' \ taskDraft
    PROVE  job'[h].event.task = t /\ job'[h].event.kind = "draft" /\ Doing(h, "list")'
<1>1. JobOK(job[h]) /\ JobFields \subseteq DOMAIN job[h] /\ job = [g \in Handlers |-> job[g]]
    BY WorkJobs
<1>2. Doing(h, "hold") /\ TaskFor(h) = t /\ Advance(h, job[h])
    BY DEF SetDraft, SetTaskPRDraft
<1>3. /\ job[h].plan # <<>> /\ Head(job[h].plan) = "hold"
      /\ Tail(job[h].plan) # <<>> /\ Head(Tail(job[h].plan)) = "list"
      /\ "hold" \in Range(job[h].plan)
    BY <1>1, <1>2, PlanFacts, RangeFacts DEF JobOK, Doing
<1>4. Onward(h, job[h])
    BY <1>1, <1>2, AdvanceMoves
<1>5. job'[h].plan = Tail(job[h].plan) /\ job'[h].event = job[h].event
    BY <1>3, <1>4 DEF Onward
<1> QED BY <1>1, <1>2, <1>3, <1>5 DEF JobOK, Hears, Doing, TaskFor

LEMMA DraftStep ==
    ASSUME WorkInv, DraftHeld, [Next]_vars
    PROVE  DraftHeld'
<1> DEFINE Watched(t, r) ==
        \E h \in Handlers :
            /\ job'[h].event.task = t /\ job'[h].event.kind = "draft"
            /\ Doing(h, "list")' \/ (Doing(h, "ask")' /\ r \in job'[h].left)
<1> SUFFICES ASSUME NEW t \in taskDraft', NEW r \in PRRuns, r \in Runs, TaskOf[r] = t,
                    status'[r] = "running"
             PROVE  r \in cancelReq' \/ Watched(t, r)
    BY DEF DraftHeld, Running, Of, TaskFor
<1>0. RunMoves
    BY NextMoves
<1>1. status[r] = "running"
    BY <1>0 DEF RunMoves, StatusMove, Final
<1>2. CASE t \in taskDraft /\ r \in cancelReq
    BY <1>0, <1>1, <1>2 DEF RunMoves, Final
<1>3. CASE t \in taskDraft /\ r \notin cancelReq
  <2>1. PICK h \in Handlers :
            /\ TaskFor(h) = t /\ job[h].event.kind = "draft"
            /\ Doing(h, "list") \/ (Doing(h, "ask") /\ r \in job[h].left)
      BY <1>1, <1>3 DEF DraftHeld, Running, Of
  <2>2. CASE job'[h] = job[h]
      BY <2>1, <2>2 DEF Doing, TaskFor
  <2>3. ASSUME NEW u \in Tasks, Event(h, u) PROVE FALSE
      BY <2>1, <2>3, EventWasIdle
  <2>4. CASE Doing(h, "list") /\ ListRunning(h)
    <3>1. LoopMove(h, Running(TaskFor(h)), job[h].before, job[h].review)
        BY <2>4, ListMoves
    <3>2. r \in Running(TaskFor(h))
        BY <1>1, <2>1 DEF Running, Of
    <3>3. /\ job'[h].event = job[h].event /\ job'[h].plan # <<>> /\ Head(job'[h].plan) = "ask"
          /\ job'[h].left = Running(TaskFor(h))
        BY <2>4, <3>1, <3>2, LoopOK
    <3> QED BY <2>1, <3>2, <3>3 DEF Doing, TaskFor
  <2>5. ASSUME NEW x \in Runs, AskToStop(h, x), r \in job[h].left
        PROVE  r \in cancelReq' \/ Watched(t, r)
    <3>1. CASE x = r
        BY <2>5, <3>1 DEF AskToStop, RequestRunCancel
    <3>2. CASE x # r
      <4>1. /\ job'[h].event = job[h].event /\ job'[h].plan = job[h].plan
            /\ job'[h].left = job[h].left \ {x} /\ Doing(h, "ask")
          BY <2>5, <3>2, EachMoves DEF AskToStop, EachMove
      <4> QED BY <2>1, <2>5, <3>2, <4>1 DEF Doing, TaskFor
    <3> QED BY <3>1, <3>2
  <2>6. CASE Read(h) \/ WriteTask(h) \/ WriteRun(h)
    <3> HIDE DEF Watched
    <3>1. CASE Doing(h, "list")
        BY <2>4, <2>6, <3>1, StepAt
    <3>2. CASE Doing(h, "ask") /\ r \in job[h].left
      <4>1. \E x \in Runs : AskToStop(h, x)
          BY <2>6, <3>2, StepAt
      <4> QED BY <2>5, <3>2, <4>1
    <3> QED BY <2>1, <3>1, <3>2
  <2> HIDE DEF Watched
  <2> QED BY <2>2, <2>3, <2>6, StepOf
<1>4. CASE t \notin taskDraft
  <2>1. PICK h \in Handlers : SetDraft(h)
      BY <1>4, DraftFlags
  <2> QED BY <1>4, <2>1, HoldMoves
<1> QED BY <1>2, <1>3, <1>4

-----------------------------------------------------------------------------

HandlersInv == WorkInv /\ ReviewsLeft /\ TargetsPending /\ NothingForgotten /\ DraftHeld

LEMMA HandlersInit == Init => HandlersInv
<1> SUFFICES ASSUME Init PROVE HandlersInv
    OBVIOUS
<1>1. /\ \A h \in Handlers : job[h] = Idle
      /\ taskDraft = {}
    BY DEF Init, StoreInit
<1>2. \A h \in Handlers : job[h].before = {} /\ \A x : ~Doing(h, x)
    BY <1>1, IdleFields DEF Doing
<1>3. ReviewsLeft /\ TargetsPending /\ NothingForgotten /\ DraftHeld
    BY <1>1, <1>2 DEF ReviewsLeft, TargetsPending, NothingForgotten, DraftHeld
<1> QED BY <1>3, WorkInit DEF HandlersInv

LEMMA HandlersStep == HandlersInv /\ [Next]_vars => HandlersInv'
  BY WorkStep, ReviewStep, TargetStep, ForgottenStep, DraftStep DEF HandlersInv

LEMMA HandlersKnow == Spec => []HandlersInv
  BY HandlersInit, HandlersStep, PTL DEF Spec

\* Once a conversion to a draft is through, no run of the pull request is at
\* work that was not asked to stop, for any number of handlers and runs.
THEOREM DraftIsHeld == Spec => []DraftStopsWork
<1>1. HandlersInv => DraftStopsWork
    BY DEF HandlersInv, DraftHeld, DraftStopsWork, Doing
<1> QED BY <1>1, HandlersKnow, PTL

\* A withdrawal ends with every run it began with closed, asked to stop, or
\* sent back to the queue by a usage limit.
THEOREM WithdrawalComplete == Spec => SweepMissesNothing
<1> DEFINE Complete ==
        \A h \in Handlers :
            Withdrawing(h) /\ ~Withdrawing(h)' =>
                \A r \in job[h].before :
                    status'[r] \in Final \/ r \in cancelReq' \/ r \in requeued'
<1>1. ASSUME HandlersInv, [Next]_vars PROVE Complete
  <2> SUFFICES ASSUME NEW h \in Handlers, ~Withdrawing(h)', NEW r \in job[h].before
               PROVE  Done(r)'
      BY DEF Done
  <2>1. WorkInv' /\ JobOK(job[h])'
      BY <1>1, WorkStep DEF HandlersInv, WorkInv
  <2>2. ~Attends(h)'
    <3>1. SUFFICES ASSUME NEW x \in {"list", "ask", "drop"}, job'[h].plan # <<>>,
                          Head(job'[h].plan) = x
                   PROVE  FALSE
        BY DEF Attends, Doing
    <3>2. PlanShape(job'[h].plan)
        BY <2>1 DEF JobOK, PlanShape, StepShape
    <3>3. x \in Range(job'[h].plan)
        BY <3>1, <3>2, RangeFacts
    <3>4. x \in Withdrawal
        BY DEF Withdrawal
    <3> QED BY <3>3, <3>4 DEF Withdrawing
  <2> QED BY <1>1, <2>2, OwedKept DEF HandlersInv
<1>2. HandlersInv /\ [Next]_vars => [Complete]_vars
    BY <1>1
<1> QED BY <1>2, HandlersKnow, PTL DEF Spec, SweepMissesNothing

\* The handler of a closed pull request leaves none of the runs it found in
\* review there.
THEOREM ReviewsResolved == Spec => ReviewsAreResolved
<1> DEFINE Resolved ==
        \A h \in Handlers : Leaves(h, "merge") \/ Leaves(h, "close")
            => \A r \in job[h].review : status'[r] # "review"
<1>1. ASSUME HandlersInv, [Next]_vars PROVE Resolved
    BY <1>1, ReviewKept DEF HandlersInv, Leaves
<1>2. HandlersInv /\ [Next]_vars => [Resolved]_vars
    BY <1>1
<1> QED BY <1>2, HandlersKnow, PTL DEF Spec, ReviewsAreResolved

=============================================================================
