------------------------ MODULE RunSupervisionProofs ------------------------
(***************************************************************************)
(* Proofs about RunSupervision, for any sets of runs, tasks, processes and *)
(* clients.                                                                *)
(*                                                                         *)
(* First, for any limits, faults, crashes and overlapping slots:           *)
(* everything the processes write to a run's status is a move of the life  *)
(* cycle, two runs of a task are never both running, and a cancel request  *)
(* is not forgotten before its run is over.                                *)
(*                                                                         *)
(* Then, for slots that follow one another, each executing one run at a    *)
(* time unless no provider sets limits (OneSlot): a container at work can  *)
(* be found after any crash, a goroutine is gone before its run is claimed *)
(* again, every running run is attended, and containers of a task are      *)
(* serial and leases attended but for the runs that a request closed.      *)
(*                                                                         *)
(* Last, for slots that follow one another, with any limit and everything  *)
(* else: a run has one goroutine at work, and none when it is claimed.     *)
(***************************************************************************)
EXTENDS RunSupervision, RunStoreProofs, Sequences

\* What a step does to the store: it writes a status as one of the store's
\* operations does, or none, and clears a cancel request only of an ended run.
StoreMoves ==
    /\ \/ StatusWrite /\ UNCHANGED <<seq, lastSeq>>
       \/ \E r \in Runs : AddRun(r)
       \/ UNCHANGED <<status, seq, lastSeq>>
    /\ cancelReq' \subseteq Runs
    /\ \A r \in cancelReq \ cancelReq' : status'[r] \in Final
    /\ taskDone' \subseteq Tasks
    /\ UNCHANGED taskDraft

\* The strengthening: what is kept for later is a run that is in the store, or
\* will be put there by the request that holds it.
OfARun == RequestSteps \ {"none", "sweep", "flush", "schedule", "insched"}

SchedKnows(s, rows)   == s.step = "claimed" => s.run \in rows
RequestKnows(q)       == /\ q.step \in OfARun => q.run \in Runs
                         /\ q.step = "sweep" => q.task \in Tasks

Known ==
    /\ \A p \in Procs : SchedKnows(sched[p], Rows) /\ todo[p] \subseteq Rows
    /\ \A c \in Clients : RequestKnows(request[c])

SupInv == SupTypeOK /\ Known

-----------------------------------------------------------------------------
(* Writes of a status.                                                     *)

LEMMA StoreMovesKeepTypes ==
    ASSUME StoreTypeOK, StoreMoves
    PROVE  StoreTypeOK'
<1>1. CASE StatusWrite /\ UNCHANGED <<seq, lastSeq>>
    BY <1>1, StatusTypes DEF StoreMoves, StoreTypeOK
<1>2. ASSUME NEW r \in Runs, AddRun(r)
      PROVE  StoreTypeOK'
    BY <1>2 DEF AddRun, StoreMoves, StoreTypeOK, Statuses
<1>3. CASE UNCHANGED <<status, seq, lastSeq>>
    BY <1>3 DEF StoreMoves, StoreTypeOK
<1> QED BY <1>1, <1>2, <1>3 DEF StoreMoves

\* Every run fits into the table: nothing is trimmed.
LEMMA NothingTrimmed ==
    ASSUME StoreTypeOK, NEW r \in Runs, status[r] = "absent"
    PROVE  TrimOldRuns = {}
<1> SUFFICES ASSUME NEW x \in TrimOldRuns PROVE FALSE
    OBVIOUS
<1> DEFINE newer == {y \in Rows : seq[y] > seq[x]}
<1>1. x \in Rows /\ Cardinality(newer) + 1 >= MaxRuns
    BY DEF TrimOldRuns
<1>2. x \notin newer /\ r \notin newer /\ x # r /\ x \in Runs
    BY <1>1 DEF Rows, StoreTypeOK
<1>3. newer \subseteq (Runs \ {r}) \ {x}
    BY <1>2 DEF Rows
<1>4. IsFiniteSet(Runs) /\ IsFiniteSet(Runs \ {r}) /\ IsFiniteSet((Runs \ {r}) \ {x})
    BY StoreConstants, FS_Subset
<1>5. Cardinality(Runs \ {r}) = Cardinality(Runs) - 1
    BY <1>4, FS_RemoveElement
<1>6. Cardinality((Runs \ {r}) \ {x}) = Cardinality(Runs \ {r}) - 1
    BY <1>2, <1>4, FS_RemoveElement
<1>7. Cardinality(newer) <= Cardinality((Runs \ {r}) \ {x})
    BY <1>3, <1>4, FS_Subset
<1>8. /\ Cardinality(newer) \in Nat /\ Cardinality(Runs) \in Nat
      /\ Cardinality(Runs \ {r}) \in Nat /\ MaxRuns \in Nat
    BY <1>3, <1>4, FS_Subset, FS_CardinalityType, StoreConstants
<1> QED BY <1>1, <1>5, <1>6, <1>7, <1>8, NoTrimming

LEMMA RowsStay ==
    ASSUME StoreTypeOK, StoreMoves
    PROVE  Rows \subseteq Rows'
<1>1. CASE StatusWrite
    BY <1>1, WritesKeepRows DEF KeepsRows, Rows
<1>2. ASSUME NEW r \in Runs, AddRun(r)
      PROVE  Rows \subseteq Rows'
  <2>1. TrimOldRuns = {}
      BY <1>2, NothingTrimmed DEF AddRun
  <2> QED BY <1>2, <2>1 DEF AddRun, Rows
<1>3. CASE UNCHANGED status
    BY <1>3 DEF Rows
<1> QED BY <1>1, <1>2, <1>3 DEF StoreMoves

LEMMA TransitionOrGetWrites ==
    ASSUME NEW r \in Runs, NEW to \in Final, TransitionOrGet(r, to)
    PROVE  StatusWrite \/ UNCHANGED status
  BY DEF TransitionOrGet, StatusWrite, SetRunStatus

\* A result is written, or, refused, fails its run.
LEMMA SettleRunWrites ==
    ASSUME NEW r, NEW to, SettleRun(r, to)
    PROVE  TransitionOrGet(r, to) \/ TransitionOrGet(r, "failed")
  BY DEF SettleRun, SetRunStatus, TransitionOrGet

\* A run that is asked to become canceled has ended then, one way or another.
LEMMA CancelEnds ==
    ASSUME StoreTypeOK, NEW r \in Rows, TransitionOrGet(r, "canceled")
    PROVE  status'[r] \in Final
<1>1. r \in Runs /\ status[r] \in {"queued", "running"} \cup Final
    BY DEF Rows, StoreTypeOK, Statuses
<1>2. CASE status[r] \in {"queued", "running", "review"}
  <2>1. CanTransition(r, "canceled")
      BY <1>2 DEF CanTransition, Transitions, Final
  <2> QED BY <1>1, <2>1 DEF TransitionOrGet, Final, StoreTypeOK
<1>3. CASE status[r] \in {"succeeded", "failed", "canceled"}
    BY <1>1, <1>3 DEF TransitionOrGet, Final, StoreTypeOK
<1> QED BY <1>1, <1>2, <1>3 DEF Final

\* A step that leaves the store alone.
LEMMA StoreIdle ==
    ASSUME StoreTypeOK, UNCHANGED storeVars
    PROVE  StoreMoves
  BY DEF StoreMoves, storeVars, StoreTypeOK

\* One that writes a status and nothing else.
LEMMA StatusOnly ==
    ASSUME StoreTypeOK, StatusWrite \/ UNCHANGED status,
           UNCHANGED <<queueVars, cancelReq>>
    PROVE  StoreMoves
  BY DEF StoreMoves, queueVars, StoreTypeOK

LEMMA RunOfThread == ASSUME NEW th \in Threads PROVE th[1] \in Runs
  BY DEF Threads

-----------------------------------------------------------------------------
(* What each part of a process does to the store.                          *)

LEMMA ScheduleMoves ==
    ASSUME SupInv, NEW p \in Procs, Schedule(p)
    PROVE  StoreMoves
<1> USE DEF SupInv, SupTypeOK
<1>1. CASE ScheduleCheck(p)
    BY <1>1, StoreIdle DEF ScheduleCheck
<1>2. CASE ScheduleClaim(p)
  <2>1. sched[p].prefer \in Tasks \cup {NoTask}
      OBVIOUS
  <2>2. StatusWrite \/ UNCHANGED status
      BY <1>2, <2>1 DEF ScheduleClaim, StatusWrite
  <2> QED BY <1>2, <2>2, StatusOnly DEF ScheduleClaim
<1>3. CASE ScheduleSpawn(p)
  <2> DEFINE r == sched[p].run
  <2>1. r \in Rows /\ r \in Runs
      BY <1>3 DEF ScheduleSpawn, Known, SchedKnows, Rows
  <2>2. CASE r \in cancelReq /\ TransitionOrGet(r, "canceled") /\ ClearRunCancel(r)
    <3>1. StatusWrite \/ UNCHANGED status
        BY <2>1, <2>2, TransitionOrGetWrites DEF Final
    <3>2. status'[r] \in Final
        BY <2>1, <2>2, CancelEnds
    <3>3. cancelReq' \subseteq Runs /\ \A x \in cancelReq \ cancelReq' : x = r
        BY <2>2 DEF ClearRunCancel, StoreTypeOK
    <3> HIDE DEF r
    <3> QED BY <1>3, <3>1, <3>2, <3>3 DEF ScheduleSpawn, StoreMoves, queueVars, StoreTypeOK
  <2>3. CASE UNCHANGED cancelReq /\ (TransitionOrGet(r, "canceled") \/ UNCHANGED status)
    <3>1. StatusWrite \/ UNCHANGED status
        BY <2>1, <2>3, TransitionOrGetWrites DEF Final
    <3> QED BY <1>3, <2>3, <3>1, StatusOnly DEF ScheduleSpawn, queueVars
  <2> QED BY <1>3, <2>2, <2>3 DEF ScheduleSpawn
<1> QED BY <1>1, <1>2, <1>3 DEF Schedule

LEMMA ThreadMoves ==
    ASSUME SupInv, NEW p \in Procs, NEW th \in Threads, Thread(p, th)
    PROVE  StoreMoves
<1> USE DEF SupInv, SupTypeOK
<1>1. th[1] \in Runs /\ TaskOf[th[1]] \in Tasks
    BY RunOfThread, StoreConstants
<1>2. CASE \/ Record(p, th) \/ Register(p, th) \/ RemoveContainer(p, th)
           \/ ForgetExecution(p, th) \/ Reschedule(p, th) \/ Unwind(p, th)
           \/ StopWatching(p, th) \/ WatchCancel(p, th) \/ WatchExit(p, th)
    BY <1>2, StoreIdle DEF Record, Register, RemoveContainer, ForgetExecution, Reschedule,
       Unwind, StopWatching, WatchCancel, WatchExit
<1>3. CASE ExecuteRun(p, th) \/ Prepare(p, th) \/ Launch(p, th) \/ WatchMissing(p, th)
  <2>1. StatusWrite \/ UNCHANGED status
      BY <1>1, <1>3, TransitionOrGetWrites
         DEF ExecuteRun, Prepare, Launch, WatchMissing, FailMissing, Final
  <2> QED BY <1>3, <2>1, StatusOnly DEF ExecuteRun, Prepare, Launch, WatchMissing
<1>4. CASE WatchCredential(p, th)
    BY <1>1, <1>4 DEF WatchCredential, RequestRunCancel, StoreMoves, queueVars, StoreTypeOK
<1>5. CASE Settle(p, th)
  <2>1. ASSUME NEW exit PROVE SettledStatuses(th[1], exit) \subseteq Final
      BY DEF SettledStatuses, Final
  <2>2. StatusWrite \/ UNCHANGED status
      BY <1>1, <1>5, <2>1, SettleRunWrites, TransitionOrGetWrites DEF Settle, StatusWrite, Final
  <2> QED BY <1>5, <2>2, StatusOnly DEF Settle
<1>6. CASE FinishRun(p, th)
  <2>1. StatusWrite \/ UNCHANGED status
      BY <1>1, <1>6 DEF FinishRun, CancelPendingIfCompleted, StatusWrite
  <2>2. status[th[1]] \in Final => status'[th[1]] \in Final
      BY <1>1, <1>6 DEF FinishRun, CancelPendingIfCompleted, CancelQueuedRuns, Final
  <2>3. cancelReq' \subseteq Runs /\ \A x \in cancelReq \ cancelReq' : x = th[1] /\ status[x] \in Final
      BY <1>6 DEF FinishRun, ClearRunCancel, StoreTypeOK
  <2> QED BY <1>6, <2>1, <2>2, <2>3 DEF FinishRun, StoreMoves, queueVars, StoreTypeOK
<1> QED BY <1>2, <1>3, <1>4, <1>5, <1>6 DEF Thread, Watch

LEMMA StartupMoves ==
    ASSUME SupInv, NEW p \in Procs, Startup(p)
    PROVE  StoreMoves
<1> USE DEF SupInv, SupTypeOK
<1>1. CASE BeginRecovery(p) \/ EndRecovery(p)
    BY <1>1, StoreIdle DEF BeginRecovery, EndRecovery
<1>2. ASSUME NEW r \in Rows, TransitionOrGet(r, "canceled"), ClearRunCancel(r), UNCHANGED queueVars
      PROVE  StoreMoves
  <2>1. StatusWrite \/ UNCHANGED status
      BY <1>2, TransitionOrGetWrites DEF Final, Rows
  <2>2. status'[r] \in Final
      BY <1>2, CancelEnds
  <2> QED BY <1>2, <2>1, <2>2 DEF ClearRunCancel, StoreMoves, queueVars, StoreTypeOK
<1>3. CASE RecoverQueuedCancel(p)
  <2>1. PICK r \in todo[p] :
            IF r \in cancelReq
            THEN TransitionOrGet(r, "canceled") /\ ClearRunCancel(r)
            ELSE UNCHANGED <<status, cancelReq>>
      BY <1>3 DEF RecoverQueuedCancel
  <2>2. r \in Rows
      BY DEF Known
  <2> QED BY <1>2, <1>3, <2>1, <2>2, StatusOnly DEF RecoverQueuedCancel
<1>4. CASE RecoverRunningRun(p)
  <2>1. PICK r \in todo[p] : RecoverDetached(p, r) \/ RecoverUnlaunched(p, r)
      BY <1>4 DEF RecoverRunningRun
  <2>2. r \in Rows /\ r \in Runs
      BY DEF Known, Rows
  <2>3. UNCHANGED queueVars
      BY <1>4 DEF RecoverRunningRun
  <2>4. CASE RecoverDetached(p, r)
    <3>1. (StatusWrite \/ UNCHANGED status) /\ UNCHANGED cancelReq
        BY <2>2, <2>4, TransitionOrGetWrites DEF RecoverDetached, FailMissing, Final
    <3> QED BY <2>3, <3>1, StatusOnly
  <2>5. CASE RecoverUnlaunched(p, r)
    <3>1. \/ TransitionOrGet(r, "canceled") /\ ClearRunCancel(r)
          \/ (Requeue(r) \/ UNCHANGED status) /\ UNCHANGED cancelReq
        BY <2>5 DEF RecoverUnlaunched
    <3> QED BY <1>2, <2>2, <2>3, <3>1, StatusOnly DEF StatusWrite
  <2> QED BY <2>1, <2>4, <2>5
<1> QED BY <1>1, <1>3, <1>4 DEF Startup

LEMMA RequestMoves ==
    ASSUME SupInv, NEW c \in Clients, Request(c)
    PROVE  StoreMoves
<1> USE DEF SupInv, SupTypeOK
<1>1. ASSUME NEW p \in Procs, NEW r \in Runs, CreateRun(c, p, r)
      PROVE  StoreMoves
    BY <1>1, StoreIdle DEF CreateRun
<1>2. ASSUME NEW p \in Procs, NEW r \in Runs, CancelRun(c, p, r)
      PROVE  StoreMoves
    BY <1>2 DEF CancelRun, ClearRunCancel, StoreMoves, queueVars, StoreTypeOK, Final
<1>3. ASSUME NEW p \in Procs, NEW t \in Tasks, CloseIssue(c, p, t)
      PROVE  StoreMoves
    BY <1>3 DEF CloseIssue, MarkTaskCompleted, StoreMoves, StoreTypeOK
<1> QED BY <1>1, <1>2, <1>3 DEF Request

LEMMA HandleRequestMoves ==
    ASSUME SupInv, NEW c \in Clients, HandleRequest(c)
    PROVE  StoreMoves
<1> USE DEF SupInv, SupTypeOK
<1> DEFINE r == request[c].run
<1>1. /\ request[c].step \in OfARun => r \in Runs
      /\ request[c].step = "sweep" => request[c].task \in Tasks
    BY DEF Known, RequestKnows
<1>2. {"add", "write", "cancelQueued", "cancelActive", "dequeue", "stop"} \subseteq OfARun
    BY DEF OfARun, RequestSteps
<1>3. CASE AddQueuedRun(c)
    BY <1>1, <1>2, <1>3 DEF AddQueuedRun, RequestStep, StoreMoves, StoreTypeOK
<1>4. CASE WriteRunFiles(c)
  <2>1. StatusWrite \/ UNCHANGED status
      BY <1>1, <1>2, <1>4, TransitionOrGetWrites DEF WriteRunFiles, RequestStep, Final
  <2> QED BY <1>4, <2>1, StatusOnly DEF WriteRunFiles
<1>5. CASE PersistCancel(c)
    BY <1>1, <1>2, <1>5 DEF PersistCancel, RequestStep, RequestRunCancel, StoreMoves,
       queueVars, StoreTypeOK
<1>6. CASE Dequeue(c)
  <2>1. r \in Runs
      BY <1>1, <1>2, <1>6 DEF Dequeue
  <2>2. CASE SetRunStatus(r, "canceled") /\ ClearRunCancel(r)
    <3>1. StatusWrite /\ status'[r] \in Final
        BY <2>1, <2>2 DEF StatusWrite, SetRunStatus, StoreTypeOK
    <3>2. cancelReq' \subseteq Runs /\ \A x \in cancelReq \ cancelReq' : x = r
        BY <2>2 DEF ClearRunCancel, StoreTypeOK
    <3> HIDE DEF r
    <3> QED BY <1>6, <3>1, <3>2 DEF Dequeue, StoreMoves, queueVars, StoreTypeOK
  <2>3. CASE UNCHANGED <<status, cancelReq>>
      BY <1>6, <2>3, StatusOnly DEF Dequeue
  <2> QED BY <1>6, <2>2, <2>3 DEF Dequeue
<1>7. CASE SweepQueued(c)
  <2>1. StatusWrite
      BY <1>1, <1>7 DEF SweepQueued, RequestStep, StatusWrite
  <2> QED BY <1>7, <2>1, StatusOnly DEF SweepQueued
<1>8. CASE CancelRunning(c)
    BY <1>8, StatusOnly DEF CancelRunning
<1>9. CASE StopExecution(c) \/ RequestSchedule(c)
    BY <1>9, StoreIdle DEF StopExecution, RequestSchedule
<1> QED BY <1>3, <1>4, <1>5, <1>6, <1>7, <1>8, <1>9 DEF HandleRequest

LEMMA EveryStepMoves ==
    ASSUME SupInv, [Next]_vars
    PROVE  StoreMoves
<1>1. ASSUME NEW p \in Procs,
             \/ Boot(p) \/ Wake(p) \/ ResumeTimer(p) \/ Crash(p) \/ BeginDrain(p) \/ Leave(p)
             \/ StopRunSupervisors(p)
      PROVE  StoreMoves
    BY <1>1, StoreIdle DEF SupInv, SupTypeOK, Boot, Wake, ResumeTimer, Crash, BeginDrain, Leave,
       StopRunSupervisors, Die
<1>2. ASSUME NEW r \in Runs, ContainerExits(r)
      PROVE  StoreMoves
    BY <1>2, StoreIdle DEF SupInv, SupTypeOK, ContainerExits
<1>3. CASE PauseExpires \/ UNCHANGED vars
    BY <1>3, StoreIdle DEF SupInv, SupTypeOK, PauseExpires, vars
<1> QED BY <1>1, <1>2, <1>3, ScheduleMoves, ThreadMoves, StartupMoves, RequestMoves,
        HandleRequestMoves DEF Next
-----------------------------------------------------------------------------
(* The types of everything beside the store.                               *)

Scheds == [step : {"free", "check", "claim", "claimed"}, by : Threads \cup Clients \cup {Itself},
           prefer : Tasks \cup {NoTask}, run : Runs \cup {NoRun}]

LEMMA FreeScheduler == NobodySched \in Scheds
  BY DEF NobodySched, Scheds

LEMMA FreeClient ==
    NoRequest \in [step : RequestSteps, at : Procs \cup {NoProc},
                   run : Runs \cup {NoRun}, task : Tasks \cup {NoTask}]
  BY DEF NoRequest, RequestSteps

LEMMA GotoTypes ==
    ASSUME SupTypeOK, NEW p, NEW th, NEW l \in PCs, Goto(p, th, l)
    PROVE  pc' \in [Procs -> [Threads -> PCs]]
  BY DEF SupTypeOK, Goto

LEMMA CallTypes ==
    ASSUME SupTypeOK, NEW p \in Procs, NEW by \in Threads \cup Clients \cup {Itself},
           NEW task \in Tasks \cup {NoTask},
           CallScheduleRuns(p, by, task) \/ ScheduleRunsReturnsAtOnce(p)
    PROVE  /\ sched' \in [Procs -> Scheds]
           /\ armed' \in [Procs -> BOOLEAN]
           /\ \A q \in Procs : sched'[q].step = "claimed" => sched'[q] = sched[q]
<1>1. CASE CallScheduleRuns(p, by, task)
    BY <1>1 DEF CallScheduleRuns, SupTypeOK, Scheds
<1>2. CASE ScheduleRunsReturnsAtOnce(p)
    BY <1>2 DEF ScheduleRunsReturnsAtOnce, EnsureResumeTimer, SupTypeOK, Scheds
<1> QED BY <1>1, <1>2

LEMMA ReturnTypes ==
    ASSUME SupTypeOK, NEW p \in Procs, ReturnFromSchedule(p)
    PROVE  /\ sched' \in [Procs -> Scheds]
           /\ pc' \in [Procs -> [Threads -> PCs]]
           /\ request' \in [Clients -> [step : RequestSteps, at : Procs \cup {NoProc},
                                run : Runs \cup {NoRun}, task : Tasks \cup {NoTask}]]
           /\ \A q \in Procs : sched'[q].step = "claimed" => sched'[q] = sched[q]
           /\ \A c \in Clients : RequestKnows(request[c]) => RequestKnows(request'[c])
<1>1. sched' = [sched EXCEPT ![p] = NobodySched]
    BY DEF ReturnFromSchedule
<1>2. NobodySched.step = "free"
    BY DEF NobodySched
<1>3. "unwind" \in PCs
    BY DEF PCs
<1>4. pc' \in [Procs -> [Threads -> PCs]]
    BY <1>3, GotoTypes DEF ReturnFromSchedule, SupTypeOK
<1>5. request' = [c \in Clients |-> IF c = sched[p].by THEN NoRequest ELSE request[c]]
    BY DEF ReturnFromSchedule
<1>6. RequestKnows(NoRequest)
    BY DEF RequestKnows, NoRequest, OfARun
<1>7. /\ sched' \in [Procs -> Scheds]
      /\ \A q \in Procs : sched'[q].step = "claimed" => sched'[q] = sched[q]
    BY <1>1, <1>2, FreeScheduler DEF SupTypeOK, Scheds
<1>8. /\ request' \in [Clients -> [step : RequestSteps, at : Procs \cup {NoProc},
                                   run : Runs \cup {NoRun}, task : Tasks \cup {NoTask}]]
      /\ \A c \in Clients : RequestKnows(request[c]) => RequestKnows(request'[c])
    BY <1>5, <1>6, FreeClient DEF SupTypeOK
<1> QED BY <1>4, <1>7, <1>8

\* Changing the step, the run and the preference of a scheduler.
LEMMA EditTypes ==
    ASSUME SupTypeOK, NEW p \in Procs, NEW s \in Scheds, sched' = [sched EXCEPT ![p] = s]
    PROVE  /\ sched' \in [Procs -> Scheds]
           /\ \A q \in Procs : q # p => sched'[q] = sched[q]
           /\ sched'[p] = s
<1>1. sched \in [Procs -> Scheds]
    BY DEF SupTypeOK, Scheds
<1> QED BY <1>1

LEMMA SchedType == ASSUME SupTypeOK, NEW p \in Procs PROVE sched[p] \in Scheds
  BY DEF SupTypeOK, Scheds

\* The steps of the scheduler keep types and what is known.
LEMMA ScheduleTypes ==
    ASSUME SupInv, NEW p \in Procs, Schedule(p), StoreTypeOK', Rows \subseteq Rows'
    PROVE  SupInv'
<1> USE DEF SupInv
<1>0. \A q \in Procs : sched[q].step = "claimed" => sched[q].run \in Rows'
    BY DEF Known, SchedKnows
<1>1. ASSUME NEW s, s.step # "claimed", sched' = [sched EXCEPT ![p] = s]
      PROVE  \A q \in Procs : sched'[q].step = "claimed" => sched'[q].run \in Rows'
    BY <1>0, <1>1 DEF SupTypeOK
<1>2. CASE ScheduleCheck(p)
  <2>1. CASE ReturnFromSchedule(p)
    <3>1. armed' \in [Procs -> BOOLEAN]
        BY <1>2 DEF ScheduleCheck, EnsureResumeTimer, SupTypeOK
    <3>2. SupTypeOK'
        BY <1>2, <2>1, <3>1, ReturnTypes DEF ScheduleCheck, dockerVars, procVars, SupTypeOK, Scheds
    <3>3. Known'
        BY <1>0, <1>2, <2>1, ReturnTypes DEF ScheduleCheck, procVars, Known, SchedKnows
    <3> QED BY <3>2, <3>3
  <2>2. CASE sched' = [sched EXCEPT ![p].step = "claim"] /\ UNCHANGED <<armed, pc, request>>
    <3> DEFINE s == [sched[p] EXCEPT !.step = "claim"]
    <3>1. s \in Scheds /\ s.step # "claimed" /\ sched' = [sched EXCEPT ![p] = s]
        BY <2>2, SchedType DEF Scheds
    <3> HIDE DEF s
    <3>4. sched' \in [Procs -> Scheds]
        BY <3>1, EditTypes
    <3>2. SupTypeOK'
        BY <1>2, <2>2, <3>4 DEF ScheduleCheck, dockerVars, procVars, SupTypeOK, Scheds
    <3>3. Known'
        BY <1>1, <1>2, <2>2, <3>1 DEF ScheduleCheck, procVars, Known, SchedKnows
    <3> QED BY <3>2, <3>3
  <2> QED BY <1>2, <2>1, <2>2 DEF ScheduleCheck
<1>3. CASE ScheduleClaim(p)
  <2>1. CASE ReturnFromSchedule(p)
    <3>1. SupTypeOK'
        BY <1>3, <2>1, ReturnTypes DEF ScheduleClaim, dockerVars, procVars, timerVars, SupTypeOK, Scheds
    <3>2. Known'
        BY <1>0, <1>3, <2>1, ReturnTypes DEF ScheduleClaim, procVars, Known, SchedKnows
    <3> QED BY <3>1, <3>2
  <2>2. ASSUME NEW r \in Runs, ClaimNextQueuedRun(sched[p].prefer, r),
               sched' = [sched EXCEPT ![p].step = "claimed", ![p].run = r, ![p].prefer = NoTask],
               UNCHANGED <<pc, request>>
        PROVE  SupInv'
    <3> DEFINE s == [sched[p] EXCEPT !.step = "claimed", !.run = r, !.prefer = NoTask]
    <3>4. s \in Scheds /\ s.run = r
        BY SchedType DEF Scheds
    <3>5. sched' = [sched EXCEPT ![p] = s]
        BY <2>2
    <3> HIDE DEF s
    <3>6. sched' \in [Procs -> Scheds]
        BY <3>4, <3>5, EditTypes
    <3>1. SupTypeOK'
        BY <1>3, <2>2, <3>6 DEF ScheduleClaim, dockerVars, procVars, timerVars, SupTypeOK, Scheds
    <3>2. r \in Rows'
        BY <2>2 DEF ClaimNextQueuedRun, Rows, SupTypeOK, StoreTypeOK
    <3>3. Known'
        BY <1>0, <1>3, <2>2, <3>2, <3>4, <3>5, EditTypes
           DEF ScheduleClaim, procVars, Known, SchedKnows
    <3> QED BY <3>1, <3>3
  <2> QED BY <1>3, <2>1, <2>2 DEF ScheduleClaim
<1>4. CASE ScheduleSpawn(p)
  <2>1. lease' \in [Runs -> Procs \cup {NoProc}]
      BY <1>4 DEF ScheduleSpawn, SupTypeOK
  <2>2. CASE ReturnFromSchedule(p)
    <3>1. SupTypeOK'
        BY <1>4, <2>1, <2>2, ReturnTypes DEF ScheduleSpawn, dockerVars, procVars, timerVars, SupTypeOK, Scheds
    <3>2. Known'
        BY <1>0, <1>4, <2>2, ReturnTypes DEF ScheduleSpawn, procVars, Known, SchedKnows
    <3> QED BY <3>1, <3>2
  <2>3. CASE /\ sched' = [sched EXCEPT ![p].step = "check", ![p].run = NoRun]
             /\ UNCHANGED request
             /\ \/ UNCHANGED pc
                \/ \E th \in Threads : Goto(p, th, "exec")
    <3>1. pc' \in [Procs -> [Threads -> PCs]]
        BY <2>3, GotoTypes DEF SupTypeOK, PCs
    <3> DEFINE s == [sched[p] EXCEPT !.step = "check", !.run = NoRun]
    <3>4. s \in Scheds /\ s.step # "claimed"
        BY SchedType DEF Scheds
    <3>5. sched' = [sched EXCEPT ![p] = s]
        BY <2>3
    <3> HIDE DEF s
    <3>6. sched' \in [Procs -> Scheds]
        BY <3>4, <3>5, EditTypes
    <3>2. SupTypeOK'
        BY <1>4, <2>1, <2>3, <3>1, <3>6
           DEF ScheduleSpawn, dockerVars, procVars, timerVars, SupTypeOK, Scheds
    <3>3. Known'
        BY <1>1, <1>4, <2>3, <3>4, <3>5 DEF ScheduleSpawn, procVars, Known, SchedKnows
    <3> QED BY <3>2, <3>3
  <2> QED BY <1>4, <2>2, <2>3 DEF ScheduleSpawn
<1> QED BY <1>2, <1>3, <1>4 DEF Schedule

\* Sets of goroutines, one of each process.
LEMMA ThreadSetTypes ==
    ASSUME NEW set \in [Procs -> SUBSET Threads], NEW p \in Procs, NEW th \in Threads
    PROVE  /\ [set EXCEPT ![p] = @ \cup {th}] \in [Procs -> SUBSET Threads]
           /\ [set EXCEPT ![p] = @ \ {th}] \in [Procs -> SUBSET Threads]
<1>1. set[p] \cup {th} \in SUBSET Threads /\ set[p] \ {th} \in SUBSET Threads
    OBVIOUS
<1>2. ASSUME NEW v \in SUBSET Threads
      PROVE  [set EXCEPT ![p] = v] \in [Procs -> SUBSET Threads]
    OBVIOUS
<1> QED BY <1>1, <1>2

\* The goroutines keep types.
LEMMA ThreadTypes ==
    ASSUME SupInv, NEW p \in Procs, NEW th \in Threads, Thread(p, th), StoreTypeOK',
           Rows \subseteq Rows'
    PROVE  SupInv'
<1> USE DEF SupInv
<1>1. th[1] \in Runs
    BY RunOfThread
<1>2. ASSUME UNCHANGED <<sched, todo, request>>
      PROVE  Known'
    BY <1>2 DEF Known, SchedKnows, RequestKnows
<1>3. /\ Exits \cup {"exec", "prepare", "launch", "record", "register", "watch", "halted",
                      "remove", "forget", "finish", "resched", "insched", "unwind", "idle"} \subseteq PCs
      /\ Exits = {"ok", "failed", "limited"}
    BY DEF PCs, Exits
<1>4. ASSUME NEW l \in PCs, Goto(p, th, l)
      PROVE  pc' \in [Procs -> [Threads -> PCs]]
    BY <1>4, GotoTypes
<1>5. CASE ExecuteRun(p, th) \/ Prepare(p, th) \/ Launch(p, th) \/ Record(p, th)
  <2>1. PICK l \in PCs : Goto(p, th, l)
    <3>1. ExecuteRun(p, th) => \E l \in {"finish", "unwind", "prepare"} : Goto(p, th, l)
        BY DEF ExecuteRun
    <3>2. Prepare(p, th) => \E l \in {"finish", "register", "launch"} : Goto(p, th, l)
        BY DEF Prepare
    <3>3. Launch(p, th) => \E l \in {"record", "finish"} : Goto(p, th, l)
        BY DEF Launch
    <3>4. Record(p, th) => Goto(p, th, "register")
        BY DEF Record
    <3> QED BY <1>3, <1>5, <3>1, <3>2, <3>3, <3>4
  <2>2. pc' \in [Procs -> [Threads -> PCs]]
      BY <1>4, <2>1
  <2>3. SupTypeOK'
    <3>1. execRow' \subseteq Runs
        BY <1>1, <1>5 DEF ExecuteRun, Prepare, Launch, Record, UpsertRunExecution,
           DeleteRunExecution, SupTypeOK, dockerVars
    <3>2. lease' \in [Runs -> Procs \cup {NoProc}] /\ debt' \in [Procs -> SUBSET Threads]
      <4>1. CASE ExecuteRun(p, th)
        <5>1. \/ UNCHANGED <<lease, debt>>
              \/ /\ lease' = [lease EXCEPT ![th[1]] = p]
                 /\ debt' = [debt EXCEPT ![p] = @ \cup {th}]
            BY <4>1 DEF ExecuteRun
        <5>2. debt \in [Procs -> SUBSET Threads]
            BY DEF SupTypeOK
        <5>3. [debt EXCEPT ![p] = @ \cup {th}] \in [Procs -> SUBSET Threads]
            BY <5>2, ThreadSetTypes
        <5>4. lease' \in [Runs -> Procs \cup {NoProc}]
            BY <1>1, <5>1 DEF SupTypeOK
        <5> QED BY <5>1, <5>2, <5>3, <5>4
      <4>2. CASE Prepare(p, th) \/ Launch(p, th) \/ Record(p, th)
          BY <4>2 DEF Prepare, Launch, Record, SupTypeOK
      <4> QED BY <1>5, <4>1, <4>2
    <3>3. container' \in [Runs -> {"absent", "running"} \cup Exits]
        BY <1>1, <1>3, <1>5 DEF ExecuteRun, Prepare, Launch, Record, SupTypeOK, dockerVars
    <3>4. UNCHANGED <<timerVars, procVars, registered, sched, apiVars>>
        BY <1>5 DEF ExecuteRun, Prepare, Launch, Record
    <3> QED BY <2>2, <3>1, <3>2, <3>3, <3>4 DEF SupTypeOK, timerVars, procVars, apiVars
  <2>4. UNCHANGED <<sched, todo, request>>
      BY <1>5 DEF ExecuteRun, Prepare, Launch, Record, procVars, apiVars
  <2> QED BY <1>2, <2>3, <2>4
<1>6. CASE Register(p, th) \/ Unwind(p, th)
  <2>1. pc' \in [Procs -> [Threads -> PCs]]
      BY <1>3, <1>4, <1>6 DEF Register, Unwind
  <2>2. /\ registered' \in [Procs -> SUBSET Threads]
        /\ debt' \in [Procs -> SUBSET Threads]
        /\ lease' \in [Runs -> Procs \cup {NoProc}]
    <3>1. /\ registered \in [Procs -> SUBSET Threads]
          /\ debt \in [Procs -> SUBSET Threads]
          /\ lease \in [Runs -> Procs \cup {NoProc}]
        BY DEF SupTypeOK
    <3>2. /\ [registered EXCEPT ![p] = @ \cup {th}] \in [Procs -> SUBSET Threads]
          /\ [registered EXCEPT ![p] = @ \ {th}] \in [Procs -> SUBSET Threads]
          /\ [debt EXCEPT ![p] = @ \cup {th}] \in [Procs -> SUBSET Threads]
          /\ [debt EXCEPT ![p] = @ \ {th}] \in [Procs -> SUBSET Threads]
        BY <3>1, ThreadSetTypes
    <3>3. CASE Register(p, th)
      <4>1. \/ UNCHANGED <<registered, debt>>
            \/ /\ registered' = [registered EXCEPT ![p] = @ \cup {th}]
               /\ debt' = [debt EXCEPT ![p] = @ \cup {th}]
          BY <3>3 DEF Register
      <4>2. UNCHANGED lease
          BY <3>3 DEF Register
      <4> QED BY <3>1, <3>2, <4>1, <4>2
    <3>4. CASE Unwind(p, th)
      <4>1. lease' \in [Runs -> Procs \cup {NoProc}]
          BY <1>1, <3>4 DEF Unwind, LeaseWithout, SupTypeOK
      <4>2. /\ registered' = [registered EXCEPT ![p] = @ \ {th}]
            /\ debt' = [debt EXCEPT ![p] = @ \ {th}]
          BY <3>4 DEF Unwind
      <4> QED BY <3>2, <4>1, <4>2
    <3> QED BY <1>6, <3>3, <3>4
  <2>3. SupTypeOK'
      BY <1>6, <2>1, <2>2
         DEF Register, Unwind, SupTypeOK, dockerVars, timerVars, procVars, apiVars
  <2>4. UNCHANGED <<sched, todo, request>>
      BY <1>6 DEF Register, Unwind, procVars, apiVars
  <2> QED BY <1>2, <2>3, <2>4
<1>7. CASE Watch(p, th)
  <2>1. pc' \in [Procs -> [Threads -> PCs]]
      BY <1>3, <1>4, <1>7
         DEF Watch, StopWatching, WatchCancel, WatchCredential, WatchExit, WatchMissing
  <2>2. container' \in [Runs -> {"absent", "running"} \cup Exits]
      BY <1>1, <1>3, <1>7
         DEF Watch, StopWatching, WatchCancel, WatchCredential, WatchExit, WatchMissing,
             StopContainer, dockerVars, SupTypeOK
  <2>3. execRow' \subseteq Runs /\ lease' \in [Runs -> Procs \cup {NoProc}]
      BY <1>1, <1>7
         DEF Watch, StopWatching, WatchCancel, WatchCredential, WatchExit, WatchMissing,
             FailMissing, DeleteRunExecution, dockerVars, SupTypeOK
  <2>4. UNCHANGED <<timerVars, procVars, registered, debt, sched, apiVars>>
      BY <1>7 DEF Watch, StopWatching, WatchCancel, WatchCredential, WatchExit, WatchMissing
  <2>5. SupTypeOK'
      BY <2>1, <2>2, <2>3, <2>4 DEF SupTypeOK, timerVars, procVars, apiVars
  <2> QED BY <1>2, <2>4, <2>5 DEF procVars, apiVars
<1>8. CASE Settle(p, th)
  <2>1. pc' \in [Procs -> [Threads -> PCs]]
      BY <1>3, <1>4, <1>8 DEF Settle
  <2>2. paused' \in BOOLEAN /\ armed' \in [Procs -> BOOLEAN]
      BY <1>8 DEF Settle, EnsureResumeTimer, timerVars, SupTypeOK
  <2>3. SupTypeOK'
      BY <1>8, <2>1, <2>2 DEF Settle, SupTypeOK, dockerVars, procVars, apiVars
  <2>4. UNCHANGED <<sched, todo, request>>
      BY <1>8 DEF Settle, procVars, apiVars
  <2> QED BY <1>2, <2>3, <2>4
<1>9. CASE RemoveContainer(p, th) \/ ForgetExecution(p, th) \/ FinishRun(p, th)
  <2>1. pc' \in [Procs -> [Threads -> PCs]]
      BY <1>3, <1>4, <1>9 DEF RemoveContainer, ForgetExecution, FinishRun
  <2>2. SupTypeOK'
      BY <1>1, <1>9, <2>1
         DEF RemoveContainer, ForgetExecution, FinishRun, DeleteRunExecution, SupTypeOK,
             dockerVars, timerVars, procVars, apiVars
  <2>3. UNCHANGED <<sched, todo, request>>
      BY <1>9 DEF RemoveContainer, ForgetExecution, FinishRun, procVars, apiVars
  <2> QED BY <1>2, <2>2, <2>3
<1>10. CASE Reschedule(p, th)
  <2>1. pc' \in [Procs -> [Threads -> PCs]]
      BY <1>3, <1>4, <1>10 DEF Reschedule
  <2>2. CallScheduleRuns(p, th, TaskOf[th[1]]) \/ ScheduleRunsReturnsAtOnce(p)
      BY <1>10 DEF Reschedule
  <2>3. TaskOf[th[1]] \in Tasks
      BY <1>1, StoreConstants
  <2>4. SupTypeOK'
      BY <1>10, <2>1, <2>2, <2>3, CallTypes DEF Reschedule, SupTypeOK, Scheds, dockerVars, procVars, apiVars
  <2>5. Known'
      BY <1>10, <2>2, <2>3, CallTypes
         DEF Reschedule, procVars, apiVars, Known, SchedKnows, RequestKnows
  <2> QED BY <2>4, <2>5
<1> QED BY <1>5, <1>6, <1>7, <1>8, <1>9, <1>10 DEF Thread

\* The start and the end of a process keep types.
LEMMA ProcessTypes ==
    ASSUME SupInv, NEW p \in Procs, StoreTypeOK', Rows \subseteq Rows',
           \/ Boot(p) \/ Startup(p) \/ Wake(p) \/ ResumeTimer(p)
           \/ Crash(p) \/ BeginDrain(p) \/ Leave(p) \/ StopRunSupervisors(p)
    PROVE  SupInv'
<1> USE DEF SupInv
<1>1. ASSUME UNCHANGED <<sched, request>>, \A q \in Procs : todo'[q] \subseteq Rows'
      PROVE  Known'
    BY <1>1 DEF Known, SchedKnows, RequestKnows
<1>2. CASE Boot(p) \/ BeginRecovery(p)
  <2>1. PICK rows \in SUBSET Rows : todo' = [todo EXCEPT ![p] = rows]
      BY <1>2 DEF Boot, BeginRecovery, ListRunningRuns, Rows
  <2>2. rows \subseteq Runs
      BY DEF Rows
  <2>3. SupTypeOK'
      BY <1>2, <2>1, <2>2
         DEF Boot, BeginRecovery, SupTypeOK, dockerVars, timerVars, threadVars, apiVars
  <2>4. Known'
      BY <1>1, <1>2, <2>1 DEF Boot, BeginRecovery, apiVars, Known, SupTypeOK
  <2> QED BY <2>3, <2>4
<1>3. CASE RecoverQueuedCancel(p) \/ EndRecovery(p)
  <2>1. todo' \in [Procs -> SUBSET Runs] /\ \A q \in Procs : todo'[q] \subseteq todo[q]
    <3>1. CASE RecoverQueuedCancel(p)
      <4>1. PICK r \in todo[p] : todo' = [todo EXCEPT ![p] = @ \ {r}]
          BY <3>1 DEF RecoverQueuedCancel
      <4> QED BY <4>1 DEF SupTypeOK
    <3>2. CASE EndRecovery(p)
        BY <3>2 DEF EndRecovery, SupTypeOK
    <3> QED BY <1>3, <3>1, <3>2
  <2>2. SupTypeOK'
      BY <1>3, <2>1 DEF RecoverQueuedCancel, EndRecovery, SupTypeOK, dockerVars, timerVars,
         threadVars, apiVars
  <2>3. Known'
      BY <1>1, <1>3, <2>1 DEF RecoverQueuedCancel, EndRecovery, apiVars, Known
  <2> QED BY <2>2, <2>3
<1>4. CASE RecoverRunningRun(p)
  <2>1. PICK r \in todo[p] : /\ RecoverDetached(p, r) \/ RecoverUnlaunched(p, r)
                             /\ todo' = [todo EXCEPT ![p] = @ \ {r}]
      BY <1>4 DEF RecoverRunningRun
  <2>2. r \in Runs
      BY DEF SupTypeOK
  <2>3. todo' \in [Procs -> SUBSET Runs] /\ \A q \in Procs : todo'[q] \subseteq todo[q]
      BY <2>1 DEF SupTypeOK
  <2>4. pc' \in [Procs -> [Threads -> PCs]]
    <3>1. {"finish", "register"} \cup Exits \subseteq PCs
        BY DEF PCs
    <3> QED BY <2>1, <3>1, GotoTypes DEF RecoverDetached, RecoverUnlaunched, SupTypeOK
  <2>5. execRow' \subseteq Runs /\ lease' \in [Runs -> Procs \cup {NoProc}]
      BY <2>1, <2>2 DEF RecoverDetached, RecoverUnlaunched, FailMissing, DeleteRunExecution, SupTypeOK
  <2>6. SupTypeOK'
      BY <1>4, <2>3, <2>4, <2>5 DEF RecoverRunningRun, SupTypeOK, timerVars, apiVars
  <2>7. Known'
      BY <1>1, <1>4, <2>3 DEF RecoverRunningRun, apiVars, Known
  <2> QED BY <2>6, <2>7
<1>5. CASE Wake(p)
  <2>1. CallScheduleRuns(p, Itself, NoTask) \/ ScheduleRunsReturnsAtOnce(p)
      BY <1>5 DEF Wake
  <2>2. SupTypeOK'
      BY <1>5, <2>1, CallTypes DEF Wake, SupTypeOK, Scheds, dockerVars, threadVars, apiVars
  <2>3. Known'
      BY <1>5, <2>1, CallTypes DEF Wake, apiVars, Known, SchedKnows, RequestKnows
  <2> QED BY <2>2, <2>3
<1>6. CASE ResumeTimer(p) \/ BeginDrain(p) \/ StopRunSupervisors(p)
  <2>1. SupTypeOK'
      BY <1>6 DEF ResumeTimer, BeginDrain, StopRunSupervisors, SupTypeOK, dockerVars, timerVars,
         threadVars, apiVars
  <2>2. Known'
      BY <1>1, <1>6 DEF ResumeTimer, BeginDrain, StopRunSupervisors, apiVars, Known
  <2> QED BY <2>1, <2>2
<1>7. CASE Die(p)
  <2>1. /\ sched' = [sched EXCEPT ![p] = NobodySched]
        /\ request' = [c \in Clients |-> IF request[c].at = p THEN NoRequest ELSE request[c]]
        /\ todo' = [todo EXCEPT ![p] = {}]
      BY <1>7 DEF Die
  <2>2. "idle" \in PCs
      BY DEF PCs
  <2>3. SupTypeOK'
      BY <1>7, <2>1, <2>2, FreeScheduler, FreeClient DEF Die, SupTypeOK, Scheds, dockerVars
  <2>4. NobodySched.step = "free" /\ RequestKnows(NoRequest)
      BY DEF NobodySched, NoRequest, RequestKnows, OfARun
  <2>5. Known'
      BY <2>1, <2>4 DEF Known, SchedKnows, RequestKnows, SupTypeOK
  <2> QED BY <2>3, <2>5
<1> QED BY <1>2, <1>3, <1>4, <1>5, <1>6, <1>7 DEF Startup, Crash, Leave

\* The handlers of requests keep types.
LEMMA RequestTypes ==
    ASSUME SupInv, NEW c \in Clients, Request(c) \/ HandleRequest(c), StoreTypeOK',
           Rows \subseteq Rows'
    PROVE  SupInv'
<1> USE DEF SupInv
<1> DEFINE Form == [step : RequestSteps, at : Procs \cup {NoProc},
                    run : Runs \cup {NoRun}, task : Tasks \cup {NoTask}]
<1>1. ASSUME NEW q \in Form, RequestKnows(q), request' = [request EXCEPT ![c] = q],
             UNCHANGED <<sched, todo>>
      PROVE  Known' /\ request' \in [Clients -> Form]
    BY <1>1 DEF Known, SchedKnows, RequestKnows, SupTypeOK
<1>2. request[c] \in Form /\ RequestKnows(request[c])
    BY DEF SupTypeOK, Known
<1>3. ASSUME NEW from, NEW to \in RequestSteps, RequestStep(c, from, to),
             to \in OfARun => from \in OfARun, to # "sweep", UNCHANGED <<sched, todo>>
      PROVE  Known' /\ request' \in [Clients -> Form]
  <2>1. CASE to = "none"
    <3>1. NoRequest \in Form /\ RequestKnows(NoRequest)
        BY FreeClient DEF NoRequest, RequestKnows, OfARun
    <3> QED BY <1>1, <1>3, <2>1, <3>1 DEF RequestStep
  <2>2. CASE to # "none"
    <3>1. [request[c] EXCEPT !.step = to] \in Form /\ RequestKnows([request[c] EXCEPT !.step = to])
        BY <1>2, <1>3 DEF RequestKnows, RequestStep
    <3>2. request' = [request EXCEPT ![c] = [request[c] EXCEPT !.step = to]]
        BY <1>3, <2>2 DEF RequestStep
    <3> QED BY <1>1, <1>3, <3>1, <3>2
  <2> QED BY <2>1, <2>2
<1>4. OfARun = {"add", "write", "cancelQueued", "cancelActive", "dequeue", "stop"}
    BY DEF OfARun, RequestSteps
<1>5. RequestSteps = OfARun \cup {"none", "sweep", "flush", "schedule", "insched"}
    BY <1>4 DEF RequestSteps
<1>6. ASSUME NEW p \in Procs, NEW step \in RequestSteps, NEW r \in Runs \cup {NoRun},
             NEW t \in Tasks, step \in OfARun => r \in Runs, Receive(c, p, step, r, t),
             UNCHANGED <<sched, todo>>
      PROVE  Known' /\ request' \in [Clients -> Form]
  <2> DEFINE q == [step |-> step, at |-> p, run |-> r, task |-> t]
  <2>1. q \in Form /\ RequestKnows(q)
      BY <1>6 DEF RequestKnows
  <2>2. request' = [request EXCEPT ![c] = q]
      BY <1>6 DEF Receive
  <2> HIDE DEF q
  <2> QED BY <1>1, <1>6, <2>1, <2>2
<1>7. CASE Request(c)
  <2>1. UNCHANGED <<sched, todo, lease, dockerVars, timerVars, procVars, threadVars>>
      BY <1>7 DEF Request, procVars
  <2>2. UNCHANGED <<sched, todo>>
      BY <2>1
  <2>3. ASSUME NEW p \in Procs, NEW r \in Runs, CreateRun(c, p, r)
        PROVE  Known' /\ request' \in [Clients -> Form] /\ asked' \subseteq Runs \cup Tasks
    <3>1. TaskOf[r] \in Tasks
        BY StoreConstants
    <3> QED BY <1>4, <1>5, <1>6, <2>2, <2>3, <3>1 DEF CreateRun, SupTypeOK
  <2>4. ASSUME NEW p \in Procs, NEW r \in Runs, CancelRun(c, p, r)
        PROVE  Known' /\ request' \in [Clients -> Form] /\ asked' \subseteq Runs \cup Tasks
    <3>1. TaskOf[r] \in Tasks
        BY StoreConstants
    <3>2. asked' \subseteq Runs \cup Tasks
        BY <2>4 DEF CancelRun, SupTypeOK
    <3>3. CASE UNCHANGED request
        BY <2>2, <3>2, <3>3 DEF Known, SchedKnows, RequestKnows, SupTypeOK
    <3>4. CASE Receive(c, p, "cancelQueued", r, TaskOf[r]) \/ Receive(c, p, "cancelActive", r, TaskOf[r])
        BY <1>4, <1>5, <1>6, <2>2, <3>1, <3>2, <3>4
    <3> QED BY <2>4, <3>3, <3>4 DEF CancelRun
  <2>5. ASSUME NEW p \in Procs, NEW t \in Tasks, CloseIssue(c, p, t)
        PROVE  Known' /\ request' \in [Clients -> Form] /\ asked' \subseteq Runs \cup Tasks
      BY <1>4, <1>5, <1>6, <2>2, <2>5 DEF CloseIssue, SupTypeOK
  <2>6. Known' /\ request' \in [Clients -> Form] /\ asked' \subseteq Runs \cup Tasks
      BY <1>7, <2>3, <2>4, <2>5 DEF Request
  <2>7. SupTypeOK'
      BY <2>1, <2>6 DEF SupTypeOK, dockerVars, timerVars, procVars, threadVars
  <2> QED BY <2>6, <2>7
<1>8. ASSUME \/ AddQueuedRun(c) \/ WriteRunFiles(c) \/ PersistCancel(c) \/ Dequeue(c)
             \/ SweepQueued(c) \/ CancelRunning(c),
             UNCHANGED <<lease, dockerVars, timerVars, procVars, threadVars, sched>>
      PROVE  SupInv'
  <2>1. UNCHANGED <<sched, todo>> /\ asked' \subseteq Runs \cup Tasks
    <3>1. request[c].step = "write" => request[c].run \in Runs
        BY <1>4 DEF Known, RequestKnows
    <3> QED BY <1>8, <3>1 DEF procVars, AddQueuedRun, WriteRunFiles, PersistCancel, Dequeue,
            SweepQueued, CancelRunning, RequestStep, SupTypeOK
  <2>2. CASE CancelRunning(c) /\ ~RequestStep(c, "flush", "none")
    <3>1. PICK r \in Runs : request' = [request EXCEPT ![c].step = "cancelActive", ![c].run = r]
        BY <2>2 DEF CancelRunning, ListRunningRuns
    <3>2. /\ [request[c] EXCEPT !.step = "cancelActive", !.run = r] \in Form
          /\ RequestKnows([request[c] EXCEPT !.step = "cancelActive", !.run = r])
        BY <1>2, <1>5, <1>4 DEF RequestKnows
    <3>3. request' = [request EXCEPT ![c] =
                         [request[c] EXCEPT !.step = "cancelActive", !.run = r]]
        BY <3>1
    <3> QED BY <1>1, <2>1, <3>2, <3>3, <1>8
            DEF SupTypeOK, dockerVars, timerVars, procVars, threadVars
  <2>3. CASE ~(CancelRunning(c) /\ ~RequestStep(c, "flush", "none"))
    <3>1. \/ RequestStep(c, "add", "write") \/ RequestStep(c, "write", "schedule")
          \/ RequestStep(c, "write", "none") \/ RequestStep(c, "cancelQueued", "dequeue")
          \/ RequestStep(c, "cancelActive", "stop") \/ RequestStep(c, "dequeue", "schedule")
          \/ RequestStep(c, "dequeue", "none") \/ RequestStep(c, "sweep", "flush")
          \/ RequestStep(c, "flush", "none")
        BY <1>8, <2>3 DEF AddQueuedRun, WriteRunFiles, PersistCancel, Dequeue, SweepQueued,
           CancelRunning
    <3>2. Known' /\ request' \in [Clients -> Form]
        BY <1>3, <1>4, <1>5, <2>1, <3>1
    <3> QED BY <1>8, <2>1, <3>2 DEF SupTypeOK, dockerVars, timerVars, procVars, threadVars
  <2> QED BY <2>2, <2>3
<1>9. ASSUME StopExecution(c), UNCHANGED <<lease, execRow, timerVars, procVars, threadVars, sched>>
      PROVE  SupInv'
  <2>1. Known' /\ request' \in [Clients -> Form]
      BY <1>3, <1>4, <1>5, <1>9 DEF StopExecution, procVars
  <2>2. container' \in [Runs -> {"absent", "running"} \cup Exits]
      BY <1>9 DEF StopExecution, StopContainer, SupTypeOK, Exits
  <2> QED BY <1>9, <2>1, <2>2 DEF StopExecution, SupTypeOK, timerVars, procVars, threadVars
<1>10. ASSUME RequestSchedule(c), UNCHANGED <<lease, dockerVars, paused, procVars, threadVars>>
       PROVE  SupInv'
  <2>1. PICK p : /\ p = request[c].at
                 /\ \/ RequestStep(c, "schedule", "insched") /\ CallScheduleRuns(p, c, request[c].task)
                    \/ RequestStep(c, "schedule", "none") /\ ScheduleRunsReturnsAtOnce(p)
      BY <1>10 DEF RequestSchedule
  <2>2. request[c].task \in Tasks \cup {NoTask} /\ p \in Procs \cup {NoProc}
      BY <1>2, <2>1
  <2>3. /\ sched' \in [Procs -> Scheds]
        /\ armed' \in [Procs -> BOOLEAN]
        /\ \A q \in Procs : sched'[q].step = "claimed" => sched'[q] = sched[q]
    <3>1. CASE p \in Procs
        BY <2>1, <2>2, <3>1, CallTypes
    <3>2. CASE p \notin Procs
        BY <2>1, <3>2 DEF CallScheduleRuns, ScheduleRunsReturnsAtOnce, EnsureResumeTimer, SupTypeOK, Scheds
    <3> QED BY <3>1, <3>2
  <2>4. PICK to \in {"insched", "none"} : RequestStep(c, "schedule", to)
      BY <2>1
  <2>5. request' \in [Clients -> Form] /\ \A d \in Clients : RequestKnows(request'[d])
    <3>1. CASE to = "none"
      <4>1. NoRequest \in Form /\ RequestKnows(NoRequest)
          BY FreeClient DEF NoRequest, RequestKnows, OfARun
      <4>2. request' = [request EXCEPT ![c] = NoRequest]
          BY <2>4, <3>1 DEF RequestStep
      <4>3. request \in [Clients -> Form] /\ \A d \in Clients : RequestKnows(request[d])
          BY DEF SupTypeOK, Known
      <4> HIDE DEF Form
      <4> QED BY <4>1, <4>2, <4>3
    <3>2. CASE to = "insched"
      <4>1. request' = [request EXCEPT ![c] = [request[c] EXCEPT !.step = "insched"]]
          BY <2>4, <3>2 DEF RequestStep
      <4>2. /\ [request[c] EXCEPT !.step = "insched"] \in Form
            /\ RequestKnows([request[c] EXCEPT !.step = "insched"])
          BY <1>2, <1>4, <1>5 DEF RequestKnows
      <4>3. request \in [Clients -> Form] /\ \A d \in Clients : RequestKnows(request[d])
          BY DEF SupTypeOK, Known
      <4> HIDE DEF Form
      <4> QED BY <4>1, <4>2, <4>3
    <3> QED BY <3>1, <3>2
  <2>6. SupTypeOK'
      BY <1>10, <2>3, <2>5 DEF RequestSchedule, SupTypeOK, Scheds, dockerVars, procVars, threadVars
  <2>7. Known'
      BY <1>10, <2>3, <2>5 DEF procVars, Known, SchedKnows, RequestKnows
  <2> QED BY <2>6, <2>7
<1> QED BY <1>7, <1>8, <1>9, <1>10 DEF HandleRequest

-----------------------------------------------------------------------------
(* The invariant, and what follows.                                        *)

LEMMA SupStep ==
    ASSUME SupInv, [Next]_vars
    PROVE  SupInv' /\ StoreMoves
<1>1. StoreMoves
    BY EveryStepMoves
<1>2. StoreTypeOK' /\ Rows \subseteq Rows'
    BY <1>1, StoreMovesKeepTypes, RowsStay DEF SupInv, SupTypeOK
<1>3. ASSUME NEW r \in Runs, ContainerExits(r)
      PROVE  SupInv'
  <2>1. SupTypeOK'
      BY <1>2, <1>3, SupervisionConstants
         DEF SupInv, SupTypeOK, ContainerExits, timerVars, procVars, threadVars, apiVars
  <2>2. Known'
      BY <1>2, <1>3 DEF SupInv, Known, SchedKnows, RequestKnows, ContainerExits, procVars, apiVars
  <2> QED BY <2>1, <2>2 DEF SupInv
<1>4. CASE PauseExpires
  <2>1. SupTypeOK'
      BY <1>2, <1>4 DEF SupInv, SupTypeOK, PauseExpires, dockerVars, procVars, threadVars, apiVars
  <2>2. UNCHANGED <<sched, todo, request>>
      BY <1>4 DEF PauseExpires, procVars, apiVars
  <2>3. Known'
      BY <1>2, <2>2 DEF SupInv, Known, SchedKnows, RequestKnows
  <2> QED BY <1>1, <2>1, <2>3 DEF SupInv
<1>5. CASE UNCHANGED vars
  <2>1. SupTypeOK'
      BY <1>2, <1>5 DEF SupInv, SupTypeOK, vars, supVars
  <2>2. UNCHANGED <<sched, todo, request>>
      BY <1>5 DEF vars, supVars
  <2>3. Known'
      BY <1>2, <2>2 DEF SupInv, Known, SchedKnows, RequestKnows
  <2> QED BY <1>1, <2>1, <2>3 DEF SupInv
<1> QED BY <1>1, <1>2, <1>3, <1>4, <1>5, ScheduleTypes, ThreadTypes, ProcessTypes, RequestTypes
        DEF Next

LEMMA SupInitInv == SupInit => SupInv
<1> SUFFICES ASSUME SupInit PROVE SupTypeOK /\ Known
    BY DEF SupInv
<1>1. StoreTypeOK
    BY TypeInit DEF SupInit
<1>2. "idle" \in PCs
    BY DEF PCs
<1>3. SupTypeOK
    BY <1>1, <1>2, FreeScheduler, FreeClient DEF SupInit, SupTypeOK, Scheds
<1>4. Known
    BY DEF SupInit, Known, SchedKnows, RequestKnows, NobodySched, NoRequest, OfARun
<1> QED BY <1>3, <1>4

LEMMA SupInvHolds == Spec => []SupInv
  BY SupInitInv, SupStep, PTL DEF Spec

\* The tables, goroutines, schedulers and requests keep their types, for any
\* number of processes and runs.
THEOREM SupervisionTypeCorrect == Spec => []SupTypeOK
<1>1. SupInv => SupTypeOK
    BY DEF SupInv
<1> QED BY <1>1, SupInvHolds, PTL

\* Everything the processes write to a run's status, crashes, recovery and
\* overlapping slots included, is a move of the life cycle.
THEOREM SupervisionKeepsLifecycle == Spec => ImplementsLifecycle
<1>1. SupInit => Lifecycle!Init
    BY DEF SupInit, StoreInit, Lifecycle!Init
<1>2. SupInv /\ [Next]_vars => [Lifecycle!Next]_status
  <2> SUFFICES ASSUME SupInv, [Next]_vars PROVE Lifecycle!Next \/ UNCHANGED status
      OBVIOUS
  <2> QED BY SupStep, LifecycleWrite, LifecycleAdd DEF StoreMoves, SupInv, SupTypeOK
<1> QED BY <1>1, <1>2, SupInvHolds, PTL DEF Spec, ImplementsLifecycle, Lifecycle!Spec

\* Two runs of one task are never both running, whichever processes claim,
\* requeue, recover and settle them.
THEOREM SupervisionStaysSerial == Spec => []OneRunningPerTask
<1>1. SupInit => OneRunningPerTask
    BY DEF SupInit, StoreInit, OneRunningPerTask
<1>2. SupInv /\ OneRunningPerTask /\ [Next]_vars => OneRunningPerTask'
  <2> SUFFICES ASSUME SupInv, OneRunningPerTask, [Next]_vars PROVE OneRunningPerTask'
      OBVIOUS
  <2>1. StoreMoves /\ StoreTypeOK
      BY SupStep DEF SupInv, SupTypeOK
  <2>2. CASE UNCHANGED status
      BY <2>2, NoneStarted
  <2> QED BY <2>1, <2>2, OneRunningWrite, OneRunningAdd DEF StoreMoves
<1> QED BY <1>1, <1>2, SupInvHolds, PTL DEF Spec

\* A cancel request is forgotten only once its run is over, whoever clears it:
\* the scheduler, the supervisor, the recovery or a handler.
THEOREM CancelsAreKept == Spec => NoLostCancel
<1>1. SupInv /\ [Next]_vars => [\A r \in cancelReq \ cancelReq' : status'[r] \in Final]_vars
    BY SupStep DEF StoreMoves
<1> QED BY <1>1, SupInvHolds, PTL DEF Spec, NoLostCancel

-----------------------------------------------------------------------------
(* One slot at a time.  From here on no two processes live at once, and     *)
(* either one run is executed at a time or no provider sets limits.  Any    *)
(* process may crash, drain or be stopped at any step, and any number may   *)
(* follow it.                                                               *)

OneSlot == MaxAlive = 1 /\ (MaxConcurrent = 1 \/ "limited" \notin Outcomes)

\* Where a goroutine is: it readies a container, holds the lease for that and
\* for watching, cleans up, or is about to return.
Fetching == {"exec", "prepare", "launch"}
Holding  == Fetching \cup {"record", "register"} \cup Watching
Clean    == {"remove", "forget", "finish", "resched", "insched"}
Ending   == Clean \cup {"unwind"}
Serving  == {"up", "draining", "stopping"}

AllIdle(p) == \A th \in Threads : pc[p][th] = "idle"
Resting(p) == AllIdle(p) /\ Free(p) /\ registered[p] = {} /\ ~wake[p] /\ ~armed[p]
Unleased(p) == \A r \in Runs : lease[r] # p

\* One process lives, the others rest, and requests are served where it is up.
ProcsOK ==
    /\ \A p, q \in Procs : Alive(p) /\ Alive(q) => p = q
    /\ \A p \in Procs : ~Alive(p) \/ proc[p] = "booting" => Resting(p)
    /\ \A p \in Procs : proc[p] \in {"unborn", "booting"} => Unleased(p)
    /\ \A c \in Clients : request[c] # NoRequest =>
          request[c].at \in Procs /\ proc[request[c].at] \in Serving

\* The scheduler has claimed a run nobody works on, and whoever called it waits.
SchedOK(p) ==
    /\ sched[p].step # "claimed" => sched[p].run = NoRun
    /\ sched[p].step = "claimed" =>
          /\ sched[p].run \in Runs
          /\ container[sched[p].run] # "running"
          /\ status[sched[p].run] # "queued"
          /\ ~Working(p, sched[p].run)
    /\ sched[p].step # "free" /\ sched[p].by \in Threads => pc[p][sched[p].by] = "insched"

\* Nobody works on the runs that are still to be recovered.
TodoOK(p) ==
    \A r \in todo[p] :
        /\ proc[p] = "booting" => status[r] = "queued"
        /\ proc[p] = "recovering" => status[r] = "running" /\ ~Attended(p, r)

\* What the place of a goroutine says of its run's status: a run that was handed
\* back is kept from the scheduler by the pause, and one that was settled is not
\* running again before its goroutine is gone.
StatusOK(p, th) ==
    pc[p][th] # "idle" =>
        /\ th[1] \in Rows
        /\ status[th[1]] = "queued" =>
              pc[p][th] \in Ending /\ paused /\ MaxConcurrent = 1 /\ sched[p].step # "claim"
        /\ pc[p][th] \in Clean => status[th[1]] # "running"
        /\ pc[p][th] = "unwind" => status[th[1]] # "running" \/ proc[p] = "stopping"

\* And of its container, its execution row and its lease.
PlaceOK(p, th) ==
    /\ pc[p][th] \in Fetching \cup Exits \cup {"remove", "forget"} => container[th[1]] # "running"
    /\ pc[p][th] \in {"launch", "record"} => th[1] \in execRow
    /\ pc[p][th] \in Holding => lease[th[1]] = p
    /\ pc[p][th] \in Exits => lease[th[1]] = p \/ th = Main(th[1])
    /\ th = Main(th[1]) /\ pc[p][th] # "idle" =>
          pc[p][th] \in Exits \cup Ending /\ proc[p] = "recovering"
    /\ pc[p][th] \in {"idle", "record", "register"} \cup Fetching => th \notin registered[p]
    /\ "limited" \notin Outcomes => pc[p][th] # "limited"

\* A process has one goroutine on a run at a time.
OneEach(p) ==
    \A th, o \in Threads :
        pc[p][th] # "idle" /\ pc[p][o] # "idle" /\ th[1] = o[1] => th = o

\* A container at work has its execution row, and its run is not in the queue.
RunOK(r) ==
    /\ container[r] = "running" => r \in execRow
    /\ status[r] \in {"absent", "queued"} => container[r] # "running"
    /\ "limited" \notin Outcomes => container[r] # "limited"

Launched == {r \in execRow : status[r] = "running"}

Quiet(p) == Free(p) /\ ~wake[p] /\ ~armed[p] /\ Unleased(p)

\* With one run executed at a time, a process holds one lease at most, none
\* while its scheduler claims; it knows the one run that was launched; and it
\* begins nothing else before it has recovered that one.
LimitOK(p) ==
    /\ sched[p].step \in {"claim", "claimed"} => Unleased(p)
    /\ \A r, x \in Runs : lease[r] = p /\ lease[x] = p => r = x
    /\ proc[p] = "recovering" /\ todo[p] \cap Launched # {} => Quiet(p) /\ AllIdle(p)
    /\ \A r \in Runs : pc[p][Main(r)] \in Exits =>
          /\ Quiet(p)
          /\ todo[p] \cap Launched = {}
          /\ \A th \in Threads : pc[p][th] = "idle" \/ th = Main(r)
    /\ Alive(p) /\ proc[p] # "booting" => \A r \in Launched :
          \/ r \in todo[p] /\ proc[p] = "recovering"
          \/ lease[r] = p \/ pc[p][Main(r)] \in Exits \/ sched[p].run = r
          \/ proc[p] = "stopping" /\ sched[p].step \notin {"claim", "claimed"} /\ Unleased(p)

OneLaunched == \A r, x \in Launched : r = x

ProcOK(p) ==
    /\ SchedOK(p) /\ TodoOK(p) /\ OneEach(p)
    /\ \A th \in Threads : StatusOK(p, th) /\ PlaceOK(p, th)
    /\ MaxConcurrent = 1 => LimitOK(p)

SlotInv ==
    /\ ProcsOK
    /\ \A p \in Procs : ProcOK(p)
    /\ \A r \in Runs : RunOK(r)
    /\ MaxConcurrent = 1 => OneLaunched

-----------------------------------------------------------------------------
(* The goroutine and its process.                                          *)

LEMMA MainThread == ASSUME NEW r \in Runs PROVE Main(r) \in Threads /\ Main(r)[1] = r
  BY SupervisionConstants DEF Main, Threads

LEMMA GotoAt ==
    ASSUME SupTypeOK, NEW p \in Procs, NEW th \in Threads, NEW l, Goto(p, th, l)
    PROVE  /\ pc'[p][th] = l
           /\ \A o \in Threads : o # th => pc'[p][o] = pc[p][o]
           /\ \A q \in Procs : q # p => pc'[q] = pc[q]
  BY DEF Goto, SupTypeOK

LEMMA NoCaller ==
    ASSUME SupTypeOK
    PROVE  Itself \notin Threads /\ Clients \cap Threads = {} /\ NobodySched.by = Itself
           /\ NobodySched.step = "free" /\ NobodySched.run = NoRun
<1>1. Itself \notin Threads
  <2> SUFFICES ASSUME NEW r \in Runs, NEW c \in Copies, <<"itself">> = <<r, c>> PROVE FALSE
      BY DEF Itself, Threads
  <2>1. Len(<<"itself">>) = 1 /\ Len(<<r, c>>) = 2
      OBVIOUS
  <2> QED BY <2>1
<1> QED BY <1>1, SupervisionConstants DEF NobodySched, Threads

\* A step of a process that is up and running: the others rest.
Inside(p) ==
    /\ Alive(p) /\ proc[p] # "booting"
    /\ Alive(p)' /\ proc'[p] # "booting" /\ (proc[p] \in Serving => proc'[p] \in Serving)
    /\ \A q \in Procs : q # p =>
          /\ proc'[q] = proc[q] /\ pc'[q] = pc[q] /\ sched'[q] = sched[q]
          /\ registered'[q] = registered[q] /\ wake'[q] = wake[q] /\ armed'[q] = armed[q]
          /\ todo'[q] = todo[q]
    /\ \A r \in Runs : lease'[r] \in {lease[r], p, NoProc}
    /\ \A c \in Clients :
          \/ request'[c] \in {request[c], NoRequest}
          \/ request'[c].at = p /\ proc[p] \in Serving

LEMMA InsideProcs ==
    ASSUME ProcsOK, NEW p \in Procs, Inside(p)
    PROVE  ProcsOK'
<1>1. \A q \in Procs : q # p => ~Alive(q) /\ Resting(q)
    BY DEF ProcsOK, Inside
<1>2. \A q \in Procs : q # p => ~Alive(q)' /\ Resting(q)'
    BY <1>1 DEF Inside, Resting, Free, Alive, AllIdle
<1>3. \A q \in Procs : proc'[q] \in {"unborn", "booting"} => Unleased(q)'
  <2> SUFFICES ASSUME NEW q \in Procs, proc'[q] \in {"unborn", "booting"} PROVE Unleased(q)'
      OBVIOUS
  <2>1. q # p
      BY DEF Inside, Alive
  <2>2. q # NoProc /\ proc[q] \in {"unborn", "booting"}
      BY <2>1, SupervisionConstants DEF Inside
  <2> QED BY <2>1, <2>2 DEF ProcsOK, Inside, Unleased
<1>4. \A c \in Clients : request'[c] # NoRequest =>
          request'[c].at \in Procs /\ proc'[request'[c].at] \in Serving
    BY DEF ProcsOK, Inside
<1> QED BY <1>1, <1>2, <1>3, <1>4 DEF ProcsOK, Inside

\* What is to be shown of a process that rests after a step.
LEMMA RestingOK ==
    ASSUME SupTypeOK', NEW p \in Procs, Resting(p)', TodoOK(p)',
           MaxConcurrent = 1 => \A r, x \in Runs : lease'[r] = p /\ lease'[x] = p => r = x,
           ~Alive(p)' \/ proc'[p] = "booting"
    PROVE  ProcOK(p)'
<1>1. sched'[p].step = "free" /\ sched'[p].run = NoRun
    BY DEF Resting, Free, NobodySched
<1>2. SchedOK(p)'
    BY <1>1 DEF SchedOK
<1>3. OneEach(p)'
    BY DEF OneEach, Resting, AllIdle
<1>4. ASSUME NEW th \in Threads PROVE StatusOK(p, th)' /\ PlaceOK(p, th)'
    BY DEF StatusOK, PlaceOK, Resting, AllIdle, Holding, Fetching, Watching, Exits
<1>5. ASSUME MaxConcurrent = 1 PROVE LimitOK(p)'
  <2>1. \A r \in Runs : pc'[p][Main(r)] = "idle"
      BY MainThread DEF Resting, AllIdle
  <2>2. "idle" \notin Exits
      BY DEF Exits
  <2>3. proc'[p] # "recovering"
      BY DEF Alive
  <2> QED BY <1>1, <1>5, <2>1, <2>2, <2>3 DEF LimitOK
<1> QED BY <1>2, <1>3, <1>4, <1>5 DEF ProcOK

-----------------------------------------------------------------------------
(* A step of a goroutine: what it leaves alone, and what is left to show.   *)

\* The other processes and goroutines, their runs, and the requests.
Leaves(p, th) ==
    /\ pc[p][th] # "idle" /\ pc[p][th] # "insched"
    /\ UNCHANGED <<proc, todo, wake, request>>
    /\ \A q \in Procs : q # p =>
          /\ pc'[q] = pc[q] /\ sched'[q] = sched[q]
          /\ registered'[q] = registered[q] /\ armed'[q] = armed[q]
    /\ \A o \in Threads : o # th =>
          pc'[p][o] = pc[p][o] /\ (o \in registered'[p] <=> o \in registered[p])
    /\ pc'[p][th] \in Exits => th # Main(th[1])

\* The other runs may only be canceled in the queue, and the scheduler is left
\* alone or called.
Spares(p, th) ==
    /\ \A x \in Runs : x # th[1] =>
          /\ lease'[x] = lease[x] /\ container'[x] = container[x]
          /\ x \in execRow' <=> x \in execRow
          /\ status'[x] = status[x] \/ (status[x] = "queued" /\ status'[x] = "canceled")
    /\ lease'[th[1]] \in {lease[th[1]], NoProc}
    /\ paused => paused'
    /\ \/ sched'[p] = sched[p]
       \/ /\ Free(p) /\ pc'[p][th] = "insched"
          /\ sched'[p].step = "check" /\ sched'[p].run = NoRun /\ sched'[p].by = th

\* Of its own run.
Delivers(p, th) ==
    /\ StatusOK(p, th)' /\ PlaceOK(p, th)' /\ RunOK(th[1])'
    /\ MaxConcurrent = 1 /\ th[1] \in Launched' =>
          /\ \/ lease'[th[1]] = p
             \/ proc[p] = "stopping" /\ sched'[p].step \notin {"claim", "claimed"} /\ Unleased(p)'
          /\ th[1] \notin Launched => lease[th[1]] = p

LEMMA AtWork ==
    ASSUME ProcsOK, NEW p \in Procs, NEW th \in Threads, pc[p][th] # "idle"
    PROVE  Alive(p) /\ proc[p] # "booting"
  BY DEF ProcsOK, Resting, AllIdle

\* A process that holds a lease, or whose scheduler claims, has launched no
\* other run.
LEMMA OnlyLaunched ==
    ASSUME SupTypeOK, NEW p \in Procs, LimitOK(p), SchedOK(p), Alive(p), proc[p] # "booting",
           NEW x \in Launched
    PROVE  /\ \A r \in Runs : lease[r] = p => r = x
           /\ sched[p].step # "claim"
           /\ sched[p].step = "claimed" => sched[p].run = x
<1>1. x \in Runs
    BY DEF Launched, SupTypeOK
<1>2. Quiet(p) => sched[p].step = "free" /\ Unleased(p)
    BY NoCaller DEF Quiet, Free
<1>3. CASE x \in todo[p] /\ proc[p] = "recovering"
    BY <1>2, <1>3 DEF LimitOK, Unleased
<1>4. CASE lease[x] = p
    BY <1>1, <1>4 DEF LimitOK, Unleased
<1>5. CASE pc[p][Main(x)] \in Exits
    BY <1>1, <1>2, <1>5 DEF LimitOK, Unleased
<1>6. CASE sched[p].run = x
  <2>1. x # NoRun
      BY <1>1, SupervisionConstants
  <2>2. sched[p].step = "claimed"
      BY <1>6, <2>1 DEF SchedOK
  <2> QED BY <1>6, <2>2 DEF LimitOK, Unleased
<1>7. CASE proc[p] = "stopping" /\ sched[p].step \notin {"claim", "claimed"} /\ Unleased(p)
    BY <1>7 DEF Unleased
<1> QED BY <1>3, <1>4, <1>5, <1>6, <1>7 DEF LimitOK

LEMMA StepInside ==
    ASSUME SupTypeOK, ProcsOK, NEW p \in Procs, NEW th \in Threads, Leaves(p, th), Spares(p, th)
    PROVE  Inside(p)
<1>1. th[1] \in Runs
    BY RunOfThread
<1>2. Alive(p) /\ proc[p] # "booting"
    BY AtWork DEF Leaves
<1>3. \A r \in Runs : lease'[r] \in {lease[r], p, NoProc}
    BY <1>1 DEF Spares
<1> QED BY <1>2, <1>3 DEF Inside, Leaves, Alive

\* The scheduler, the other goroutines and the runs to recover.
LEMMA StepSched ==
    ASSUME SupInv, SupInv', SlotInv, NEW p \in Procs, NEW th \in Threads,
           Leaves(p, th), Spares(p, th)
    PROVE  SchedOK(p)'
<1>1. SchedOK(p) /\ th[1] \in Runs
    BY RunOfThread DEF SlotInv, ProcOK
<1>2. CASE sched'[p] = sched[p]
  <2>1. sched[p].step # "free" /\ sched[p].by \in Threads => pc'[p][sched[p].by] = "insched"
      BY <1>1 DEF SchedOK, Leaves
  <2>2. ASSUME sched[p].step = "claimed"
        PROVE  /\ sched[p].run \in Runs /\ container'[sched[p].run] # "running"
               /\ status'[sched[p].run] # "queued" /\ ~Working(p, sched[p].run)'
    <3> DEFINE r == sched[p].run
    <3>1. /\ r \in Runs /\ container[r] # "running" /\ status[r] # "queued"
          /\ \A o \in Threads : o[1] = r => pc[p][o] = "idle"
        BY <1>1, <2>2 DEF SchedOK, Working
    <3>2. r # th[1]
        BY <3>1 DEF Leaves
    <3> HIDE DEF r
    <3>3. container'[r] # "running" /\ status'[r] # "queued"
        BY <3>1, <3>2 DEF Spares
    <3>4. \A o \in Threads : o[1] = r => pc'[p][o] = "idle"
        BY <3>1, <3>2 DEF Leaves
    <3> QED BY <1>2, <3>1, <3>3, <3>4 DEF Working, r
  <2> QED BY <1>1, <1>2, <2>1, <2>2 DEF SchedOK
<1>3. CASE sched'[p].step = "check" /\ sched'[p].run = NoRun /\ sched'[p].by = th
           /\ pc'[p][th] = "insched"
    BY <1>3 DEF SchedOK
<1> QED BY <1>2, <1>3 DEF Spares

LEMMA StepTodo ==
    ASSUME SupInv, SlotInv, NEW p \in Procs, NEW th \in Threads, Leaves(p, th), Spares(p, th)
    PROVE  TodoOK(p)'
<1>1. proc[p] # "booting" /\ TodoOK(p)
    BY AtWork DEF Leaves, SlotInv, ProcOK
<1> SUFFICES ASSUME NEW r \in todo[p], proc[p] = "recovering"
             PROVE  status'[r] = "running" /\ ~Attended(p, r)'
    BY <1>1 DEF TodoOK, Leaves
<1>2. /\ r \in Runs /\ status[r] = "running" /\ sched[p].run # r
      /\ \A o \in Threads : o[1] = r => pc[p][o] = "idle"
    BY <1>1 DEF TodoOK, Attended, Working, SupInv, SupTypeOK
<1>3. r # th[1]
    BY <1>2 DEF Leaves
<1>4. status'[r] = "running"
    BY <1>2, <1>3 DEF Spares
<1>5. \A o \in Threads : o[1] = r => pc'[p][o] = "idle"
    BY <1>2, <1>3 DEF Leaves
<1>6. sched'[p].run # r
    BY <1>2, SupervisionConstants DEF Spares
<1> QED BY <1>4, <1>5, <1>6 DEF Attended, Working

LEMMA StepOthers ==
    ASSUME SupInv, SupInv', Rows \subseteq Rows', SlotInv, NEW p \in Procs, NEW th \in Threads,
           Leaves(p, th), Spares(p, th), NEW o \in Threads, o # th
    PROVE  StatusOK(p, o)' /\ PlaceOK(p, o)'
<1>1. StatusOK(p, o) /\ PlaceOK(p, o) /\ pc'[p][o] = pc[p][o] /\ proc' = proc
      /\ (o \in registered'[p] <=> o \in registered[p]) /\ o[1] \in Runs
    BY RunOfThread DEF SlotInv, ProcOK, Leaves
<1>2. CASE pc[p][o] = "idle"
    BY <1>1, <1>2 DEF StatusOK, PlaceOK, Holding, Fetching, Watching, Exits
<1>3. CASE pc[p][o] # "idle"
  <2>1. o[1] # th[1]
      BY <1>3 DEF SlotInv, ProcOK, OneEach, Leaves
  <2>2. /\ lease'[o[1]] = lease[o[1]] /\ container'[o[1]] = container[o[1]]
        /\ o[1] \in execRow' <=> o[1] \in execRow
        /\ status'[o[1]] = status[o[1]]
           \/ (status[o[1]] = "queued" /\ status'[o[1]] = "canceled")
      BY <1>1, <2>1 DEF Spares
  <2>3. PlaceOK(p, o)'
      BY <1>1, <2>2 DEF PlaceOK
  <2>4. sched[p].step # "claim" => sched'[p].step # "claim"
      BY DEF Spares
  <2>5. StatusOK(p, o)'
    <3>1. o[1] \in Rows'
        BY <1>1, <1>3 DEF StatusOK
    <3>2. paused => paused'
        BY DEF Spares
    <3> QED BY <1>1, <1>3, <2>2, <2>4, <3>1, <3>2 DEF StatusOK
  <2> QED BY <2>3, <2>5
<1> QED BY <1>2, <1>3

LEMMA StepEach ==
    ASSUME SupInv, SlotInv, NEW p \in Procs, NEW th \in Threads, Leaves(p, th)
    PROVE  OneEach(p)'
<1>1. \A o \in Threads : pc'[p][o] # "idle" => pc[p][o] # "idle"
    BY DEF Leaves
<1> QED BY <1>1 DEF SlotInv, ProcOK, OneEach

\* With one run at a time.
LEMMA StepLimit ==
    ASSUME SupInv, SupInv', SlotInv, NEW p \in Procs, NEW th \in Threads, Leaves(p, th), Spares(p, th),
           Delivers(p, th), MaxConcurrent = 1
    PROVE  LimitOK(p)' /\ OneLaunched'
<1> DEFINE r == th[1]
<1>1. /\ LimitOK(p) /\ SchedOK(p) /\ r \in Runs /\ Alive(p) /\ proc[p] # "booting" /\ OneLaunched
      /\ TodoOK(p) /\ PlaceOK(p, th)
    BY RunOfThread, AtWork DEF SlotInv, ProcOK, Leaves
<1>2. /\ pc[p][th] # "idle"
      /\ \A x \in todo[p] : proc[p] = "recovering" => x # r
    BY <1>1 DEF Leaves, TodoOK, Attended, Working
<1>3. p # NoProc
    BY SupervisionConstants
<1>4. \A x \in Runs : lease'[x] = p => lease[x] = p
    BY <1>1, <1>3 DEF Spares
<1>5. \A x \in Launched' : x # r => x \in Launched
    BY DEF Launched, Spares, SupInv, SupTypeOK
<1>6. sched'[p].step \in {"claim", "claimed"} => sched'[p] = sched[p]
    BY DEF Spares
<1>7. ASSUME sched'[p].step \in {"claim", "claimed"} PROVE Unleased(p)'
    BY <1>1, <1>4, <1>6, <1>7 DEF LimitOK, Unleased
<1>8. \A y, x \in Runs : lease'[y] = p /\ lease'[x] = p => y = x
    BY <1>1, <1>4 DEF LimitOK
<1>9. ~(proc'[p] = "recovering" /\ todo'[p] \cap Launched' # {})
  <2> SUFFICES ASSUME proc[p] = "recovering", NEW x \in todo[p], x \in Launched' PROVE FALSE
      BY DEF Leaves
  <2>1. x \in Launched
      BY <1>2, <1>5
  <2> QED BY <1>1, <1>2, <2>1 DEF LimitOK, AllIdle
<1>10. \A x \in Runs : pc'[p][Main(x)] \notin Exits
  <2> SUFFICES ASSUME NEW x \in Runs, pc'[p][Main(x)] \in Exits PROVE FALSE
      OBVIOUS
  <2>1. Main(x) \in Threads /\ Main(x)[1] = x
      BY MainThread
  <2>2. Main(x) # th
      BY <2>1 DEF Leaves
  <2>3. pc[p][Main(x)] \in Exits
      BY <2>1, <2>2 DEF Leaves
  <2>4. \A o \in Threads : pc[p][o] = "idle" \/ o = Main(x)
      BY <1>1, <2>3 DEF LimitOK
  <2> QED BY <1>2, <2>2, <2>4
<1>11. ASSUME NEW x \in Launched'
       PROVE  \/ x \in todo'[p] /\ proc'[p] = "recovering"
              \/ lease'[x] = p \/ sched'[p].run = x
              \/ proc'[p] = "stopping" /\ sched'[p].step \notin {"claim", "claimed"} /\ Unleased(p)'
  <2>1. CASE x = r
      BY <2>1, <1>11 DEF Delivers, Leaves
  <2>2. CASE x # r
    <3>1. x \in Launched /\ x \in Runs
        BY <1>5, <2>2 DEF Launched, SupInv, SupTypeOK
    <3>2. CASE x \in todo[p] /\ proc[p] = "recovering"
        BY <3>2 DEF Leaves
    <3>3. CASE lease[x] = p
        BY <2>2, <3>1, <3>3 DEF Spares
    <3>4. CASE pc[p][Main(x)] \in Exits
      <4>1. \A o \in Threads : pc[p][o] = "idle" \/ o = Main(x)
          BY <1>1, <3>1, <3>4 DEF LimitOK
      <4>2. th # Main(x)
          BY <2>2, <3>1, MainThread
      <4> QED BY <1>2, <4>1, <4>2
    <3>5. CASE sched[p].run = x
      <4>1. x # NoRun
          BY <3>1, SupervisionConstants
      <4>2. sched[p].step = "claimed"
          BY <1>1, <3>5, <4>1 DEF SchedOK
      <4>3. ~Free(p)
          BY <4>2, NoCaller DEF Free, SupInv
      <4> QED BY <3>5, <4>3 DEF Spares
    <3>6. CASE proc[p] = "stopping" /\ sched[p].step \notin {"claim", "claimed"} /\ Unleased(p)
        BY <1>4, <1>6, <3>6 DEF Leaves, Unleased
    <3> QED BY <1>1, <3>1, <3>2, <3>3, <3>4, <3>5, <3>6 DEF LimitOK
  <2> QED BY <2>1, <2>2
<1>12. LimitOK(p)'
    BY <1>7, <1>8, <1>9, <1>10, <1>11 DEF LimitOK
<1>13. OneLaunched'
  <2> SUFFICES ASSUME NEW y \in Launched', NEW x \in Launched', y # x PROVE FALSE
      BY DEF OneLaunched
  <2>1. PICK z \in {x, y} : z \in Launched' /\ z # r
      OBVIOUS
  <2>2. z \in Launched
      BY <1>5, <2>1
  <2>3. r \in Launched'
      BY <1>1, <1>5 DEF OneLaunched
  <2>4. r \notin Launched
      BY <1>1, <2>1, <2>2 DEF OneLaunched
  <2>5. lease[r] = p
      BY <2>3, <2>4 DEF Delivers
  <2> QED BY <1>1, <2>1, <2>2, <2>5, OnlyLaunched DEF SupInv
<1> QED BY <1>12, <1>13

\* The processes that rest are left as they are.
LEMMA OthersRest ==
    ASSUME SupInv, SupInv', SlotInv, NEW p \in Procs, Inside(p), NEW q \in Procs, q # p
    PROVE  ProcOK(q)'
<1>1. ProcsOK' /\ ~Alive(q)
    BY InsideProcs DEF SlotInv, ProcsOK, Inside
<1>2. ~Alive(q)' /\ proc'[q] = proc[q]
    BY <1>1 DEF Inside, Alive
<1>3. Resting(q)'
    BY <1>1, <1>2 DEF ProcsOK
<1>4. TodoOK(q)'
    BY <1>2 DEF TodoOK, Alive
<1>5. ASSUME MaxConcurrent = 1 PROVE \A r, x \in Runs : lease'[r] = q /\ lease'[x] = q => r = x
  <2>1. \A r \in Runs : lease'[r] = q => lease[r] = q
      BY SupervisionConstants DEF Inside
  <2> QED BY <1>5, <2>1 DEF SlotInv, ProcOK, LimitOK
<1> QED BY <1>2, <1>3, <1>4, <1>5, RestingOK DEF SupInv

LEMMA GoroutineStep ==
    ASSUME SupInv, SupInv', Rows \subseteq Rows', SlotInv, NEW p \in Procs, NEW th \in Threads,
           Leaves(p, th), Spares(p, th), Delivers(p, th)
    PROVE  SlotInv'
<1>1. Inside(p)
    BY StepInside DEF SlotInv, SupInv
<1>2. ProcsOK'
    BY <1>1, InsideProcs DEF SlotInv
<1>3. \A o \in Threads : StatusOK(p, o)' /\ PlaceOK(p, o)'
    BY StepOthers DEF Delivers
<1>4. ProcOK(p)'
    BY <1>3, StepSched, StepTodo, StepEach, StepLimit DEF ProcOK
<1>5. \A q \in Procs : ProcOK(q)'
    BY <1>1, <1>4, OthersRest
<1>6. ASSUME NEW r \in Runs PROVE RunOK(r)'
  <2>1. CASE r = th[1]
      BY <2>1 DEF Delivers
  <2>2. CASE r # th[1]
      BY <2>2 DEF Spares, SlotInv, RunOK
  <2> QED BY <2>1, <2>2
<1> QED BY <1>2, <1>5, <1>6, StepLimit DEF SlotInv

\* Where a goroutine stands, and its run.
LEMMA Stands ==
    ASSUME SupInv, SlotInv, NEW p \in Procs, NEW th \in Threads
    PROVE  /\ th[1] \in Runs /\ TaskOf[th[1]] \in Tasks /\ p # NoProc
           /\ StatusOK(p, th) /\ PlaceOK(p, th) /\ RunOK(th[1]) /\ SchedOK(p)
           /\ MaxConcurrent = 1 => LimitOK(p)
           /\ lease \in [Runs -> Procs \cup {NoProc}] /\ execRow \subseteq Runs
           /\ container \in [Runs -> {"absent", "running"} \cup Exits]
           /\ status \in [Runs -> Statuses]
  BY RunOfThread, StoreConstants, SupervisionConstants
     DEF SlotInv, ProcOK, SupInv, SupTypeOK, StoreTypeOK

LEMMA ThreadLeaves ==
    ASSUME SupInv, SlotInv, NEW p \in Procs, NEW th \in Threads, Thread(p, th)
    PROVE  Leaves(p, th)
<1> USE DEF SupInv
<1>0. /\ PlaceOK(p, th) /\ registered \in [Procs -> SUBSET Threads]
      /\ container \in [Runs -> {"absent", "running"} \cup Exits] /\ th[1] \in Runs
      /\ sched \in [Procs -> Scheds] /\ armed \in [Procs -> BOOLEAN]
    BY Stands DEF SupTypeOK, Scheds
<1>1. ASSUME NEW l, Goto(p, th, l), l \notin Exits, pc[p][th] \notin {"idle", "insched"},
             UNCHANGED <<procVars, request>>, UNCHANGED registered \/ Register(p, th) \/ Unwind(p, th),
             UNCHANGED sched \/ Reschedule(p, th),
             UNCHANGED armed \/ Reschedule(p, th) \/ EnsureResumeTimer(p)
      PROVE  Leaves(p, th)
  <2>1. /\ pc'[p][th] = l
        /\ \A o \in Threads : o # th => pc'[p][o] = pc[p][o]
        /\ \A q \in Procs : q # p => pc'[q] = pc[q]
      BY <1>1, GotoAt
  <2>2. /\ \A q \in Procs : q # p => registered'[q] = registered[q]
        /\ \A o \in Threads : o # th => (o \in registered'[p] <=> o \in registered[p])
      BY <1>0, <1>1 DEF Register, Unwind
  <2>3. \A q \in Procs : q # p => sched'[q] = sched[q] /\ armed'[q] = armed[q]
      BY <1>0, <1>1 DEF Reschedule, CallScheduleRuns, ScheduleRunsReturnsAtOnce, EnsureResumeTimer
  <2> QED BY <1>1, <2>1, <2>2, <2>3 DEF Leaves, procVars
<1>2. "finish" \notin Exits /\ "prepare" \notin Exits /\ "register" \notin Exits
      /\ "launch" \notin Exits /\ "record" \notin Exits /\ "unwind" \notin Exits
      /\ "watch" \notin Exits /\ "halted" \notin Exits /\ "remove" \notin Exits
      /\ "forget" \notin Exits /\ "resched" \notin Exits /\ "insched" \notin Exits
      /\ "idle" \notin Exits
    BY DEF Exits
<1>3. CASE ExecuteRun(p, th)
    BY <1>1, <1>2, <1>3 DEF ExecuteRun, apiVars, timerVars
<1>4. CASE Prepare(p, th)
    BY <1>1, <1>2, <1>4 DEF Prepare, apiVars, timerVars
<1>5. CASE Launch(p, th)
    BY <1>1, <1>2, <1>5 DEF Launch, apiVars, timerVars
<1>6. CASE Record(p, th)
    BY <1>1, <1>2, <1>6 DEF Record, apiVars, timerVars
<1>7. CASE Register(p, th)
    BY <1>1, <1>2, <1>7 DEF Register, apiVars, timerVars
<1>8. CASE StopWatching(p, th) \/ WatchCancel(p, th) \/ WatchCredential(p, th) \/ WatchMissing(p, th)
    BY <1>1, <1>2, <1>8 DEF StopWatching, WatchCancel, WatchCredential, WatchMissing, Watching,
       apiVars, timerVars
<1>9. CASE WatchExit(p, th)
  <2>1. pc[p][th] \in Watching /\ Goto(p, th, container[th[1]])
      BY <1>9 DEF WatchExit
  <2>2. /\ \A o \in Threads : o # th => pc'[p][o] = pc[p][o]
        /\ \A q \in Procs : q # p => pc'[q] = pc[q]
      BY <2>1, GotoAt
  <2>3. th # Main(th[1])
      BY <1>0, <2>1 DEF PlaceOK, Watching, Exits, Ending, Clean
  <2> QED BY <1>9, <2>1, <2>2, <2>3 DEF WatchExit, Leaves, Watching, procVars, apiVars, timerVars
<1>10. CASE Settle(p, th)
    BY <1>1, <1>2, <1>10 DEF Settle, apiVars, timerVars, Exits
<1>11. CASE RemoveContainer(p, th) \/ ForgetExecution(p, th)
    BY <1>1, <1>2, <1>11 DEF RemoveContainer, ForgetExecution, apiVars, timerVars
<1>12. CASE FinishRun(p, th)
    BY <1>1, <1>2, <1>12 DEF FinishRun, apiVars, timerVars
<1>13. CASE Reschedule(p, th)
    BY <1>1, <1>2, <1>13 DEF Reschedule, apiVars
<1>14. CASE Unwind(p, th)
    BY <1>1, <1>2, <1>14 DEF Unwind, apiVars, timerVars
<1> QED BY <1>3, <1>4, <1>5, <1>6, <1>7, <1>8, <1>9, <1>10, <1>11, <1>12, <1>13, <1>14
        DEF Thread, Watch

LEMMA ThreadSpares ==
    ASSUME SupInv, SlotInv, NEW p \in Procs, NEW th \in Threads, Thread(p, th)
    PROVE  Spares(p, th)
<1> USE DEF SupInv
<1> DEFINE r == th[1]
<1>0. /\ r \in Runs /\ PlaceOK(p, th) /\ execRow \subseteq Runs
      /\ lease \in [Runs -> Procs \cup {NoProc}] /\ sched \in [Procs -> Scheds]
      /\ container \in [Runs -> {"absent", "running"} \cup Exits] /\ status \in [Runs -> Statuses]
    BY Stands DEF SupTypeOK, Scheds
<1> HIDE DEF r
<1>1. ASSUME \/ UNCHANGED status
             \/ \E to : TransitionOrGet(r, to)
             \/ status' = [status EXCEPT ![r] = "queued"]
             \/ CancelQueuedRuns(TaskOf[r])
      PROVE  \A x \in Runs : x # r =>
                status'[x] = status[x] \/ (status[x] = "queued" /\ status'[x] = "canceled")
    BY <1>0, <1>1 DEF TransitionOrGet, CancelQueuedRuns
<1>2. ASSUME \/ UNCHANGED lease
             \/ lease' = [lease EXCEPT ![r] = p] /\ lease[r] = p
             \/ lease' = [lease EXCEPT ![r] = NoProc]
             \/ lease' = LeaseWithout(p, r)
      PROVE  (\A x \in Runs : x # r => lease'[x] = lease[x]) /\ lease'[r] \in {lease[r], NoProc}
    BY <1>0, <1>2 DEF LeaseWithout
<1>3. ASSUME UNCHANGED execRow \/ DeleteRunExecution(r) \/ UpsertRunExecution(r)
      PROVE  \A x \in Runs : x # r => (x \in execRow' <=> x \in execRow)
    BY <1>0, <1>3 DEF DeleteRunExecution, UpsertRunExecution
<1>4. ASSUME \/ UNCHANGED container
             \/ \E v : container' = [container EXCEPT ![r] = v]
             \/ StopContainer(r)
      PROVE  \A x \in Runs : x # r => container'[x] = container[x]
    BY <1>0, <1>4 DEF StopContainer
<1>5. ASSUME UNCHANGED sched \/ Reschedule(p, th)
      PROVE  \/ sched'[p] = sched[p]
             \/ /\ Free(p) /\ pc'[p][th] = "insched"
                /\ sched'[p].step = "check" /\ sched'[p].run = NoRun /\ sched'[p].by = th
  <2> SUFFICES ASSUME Reschedule(p, th), ~UNCHANGED sched
               PROVE  /\ Free(p) /\ pc'[p][th] = "insched"
                      /\ sched'[p].step = "check" /\ sched'[p].run = NoRun /\ sched'[p].by = th
      BY <1>5
  <2>1. CallScheduleRuns(p, th, TaskOf[th[1]]) /\ Goto(p, th, "insched")
      BY DEF Reschedule, ScheduleRunsReturnsAtOnce
  <2>2. pc'[p][th] = "insched"
      BY <2>1, GotoAt
  <2> QED BY <1>0, <2>1, <2>2 DEF CallScheduleRuns
<1>6. ASSUME \/ UNCHANGED status \/ \E to : TransitionOrGet(r, to)
             \/ status' = [status EXCEPT ![r] = "queued"] \/ CancelQueuedRuns(TaskOf[r]),
             \/ UNCHANGED lease
             \/ lease' = [lease EXCEPT ![r] = p] /\ lease[r] = p
             \/ lease' = [lease EXCEPT ![r] = NoProc]
             \/ lease' = LeaseWithout(p, r),
             UNCHANGED execRow \/ DeleteRunExecution(r) \/ UpsertRunExecution(r),
             \/ UNCHANGED container \/ StopContainer(r)
             \/ \E v : container' = [container EXCEPT ![r] = v],
             UNCHANGED sched \/ Reschedule(p, th), paused => paused'
      PROVE  Spares(p, th)
    BY <1>1, <1>2, <1>3, <1>4, <1>5, <1>6 DEF Spares, r
<1> USE DEF storeVars, dockerVars, timerVars, queueVars, r
<1>7. CASE ExecuteRun(p, th)
  <2>1. lease[r] = p
      BY <1>0, <1>7 DEF ExecuteRun, PlaceOK, Holding, Fetching
  <2> QED BY <1>6, <1>7, <2>1 DEF ExecuteRun
<1>8. CASE Prepare(p, th) \/ Launch(p, th)
    BY <1>6, <1>8 DEF Prepare, Launch
<1>9. CASE Record(p, th)
    BY <1>6, <1>9 DEF Record, UpsertRunExecution
<1>10. CASE Register(p, th) \/ StopWatching(p, th) \/ WatchCancel(p, th) \/ WatchExit(p, th)
    BY <1>6, <1>10 DEF Register, StopWatching, WatchCancel, WatchExit
<1>11. CASE WatchCredential(p, th)
    BY <1>6, <1>11 DEF WatchCredential
<1>12. CASE WatchMissing(p, th)
    BY <1>6, <1>12 DEF WatchMissing, FailMissing
<1>13. CASE Settle(p, th)
    BY <1>6, <1>13, SettleRunWrites DEF Settle, Requeue
<1>14. CASE RemoveContainer(p, th)
    BY <1>6, <1>14 DEF RemoveContainer
<1>15. CASE ForgetExecution(p, th)
    BY <1>6, <1>15 DEF ForgetExecution
<1>16. CASE FinishRun(p, th)
    BY <1>6, <1>16 DEF FinishRun, CancelPendingIfCompleted
<1>17. CASE Reschedule(p, th)
    BY <1>6, <1>17 DEF Reschedule
<1>18. CASE Unwind(p, th)
    BY <1>6, <1>18 DEF Unwind
<1> QED BY <1>7, <1>8, <1>9, <1>10, <1>11, <1>12, <1>13, <1>14, <1>15, <1>16, <1>17, <1>18
        DEF Thread, Watch

\* A run that was told its end, or was not running, is not running after it.
LEMMA NotRunning ==
    ASSUME status \in [Runs -> Statuses], NEW r \in Runs, r \in Rows,
           \/ status[r] # "running" /\ \E to \in Final : TransitionOrGet(r, to)
           \/ \E to \in Final \ {"review", "succeeded"} : TransitionOrGet(r, to)
           \/ status[r] = "running" /\ \E to \in Final : TransitionOrGet(r, to)
    PROVE  status'[r] # "running" /\ (status'[r] = "queued" => status[r] = "queued")
  BY DEF TransitionOrGet, CanTransition, Transitions, Final, Statuses, Rows

LEMMA LabelsDiffer ==
    /\ Exits \cap (Holding \cup Ending \cup {"idle"}) = {}
    /\ Holding \cap (Ending \cup {"idle"}) = {}
    /\ Clean \subseteq Ending /\ Fetching \subseteq Holding /\ Watching \subseteq Holding
    /\ Fetching = {"exec", "prepare", "launch"} /\ Watching = {"watch", "halted"}
    /\ Holding = {"exec", "prepare", "launch", "record", "register", "watch", "halted"}
    /\ Clean = {"remove", "forget", "finish", "resched", "insched"}
    /\ Ending = {"remove", "forget", "finish", "resched", "insched", "unwind"}
    /\ Exits = {"ok", "failed", "limited"}
  BY DEF Exits, Holding, Ending, Fetching, Watching, Clean

LEMMA ExecuteDelivers ==
    ASSUME SupInv, SlotInv, Rows \subseteq Rows', NEW p \in Procs, NEW th \in Threads,
           ExecuteRun(p, th)
    PROVE  Delivers(p, th)
<1> DEFINE r == th[1]
<1>1. /\ r \in Runs /\ StatusOK(p, th) /\ PlaceOK(p, th) /\ RunOK(r)
      /\ lease \in [Runs -> Procs \cup {NoProc}] /\ status \in [Runs -> Statuses] /\ SupTypeOK
    BY Stands DEF SupInv
<1>2. /\ pc[p][th] = "exec"
      /\ UNCHANGED <<container, execRow, proc, registered, paused, sched>>
    BY DEF ExecuteRun, dockerVars, procVars, timerVars
<1>3. /\ r \in Rows /\ r \in Rows' /\ status[r] # "queued" /\ container[r] # "running"
      /\ lease[r] = p /\ th # Main(r) /\ th \notin registered[p]
    BY <1>1, <1>2, LabelsDiffer DEF StatusOK, PlaceOK
<1>4. lease'[r] = p
    BY <1>1, <1>3 DEF ExecuteRun
<1>5. \/ pc'[p][th] = "finish" /\ status'[r] # "running" /\ status'[r] # "queued"
      \/ pc'[p][th] = "prepare" /\ UNCHANGED status
  <2>1. ASSUME TransitionOrGet(r, "canceled") \/ (UNCHANGED status /\ status[r] # "running")
        PROVE  status'[r] # "running" /\ status'[r] # "queued"
      BY <1>1, <1>3, <2>1, NotRunning DEF Final
  <2> QED BY <1>1, <2>1, GotoAt DEF ExecuteRun
<1>6. StatusOK(p, th)'
    BY <1>3, <1>5, LabelsDiffer DEF StatusOK
<1>7. PlaceOK(p, th)'
    BY <1>2, <1>3, <1>4, <1>5, LabelsDiffer DEF PlaceOK
<1>8. RunOK(r)'
    BY <1>1, <1>2, <1>3 DEF RunOK
<1>9. r \in Launched' => r \in Launched \/ lease[r] = p
    BY <1>3
<1> QED BY <1>4, <1>6, <1>7, <1>8, <1>9 DEF Delivers

LEMMA PrepareDelivers ==
    ASSUME SupInv, SlotInv, Rows \subseteq Rows', NEW p \in Procs, NEW th \in Threads,
           Prepare(p, th)
    PROVE  Delivers(p, th)
<1> DEFINE r == th[1]
<1>1. /\ r \in Runs /\ StatusOK(p, th) /\ PlaceOK(p, th) /\ RunOK(r)
      /\ execRow \subseteq Runs /\ status \in [Runs -> Statuses] /\ SupTypeOK
    BY Stands DEF SupInv
<1>2. /\ pc[p][th] = "prepare"
      /\ UNCHANGED <<container, lease, proc, registered, paused, sched>>
    BY DEF Prepare, procVars, timerVars
<1>3. /\ r \in Rows /\ r \in Rows' /\ status[r] # "queued" /\ container[r] # "running"
      /\ lease[r] = p /\ th # Main(r) /\ th \notin registered[p]
    BY <1>1, <1>2, LabelsDiffer DEF StatusOK, PlaceOK
<1>4. /\ \/ pc'[p][th] = "finish" /\ status'[r] # "running" /\ status'[r] # "queued"
         \/ pc'[p][th] = "register" /\ UNCHANGED status
         \/ pc'[p][th] = "launch" /\ UNCHANGED status /\ r \in execRow'
      /\ execRow \subseteq execRow'
  <2>1. ASSUME NEW to \in {"canceled", "failed"}, TransitionOrGet(r, to)
        PROVE  status'[r] # "running" /\ status'[r] # "queued"
      BY <1>1, <1>3, <2>1, NotRunning DEF Final
  <2> QED BY <1>1, <2>1, GotoAt DEF Prepare, UpsertRunExecution
<1>5. StatusOK(p, th)'
    BY <1>3, <1>4, LabelsDiffer DEF StatusOK
<1>6. PlaceOK(p, th)'
    BY <1>2, <1>3, <1>4, LabelsDiffer DEF PlaceOK
<1>7. RunOK(r)'
    BY <1>1, <1>2, <1>3, <1>4 DEF RunOK
<1> QED BY <1>2, <1>3, <1>5, <1>6, <1>7 DEF Delivers

LEMMA LaunchDelivers ==
    ASSUME SupInv, SlotInv, Rows \subseteq Rows', NEW p \in Procs, NEW th \in Threads,
           Launch(p, th)
    PROVE  Delivers(p, th)
<1> DEFINE r == th[1]
<1>1. /\ r \in Runs /\ StatusOK(p, th) /\ PlaceOK(p, th) /\ RunOK(r)
      /\ execRow \subseteq Runs /\ status \in [Runs -> Statuses] /\ SupTypeOK
      /\ container \in [Runs -> {"absent", "running"} \cup Exits]
    BY Stands DEF SupInv
<1>2. /\ pc[p][th] = "launch"
      /\ UNCHANGED <<lease, proc, registered, paused, sched>>
    BY DEF Launch, procVars, timerVars
<1>3. /\ r \in Rows /\ r \in Rows' /\ status[r] # "queued" /\ status[r] # "absent"
      /\ container[r] # "running" /\ r \in execRow
      /\ lease[r] = p /\ th # Main(r) /\ th \notin registered[p]
    BY <1>1, <1>2, LabelsDiffer DEF StatusOK, PlaceOK, Rows
<1>4. \/ /\ pc'[p][th] = "finish" /\ status'[r] # "running" /\ status'[r] # "queued"
         /\ UNCHANGED container
      \/ /\ pc'[p][th] = "record" /\ UNCHANGED <<status, execRow>>
         /\ container'[r] = "running"
  <2>1. ASSUME TransitionOrGet(r, "failed")
        PROVE  status'[r] # "running" /\ status'[r] # "queued"
      BY <1>1, <1>3, <2>1, NotRunning DEF Final
  <2> QED BY <1>1, <2>1, GotoAt DEF Launch
<1>5. StatusOK(p, th)'
    BY <1>3, <1>4, LabelsDiffer DEF StatusOK
<1>6. PlaceOK(p, th)'
    BY <1>2, <1>3, <1>4, LabelsDiffer DEF PlaceOK
<1>7. RunOK(r)'
    BY <1>1, <1>2, <1>3, <1>4 DEF RunOK
<1> QED BY <1>2, <1>3, <1>5, <1>6, <1>7 DEF Delivers

\* The steps of a goroutine that holds the lease and goes on: its run is neither
\* queued nor forgotten, and its status is left alone.
LEMMA HolderDelivers ==
    ASSUME SupInv, SlotInv, Rows \subseteq Rows', NEW p \in Procs, NEW th \in Threads,
           pc[p][th] \in {"record", "register"} \cup Watching,
           UNCHANGED <<status, lease, proc>>,
           pc'[p][th] \in {"register"} \cup Watching \cup Exits
              \/ (pc'[p][th] = "unwind" /\ proc[p] = "stopping"),
           pc'[p][th] = "register" => pc[p][th] = "record" /\ UNCHANGED registered,
           pc'[p][th] \in Exits => pc'[p][th] = container[th[1]],
           container'[th[1]] \in {container[th[1]]} \cup Exits,
           container'[th[1]] = "limited" => container[th[1]] = "limited",
           execRow \subseteq execRow',
           pc'[p][th] \in Exits => UNCHANGED container
    PROVE  Delivers(p, th)
<1> DEFINE r == th[1]
<1>1. /\ r \in Runs /\ StatusOK(p, th) /\ PlaceOK(p, th) /\ RunOK(r)
    BY Stands
<1>2. /\ r \in Rows' /\ status[r] # "queued" /\ lease[r] = p /\ th # Main(r)
    BY <1>1, LabelsDiffer DEF StatusOK, PlaceOK
<1>3. StatusOK(p, th)'
    BY <1>2, LabelsDiffer DEF StatusOK
<1>4. pc'[p][th] = "register" => th \notin registered'[p]
    BY <1>1 DEF PlaceOK
<1>5. PlaceOK(p, th)'
  <2>1. pc'[p][th] \in Exits => container'[r] # "running" /\ pc'[p][th] = container[r]
      BY LabelsDiffer
  <2> QED BY <1>1, <1>2, <1>4, <2>1, LabelsDiffer DEF PlaceOK, RunOK
<1>6. RunOK(r)'
  <2>1. container'[r] = "running" => container[r] = "running"
      BY LabelsDiffer
  <2> QED BY <1>1, <2>1 DEF RunOK
<1> QED BY <1>2, <1>3, <1>5, <1>6 DEF Delivers

LEMMA WatchDelivers ==
    ASSUME SupInv, SlotInv, Rows \subseteq Rows', NEW p \in Procs, NEW th \in Threads,
           \/ Record(p, th) \/ Register(p, th) \/ StopWatching(p, th) \/ WatchCancel(p, th)
           \/ WatchCredential(p, th) \/ WatchExit(p, th)
    PROVE  Delivers(p, th)
<1> DEFINE r == th[1]
<1>1. /\ r \in Runs /\ PlaceOK(p, th) /\ SupTypeOK
      /\ container \in [Runs -> {"absent", "running"} \cup Exits]
    BY Stands DEF SupInv
<1>2. CASE Record(p, th)
  <2>1. pc[p][th] = "record" /\ pc'[p][th] = "register"
      BY <1>1, <1>2, GotoAt DEF Record
  <2> QED BY <1>2, <2>1, HolderDelivers, LabelsDiffer DEF Record, storeVars, procVars
<1>3. CASE Register(p, th)
  <2>1. pc[p][th] = "register"
      BY <1>3 DEF Register
  <2>2. ASSUME NEW o \in registered[p], o[1] = th[1] PROVE FALSE
    <3>1. o \in Threads
        BY <1>1 DEF SupTypeOK
    <3>2. pc[p][o] # "idle"
        BY <3>1 DEF SlotInv, ProcOK, PlaceOK
    <3>3. o = th
        BY <2>1, <2>2, <3>1, <3>2 DEF SlotInv, ProcOK, OneEach
    <3> QED BY <1>1, <2>1, <3>3 DEF PlaceOK
  <2>3. \/ pc'[p][th] = "unwind" /\ proc[p] = "stopping"
        \/ pc'[p][th] = "watch"
      BY <1>1, <1>3, <2>2, GotoAt DEF Register
  <2> QED BY <1>3, <2>1, <2>3, HolderDelivers, LabelsDiffer
          DEF Register, storeVars, procVars, dockerVars
<1>4. CASE StopWatching(p, th)
  <2>1. pc[p][th] \in Watching /\ pc'[p][th] = "unwind"
      BY <1>1, <1>4, GotoAt DEF StopWatching
  <2>2. proc[p] = "stopping"
      BY <1>1, <1>4, <2>1, LabelsDiffer DEF StopWatching, PlaceOK
  <2> QED BY <1>4, <2>1, <2>2, HolderDelivers, LabelsDiffer
          DEF StopWatching, storeVars, procVars, dockerVars
<1>5. CASE WatchCancel(p, th) \/ WatchCredential(p, th)
  <2>1. pc[p][th] \in Watching /\ pc'[p][th] = "halted"
      BY <1>1, <1>5, GotoAt DEF WatchCancel, WatchCredential, Watching
  <2>2. UNCHANGED container \/ container'[r] = "failed"
      BY <1>1, <1>5 DEF WatchCancel, WatchCredential, StopContainer
  <2>3. UNCHANGED <<status, lease, execRow, proc>>
      BY <1>5 DEF WatchCancel, WatchCredential, storeVars, procVars
  <2> QED BY <2>1, <2>2, <2>3, HolderDelivers, LabelsDiffer
<1>6. CASE WatchExit(p, th)
  <2>1. pc[p][th] \in Watching /\ pc'[p][th] = container[r] /\ container[r] \in Exits
      BY <1>1, <1>6, GotoAt DEF WatchExit
  <2> QED BY <1>6, <2>1, HolderDelivers, LabelsDiffer
          DEF WatchExit, storeVars, procVars, dockerVars
<1> QED BY <1>2, <1>3, <1>4, <1>5, <1>6

LEMMA MissingDelivers ==
    ASSUME SupInv, SlotInv, Rows \subseteq Rows', NEW p \in Procs, NEW th \in Threads,
           WatchMissing(p, th)
    PROVE  Delivers(p, th)
<1> DEFINE r == th[1]
<1>1. /\ r \in Runs /\ StatusOK(p, th) /\ PlaceOK(p, th) /\ RunOK(r) /\ SupTypeOK
      /\ status \in [Runs -> Statuses]
    BY Stands DEF SupInv
<1>2. pc[p][th] \in Watching /\ pc'[p][th] = "finish" /\ UNCHANGED <<container, proc>>
      /\ TransitionOrGet(r, "failed") /\ container[r] = "absent"
    BY <1>1, GotoAt DEF WatchMissing, FailMissing, procVars
<1>3. r \in Rows /\ r \in Rows' /\ status[r] # "queued" /\ th # Main(r)
    BY <1>1, <1>2, LabelsDiffer DEF StatusOK, PlaceOK
<1>4. status'[r] # "running" /\ status'[r] # "queued"
    BY <1>1, <1>2, <1>3, NotRunning DEF Final
<1>5. StatusOK(p, th)'
    BY <1>2, <1>3, <1>4, LabelsDiffer DEF StatusOK
<1>6. PlaceOK(p, th)'
    BY <1>2, <1>3, LabelsDiffer DEF PlaceOK
<1>7. RunOK(r)'
    BY <1>1, <1>2 DEF RunOK
<1>8. r \notin Launched'
    BY <1>4 DEF Launched
<1> QED BY <1>5, <1>6, <1>7, <1>8 DEF Delivers

\* A run is handed back by its goroutine only when providers set limits, and so
\* only when one run is executed at a time: no claim is under way.
LEMMA SettleDelivers ==
    ASSUME OneSlot, SupInv, SlotInv, Rows \subseteq Rows', NEW p \in Procs, NEW th \in Threads,
           Settle(p, th)
    PROVE  Delivers(p, th)
<1> DEFINE r == th[1]
<1>1. /\ r \in Runs /\ StatusOK(p, th) /\ PlaceOK(p, th) /\ RunOK(r) /\ SupTypeOK
      /\ status \in [Runs -> Statuses] /\ SchedOK(p)
      /\ MaxConcurrent = 1 => LimitOK(p)
    BY Stands DEF SupInv
<1>2. pc[p][th] \in Exits /\ pc'[p][th] = "remove"
      /\ UNCHANGED <<container, execRow, lease, proc, sched>>
    BY <1>1, GotoAt DEF Settle, dockerVars, procVars
<1>3. r \in Rows /\ r \in Rows' /\ status[r] # "queued" /\ container[r] # "running"
    BY <1>1, <1>2, LabelsDiffer DEF StatusOK, PlaceOK
<1>4. /\ status'[r] # "running"
      /\ status'[r] = "queued" => pc[p][th] = "limited" /\ paused'
  <2>1. CASE status[r] \in Final /\ UNCHANGED status
      BY <2>1 DEF Final
  <2>2. CASE /\ pc[p][th] = "limited" /\ paused' = TRUE
             /\ IF status[r] = "running" THEN Requeue(r) ELSE UNCHANGED status
      BY <1>1, <2>2 DEF Requeue
  <2>3. CASE /\ status[r] \notin Final
             /\ \E to \in SettledStatuses(r, pc[p][th]) : SettleRun(r, to)
    <3>1. SettledStatuses(r, pc[p][th]) \subseteq Final
        BY <1>2 DEF SettledStatuses, Final
    <3>2. status[r] = "running"
        BY <1>1, <1>3, <2>3 DEF Statuses, Rows
    <3>3. \E to \in Final : TransitionOrGet(r, to)
        BY <2>3, <3>1, SettleRunWrites DEF Final
    <3> QED BY <1>1, <1>3, <3>2, <3>3, NotRunning
  <2> QED BY <2>1, <2>2, <2>3 DEF Settle
<1>5. ASSUME pc[p][th] = "limited" PROVE MaxConcurrent = 1 /\ sched[p].step # "claim"
  <2>1. MaxConcurrent = 1
      BY <1>1, <1>5 DEF PlaceOK, OneSlot
  <2>2. CASE lease[r] = p
      BY <1>1, <2>1, <2>2 DEF LimitOK, Unleased
  <2>3. CASE th = Main(r)
      BY <1>1, <1>2, <2>1, <2>3, NoCaller DEF LimitOK, Quiet, Free
  <2> QED BY <1>1, <1>2, <2>1, <2>2, <2>3 DEF PlaceOK
<1>6. StatusOK(p, th)'
    BY <1>2, <1>3, <1>4, <1>5, LabelsDiffer DEF StatusOK
<1>7. PlaceOK(p, th)'
    BY <1>1, <1>2, <1>3, LabelsDiffer DEF PlaceOK
<1>8. RunOK(r)'
    BY <1>1, <1>2, <1>3 DEF RunOK
<1>9. r \notin Launched'
    BY <1>4 DEF Launched
<1> QED BY <1>6, <1>7, <1>8, <1>9 DEF Delivers

\* The steps of a goroutine that cleans up.
LEMMA CleanDelivers ==
    ASSUME SupInv, SlotInv, Rows \subseteq Rows', NEW p \in Procs, NEW th \in Threads,
           \/ RemoveContainer(p, th) \/ ForgetExecution(p, th) \/ FinishRun(p, th)
           \/ Reschedule(p, th)
    PROVE  Delivers(p, th)
<1> DEFINE r == th[1]
<1>1. /\ r \in Runs /\ StatusOK(p, th) /\ PlaceOK(p, th) /\ RunOK(r) /\ SupTypeOK
      /\ status \in [Runs -> Statuses] /\ sched \in [Procs -> Scheds]
      /\ container \in [Runs -> {"absent", "running"} \cup Exits]
    BY Stands DEF SupInv, SupTypeOK, Scheds
<1>2. /\ pc[p][th] \in {"remove", "forget", "finish", "resched"}
      /\ pc'[p][th] \in {"forget", "finish", "resched", "insched", "unwind"}
      /\ pc[p][th] = "remove" => pc'[p][th] = "forget"
      /\ pc[p][th] \notin {"remove"} => pc'[p][th] # "forget"
      /\ UNCHANGED <<registered, paused, proc>>
    BY <1>1, GotoAt DEF RemoveContainer, ForgetExecution, FinishRun, Reschedule, procVars,
       timerVars
<1>3. r \in Rows /\ r \in Rows' /\ status[r] # "running"
    BY <1>1, <1>2, LabelsDiffer DEF StatusOK
<1>4. status'[r] \in {status[r], "canceled"}
    BY <1>1 DEF RemoveContainer, ForgetExecution, FinishRun, Reschedule, storeVars,
       CancelPendingIfCompleted, CancelQueuedRuns
<1>5. \/ UNCHANGED <<container, execRow>>
      \/ /\ pc[p][th] = "remove" /\ UNCHANGED execRow
         /\ container'[r] \in {container[r], "absent"}
      \/ pc[p][th] = "forget" /\ UNCHANGED container
    BY <1>1 DEF RemoveContainer, ForgetExecution, FinishRun, Reschedule, dockerVars
<1>6. sched'[p].step = "claim" => sched[p].step = "claim"
  <2>1. CASE Reschedule(p, th)
      BY <1>1, <2>1 DEF Reschedule, CallScheduleRuns, ScheduleRunsReturnsAtOnce
  <2>2. CASE UNCHANGED sched
      BY <2>2
  <2> QED BY <2>1, <2>2 DEF RemoveContainer, ForgetExecution, FinishRun
<1>7. StatusOK(p, th)'
    BY <1>1, <1>2, <1>3, <1>4, <1>6, LabelsDiffer DEF StatusOK
<1>8. PlaceOK(p, th)'
  <2>1. pc'[p][th] = "forget" => container'[r] # "running"
      BY <1>1, <1>2, <1>5, LabelsDiffer DEF PlaceOK
  <2> QED BY <1>1, <1>2, <2>1, LabelsDiffer DEF PlaceOK
<1>9. RunOK(r)'
  <2>1. container'[r] = "running" => container[r] = "running" /\ UNCHANGED execRow
      BY <1>1, <1>2, <1>5, LabelsDiffer DEF PlaceOK
  <2>2. container'[r] = "limited" => container[r] = "limited"
      BY <1>5
  <2>3. status'[r] \in {"absent", "queued"} => status[r] \in {"absent", "queued"}
      BY <1>4
  <2> QED BY <1>1, <2>1, <2>2, <2>3 DEF RunOK
<1>10. r \notin Launched'
    BY <1>3, <1>4 DEF Launched
<1> QED BY <1>7, <1>8, <1>9, <1>10 DEF Delivers

LEMMA UnwindDelivers ==
    ASSUME SupInv, SlotInv, Rows \subseteq Rows', NEW p \in Procs, NEW th \in Threads,
           Unwind(p, th)
    PROVE  Delivers(p, th)
<1> DEFINE r == th[1]
<1>1. /\ r \in Runs /\ StatusOK(p, th) /\ PlaceOK(p, th) /\ RunOK(r) /\ SupTypeOK /\ SchedOK(p)
      /\ lease \in [Runs -> Procs \cup {NoProc}] /\ registered \in [Procs -> SUBSET Threads]
      /\ MaxConcurrent = 1 => LimitOK(p)
      /\ p # NoProc
    BY Stands DEF SupInv, SupTypeOK
<1>2. /\ pc[p][th] = "unwind" /\ pc'[p][th] = "idle" /\ th \notin registered'[p]
      /\ UNCHANGED <<status, container, execRow, paused, proc, sched>>
      /\ lease' = lease \/ lease' = LeaseWithout(p, r)
    BY <1>1, GotoAt DEF Unwind, storeVars, dockerVars, timerVars, procVars
<1>3. StatusOK(p, th)'
    BY <1>2 DEF StatusOK
<1>4. PlaceOK(p, th)'
    BY <1>1, <1>2, LabelsDiffer DEF PlaceOK
<1>5. RunOK(r)'
    BY <1>1, <1>2 DEF RunOK
<1>6. ASSUME MaxConcurrent = 1, r \in Launched'
      PROVE  \/ lease'[r] = p
             \/ proc[p] = "stopping" /\ sched'[p].step \notin {"claim", "claimed"} /\ Unleased(p)'
  <2>1. r \in Launched /\ proc[p] = "stopping"
      BY <1>1, <1>2, <1>6 DEF Launched, StatusOK
  <2>2. CASE lease[r] = p
    <3>1. sched[p].step \notin {"claim", "claimed"} /\ \A x \in Runs : lease[x] = p => x = r
        BY <1>1, <1>6, <2>2 DEF LimitOK, Unleased
    <3>2. lease'[r] = p \/ Unleased(p)'
        BY <1>1, <1>2, <3>1 DEF LeaseWithout, Unleased
    <3> QED BY <1>2, <2>1, <3>1, <3>2
  <2>3. CASE lease[r] # p
    <3>1. lease' = lease
        BY <1>2, <2>3 DEF LeaseWithout
    <3>2. pc[p][Main(r)] \notin Exits
      <4>1. Main(r) \in Threads /\ Main(r)[1] = r
          BY <1>1, MainThread
      <4> QED BY <1>2, <4>1, LabelsDiffer DEF SlotInv, ProcOK, OneEach
    <3>3. sched[p].run # r
      <4>1. r # NoRun
          BY <1>1, SupervisionConstants
      <4> QED BY <1>1, <1>2, <4>1 DEF SchedOK, Working
    <3>4. Alive(p) /\ proc[p] # "booting" /\ proc[p] # "recovering"
        BY <2>1 DEF Alive
    <3> QED BY <1>1, <1>2, <1>6, <2>1, <2>3, <3>1, <3>2, <3>3, <3>4 DEF LimitOK, Unleased
  <2> QED BY <2>2, <2>3
<1>7. r \in Launched' => r \in Launched
    BY <1>2 DEF Launched
<1> QED BY <1>2, <1>3, <1>4, <1>5, <1>6, <1>7 DEF Delivers

LEMMA ThreadKeepsSlot ==
    ASSUME OneSlot, SupInv, SupInv', Rows \subseteq Rows', SlotInv,
           NEW p \in Procs, NEW th \in Threads, Thread(p, th)
    PROVE  SlotInv'
<1>1. Leaves(p, th) /\ Spares(p, th)
    BY ThreadLeaves, ThreadSpares
<1>2. Delivers(p, th)
    BY ExecuteDelivers, PrepareDelivers, LaunchDelivers, WatchDelivers, MissingDelivers,
       SettleDelivers, CleanDelivers, UnwindDelivers DEF Thread, Watch
<1> QED BY <1>1, <1>2, GoroutineStep

-----------------------------------------------------------------------------
(* The steps of the scheduler.                                             *)

\* A step of the scheduler: the containers, the rows and the other goroutines
\* are left alone.
SchedFrame(p) ==
    /\ UNCHANGED <<execRow, container, paused, proc, todo, wake, registered>>
    /\ \A q \in Procs : q # p =>
          pc'[q] = pc[q] /\ sched'[q] = sched[q] /\ armed'[q] = armed[q]
    /\ \A c \in Clients : request'[c] \in {request[c], NoRequest}
    /\ \A r \in Runs : lease'[r] \in {lease[r], p}

LEMMA SchedInside ==
    ASSUME SupTypeOK, ProcsOK, NEW p \in Procs, sched[p].step # "free", SchedFrame(p)
    PROVE  Inside(p) /\ ~Free(p)
<1>1. ~Free(p)
    BY NoCaller DEF Free
<1>2. Alive(p) /\ proc[p] # "booting"
    BY <1>1 DEF ProcsOK, Resting
<1> QED BY <1>1, <1>2 DEF Inside, SchedFrame, Alive

\* What is left to show of such a step.
LEMMA SchedStep ==
    ASSUME SupInv, SupInv', SlotInv, NEW p \in Procs, sched[p].step # "free", SchedFrame(p),
           ProcOK(p)', \A r \in Runs : RunOK(r)', MaxConcurrent = 1 => OneLaunched'
    PROVE  SlotInv'
<1>1. Inside(p) /\ ProcsOK
    BY SchedInside DEF SlotInv, SupInv
<1>2. ProcsOK'
    BY <1>1, InsideProcs
<1>3. \A q \in Procs : ProcOK(q)'
    BY <1>1, OthersRest
<1> QED BY <1>2, <1>3 DEF SlotInv

\* While the scheduler is at work its process has launched no run but the
\* claimed one, unless it holds the lease of the one it launched.
LEMMA SchedAlone ==
    ASSUME SupInv, SlotInv, NEW p \in Procs, ~Free(p)
    PROVE  /\ Alive(p) /\ proc[p] # "booting"
           /\ SchedOK(p) /\ TodoOK(p) /\ OneEach(p)
           /\ \A th \in Threads : StatusOK(p, th) /\ PlaceOK(p, th)
           /\ MaxConcurrent = 1 =>
                 /\ LimitOK(p) /\ OneLaunched
                 /\ \A r \in Runs : pc[p][Main(r)] \notin Exits
                 /\ proc[p] = "recovering" => todo[p] \cap Launched = {}
  BY DEF SlotInv, ProcsOK, ProcOK, Resting, LimitOK, Quiet

\* The caller, back from ScheduleRuns.
LEMMA Returned ==
    ASSUME SupInv, SlotInv, NEW p \in Procs, ReturnFromSchedule(p), sched[p].step # "free"
    PROVE  /\ sched'[p] = NobodySched
           /\ \A q \in Procs : q # p => pc'[q] = pc[q] /\ sched'[q] = sched[q]
           /\ \A c \in Clients : request'[c] \in {request[c], NoRequest}
           /\ \A th \in Threads :
                 pc'[p][th] = pc[p][th] \/ (pc[p][th] = "insched" /\ pc'[p][th] = "unwind")
<1>1. SupTypeOK /\ sched \in [Procs -> Scheds] /\ SchedOK(p)
    BY DEF SupInv, SupTypeOK, Scheds, SlotInv, ProcOK
<1>2. CASE sched[p].by \in Threads
  <2>1. pc[p][sched[p].by] = "insched" /\ Goto(p, sched[p].by, "unwind")
      BY <1>1, <1>2 DEF SchedOK, ReturnFromSchedule
  <2>2. /\ pc'[p][sched[p].by] = "unwind"
        /\ \A o \in Threads : o # sched[p].by => pc'[p][o] = pc[p][o]
        /\ \A q \in Procs : q # p => pc'[q] = pc[q]
      BY <1>1, <1>2, <2>1, GotoAt
  <2> QED BY <1>1, <2>1, <2>2 DEF ReturnFromSchedule
<1>3. CASE sched[p].by \notin Threads
    BY <1>1, <1>3 DEF ReturnFromSchedule
<1> QED BY <1>2, <1>3

\* It drops what it did: it returns, or goes on to look at the queue.
LEMMA DropKeepsSlot ==
    ASSUME SupInv, SupInv', Rows \subseteq Rows', SlotInv, NEW p \in Procs,
           sched[p].step # "free", SchedFrame(p), UNCHANGED lease,
           sched'[p].step \in {"free", "check"}, sched'[p].run = NoRun,
           sched'[p].step = "free" \/ (sched'[p].by = sched[p].by /\ UNCHANGED pc),
           \A th \in Threads :
              pc'[p][th] = pc[p][th] \/ (pc[p][th] = "insched" /\ pc'[p][th] = "unwind"),
           \A r \in Runs : r # sched[p].run => status'[r] = status[r],
           sched[p].step = "claimed" => status'[sched[p].run] \in Final
    PROVE  SlotInv'
<1>1. ~Free(p) /\ SupTypeOK
    BY SchedInside DEF SlotInv, SupInv
<1>2. /\ Alive(p) /\ proc[p] # "booting"
      /\ SchedOK(p) /\ TodoOK(p) /\ OneEach(p)
      /\ \A th \in Threads : StatusOK(p, th) /\ PlaceOK(p, th)
      /\ MaxConcurrent = 1 =>
            /\ LimitOK(p) /\ OneLaunched
            /\ \A r \in Runs : pc[p][Main(r)] \notin Exits
            /\ proc[p] = "recovering" => todo[p] \cap Launched = {}
    BY <1>1, SchedAlone
<1>3. SchedOK(p)'
    BY <1>2 DEF SchedOK
<1>4. ASSUME NEW r \in todo[p], proc[p] = "recovering"
      PROVE  status'[r] = "running" /\ ~Attended(p, r)'
  <2>1. r \in Runs /\ status[r] = "running" /\ sched[p].run # r
        /\ \A o \in Threads : o[1] = r => pc[p][o] = "idle"
      BY <1>1, <1>2, <1>4 DEF TodoOK, Attended, Working, SupTypeOK
  <2>2. \A o \in Threads : o[1] = r => pc'[p][o] = "idle"
      BY <2>1
  <2>3. sched'[p].run # r
      BY <2>1, SupervisionConstants
  <2> QED BY <2>1, <2>2, <2>3 DEF Attended, Working
<1>5. TodoOK(p)'
    BY <1>2, <1>4 DEF TodoOK, SchedFrame
<1>6. \A o \in Threads : pc'[p][o] # "idle" => pc[p][o] # "idle"
    OBVIOUS
<1>7. OneEach(p)'
    BY <1>2, <1>6 DEF OneEach
<1>8. ASSUME NEW th \in Threads PROVE StatusOK(p, th)' /\ PlaceOK(p, th)'
  <2>1. /\ th[1] \in Runs /\ StatusOK(p, th) /\ PlaceOK(p, th)
        /\ pc'[p][th] = pc[p][th] \/ (pc[p][th] = "insched" /\ pc'[p][th] = "unwind")
        /\ UNCHANGED <<execRow, container, paused, proc, registered, lease>>
      BY <1>2, RunOfThread DEF SchedFrame
  <2>2. PlaceOK(p, th)'
      BY <2>1, LabelsDiffer DEF PlaceOK
  <2>3. pc[p][th] # "idle" => status'[th[1]] = status[th[1]]
      BY <1>2, <2>1, SupervisionConstants DEF SchedOK, Working
  <2>4. StatusOK(p, th)'
      BY <2>1, <2>3, LabelsDiffer DEF StatusOK
  <2> QED BY <2>2, <2>4
<1>9. \A r \in Runs : \/ status'[r] = status[r] /\ r # sched[p].run
                      \/ status'[r] \in Final /\ r = sched[p].run
    BY <1>2, SupervisionConstants DEF SchedOK
<1>10. ASSUME NEW r \in Runs PROVE RunOK(r)'
    BY <1>9 DEF SlotInv, RunOK, SchedFrame, Final
<1>11. \A r \in Launched' : r \in Launched /\ r # sched[p].run
    BY <1>1, <1>9 DEF Launched, SchedFrame, SupTypeOK, Final
<1>12. ASSUME MaxConcurrent = 1 PROVE LimitOK(p)' /\ OneLaunched'
  <2>1. \A r \in Runs : pc'[p][Main(r)] \notin Exits
      BY <1>2, <1>12, MainThread, LabelsDiffer
  <2>2. ~(proc'[p] = "recovering" /\ todo'[p] \cap Launched' # {})
      BY <1>2, <1>11, <1>12 DEF SchedFrame
  <2>3. /\ sched'[p].step \notin {"claim", "claimed"}
        /\ \A r, x \in Runs : lease'[r] = p /\ lease'[x] = p => r = x
      BY <1>2, <1>12 DEF LimitOK
  <2>4. ASSUME NEW r \in Launched'
        PROVE  \/ lease'[r] = p
               \/ proc'[p] = "stopping" /\ sched'[p].step \notin {"claim", "claimed"} /\ Unleased(p)'
    <3>1. r \in Launched /\ r \in Runs /\ r # sched[p].run
        BY <1>1, <1>11 DEF Launched, SupTypeOK
    <3>2. \/ lease[r] = p
          \/ proc[p] = "stopping" /\ Unleased(p)
        BY <1>2, <1>12, <3>1 DEF LimitOK
    <3> QED BY <2>3, <3>2 DEF Unleased, SchedFrame
  <2>5. OneLaunched'
      BY <1>2, <1>11, <1>12 DEF OneLaunched
  <2> QED BY <2>1, <2>2, <2>3, <2>4, <2>5 DEF LimitOK
<1>13. ProcOK(p)'
    BY <1>3, <1>5, <1>7, <1>8, <1>12 DEF ProcOK
<1> QED BY <1>10, <1>12, <1>13, SchedStep

\* It enters the claim with no pause and room for a run.
LEMMA EnterKeepsSlot ==
    ASSUME SupInv, SupInv', SlotInv, NEW p \in Procs, sched[p].step = "check", ~paused,
           HasRoom(p), ~Draining(p), sched' = [sched EXCEPT ![p].step = "claim"],
           UNCHANGED <<storeVars, lease, execRow, container, paused, proc, todo, wake, registered,
                       armed, pc, request>>
    PROVE  SlotInv'
<1>1. SchedFrame(p)
    BY DEF SchedFrame, SupInv, SupTypeOK
<1>2. ~Free(p) /\ SupTypeOK
    BY <1>1, SchedInside DEF SlotInv, SupInv
<1>3. /\ SchedOK(p) /\ TodoOK(p) /\ OneEach(p)
      /\ \A th \in Threads : StatusOK(p, th) /\ PlaceOK(p, th)
      /\ MaxConcurrent = 1 =>
            /\ LimitOK(p) /\ OneLaunched
            /\ \A r \in Runs : pc[p][Main(r)] \notin Exits
            /\ proc[p] = "recovering" => todo[p] \cap Launched = {}
    BY <1>2, SchedAlone
<1>4. /\ sched'[p].step = "claim" /\ sched'[p].by = sched[p].by /\ sched'[p].run = sched[p].run
      /\ sched[p].run = NoRun /\ UNCHANGED status
    BY <1>2, <1>3 DEF SupTypeOK, SchedOK, storeVars
<1>5. SchedOK(p)'
    BY <1>3, <1>4 DEF SchedOK
<1>6. TodoOK(p)'
    BY <1>3, <1>4 DEF TodoOK, Attended, Working
<1>7. OneEach(p)'
    BY <1>3 DEF OneEach
<1>8. \A th \in Threads : StatusOK(p, th)' /\ PlaceOK(p, th)'
    BY <1>3, <1>4 DEF StatusOK, PlaceOK, Rows
<1>9. \A r \in Runs : RunOK(r)'
    BY <1>4 DEF SlotInv, RunOK
<1>10. Launched' = Launched
    BY <1>4 DEF Launched
<1>11. ASSUME MaxConcurrent = 1 PROVE LimitOK(p)' /\ OneLaunched'
  <2>1. Unleased(p)
    <3>1. ActiveRunCount(p) = 0
      <4>1. IsFiniteSet({r \in Runs : lease[r] = p})
          BY StoreConstants, FS_Subset
      <4>2. ActiveRunCount(p) \in Nat
          BY <4>1, FS_CardinalityType DEF ActiveRunCount
      <4> QED BY <1>11, <4>2 DEF HasRoom
    <3>2. IsFiniteSet({r \in Runs : lease[r] = p})
        BY StoreConstants, FS_Subset
    <3>3. {r \in Runs : lease[r] = p} = {}
        BY <3>1, <3>2, FS_EmptySet DEF ActiveRunCount
    <3> QED BY <3>3 DEF Unleased
  <2>2. proc[p] # "stopping" /\ sched'[p].step = "claim" /\ sched'[p].run = sched[p].run
      BY <1>4 DEF Draining
  <2>3. LimitOK(p) /\ (\A r \in Runs : pc[p][Main(r)] \notin Exits)
        /\ ~(proc[p] = "recovering" /\ todo[p] \cap Launched # {})
      BY <1>3, <1>11
  <2>4. LimitOK(p)'
      BY <1>10, <2>1, <2>2, <2>3 DEF LimitOK, Unleased, Alive
  <2> QED BY <1>3, <1>10, <1>11, <2>4 DEF OneLaunched
<1>12. ProcOK(p)'
    BY <1>5, <1>6, <1>7, <1>8, <1>11 DEF ProcOK
<1> QED BY <1>1, <1>9, <1>11, <1>12, SchedStep

\* It claims a run nobody works on: a goroutine would have kept it away.
LEMMA ClaimKeepsSlot ==
    ASSUME SupInv, SupInv', SlotInv, NEW p \in Procs, sched[p].step = "claim", NEW r \in Runs,
           Claimable(r), status' = [status EXCEPT ![r] = "running"],
           sched' = [sched EXCEPT ![p].step = "claimed", ![p].run = r, ![p].prefer = NoTask],
           UNCHANGED <<lease, execRow, container, paused, proc, todo, wake, registered,
                       armed, pc, request>>
    PROVE  SlotInv'
<1>1. SchedFrame(p)
    BY DEF SchedFrame, SupInv, SupTypeOK
<1>2. ~Free(p) /\ SupTypeOK /\ Alive(p) /\ proc[p] # "booting"
    BY <1>1, SchedInside, SchedAlone DEF SlotInv, SupInv
<1>3. /\ SchedOK(p) /\ TodoOK(p) /\ OneEach(p)
      /\ \A th \in Threads : StatusOK(p, th) /\ PlaceOK(p, th)
      /\ MaxConcurrent = 1 =>
            /\ LimitOK(p) /\ OneLaunched
            /\ \A x \in Runs : pc[p][Main(x)] \notin Exits
            /\ proc[p] = "recovering" => todo[p] \cap Launched = {}
    BY <1>2, SchedAlone
<1>4. /\ sched'[p].step = "claimed" /\ sched'[p].by = sched[p].by /\ sched'[p].run = r
      /\ sched[p].run = NoRun /\ status[r] = "queued" /\ status'[r] = "running"
      /\ \A x \in Runs : x # r => status'[x] = status[x]
    BY <1>2, <1>3 DEF SupTypeOK, StoreTypeOK, SchedOK, Claimable
<1>5. \A th \in Threads : th[1] = r => pc[p][th] = "idle"
    BY <1>3, <1>4 DEF StatusOK
<1>6. container[r] # "running"
    BY <1>4 DEF SlotInv, RunOK
<1>7. SchedOK(p)'
    BY <1>3, <1>4, <1>5, <1>6 DEF SchedOK, Working
<1>8. TodoOK(p)'
  <2> SUFFICES ASSUME NEW x \in todo[p], proc[p] = "recovering"
               PROVE  status'[x] = "running" /\ ~Attended(p, x)'
      BY <1>2 DEF TodoOK
  <2>1. x \in Runs /\ status[x] = "running" /\ ~Working(p, x)
      BY <1>2, <1>3 DEF TodoOK, Attended, SupTypeOK
  <2> QED BY <1>4, <2>1 DEF Attended, Working
<1>9. OneEach(p)'
    BY <1>3 DEF OneEach
<1>10. ASSUME NEW th \in Threads PROVE StatusOK(p, th)' /\ PlaceOK(p, th)'
  <2>1. StatusOK(p, th) /\ PlaceOK(p, th) /\ th[1] \in Runs
      BY <1>3, RunOfThread
  <2>2. PlaceOK(p, th)'
      BY <2>1 DEF PlaceOK
  <2>3. CASE pc[p][th] # "idle"
    <3>1. th[1] # r
        BY <1>5, <2>3
    <3> QED BY <1>4, <2>1, <2>2, <3>1 DEF StatusOK, Rows
  <2>4. CASE pc[p][th] = "idle"
      BY <2>2, <2>4 DEF StatusOK
  <2> QED BY <2>3, <2>4
<1>11. ASSUME NEW x \in Runs PROVE RunOK(x)'
    BY <1>4, <1>6 DEF SlotInv, RunOK
<1>12. ASSUME MaxConcurrent = 1 PROVE LimitOK(p)' /\ OneLaunched'
  <2>1. Launched = {}
      BY <1>2, <1>3, <1>12, OnlyLaunched
  <2>2. Launched' \subseteq {r}
      BY <1>2, <1>4, <2>1 DEF Launched, SupTypeOK
  <2>3. Unleased(p)
      BY <1>3, <1>12 DEF LimitOK
  <2>4. r \notin todo[p] \/ proc[p] # "recovering"
      BY <1>3, <1>4 DEF TodoOK
  <2> QED BY <1>3, <1>4, <1>12, <2>2, <2>3, <2>4 DEF LimitOK, Unleased, OneLaunched
<1>13. ProcOK(p)'
    BY <1>7, <1>8, <1>9, <1>10, <1>12 DEF ProcOK
<1> QED BY <1>1, <1>11, <1>12, <1>13, SchedStep

\* It gives the run its lease and its goroutine.
LEMMA SpawnKeepsSlot ==
    ASSUME SupInv, SupInv', SlotInv, NEW p \in Procs, NEW r, r = sched[p].run,
           sched[p].step = "claimed", ~Draining(p), lease' = [lease EXCEPT ![r] = p],
           NEW th \in Threads, IsNewThread(p, r, th), Goto(p, th, "exec"),
           sched' = [sched EXCEPT ![p].step = "check", ![p].run = NoRun],
           UNCHANGED <<status, execRow, container, paused, proc, todo, wake, registered,
                       armed, request>>
    PROVE  SlotInv'
<1>1. SupTypeOK /\ SchedOK(p)
    BY DEF SupInv, SlotInv, ProcOK
<1>2. /\ r \in Runs /\ container[r] # "running" /\ status[r] # "queued" /\ ~Working(p, r)
      /\ r \in Rows
    BY <1>1 DEF SchedOK, SupInv, Known, SchedKnows
<1>3. /\ pc'[p][th] = "exec"
      /\ \A o \in Threads : o # th => pc'[p][o] = pc[p][o]
      /\ \A q \in Procs : q # p => pc'[q] = pc[q]
    BY <1>1, GotoAt
<1>4. /\ sched'[p].step = "check" /\ sched'[p].by = sched[p].by /\ sched'[p].run = NoRun
      /\ \A q \in Procs : q # p => sched'[q] = sched[q]
      /\ lease'[r] = p /\ \A x \in Runs : x # r => lease'[x] = lease[x]
    BY <1>1, <1>2 DEF SupTypeOK
<1>5. SchedFrame(p)
    BY <1>3, <1>4 DEF SchedFrame
<1>6. ~Free(p) /\ Alive(p) /\ proc[p] # "booting"
    BY <1>1, <1>5, SchedInside, SchedAlone DEF SlotInv
<1>7. /\ SchedOK(p) /\ TodoOK(p) /\ OneEach(p)
      /\ \A o \in Threads : StatusOK(p, o) /\ PlaceOK(p, o)
      /\ MaxConcurrent = 1 =>
            /\ LimitOK(p) /\ OneLaunched
            /\ \A x \in Runs : pc[p][Main(x)] \notin Exits
            /\ proc[p] = "recovering" => todo[p] \cap Launched = {}
    BY <1>6, SchedAlone
<1>8. /\ th[1] = r /\ pc[p][th] = "idle" /\ th # Main(r)
      /\ \A o \in Threads : o[1] = r => pc[p][o] = "idle"
  <2>1. th = <<r, th[2]>> /\ th[2] # 0 /\ pc[p][<<r, th[2]>>] = "idle"
      BY DEF IsNewThread, Threads
  <2> QED BY <1>2, <2>1 DEF IsNewThread, Main, Working
<1>9. SchedOK(p)'
    BY <1>3, <1>4, <1>7, <1>8 DEF SchedOK
<1>10. TodoOK(p)'
  <2> SUFFICES ASSUME NEW x \in todo[p], proc[p] = "recovering"
               PROVE  status'[x] = "running" /\ ~Attended(p, x)'
      BY <1>6 DEF TodoOK
  <2>1. x \in Runs /\ status[x] = "running" /\ ~Working(p, x) /\ x # r
      BY <1>1, <1>7 DEF TodoOK, Attended, SupTypeOK
  <2>2. sched'[p].run # x
      BY <1>4, <2>1, SupervisionConstants
  <2> QED BY <1>3, <1>8, <2>1, <2>2 DEF Attended, Working
<1>11. OneEach(p)'
    BY <1>3, <1>7, <1>8 DEF OneEach
<1>12. ASSUME NEW o \in Threads PROVE StatusOK(p, o)' /\ PlaceOK(p, o)'
  <2>1. StatusOK(p, o) /\ PlaceOK(p, o) /\ o[1] \in Runs /\ Rows' = Rows
      BY <1>7, RunOfThread DEF Rows
  <2>2. CASE o = th
    <3>1. StatusOK(p, o)'
        BY <1>2, <1>3, <1>8, <2>1, <2>2, LabelsDiffer DEF StatusOK
    <3>2. PlaceOK(p, o)'
        BY <1>2, <1>3, <1>4, <1>8, <2>1, <2>2, LabelsDiffer DEF PlaceOK
    <3> QED BY <3>1, <3>2
  <2>3. CASE o # th /\ pc[p][o] # "idle"
    <3>1. o[1] # r
        BY <1>8, <2>3
    <3> QED BY <1>3, <1>4, <2>1, <2>3, <3>1 DEF StatusOK, PlaceOK
  <2>4. CASE o # th /\ pc[p][o] = "idle"
      BY <1>3, <2>1, <2>4, LabelsDiffer DEF StatusOK, PlaceOK
  <2> QED BY <2>2, <2>3, <2>4
<1>13. \A x \in Runs : RunOK(x)'
    BY DEF SlotInv, RunOK
<1>14. ASSUME MaxConcurrent = 1 PROVE LimitOK(p)' /\ OneLaunched'
  <2>1. /\ LimitOK(p) /\ OneLaunched /\ Launched' = Launched
        /\ ~(proc[p] = "recovering" /\ todo[p] \cap Launched # {})
      BY <1>7, <1>14 DEF Launched
  <2>2. Unleased(p)
      BY <2>1 DEF LimitOK
  <2>3. \A x \in Launched : x = r
      BY <1>1, <1>6, <2>1, OnlyLaunched
  <2>4. \A x \in Runs : pc'[p][Main(x)] \notin Exits
      BY <1>3, <1>7, <1>14, LabelsDiffer, MainThread
  <2>5. \A x \in Runs : lease'[x] = p => x = r
      BY <1>4, <2>2 DEF Unleased
  <2>6. LimitOK(p)'
      BY <1>4, <2>1, <2>3, <2>4, <2>5 DEF LimitOK
  <2> QED BY <2>1, <2>6 DEF OneLaunched
<1>15. ProcOK(p)'
    BY <1>9, <1>10, <1>11, <1>12, <1>14 DEF ProcOK
<1> QED BY <1>5, <1>13, <1>14, <1>15, SchedStep

LEMMA ScheduleKeepsSlot ==
    ASSUME SupInv, SupInv', Rows \subseteq Rows', SlotInv, NEW p \in Procs, Schedule(p)
    PROVE  SlotInv'
<1> USE DEF SupInv
<1>0. /\ SupTypeOK /\ SchedOK(p) /\ sched \in [Procs -> Scheds] /\ armed \in [Procs -> BOOLEAN]
      /\ sched[p].step # "claimed" => sched[p].run = NoRun /\ sched[p].run \notin Runs
    BY SupervisionConstants DEF SupTypeOK, Scheds, SlotInv, ProcOK, SchedOK
<1>1. ASSUME ReturnFromSchedule(p), sched[p].step # "free", UNCHANGED lease,
             UNCHANGED <<execRow, container, paused, proc, todo, wake, registered>>,
             UNCHANGED armed \/ EnsureResumeTimer(p),
             \A r \in Runs : r # sched[p].run => status'[r] = status[r],
             sched[p].step = "claimed" => status'[sched[p].run] \in Final
      PROVE  SlotInv'
  <2>1. /\ sched'[p] = NobodySched
        /\ \A q \in Procs : q # p => pc'[q] = pc[q] /\ sched'[q] = sched[q]
        /\ \A c \in Clients : request'[c] \in {request[c], NoRequest}
        /\ \A th \in Threads :
              pc'[p][th] = pc[p][th] \/ (pc[p][th] = "insched" /\ pc'[p][th] = "unwind")
      BY <1>1, Returned
  <2>2. \A q \in Procs : q # p => armed'[q] = armed[q]
      BY <1>0, <1>1 DEF EnsureResumeTimer
  <2>3. SchedFrame(p)
      BY <1>1, <2>1, <2>2 DEF SchedFrame
  <2>4. sched'[p].step = "free" /\ sched'[p].run = NoRun
      BY <2>1, NoCaller
  <2> QED BY <1>1, <2>1, <2>3, <2>4, DropKeepsSlot
<1> USE DEF storeVars, queueVars, dockerVars, timerVars, procVars
<1>2. CASE ScheduleCheck(p)
  <2>1. CASE ~paused /\ HasRoom(p) /\ ~Draining(p) /\ sched' = [sched EXCEPT ![p].step = "claim"]
             /\ UNCHANGED <<armed, pc, request>>
      BY <1>2, <2>1, EnterKeepsSlot DEF ScheduleCheck
  <2>2. CASE ReturnFromSchedule(p) /\ (UNCHANGED armed \/ EnsureResumeTimer(p))
      BY <1>1, <1>2, <2>2 DEF ScheduleCheck
  <2> QED BY <1>2, <2>1, <2>2 DEF ScheduleCheck
<1>3. CASE ScheduleClaim(p)
  <2>1. ASSUME NEW r \in Runs, ClaimNextQueuedRun(sched[p].prefer, r),
               sched' = [sched EXCEPT ![p].step = "claimed", ![p].run = r, ![p].prefer = NoTask],
               UNCHANGED <<pc, request>>
        PROVE  SlotInv'
    <3>1. Claimable(r) /\ status' = [status EXCEPT ![r] = "running"]
        BY <2>1 DEF ClaimNextQueuedRun, NextQueuedRun
    <3> QED BY <1>3, <2>1, <3>1, ClaimKeepsSlot DEF ScheduleClaim
  <2>2. CASE ReturnFromSchedule(p) /\ UNCHANGED status
      BY <1>1, <1>3, <2>2 DEF ScheduleClaim
  <2> QED BY <1>3, <2>1, <2>2 DEF ScheduleClaim
<1>4. CASE ScheduleSpawn(p)
  <2> DEFINE r == sched[p].run
  <2>1. sched[p].step = "claimed" /\ r \in Rows /\ r \in Runs
      BY <1>0, <1>4 DEF ScheduleSpawn, SchedOK, Known, SchedKnows
  <2>2. ASSUME TransitionOrGet(r, "canceled")
        PROVE  /\ \A x \in Runs : x # r => status'[x] = status[x]
               /\ status'[r] \in Final
    <3>1. status'[r] \in Final
        BY <2>1, <2>2, CancelEnds DEF SupTypeOK
    <3> QED BY <2>2, <3>1 DEF TransitionOrGet, SupTypeOK, StoreTypeOK
  <2>3. CASE /\ TransitionOrGet(r, "canceled") /\ UNCHANGED <<lease, pc, request>>
             /\ sched' = [sched EXCEPT ![p].step = "check", ![p].run = NoRun]
    <3>1. /\ sched'[p].step = "check" /\ sched'[p].run = NoRun /\ sched'[p].by = sched[p].by
          /\ \A q \in Procs : q # p => sched'[q] = sched[q]
        BY <1>0, <2>3 DEF SupTypeOK
    <3>2. SchedFrame(p)
        BY <1>4, <2>3, <3>1 DEF ScheduleSpawn, SchedFrame
    <3> QED BY <2>1, <2>2, <2>3, <3>1, <3>2, DropKeepsSlot
  <2>4. CASE TransitionOrGet(r, "canceled") /\ ReturnFromSchedule(p) /\ UNCHANGED lease
      BY <1>1, <1>4, <2>1, <2>2, <2>4 DEF ScheduleSpawn
  <2>5. ASSUME ~Draining(p), lease' = [lease EXCEPT ![r] = p],
               NEW th \in Threads, IsNewThread(p, r, th), Goto(p, th, "exec"),
               sched' = [sched EXCEPT ![p].step = "check", ![p].run = NoRun],
               UNCHANGED <<status, request>>
        PROVE  SlotInv'
      BY <1>4, <2>1, <2>5, SpawnKeepsSlot DEF ScheduleSpawn
  <2> QED BY <1>4, <2>3, <2>4, <2>5 DEF ScheduleSpawn
<1> QED BY <1>2, <1>3, <1>4 DEF Schedule

-----------------------------------------------------------------------------
(* The steps that leave the goroutines where they are.                     *)

\* A run is added, or closed; a container may exit; a caller that is no
\* goroutine may enter the scheduler.
MovesOn ==
    /\ \A r \in Runs : \/ status'[r] = status[r] \/ status'[r] \in Final
                       \/ status[r] = "absent" /\ status'[r] = "queued"
    /\ \A r \in Runs : \/ container'[r] = container[r]
                       \/ container'[r] \in Exits /\ container'[r] \in Outcomes \cup {"failed"}
    /\ paused' = paused
       \/ \A p \in Procs, th \in Threads : status[th[1]] = "queued" => pc[p][th] = "idle"

MovesProc(p) ==
    /\ \/ sched'[p] = sched[p]
       \/ /\ Free(p) /\ sched'[p].step = "check" /\ sched'[p].run = NoRun
          /\ sched'[p].by \notin Threads
    /\ todo'[p] \subseteq todo[p]
    /\ proc[p] = "recovering" => todo'[p] = todo[p]
    /\ proc'[p] \in {"booting", "recovering"} =>
          /\ proc'[p] = proc[p]
          /\ \A r \in todo'[p] : status'[r] = status[r]
    /\ proc[p] = "recovering" /\ proc'[p] # "recovering" => todo[p] = {} /\ RecoveryIdle(p)
    /\ proc[p] = "stopping" => proc'[p] = "stopping"
    /\ Alive(p)' => Alive(p)
    /\ proc[p] = "booting" => proc'[p] = "booting"
    /\ proc'[p] = "recovering" /\ Quiet(p) => Quiet(p)'

LEMMA GoroutinesStay ==
    ASSUME SupInv, SupInv', Rows \subseteq Rows', SlotInv, ProcsOK', MovesOn,
           \A p \in Procs : MovesProc(p), UNCHANGED <<lease, execRow, pc, registered>>
    PROVE  SlotInv'
<1>1. SupTypeOK /\ execRow \subseteq Runs
    BY DEF SupInv, SupTypeOK
<1>2. \A r \in Launched' : r \in Launched
    BY <1>1 DEF Launched, MovesOn, Final
<1>3. ASSUME NEW r \in Runs PROVE RunOK(r)'
    BY LabelsDiffer DEF SlotInv, RunOK, MovesOn, Final
<1>4. ASSUME NEW p \in Procs PROVE SchedOK(p)' /\ TodoOK(p)' /\ OneEach(p)'
  <2>1. MovesProc(p) /\ SchedOK(p) /\ TodoOK(p) /\ OneEach(p) /\ todo[p] \subseteq Runs
      BY DEF SlotInv, ProcOK, SupInv, SupTypeOK
  <2>2. SchedOK(p)'
    <3>1. CASE sched'[p] = sched[p]
      <4>1. ASSUME sched[p].step = "claimed"
            PROVE  LET r == sched[p].run IN
                   container'[r] # "running" /\ status'[r] # "queued"
        <5> DEFINE r == sched[p].run
        <5>1. r \in Runs /\ r \in Rows /\ container[r] # "running" /\ status[r] # "queued"
            BY <2>1, <4>1 DEF SchedOK, SupInv, Known, SchedKnows
        <5> HIDE DEF r
        <5>2. container'[r] # "running" /\ status'[r] # "queued"
            BY <5>1, LabelsDiffer DEF MovesOn, Rows, Final
        <5> QED BY <5>2 DEF r
      <4> QED BY <2>1, <3>1, <4>1 DEF SchedOK, Working
    <3>2. CASE sched'[p].step = "check" /\ sched'[p].run = NoRun /\ sched'[p].by \notin Threads
        BY <3>2 DEF SchedOK
    <3> QED BY <2>1, <3>1, <3>2 DEF MovesProc
  <2>3. TodoOK(p)'
    <3> SUFFICES ASSUME NEW r \in todo'[p], proc'[p] \in {"booting", "recovering"}
                 PROVE  /\ proc'[p] = "booting" => status'[r] = "queued"
                        /\ proc'[p] = "recovering" => status'[r] = "running" /\ ~Attended(p, r)'
        BY DEF TodoOK
    <3>1. proc'[p] = proc[p] /\ status'[r] = status[r] /\ r \in todo[p] /\ r \in Runs
        BY <2>1 DEF MovesProc
    <3>2. r # NoRun
        BY <3>1, SupervisionConstants
    <3> QED BY <2>1, <3>1, <3>2 DEF TodoOK, Attended, Working, MovesProc
  <2>4. OneEach(p)'
      BY <2>1 DEF OneEach
  <2> QED BY <2>2, <2>3, <2>4
<1>5. ASSUME NEW p \in Procs, NEW th \in Threads PROVE StatusOK(p, th)' /\ PlaceOK(p, th)'
  <2>1. /\ MovesProc(p) /\ StatusOK(p, th) /\ PlaceOK(p, th)
        /\ th[1] \in Runs
      BY RunOfThread DEF SlotInv, ProcOK
  <2>2. sched[p].step # "claim" => sched'[p].step # "claim"
      BY <2>1 DEF MovesProc
  <2>3. StatusOK(p, th)'
    <3> SUFFICES ASSUME pc[p][th] # "idle" PROVE StatusOK(p, th)'
        BY DEF StatusOK
    <3>1. th[1] \in Rows' /\ th[1] \in Rows
        BY <2>1 DEF StatusOK
    <3>2. status'[th[1]] = status[th[1]] \/ status'[th[1]] \in Final
        BY <2>1, <3>1 DEF MovesOn, Rows
    <3>3. status'[th[1]] = "queued" => paused' = paused
        BY <2>1, <3>2 DEF MovesOn, Final
    <3> QED BY <2>1, <2>2, <3>1, <3>2, <3>3 DEF StatusOK, Final, MovesProc
  <2>4. PlaceOK(p, th)'
    <3>1. container'[th[1]] = "running" => container[th[1]] = "running"
        BY <2>1, LabelsDiffer DEF MovesOn
    <3>2. proc[p] = "recovering" /\ proc'[p] # "recovering" => pc[p][Main(th[1])] = "idle"
        BY <2>1 DEF MovesProc, RecoveryIdle
    <3> QED BY <2>1, <3>1, <3>2 DEF PlaceOK
  <2> QED BY <2>3, <2>4
<1>6. ASSUME MaxConcurrent = 1, NEW p \in Procs PROVE LimitOK(p)'
  <2>1. MovesProc(p) /\ LimitOK(p) /\ SchedOK(p)
      BY <1>6 DEF SlotInv, ProcOK
  <2>2. sched'[p].step \in {"claim", "claimed"} => sched'[p] = sched[p]
      BY <2>1 DEF MovesProc
  <2>3. Unleased(p)' <=> Unleased(p)
      BY DEF Unleased
  <2>4. ASSUME proc'[p] = "recovering", todo'[p] \cap Launched' # {} PROVE Quiet(p)' /\ AllIdle(p)'
    <3>1. proc[p] = "recovering" /\ todo[p] \cap Launched # {}
        BY <1>2, <2>1, <2>4 DEF MovesProc
    <3>2. Quiet(p) /\ AllIdle(p)
        BY <2>1, <3>1 DEF LimitOK
    <3> QED BY <2>1, <2>4, <3>2 DEF MovesProc, AllIdle
  <2>5. ASSUME NEW r \in Runs, pc'[p][Main(r)] \in Exits
        PROVE  /\ Quiet(p)' /\ todo'[p] \cap Launched' = {}
               /\ \A th \in Threads : pc'[p][th] = "idle" \/ th = Main(r)
    <3>1. /\ Quiet(p) /\ todo[p] \cap Launched = {}
          /\ \A th \in Threads : pc[p][th] = "idle" \/ th = Main(r)
        BY <2>1, <2>5 DEF LimitOK
    <3>2. proc'[p] = "recovering"
      <4>1. Main(r) \in Threads /\ Main(r)[1] = r
          BY MainThread
      <4>2. PlaceOK(p, Main(r))'
          BY <1>5, <4>1
      <4> QED BY <2>5, <4>1, <4>2, LabelsDiffer DEF PlaceOK
    <3> QED BY <1>2, <2>1, <3>1, <3>2 DEF MovesProc
  <2>6. ASSUME Alive(p)', proc'[p] # "booting", NEW r \in Launched'
        PROVE  \/ r \in todo'[p] /\ proc'[p] = "recovering"
               \/ lease'[r] = p \/ pc'[p][Main(r)] \in Exits \/ sched'[p].run = r
               \/ proc'[p] = "stopping" /\ sched'[p].step \notin {"claim", "claimed"} /\ Unleased(p)'
    <3>1. r \in Launched /\ r \in Runs /\ Alive(p) /\ proc[p] # "booting"
        BY <1>1, <1>2, <2>1, <2>6 DEF MovesProc, Launched
    <3>2. CASE r \in todo[p] /\ proc[p] = "recovering"
        BY <2>1, <3>2 DEF MovesProc
    <3>3. CASE sched[p].run = r
      <4>1. sched[p].step = "claimed"
          BY <2>1, <3>1, <3>3, SupervisionConstants DEF SchedOK
      <4>2. ~Free(p)
          BY <1>1, <4>1, NoCaller DEF Free
      <4> QED BY <2>1, <3>3, <4>2 DEF MovesProc
    <3>4. CASE proc[p] = "stopping" /\ sched[p].step \notin {"claim", "claimed"} /\ Unleased(p)
        BY <2>1, <2>2, <2>3, <3>4 DEF MovesProc
    <3> QED BY <2>1, <3>1, <3>2, <3>3, <3>4 DEF LimitOK
  <2>7. /\ sched'[p].step \in {"claim", "claimed"} => Unleased(p)'
        /\ \A r, x \in Runs : lease'[r] = p /\ lease'[x] = p => r = x
      BY <2>1, <2>2, <2>3 DEF LimitOK
  <2> QED BY <2>4, <2>5, <2>6, <2>7 DEF LimitOK
<1>7. MaxConcurrent = 1 => OneLaunched'
    BY <1>2 DEF SlotInv, OneLaunched
<1>8. \A p \in Procs : ProcOK(p)'
    BY <1>4, <1>5, <1>6 DEF ProcOK
<1> QED BY <1>3, <1>7, <1>8 DEF SlotInv

LEMMA ProcsStay ==
    ASSUME SupTypeOK, ProcsOK, UNCHANGED <<proc, pc, sched, registered, wake, armed, lease>>,
           \A c \in Clients : \/ request'[c] \in {request[c], NoRequest}
                              \/ request'[c].at \in Procs /\ proc[request'[c].at] \in Serving
    PROVE  ProcsOK'
<1>1. \A c \in Clients : request'[c] # NoRequest =>
          request'[c].at \in Procs /\ proc[request'[c].at] \in Serving
    BY DEF ProcsOK
<1>2. \A p \in Procs : (Alive(p)' <=> Alive(p)) /\ (Resting(p)' <=> Resting(p))
          /\ (Unleased(p)' <=> Unleased(p))
    BY DEF Alive, Resting, AllIdle, Free, Unleased
<1> QED BY <1>1, <1>2 DEF ProcsOK

\* Containers exit, pauses expire, and nothing happens.
LEMMA OutsideKeepsSlot ==
    ASSUME SupInv, SupInv', Rows \subseteq Rows', SlotInv,
           PauseExpires \/ UNCHANGED vars \/ \E r \in Runs : ContainerExits(r)
    PROVE  SlotInv'
<1>1. /\ UNCHANGED <<status, lease, execRow, pc, registered, sched, todo, proc, wake, armed, request>>
      /\ UNCHANGED paused \/ PauseExpires
      /\ UNCHANGED container \/ \E r \in Runs : ContainerExits(r)
    BY DEF PauseExpires, ContainerExits, vars, supVars, storeVars, dockerVars, timerVars, procVars,
       threadVars, apiVars
<1>2. ProcsOK'
    BY <1>1, ProcsStay DEF SlotInv, SupInv
<1>3. \A r \in Runs : \/ container'[r] = container[r]
                      \/ container'[r] \in Exits /\ container'[r] \in Outcomes
    BY <1>1, SupervisionConstants DEF ContainerExits, SupInv, SupTypeOK
<1>4. MovesOn
    BY <1>1, <1>3 DEF MovesOn, PauseExpires
<1>5. \A p \in Procs : MovesProc(p)
    BY <1>1 DEF MovesProc, Alive, Quiet, Free, Unleased
<1> QED BY <1>1, <1>2, <1>4, <1>5, GoroutinesStay

\* Requests are handled by a process that is up, or was when they came.
LEMMA ServingMoves ==
    ASSUME ProcsOK, NEW p \in Procs, proc[p] \in Serving, UNCHANGED <<proc, todo>>,
           \A q \in Procs : q # p => sched'[q] = sched[q],
           \/ sched'[p] = sched[p]
           \/ /\ Free(p) /\ sched'[p].step = "check" /\ sched'[p].run = NoRun
              /\ sched'[p].by \notin Threads
    PROVE  \A q \in Procs : MovesProc(q)
<1>1. \A q \in Procs : proc[q] \notin {"booting", "recovering"}
    BY DEF ProcsOK, Alive, Serving
<1> QED BY <1>1 DEF MovesProc, Alive

LEMMA RequestKeepsSlot ==
    ASSUME SupInv, SupInv', Rows \subseteq Rows', SlotInv, NEW c \in Clients, Request(c)
    PROVE  SlotInv'
<1> USE DEF SupInv
<1>1. UNCHANGED <<status, lease, execRow, container, paused, armed, proc, todo, wake, pc,
                  registered, sched>>
    BY DEF Request, CreateRun, CancelRun, CloseIssue, storeVars, dockerVars, timerVars, procVars,
       threadVars
<1>2. PICK p \in Procs : /\ proc[p] = "up"
                         /\ \/ UNCHANGED request
                            \/ \E step, r, t : Receive(c, p, step, r, t)
    BY DEF Request, CreateRun, CancelRun, CloseIssue, Receive
<1>3. \A d \in Clients : request'[d] = request[d] \/ request'[d].at = p
    BY <1>2 DEF Receive, SupTypeOK
<1>4. ProcsOK'
    BY <1>1, <1>2, <1>3, ProcsStay DEF SlotInv, Serving
<1>5. \A q \in Procs : MovesProc(q)
    BY <1>1, <1>2, ServingMoves DEF SlotInv, Serving
<1>6. MovesOn
    BY <1>1 DEF MovesOn
<1> QED BY <1>1, <1>4, <1>5, <1>6, GoroutinesStay

LEMMA HandleKeepsSlot ==
    ASSUME SupInv, SupInv', Rows \subseteq Rows', SlotInv, NEW c \in Clients, HandleRequest(c)
    PROVE  SlotInv'
<1> USE DEF SupInv
<1> DEFINE r == request[c].run
<1>0. PICK p : p = request[c].at
    OBVIOUS
<1>1. /\ UNCHANGED <<lease, execRow, paused, proc, todo, wake, pc, registered>>
      /\ UNCHANGED <<sched, armed>> \/ RequestSchedule(c)
    BY DEF HandleRequest, dockerVars, timerVars, procVars, threadVars
<1>2. /\ request[c] # NoRequest
      /\ \A d \in Clients : d # c => request'[d] = request[d]
      /\ request'[c] = NoRequest \/ request'[c].at = p
    BY <1>0 DEF HandleRequest, AddQueuedRun, WriteRunFiles, PersistCancel, Dequeue, SweepQueued,
       CancelRunning, StopExecution, RequestSchedule, RequestStep, NoRequest, SupTypeOK
<1>3. p \in Procs /\ proc[p] \in Serving
    BY <1>0, <1>2 DEF SlotInv, ProcsOK
<1>4. request[c].step \in OfARun => r \in Runs
    BY DEF Known, RequestKnows
<1>5. {"add", "write", "dequeue", "stop"} \subseteq OfARun
    BY DEF OfARun, RequestSteps
<1>6. /\ \/ UNCHANGED status
         \/ r \in Runs /\ AddRun(r)
         \/ r \in Runs /\ \E to \in Final : TransitionOrGet(r, to) \/ SetRunStatus(r, to)
         \/ \E t : CancelQueuedRuns(t)
      /\ UNCHANGED container \/ (r \in Runs /\ StopContainer(r))
    BY <1>4, <1>5 DEF HandleRequest, AddQueuedRun, WriteRunFiles, PersistCancel, Dequeue,
       SweepQueued, CancelRunning, StopExecution, RequestSchedule, RequestStep, storeVars,
       dockerVars, Final
<1>7. \A x \in Runs : \/ status'[x] = status[x] \/ status'[x] \in Final
                      \/ status[x] = "absent" /\ status'[x] = "queued"
  <2>1. CASE r \in Runs /\ AddRun(r)
    <3>1. TrimOldRuns = {}
        BY <2>1, NothingTrimmed DEF AddRun, SupTypeOK
    <3> QED BY <2>1, <3>1 DEF AddRun
  <2>2. CASE r \in Runs /\ \E to \in Final : TransitionOrGet(r, to) \/ SetRunStatus(r, to)
      BY <2>2 DEF TransitionOrGet, SetRunStatus, SupTypeOK, StoreTypeOK
  <2>3. CASE \E t : CancelQueuedRuns(t)
      BY <2>3 DEF CancelQueuedRuns, Final
  <2> QED BY <1>6, <2>1, <2>2, <2>3
<1>8. \A x \in Runs : container'[x] = container[x] \/ container'[x] = "failed"
    BY <1>6 DEF StopContainer, SupTypeOK
<1>9. MovesOn
    BY <1>1, <1>7, <1>8, LabelsDiffer DEF MovesOn
<1>10. /\ \A q \in Procs : q # p => sched'[q] = sched[q] /\ armed'[q] = armed[q]
       /\ \/ sched'[p] = sched[p]
          \/ /\ Free(p) /\ sched'[p].step = "check" /\ sched'[p].run = NoRun
             /\ sched'[p].by \notin Threads
  <2>1. CASE RequestSchedule(c)
    <3>1. c \notin Threads
        BY SupervisionConstants DEF Threads
    <3> QED BY <1>0, <1>3, <2>1, <3>1 DEF RequestSchedule, CallScheduleRuns,
            ScheduleRunsReturnsAtOnce, EnsureResumeTimer, SupTypeOK
  <2> QED BY <1>1, <2>1
<1>11. \A q \in Procs : MovesProc(q)
    BY <1>1, <1>3, <1>10, ServingMoves DEF SlotInv
<1>12. Inside(p)
    BY <1>1, <1>2, <1>3, <1>10 DEF Inside, Serving, Alive
<1>13. ProcsOK'
    BY <1>3, <1>12, InsideProcs DEF SlotInv
<1> QED BY <1>1, <1>9, <1>11, <1>13, GoroutinesStay

-----------------------------------------------------------------------------
(* The steps of a process as a whole.                                      *)

\* A process at work: it does not rest, so it is the one that lives.
LEMMA TheLiving ==
    ASSUME SupInv, SlotInv, NEW p \in Procs, Alive(p)
    PROVE  /\ SupTypeOK /\ ProcsOK /\ \A q \in Procs : q # p => ~Alive(q) /\ Resting(q)
           /\ SchedOK(p) /\ TodoOK(p) /\ OneEach(p)
           /\ \A th \in Threads : StatusOK(p, th) /\ PlaceOK(p, th)
           /\ MaxConcurrent = 1 => LimitOK(p)
           /\ todo[p] \subseteq Rows /\ todo[p] \subseteq Runs
  BY DEF SupInv, SlotInv, ProcsOK, ProcOK, Known, SupTypeOK

LEMMA ProcessKeepsSlot ==
    ASSUME SupInv, SupInv', Rows \subseteq Rows', SlotInv, NEW p \in Procs,
           \/ RecoverQueuedCancel(p) \/ EndRecovery(p) \/ Wake(p) \/ ResumeTimer(p)
           \/ BeginDrain(p) \/ StopRunSupervisors(p)
    PROVE  SlotInv'
<1> USE DEF SupInv
<1>1. /\ UNCHANGED <<lease, execRow, container, paused, pc, registered, request>>
      /\ \A q \in Procs : q # p => /\ proc'[q] = proc[q] /\ sched'[q] = sched[q]
                                   /\ todo'[q] = todo[q] /\ wake'[q] = wake[q]
                                   /\ armed'[q] = armed[q]
    BY DEF RecoverQueuedCancel, EndRecovery, Wake, ResumeTimer, BeginDrain, StopRunSupervisors,
       CallScheduleRuns, ScheduleRunsReturnsAtOnce, EnsureResumeTimer, SupTypeOK,
       storeVars, dockerVars, timerVars, threadVars, apiVars
<1>2. Alive(p)
    BY DEF RecoverQueuedCancel, EndRecovery, Wake, ResumeTimer, BeginDrain, StopRunSupervisors,
       Alive, SlotInv, ProcsOK, Resting
<1>3. /\ SupTypeOK /\ ProcsOK /\ TodoOK(p) /\ \A q \in Procs : q # p => ~Alive(q) /\ Resting(q)
      /\ todo[p] \subseteq Rows /\ todo[p] \subseteq Runs /\ sched \in [Procs -> Scheds]
      /\ armed \in [Procs -> BOOLEAN] /\ wake \in [Procs -> BOOLEAN]
    BY <1>2, TheLiving DEF SupTypeOK, Scheds
<1>4. ASSUME NEW q \in Procs, q # p, UNCHANGED status \/ ~Alive(q)
      PROVE  MovesProc(q)
    BY <1>1, <1>3, <1>4 DEF MovesProc, Alive, Quiet, Free, Unleased
<1>5. CASE RecoverQueuedCancel(p)
  <2>1. PICK r \in todo[p] :
            /\ IF r \in cancelReq THEN TransitionOrGet(r, "canceled") /\ ClearRunCancel(r)
                                  ELSE UNCHANGED <<status, cancelReq>>
            /\ todo' = [todo EXCEPT ![p] = @ \ {r}]
      BY <1>5 DEF RecoverQueuedCancel
  <2>2. /\ proc[p] = "booting" /\ UNCHANGED <<proc, sched, wake, armed>>
        /\ todo'[p] = todo[p] \ {r} /\ r \in Runs /\ r \in Rows
      BY <1>3, <1>5, <2>1 DEF RecoverQueuedCancel, timerVars, SupTypeOK
  <2>3. /\ \A x \in Runs : x # r => status'[x] = status[x]
        /\ status'[r] = status[r] \/ status'[r] \in Final
    <3>1. CASE TransitionOrGet(r, "canceled")
      <4>1. status'[r] \in Final
          BY <1>3, <2>2, <3>1, CancelEnds DEF SupTypeOK
      <4> QED BY <3>1, <4>1 DEF TransitionOrGet, SupTypeOK, StoreTypeOK
    <3>2. CASE UNCHANGED status
        BY <3>2
    <3> QED BY <2>1, <3>1, <3>2
  <2>4. MovesOn
      BY <1>1, <2>3 DEF MovesOn
  <2>5. MovesProc(p)
      BY <1>2, <1>3, <2>2, <2>3 DEF MovesProc
  <2>6. ProcsOK'
      BY <1>1, <1>3, <2>2, ProcsStay
  <2> QED BY <1>1, <1>3, <1>4, <2>4, <2>5, <2>6, GoroutinesStay
<1>6. CASE \/ EndRecovery(p) \/ Wake(p) \/ ResumeTimer(p) \/ BeginDrain(p) \/ StopRunSupervisors(p)
  <2>1. UNCHANGED status
      BY <1>6 DEF EndRecovery, Wake, ResumeTimer, BeginDrain, StopRunSupervisors, storeVars
  <2>2. /\ proc[p] # "booting" /\ proc'[p] # "booting" /\ Alive(p)'
        /\ proc[p] \in Serving => proc'[p] \in Serving
        /\ UNCHANGED todo
      BY <1>2, <1>3, <1>6 DEF EndRecovery, Wake, ResumeTimer, BeginDrain, StopRunSupervisors,
         Alive, ProcsOK, Resting, Serving, SupTypeOK, procVars
  <2>3. \/ sched'[p] = sched[p]
        \/ /\ Free(p) /\ sched'[p].step = "check" /\ sched'[p].run = NoRun
           /\ sched'[p].by \notin Threads
      BY <1>3, <1>6, NoCaller DEF EndRecovery, Wake, ResumeTimer, BeginDrain, StopRunSupervisors,
         CallScheduleRuns, ScheduleRunsReturnsAtOnce
  <2>4. /\ proc[p] = "recovering" /\ proc'[p] # "recovering" => todo[p] = {} /\ RecoveryIdle(p)
        /\ proc[p] = "stopping" => proc'[p] = "stopping"
        /\ proc'[p] = "recovering" => proc[p] = "recovering"
      BY <1>3, <1>6 DEF EndRecovery, Wake, ResumeTimer, BeginDrain, StopRunSupervisors, SupTypeOK
  <2>5. proc'[p] = "recovering" /\ Quiet(p) => Quiet(p)'
      BY <1>3, <1>6 DEF EndRecovery, Wake, ResumeTimer, BeginDrain, StopRunSupervisors, Quiet,
         SupTypeOK
  <2>6. MovesProc(p)
      BY <1>2, <2>1, <2>2, <2>3, <2>4, <2>5 DEF MovesProc
  <2>7. MovesOn
      BY <1>1, <2>1 DEF MovesOn
  <2>8. Inside(p)
      BY <1>1, <1>2, <2>2 DEF Inside
  <2>9. ProcsOK'
      BY <1>3, <2>8, InsideProcs
  <2> QED BY <1>1, <1>4, <2>1, <2>6, <2>7, <2>9, GoroutinesStay
<1> QED BY <1>5, <1>6

\* A process is born when none lives, and dies whatever it does: in both states
\* it rests.
LEMMA BirthAndDeath ==
    ASSUME OneSlot, SupInv, SupInv', SlotInv, NEW p \in Procs, Boot(p) \/ Crash(p) \/ Leave(p)
    PROVE  SlotInv'
<1> USE DEF SupInv
<1>1. UNCHANGED <<status, lease, execRow, container, paused>>
    BY DEF Boot, Crash, Leave, Die, storeVars, dockerVars, timerVars
<1>2. /\ proc'[p] \in {"booting", "dead"} /\ Resting(p)' /\ TodoOK(p)'
      /\ \A q \in Procs : q # p => ~Alive(q) /\ Resting(q)
      /\ proc'[p] = "booting" => Unleased(p)
  <2>1. CASE Boot(p)
    <3>1. proc[p] = "unborn" /\ Resting(p) /\ Unleased(p) /\ SupTypeOK
        BY <2>1 DEF Boot, SlotInv, ProcsOK, Alive
    <3>2. ASSUME NEW q \in Procs, Alive(q) PROVE FALSE
      <4>1. {x \in Procs : Alive(x)} = {q}
          BY <3>2 DEF SlotInv, ProcsOK
      <4>2. Cardinality({q}) = 1
          BY FS_Singleton
      <4> QED BY <2>1, <4>1, <4>2 DEF Boot, OneSlot
    <3>3. \A q \in Procs : ~Alive(q) /\ Resting(q)
        BY <3>2 DEF SlotInv, ProcsOK
    <3>4. Resting(p)'
        BY <2>1, <3>1 DEF Boot, Resting, AllIdle, Free, threadVars, timerVars
    <3>5. proc'[p] = "booting" /\ todo'[p] = {r \in Runs : status[r] = "queued"}
        BY <2>1, <3>1 DEF Boot, SupTypeOK
    <3>6. TodoOK(p)'
        BY <1>1, <3>5 DEF TodoOK
    <3> QED BY <3>1, <3>3, <3>4, <3>5, <3>6
  <2>2. CASE Alive(p) /\ Die(p)
    <3>1. SupTypeOK /\ \A q \in Procs : q # p => ~Alive(q) /\ Resting(q)
        BY <2>2, TheLiving
    <3>2. /\ proc'[p] = "dead" /\ todo'[p] = {} /\ sched'[p] = NobodySched /\ registered'[p] = {}
          /\ \A th \in Threads : pc'[p][th] = "idle"
          /\ ~wake'[p] /\ ~armed'[p]
        BY <2>2, <3>1 DEF Die, SupTypeOK
    <3> QED BY <3>1, <3>2 DEF Resting, AllIdle, Free, TodoOK
  <2> QED BY <2>1, <2>2 DEF Crash, Leave, Alive
<1>3. ASSUME NEW q \in Procs, q # p
      PROVE  /\ proc'[q] = proc[q] /\ pc'[q] = pc[q] /\ sched'[q] = sched[q] /\ todo'[q] = todo[q]
             /\ registered'[q] = registered[q] /\ wake'[q] = wake[q] /\ armed'[q] = armed[q]
    BY <1>3 DEF Boot, Crash, Leave, Die, SupTypeOK, threadVars, timerVars
<1>4. \A q \in Procs : q # p => ~Alive(q)' /\ Resting(q)' /\ TodoOK(q)'
    BY <1>2, <1>3 DEF Alive, Resting, AllIdle, Free, TodoOK
<1>5. \A c \in Clients : request'[c] = NoRequest
  <2> SUFFICES ASSUME NEW c \in Clients, request'[c] # NoRequest PROVE FALSE
      OBVIOUS
  <2>1. request'[c] = request[c] /\ (request[c].at = p => UNCHANGED request /\ Boot(p))
      BY DEF Boot, Crash, Leave, Die, apiVars
  <2>2. request[c].at \in Procs /\ Alive(request[c].at)
      BY <2>1 DEF SlotInv, ProcsOK, Serving, Alive
  <2> QED BY <1>2, <2>1, <2>2 DEF Boot, Alive
<1>6. ProcsOK'
  <2>1. \A q \in Procs : proc'[q] \in {"unborn", "booting"} => Unleased(q)'
      BY <1>1, <1>2, <1>3 DEF SlotInv, ProcsOK, Unleased
  <2>2. \A q \in Procs : ~Alive(q)' \/ proc'[q] = "booting" => Resting(q)'
      BY <1>2, <1>4
  <2>3. \A x, y \in Procs : Alive(x)' /\ Alive(y)' => x = y
      BY <1>4
  <2> QED BY <1>5, <2>1, <2>2, <2>3 DEF ProcsOK
<1>7. ASSUME NEW q \in Procs PROVE ProcOK(q)'
  <2>1. MaxConcurrent = 1 => \A r, x \in Runs : lease'[r] = q /\ lease'[x] = q => r = x
      BY <1>1 DEF SlotInv, ProcOK, LimitOK
  <2>2. Resting(q)' /\ TodoOK(q)' /\ (~Alive(q)' \/ proc'[q] = "booting")
      BY <1>2, <1>4 DEF Alive
  <2> QED BY <2>1, <2>2, RestingOK
<1>8. (\A r \in Runs : RunOK(r)') /\ (MaxConcurrent = 1 => OneLaunched')
    BY <1>1 DEF SlotInv, RunOK, OneLaunched, Launched
<1> QED BY <1>6, <1>7, <1>8 DEF SlotInv

-----------------------------------------------------------------------------
(* The recovery of what an earlier process left.                           *)

LEMMA BeginKeepsSlot ==
    ASSUME SupInv, SupInv', SlotInv, NEW p \in Procs, BeginRecovery(p)
    PROVE  SlotInv'
<1>1. /\ UNCHANGED <<status, lease, execRow, container, paused, pc, registered, sched, wake, armed,
                     request>>
      /\ proc[p] = "booting" /\ Alive(p)
    BY DEF BeginRecovery, storeVars, dockerVars, timerVars, threadVars, apiVars, Alive
<1>2. /\ SupTypeOK /\ ProcsOK /\ \A q \in Procs : q # p => ~Alive(q) /\ Resting(q)
      /\ Resting(p) /\ Unleased(p)
    BY <1>1, TheLiving DEF SlotInv, ProcsOK
<1>3. /\ proc'[p] = "recovering" /\ todo'[p] = {r \in Runs : status[r] = "running"}
      /\ \A q \in Procs : q # p => proc'[q] = proc[q] /\ todo'[q] = todo[q]
    BY <1>2 DEF BeginRecovery, SupTypeOK, ListRunningRuns
<1>4. ASSUME NEW q \in Procs
      PROVE  (Resting(q)' <=> Resting(q)) /\ (Unleased(q)' <=> Unleased(q))
    BY <1>1 DEF Resting, AllIdle, Free, Unleased
<1>5. ProcsOK'
  <2>1. \A c \in Clients : request'[c] = NoRequest
    <3> SUFFICES ASSUME NEW c \in Clients, request[c] # NoRequest PROVE FALSE
        BY <1>1
    <3>1. request[c].at \in Procs /\ proc[request[c].at] \in Serving
        BY <1>2 DEF ProcsOK
    <3> QED BY <1>1, <1>2, <3>1 DEF Serving, Alive
  <2>2. \A q \in Procs : q # p => ~Alive(q)'
      BY <1>2, <1>3 DEF Alive
  <2>3. \A q \in Procs : proc'[q] \in {"unborn", "booting"} => Unleased(q)'
      BY <1>2, <1>3, <1>4 DEF ProcsOK
  <2> QED BY <1>2, <1>4, <2>1, <2>2, <2>3 DEF ProcsOK
<1>6. ASSUME NEW q \in Procs, q # p PROVE ProcOK(q)'
  <2>1. Resting(q)' /\ ~Alive(q)' /\ TodoOK(q)'
      BY <1>2, <1>3, <1>4, <1>6 DEF Alive, TodoOK
  <2>2. MaxConcurrent = 1 => \A r, x \in Runs : lease'[r] = q /\ lease'[x] = q => r = x
      BY <1>1 DEF SlotInv, ProcOK, LimitOK
  <2> QED BY <2>1, <2>2, RestingOK DEF SupInv
<1>7. ProcOK(p)'
  <2>1. /\ \A th \in Threads : pc'[p][th] = "idle" /\ th \notin registered'[p]
        /\ sched'[p].step = "free" /\ sched'[p].run = NoRun
        /\ Quiet(p)' /\ AllIdle(p)'
      BY <1>1, <1>2 DEF Resting, AllIdle, Free, NobodySched, Quiet, Unleased
  <2>2. SchedOK(p)' /\ OneEach(p)'
      BY <2>1 DEF SchedOK, OneEach
  <2>3. TodoOK(p)'
      BY <1>1, <1>3, <2>1, SupervisionConstants DEF TodoOK, Attended, Working
  <2>4. \A th \in Threads : StatusOK(p, th)' /\ PlaceOK(p, th)'
      BY <2>1, LabelsDiffer DEF StatusOK, PlaceOK
  <2>5. LimitOK(p)'
    <3>1. Launched' \subseteq todo'[p]
        BY <1>1, <1>2, <1>3 DEF Launched, SupTypeOK
    <3>2. \A r \in Runs : pc'[p][Main(r)] \notin Exits
        BY <2>1, LabelsDiffer, MainThread
    <3>3. Unleased(p)'
        BY <1>2, <1>4
    <3> QED BY <1>3, <2>1, <3>1, <3>2, <3>3 DEF LimitOK, Unleased
  <2> QED BY <2>2, <2>3, <2>4, <2>5 DEF ProcOK
<1>8. (\A r \in Runs : RunOK(r)') /\ (MaxConcurrent = 1 => OneLaunched')
    BY <1>1 DEF SlotInv, RunOK, OneLaunched, Launched
<1> QED BY <1>5, <1>6, <1>7, <1>8 DEF SlotInv

\* The loop looks at one run: it may put a goroutine on it, or be on it itself.
LEMMA RecoverStep ==
    ASSUME SupInv, SupInv', Rows \subseteq Rows', SlotInv, NEW p \in Procs,
           proc[p] = "recovering", RecoveryIdle(p), NEW r \in todo[p],
           NEW th \in Threads, th[1] = r, todo' = [todo EXCEPT ![p] = @ \ {r}],
           UNCHANGED <<container, paused, sched, registered, wake, armed, proc, request>>,
           \A o \in Threads : o # th => pc'[p][o] = pc[p][o],
           \A q \in Procs : q # p => pc'[q] = pc[q],
           \A x \in Runs : x # r => /\ status'[x] = status[x] /\ lease'[x] = lease[x]
                                    /\ x \in execRow' <=> x \in execRow,
           lease'[r] \in {lease[r], NoProc, p}, lease'[r] = p => lease[r] = p \/ r \in Launched,
           pc'[p][th] # "idle" => r \in Launched,
           pc'[p][th] \in Exits => lease' = lease,
           StatusOK(p, th)', PlaceOK(p, th)', RunOK(r)',
           r \in Launched' => r \in Launched /\ (lease'[r] = p \/ pc'[p][Main(r)] \in Exits)
    PROVE  SlotInv'
<1>0. Alive(p) /\ SupTypeOK /\ SupTypeOK'
    BY DEF Alive, SupInv
<1>1. /\ SupTypeOK /\ ProcsOK /\ SchedOK(p) /\ TodoOK(p) /\ OneEach(p) /\ Alive(p)
      /\ \A o \in Threads : StatusOK(p, o) /\ PlaceOK(p, o)
      /\ MaxConcurrent = 1 => LimitOK(p)
      /\ r \in Rows /\ r \in Runs /\ r # NoRun /\ p # NoProc
      /\ execRow \subseteq Runs /\ execRow' \subseteq Runs
  <2>1. execRow \subseteq Runs /\ execRow' \subseteq Runs
      BY <1>0 DEF SupTypeOK
  <2> QED BY <1>0, <2>1, TheLiving, SupervisionConstants
<1>2. /\ status[r] = "running" /\ sched[p].run # r
      /\ \A o \in Threads : o[1] = r => pc[p][o] = "idle"
    BY <1>1 DEF TodoOK, Attended, Working
<1>3. todo'[p] = todo[p] \ {r} /\ \A q \in Procs : q # p => todo'[q] = todo[q]
    BY <1>1 DEF SupTypeOK
<1>4. Inside(p)
  <2>1. \A x \in Runs : lease'[x] \in {lease[x], p, NoProc}
      OBVIOUS
  <2> QED BY <1>1, <1>3, <2>1 DEF Inside, Alive
<1>5. ProcsOK'
    BY <1>1, <1>4, InsideProcs
<1>6. SchedOK(p)'
  <2>1. ASSUME sched[p].step = "claimed"
        PROVE  status'[sched[p].run] # "queued" /\ ~Working(p, sched[p].run)'
      BY <1>1, <1>2, <2>1 DEF SchedOK, Working
  <2>2. sched[p].step # "free" /\ sched[p].by \in Threads => pc'[p][sched[p].by] = "insched"
      BY <1>1, <1>2 DEF SchedOK
  <2> QED BY <1>1, <2>1, <2>2 DEF SchedOK
<1>7. TodoOK(p)'
  <2> SUFFICES ASSUME NEW x \in todo'[p] PROVE status'[x] = "running" /\ ~Attended(p, x)'
      BY DEF TodoOK
  <2>1. x \in todo[p] /\ x # r /\ x \in Runs
      BY <1>1, <1>3 DEF SupTypeOK
  <2>2. status[x] = "running" /\ sched[p].run # x /\ \A o \in Threads : o[1] = x => pc[p][o] = "idle"
      BY <1>1, <2>1 DEF TodoOK, Attended, Working
  <2> QED BY <2>1, <2>2 DEF Attended, Working
<1>8. OneEach(p)'
    BY <1>1, <1>2 DEF OneEach
<1>9. ASSUME NEW o \in Threads, o # th PROVE StatusOK(p, o)' /\ PlaceOK(p, o)'
  <2>1. StatusOK(p, o) /\ PlaceOK(p, o) /\ o[1] \in Runs /\ pc'[p][o] = pc[p][o]
      BY <1>1, <1>9, RunOfThread
  <2>2. CASE pc[p][o] = "idle"
      BY <2>1, <2>2, LabelsDiffer DEF StatusOK, PlaceOK
  <2>3. CASE pc[p][o] # "idle"
    <3>1. o[1] # r
        BY <1>2, <2>3
    <3> QED BY <2>1, <2>3, <3>1 DEF StatusOK, PlaceOK
  <2> QED BY <2>2, <2>3
<1>10. ASSUME NEW x \in Runs PROVE RunOK(x)'
    BY DEF SlotInv, RunOK
<1>11. ASSUME MaxConcurrent = 1 PROVE LimitOK(p)' /\ OneLaunched'
  <2>1. LimitOK(p) /\ OneLaunched
      BY <1>1, <1>11 DEF SlotInv
  <2>2. \A x \in Launched' : x # r => x \in Launched
      BY <1>1 DEF Launched
  <2>3. ASSUME r \in Launched
        PROVE  /\ sched[p].step = "free" /\ ~wake[p] /\ ~armed[p] /\ Free(p) /\ Unleased(p) /\ AllIdle(p)
               /\ \A x \in Launched' : x = r
    <3>1. Quiet(p) /\ AllIdle(p)
        BY <2>1, <2>3 DEF LimitOK
    <3>2. \A x \in Launched' : x = r
        BY <2>1, <2>2, <2>3 DEF OneLaunched
    <3> QED BY <1>1, <3>1, <3>2, NoCaller DEF Quiet, Free
  <2>4. sched'[p].step \in {"claim", "claimed"} => Unleased(p)'
    <3> SUFFICES ASSUME sched[p].step \in {"claim", "claimed"}, NEW x \in Runs, lease'[x] = p
                 PROVE  FALSE
        BY DEF Unleased
    <3>1. r \notin Launched /\ lease[x] = p
        BY <2>3
    <3> QED BY <2>1, <3>1 DEF LimitOK, Unleased
  <2>5. \A y, x \in Runs : lease'[y] = p /\ lease'[x] = p => y = x
    <3>1. CASE r \in Launched
      <4>1. \A x \in Runs : lease'[x] = p => x = r
          BY <2>3, <3>1 DEF Unleased
      <4> QED BY <4>1
    <3>2. CASE r \notin Launched
        BY <2>1, <3>2 DEF LimitOK
    <3> QED BY <3>1, <3>2
  <2>6. ASSUME todo'[p] \cap Launched' # {} PROVE Quiet(p)' /\ AllIdle(p)'
    <3>1. PICK x \in todo'[p] : x \in Launched'
        BY <2>6
    <3>2. x \in todo[p] /\ x # r /\ x \in Launched
        BY <1>3, <2>2, <3>1
    <3>3. r \notin Launched
        BY <2>1, <3>2 DEF OneLaunched
    <3>4. Quiet(p) /\ AllIdle(p)
        BY <2>1, <3>2 DEF LimitOK
    <3>5. Unleased(p)'
        BY <3>3, <3>4 DEF Quiet, Unleased
    <3> QED BY <3>3, <3>4, <3>5 DEF Quiet, Free, AllIdle
  <2>7. ASSUME NEW x \in Runs, pc'[p][Main(x)] \in Exits
        PROVE  /\ Quiet(p)' /\ todo'[p] \cap Launched' = {}
               /\ \A o \in Threads : pc'[p][o] = "idle" \/ o = Main(x)
    <3>1. Main(x) \in Threads /\ Main(x)[1] = x /\ pc[p][Main(x)] = "idle"
        BY <2>7, MainThread DEF RecoveryIdle
    <3>2. Main(x) = th /\ r \in Launched
        BY <2>7, <3>1, LabelsDiffer
    <3>3. lease' = lease
        BY <2>7, <3>2
    <3> QED BY <1>3, <2>3, <3>2, <3>3 DEF Quiet, Free, Unleased, AllIdle
  <2>8. ASSUME NEW x \in Launched'
        PROVE  \/ x \in todo'[p] \/ lease'[x] = p \/ pc'[p][Main(x)] \in Exits \/ sched'[p].run = x
    <3>1. CASE x = r
        BY <2>8, <3>1
    <3>2. CASE x # r
      <4>1. x \in Launched /\ x \in Runs
          BY <1>1, <2>2, <2>8, <3>2 DEF Launched
      <4>2. pc[p][Main(x)] \notin Exits
          BY <4>1, LabelsDiffer DEF RecoveryIdle
      <4> QED BY <1>1, <1>3, <2>1, <3>2, <4>1, <4>2 DEF LimitOK
    <3> QED BY <3>1, <3>2
  <2>9. OneLaunched'
      BY <2>1, <2>2, <2>3 DEF OneLaunched
  <2>10. proc'[p] = "recovering"
      OBVIOUS
  <2> QED BY <2>4, <2>5, <2>6, <2>7, <2>8, <2>9, <2>10 DEF LimitOK
<1>12. ProcOK(p)'
    BY <1>6, <1>7, <1>8, <1>9, <1>11 DEF ProcOK
<1>13. \A q \in Procs : ProcOK(q)'
    BY <1>4, <1>12, OthersRest
<1> QED BY <1>5, <1>10, <1>11, <1>13 DEF SlotInv

LEMMA RecoverKeepsSlot ==
    ASSUME SupInv, SupInv', Rows \subseteq Rows', SlotInv, NEW p \in Procs, RecoverRunningRun(p)
    PROVE  SlotInv'
<1>1. PICK r \in todo[p] : /\ RecoverDetached(p, r) \/ RecoverUnlaunched(p, r)
                           /\ todo' = [todo EXCEPT ![p] = @ \ {r}]
    BY DEF RecoverRunningRun
<1>2. /\ proc[p] = "recovering" /\ RecoveryIdle(p)
      /\ UNCHANGED <<container, paused, sched, registered, wake, armed, proc, request>>
    BY DEF RecoverRunningRun, timerVars, apiVars
<1>3. Alive(p) /\ SupTypeOK
    BY <1>2 DEF Alive, SupInv
<1>4. /\ TodoOK(p) /\ r \in Rows /\ r \in Runs /\ r \in Rows'
      /\ \A o \in Threads : StatusOK(p, o) /\ PlaceOK(p, o)
    BY <1>3, TheLiving
<1>5. /\ status[r] = "running" /\ \A o \in Threads : o[1] = r => pc[p][o] = "idle"
    BY <1>2, <1>4 DEF TodoOK, Attended, Working
<1>6. /\ Main(r) \in Threads /\ Main(r)[1] = r /\ RunOK(r) /\ pc[p][Main(r)] = "idle"
      /\ Main(r) \notin registered[p] /\ p # NoProc
    BY <1>2, <1>4, MainThread, SupervisionConstants DEF SlotInv, PlaceOK, RecoveryIdle
<1>7. /\ status \in [Runs -> Statuses] /\ lease \in [Runs -> Procs \cup {NoProc}]
      /\ execRow \subseteq Runs /\ container \in [Runs -> {"absent", "running"} \cup Exits]
    BY <1>3 DEF SupTypeOK, StoreTypeOK
\* The container is gone: the run fails.
<1>8. CASE r \in execRow /\ container[r] = "absent" /\ FailMissing(r) /\ Goto(p, Main(r), "finish")
  <2>1. /\ pc'[p][Main(r)] = "finish"
        /\ \A o \in Threads : o # Main(r) => pc'[p][o] = pc[p][o]
        /\ \A q \in Procs : q # p => pc'[q] = pc[q]
      BY <1>3, <1>6, <1>8, GotoAt
  <2>2. /\ status'[r] = "failed" /\ \A x \in Runs : x # r => status'[x] = status[x]
      BY <1>4, <1>5, <1>7, <1>8 DEF FailMissing, TransitionOrGet, CanTransition, Transitions, Final
  <2>3. /\ lease'[r] = NoProc /\ \A x \in Runs : x # r => lease'[x] = lease[x]
        /\ r \notin execRow' /\ \A x \in Runs : x # r => (x \in execRow' <=> x \in execRow)
      BY <1>4, <1>7, <1>8 DEF FailMissing, DeleteRunExecution
  <2>4. StatusOK(p, Main(r))'
      BY <1>4, <1>6, <2>1, <2>2, LabelsDiffer DEF StatusOK
  <2>5. PlaceOK(p, Main(r))'
      BY <1>2, <1>6, <2>1, LabelsDiffer DEF PlaceOK
  <2>6. RunOK(r)'
      BY <1>2, <1>8 DEF RunOK
  <2>7. r \in Launched /\ r \notin Launched'
      BY <1>5, <1>8, <2>2 DEF Launched
  <2> QED BY <1>1, <1>2, <1>6, <2>1, <2>2, <2>3, <2>4, <2>5, <2>6, <2>7, LabelsDiffer, RecoverStep
\* It is at work: a supervisor takes it.
<1>9. ASSUME r \in execRow, lease' = [lease EXCEPT ![r] = p], NEW th \in Threads,
             IsNewThread(p, r, th), Goto(p, th, "register"), UNCHANGED <<status, execRow>>
      PROVE  SlotInv'
  <2>1. /\ pc'[p][th] = "register"
        /\ \A o \in Threads : o # th => pc'[p][o] = pc[p][o]
        /\ \A q \in Procs : q # p => pc'[q] = pc[q]
      BY <1>3, <1>9, GotoAt
  <2>2. /\ lease'[r] = p /\ \A x \in Runs : x # r => lease'[x] = lease[x]
      BY <1>4, <1>7, <1>9
  <2>3. th[1] = r /\ pc[p][th] = "idle" /\ th # Main(r) /\ th \notin registered[p]
    <3>1. th[1] = r /\ th[2] # 0
        BY <1>9 DEF IsNewThread
    <3>2. th # Main(r)
        BY <3>1 DEF Main
    <3> QED BY <1>4, <1>5, <3>1, <3>2 DEF PlaceOK
  <2>4. StatusOK(p, th)'
      BY <1>4, <1>5, <1>9, <2>1, <2>3, LabelsDiffer DEF StatusOK
  <2>5. PlaceOK(p, th)'
      BY <1>2, <2>1, <2>2, <2>3, LabelsDiffer DEF PlaceOK
  <2>6. RunOK(r)'
      BY <1>2, <1>6, <1>9 DEF RunOK
  <2>7. r \in Launched
      BY <1>5, <1>9 DEF Launched
  <2>8. /\ \A x \in Runs : x # r => /\ status'[x] = status[x] /\ lease'[x] = lease[x]
                                    /\ x \in execRow' <=> x \in execRow
        /\ pc'[p][th] \notin Exits
      BY <1>9, <2>1, <2>2, LabelsDiffer
  <2>9. /\ lease'[r] \in {lease[r], NoProc, p} /\ (lease'[r] = p => lease[r] = p \/ r \in Launched)
        /\ pc'[p][th] # "idle" => r \in Launched
        /\ pc'[p][th] \in Exits => lease' = lease
        /\ r \in Launched' => r \in Launched /\ (lease'[r] = p \/ pc'[p][Main(r)] \in Exits)
      BY <2>2, <2>7, <2>8
  <2>10. th \in Threads
      BY <1>9
  <2> QED BY <1>1, <1>2, <2>1, <2>3, <2>4, <2>5, <2>6, <2>8, <2>9, <2>10, RecoverStep
\* It exited: the loop settles it.
<1>10. CASE /\ r \in execRow /\ container[r] \in Exits /\ Goto(p, Main(r), container[r])
            /\ UNCHANGED <<status, execRow, lease>>
  <2>1. /\ pc'[p][Main(r)] = container[r]
        /\ \A o \in Threads : o # Main(r) => pc'[p][o] = pc[p][o]
        /\ \A q \in Procs : q # p => pc'[q] = pc[q]
      BY <1>3, <1>6, <1>10, GotoAt
  <2>2. StatusOK(p, Main(r))'
      BY <1>4, <1>5, <1>6, <1>10, <2>1, LabelsDiffer DEF StatusOK
  <2>3. PlaceOK(p, Main(r))'
      BY <1>2, <1>6, <1>10, <2>1, LabelsDiffer DEF PlaceOK, RunOK
  <2>4. RunOK(r)'
      BY <1>2, <1>6, <1>10 DEF RunOK
  <2>5. r \in Launched
      BY <1>5, <1>10 DEF Launched
  <2> QED BY <1>1, <1>2, <1>6, <1>10, <2>1, <2>2, <2>3, <2>4, <2>5, LabelsDiffer, RecoverStep
\* It was never launched.
<1>11. CASE RecoverUnlaunched(p, r)
  <2>1. r \notin execRow /\ UNCHANGED <<execRow, pc>>
      BY <1>11 DEF RecoverUnlaunched
  <2>2. /\ \A x \in Runs : x # r => status'[x] = status[x] /\ lease'[x] = lease[x]
        /\ lease'[r] \in {lease[r], NoProc}
      BY <1>4, <1>7, <1>11 DEF RecoverUnlaunched, TransitionOrGet, Requeue
  <2>3. StatusOK(p, Main(r))' /\ PlaceOK(p, Main(r))'
      BY <1>2, <1>6, <2>1, LabelsDiffer DEF StatusOK, PlaceOK
  <2>4. RunOK(r)'
      BY <1>2, <1>6, <2>1 DEF RunOK
  <2>5. r \notin Launched'
      BY <2>1 DEF Launched
  <2> QED BY <1>1, <1>2, <1>6, <2>1, <2>2, <2>3, <2>4, <2>5, LabelsDiffer, RecoverStep
<1> QED BY <1>1, <1>8, <1>9, <1>10, <1>11 DEF RecoverDetached

-----------------------------------------------------------------------------
(* The invariant.                                                          *)

LEMMA SlotInit == SupInit => SlotInv
<1> SUFFICES ASSUME SupInit PROVE SlotInv
    OBVIOUS
<1>1. /\ \A p \in Procs : /\ proc[p] = "unborn" /\ sched[p] = NobodySched /\ registered[p] = {}
                          /\ ~wake[p] /\ ~armed[p] /\ todo[p] = {}
                          /\ \A th \in Threads : pc[p][th] = "idle"
      /\ \A c \in Clients : request[c] = NoRequest
      /\ execRow = {} /\ \A r \in Runs : lease[r] = NoProc /\ container[r] = "absent"
    BY DEF SupInit
<1>2. NobodySched.step = "free" /\ NobodySched.run = NoRun
    BY DEF NobodySched
<1>3. \A p \in Procs : Resting(p) /\ Unleased(p) /\ ~Alive(p)
    BY <1>1, SupervisionConstants DEF Resting, AllIdle, Free, Unleased, Alive
<1>4. ProcsOK
    BY <1>1, <1>3 DEF ProcsOK
<1>5. ASSUME NEW p \in Procs PROVE ProcOK(p)
  <2>1. SchedOK(p) /\ TodoOK(p) /\ OneEach(p)
      BY <1>1, <1>2 DEF SchedOK, TodoOK, OneEach
  <2>2. \A th \in Threads : StatusOK(p, th) /\ PlaceOK(p, th)
      BY <1>1, LabelsDiffer DEF StatusOK, PlaceOK
  <2>3. \A r \in Runs : pc[p][Main(r)] = "idle"
      BY <1>1, MainThread
  <2>4. LimitOK(p)
      BY <1>1, <1>2, <1>3, <2>3, LabelsDiffer DEF LimitOK, Unleased
  <2> QED BY <2>1, <2>2, <2>4 DEF ProcOK
<1>6. (\A r \in Runs : RunOK(r)) /\ OneLaunched
    BY <1>1 DEF RunOK, OneLaunched, Launched
<1> QED BY <1>4, <1>5, <1>6 DEF SlotInv

LEMMA SlotStep ==
    ASSUME OneSlot, SupInv, SlotInv, [Next]_vars
    PROVE  SlotInv'
<1>1. SupInv' /\ Rows \subseteq Rows'
    BY SupStep, RowsStay DEF SupInv, SupTypeOK
<1> QED BY <1>1, ThreadKeepsSlot, ScheduleKeepsSlot, OutsideKeepsSlot, RequestKeepsSlot,
        HandleKeepsSlot, ProcessKeepsSlot, BirthAndDeath, BeginKeepsSlot, RecoverKeepsSlot
        DEF Next, Startup

LEMMA SlotInvHolds == ASSUME OneSlot PROVE Spec => [](SupInv /\ SlotInv)
<1>1. SupInv /\ SlotInv /\ [Next]_vars => (SupInv /\ SlotInv)'
    BY SlotStep, SupStep
<1>2. SupInit => SupInv /\ SlotInv
    BY SupInitInv, SlotInit
<1> QED BY <1>1, <1>2, PTL DEF Spec

-----------------------------------------------------------------------------
(* What follows.                                                           *)

\* A container at work has its execution row, at every step of every process:
\* the process that starts after a crash finds it.
THEOREM AdoptableHolds == ASSUME OneSlot PROVE Spec => []Adoptable
<1>1. SupInv /\ SlotInv => Adoptable
    BY DEF SlotInv, RunOK, Adoptable
<1> QED BY <1>1, SlotInvHolds, PTL

\* With one run at a time, or without limits, the goroutine a process had on a
\* run is gone when its scheduler claims that run again.  OneGoroutineAtWork, at
\* the end, says what remains of that at any limit.
LEMMA GoroutinesAreFresh == ASSUME OneSlot PROVE Spec => []FreshGoroutine
<1>1. SupInv /\ SlotInv => FreshGoroutine
    BY DEF SlotInv, ProcOK, SchedOK, FreshGoroutine
<1> QED BY <1>1, SlotInvHolds, PTL

\* A step takes nobody away from a running run, and whoever sets one running
\* goes on to work on it.
Cared(r) ==
    /\ \A p \in Procs : Attended(p, r) => Attended(p, r)'
    /\ status[r] = "running" \/ \E p \in Procs : Attended(p, r)'

Leaving == {"draining", "stopping", "dead"}

LEMMA ThreadCares ==
    ASSUME SupInv, SlotInv, NEW p \in Procs, NEW th \in Threads, Thread(p, th),
           NEW r \in Runs, status'[r] = "running", proc'[p] \notin Leaving
    PROVE  Cared(r)
<1>1. Leaves(p, th) /\ Spares(p, th) /\ StatusOK(p, th) /\ SupTypeOK
    BY ThreadLeaves, ThreadSpares, Stands DEF SupInv
<1>2. pc'[p][th] = "idle" => Unwind(p, th)
  <2>1. ASSUME NEW l, Goto(p, th, l) PROVE pc'[p][th] = l
      BY <1>1, <2>1, GotoAt
  <2> SUFFICES ASSUME Thread(p, th), ~Unwind(p, th) PROVE pc'[p][th] # "idle"
      OBVIOUS
  <2>2. CASE ExecuteRun(p, th) \/ Prepare(p, th) \/ Launch(p, th) \/ Record(p, th)
      BY <2>1, <2>2 DEF ExecuteRun, Prepare, Launch, Record
  <2>3. CASE Register(p, th) \/ StopWatching(p, th) \/ WatchCancel(p, th) \/ WatchCredential(p, th)
      BY <2>1, <2>3 DEF Register, StopWatching, WatchCancel, WatchCredential
  <2>4. CASE WatchExit(p, th)
      BY <2>1, <2>4, LabelsDiffer DEF WatchExit
  <2>5. CASE WatchMissing(p, th) \/ Settle(p, th) \/ RemoveContainer(p, th)
      BY <2>1, <2>5 DEF WatchMissing, Settle, RemoveContainer
  <2>6. CASE ForgetExecution(p, th) \/ FinishRun(p, th) \/ Reschedule(p, th)
      BY <2>1, <2>6 DEF ForgetExecution, FinishRun, Reschedule
  <2> QED BY <2>2, <2>3, <2>4, <2>5, <2>6 DEF Thread, Watch
<1>3. th[1] = r => pc'[p][th] # "idle"
  <2> SUFFICES ASSUME th[1] = r, Unwind(p, th) PROVE FALSE
      BY <1>2
  <2>1. pc[p][th] = "unwind" /\ status[r] = "running" /\ proc[p] \notin Leaving
      BY DEF Unwind, storeVars, procVars
  <2> QED BY <1>1, <2>1 DEF StatusOK, Leaving
<1>4. ASSUME NEW q \in Procs, Attended(q, r) PROVE Attended(q, r)'
  <2>1. CASE q # p
      BY <1>1, <1>4, <2>1 DEF Attended, Working, Leaves
  <2>2. CASE q = p /\ sched[p].run = r
    <3>1. ~Free(p)
        BY <2>2, NoCaller, SupervisionConstants DEF Free, SupInv
    <3> QED BY <1>1, <2>2, <3>1 DEF Attended, Spares
  <2>3. CASE q = p /\ Working(p, r)
    <3>1. PICK o \in Threads : o[1] = r /\ pc[p][o] # "idle"
        BY <2>3 DEF Working
    <3>2. pc'[p][o] # "idle"
        BY <1>1, <1>3, <3>1 DEF Leaves
    <3> QED BY <2>3, <3>1, <3>2 DEF Attended, Working
  <2> QED BY <1>4, <2>1, <2>2, <2>3 DEF Attended
<1>5. status[r] = "running" \/ Attended(p, r)'
  <2>1. CASE th[1] = r
      BY <1>3, <2>1 DEF Attended, Working
  <2>2. CASE th[1] # r
      BY <1>1, <2>2 DEF Spares
  <2> QED BY <2>1, <2>2
<1> QED BY <1>4, <1>5 DEF Cared

LEMMA ScheduleCares ==
    ASSUME SupInv, SlotInv, NEW p \in Procs, Schedule(p), NEW r \in Runs, status'[r] = "running"
    PROVE  Cared(r)
<1> USE DEF SupInv
<1>0. /\ SupTypeOK /\ SchedOK(p) /\ sched \in [Procs -> Scheds] /\ status \in [Runs -> Statuses]
      /\ r # NoRun /\ (sched[p].step # "claimed" => sched[p].run = NoRun)
    BY SupervisionConstants DEF SupTypeOK, StoreTypeOK, Scheds, SlotInv, ProcOK, SchedOK
<1>1. ASSUME \A q \in Procs : \A th \in Threads : pc[q][th] # "idle" => pc'[q][th] # "idle",
             \A q \in Procs : sched[q].run = r => sched'[q].run = r,
             status[r] = "running"
      PROVE  Cared(r)
    BY <1>1 DEF Cared, Attended, Working
<1>2. ASSUME ReturnFromSchedule(p), sched[p].step # "free", sched[p].run # r, status[r] = "running"
      PROVE  Cared(r)
  <2>1. /\ \A q \in Procs : \A th \in Threads : pc[q][th] # "idle" => pc'[q][th] # "idle"
        /\ \A q \in Procs : sched[q].run = r => sched'[q].run = r
      BY <1>2, Returned
  <2> QED BY <1>1, <1>2, <2>1
<1>3. CASE ScheduleCheck(p)
  <2>1. status[r] = "running" /\ sched[p].run # r /\ sched[p].step # "free"
      BY <1>0, <1>3 DEF ScheduleCheck, storeVars
  <2>2. CASE sched' = [sched EXCEPT ![p].step = "claim"] /\ UNCHANGED pc
    <3>1. \A q \in Procs : sched[q].run = r => sched'[q].run = r
        BY <1>0, <2>1, <2>2 DEF Scheds
    <3> QED BY <1>1, <2>1, <2>2, <3>1
  <2> QED BY <1>2, <1>3, <2>1, <2>2 DEF ScheduleCheck
<1>4. CASE ScheduleClaim(p)
  <2>1. ASSUME NEW x \in Runs, ClaimNextQueuedRun(sched[p].prefer, x),
               sched' = [sched EXCEPT ![p].step = "claimed", ![p].run = x, ![p].prefer = NoTask],
               UNCHANGED pc
        PROVE  Cared(r)
    <3>1. status' = [status EXCEPT ![x] = "running"]
        BY <2>1 DEF ClaimNextQueuedRun
    <3>2. /\ sched'[p].run = x /\ \A q \in Procs : q # p => sched'[q] = sched[q]
        BY <1>0, <2>1 DEF Scheds
    <3>3. sched[p].run # r
        BY <1>0, <1>4 DEF ScheduleClaim
    <3>4. \A q \in Procs : Attended(q, r) => Attended(q, r)'
        BY <2>1, <3>2, <3>3 DEF Attended, Working
    <3>5. CASE x = r
        BY <3>2, <3>4, <3>5 DEF Cared, Attended
    <3>6. CASE x # r
        BY <1>0, <3>1, <3>4, <3>6 DEF Cared
    <3> QED BY <3>5, <3>6
  <2>2. CASE ReturnFromSchedule(p) /\ UNCHANGED status
      BY <1>0, <1>2, <1>4, <2>2 DEF ScheduleClaim
  <2> QED BY <1>4, <2>1, <2>2 DEF ScheduleClaim
<1>5. CASE ScheduleSpawn(p)
  <2> DEFINE x == sched[p].run
  <2>1. sched[p].step = "claimed" /\ x \in Rows
      BY <1>5 DEF ScheduleSpawn, Known, SchedKnows
  <2>2. ASSUME TransitionOrGet(x, "canceled") PROVE x # r /\ status[r] = "running"
    <3>1. status'[x] \in Final
        BY <2>1, <2>2, CancelEnds DEF SupTypeOK
    <3>2. x # r
        BY <3>1 DEF Final
    <3> QED BY <1>0, <2>2, <3>2 DEF TransitionOrGet
  <2>3. CASE /\ TransitionOrGet(x, "canceled") /\ UNCHANGED pc
             /\ sched' = [sched EXCEPT ![p].step = "check", ![p].run = NoRun]
    <3>1. \A q \in Procs : sched[q].run = r => sched'[q].run = r
        BY <1>0, <2>2, <2>3 DEF Scheds
    <3> QED BY <1>1, <2>2, <2>3, <3>1
  <2>4. CASE TransitionOrGet(x, "canceled") /\ ReturnFromSchedule(p)
      BY <1>2, <2>1, <2>2, <2>4
  <2>5. ASSUME NEW th \in Threads, IsNewThread(p, x, th), Goto(p, th, "exec"),
               sched' = [sched EXCEPT ![p].step = "check", ![p].run = NoRun], UNCHANGED status
        PROVE  Cared(r)
    <3>1. /\ pc'[p][th] = "exec" /\ th[1] = x
          /\ \A q \in Procs : \A o \in Threads : pc[q][o] # "idle" => pc'[q][o] # "idle"
        BY <1>0, <2>5, GotoAt DEF IsNewThread
    <3>2. \A q \in Procs : q # p => sched'[q] = sched[q]
        BY <1>0, <2>5
    <3>3. x = r => Attended(p, r)'
        BY <3>1 DEF Attended, Working
    <3>4. \A q \in Procs : Attended(q, r) => Attended(q, r)'
        BY <3>1, <3>2, <3>3 DEF Attended, Working
    <3> QED BY <2>5, <3>4 DEF Cared
  <2> QED BY <1>5, <2>3, <2>4, <2>5 DEF ScheduleSpawn
<1> QED BY <1>3, <1>4, <1>5 DEF Schedule

\* The other steps take no goroutine away, and set no run running.
LEMMA OthersCare ==
    ASSUME SupInv, SlotInv, NEW r \in Runs, status'[r] = "running",
           \A p \in Procs, th \in Threads : pc[p][th] # "idle" => pc'[p][th] # "idle",
           \A p \in Procs : sched'[p] = sched[p] \/ Free(p),
           \/ UNCHANGED status
           \/ \E x \in Runs, to \in Final : TransitionOrGet(x, to) \/ SetRunStatus(x, to)
           \/ \E x \in Runs : Requeue(x) \/ AddRun(x)
           \/ \E t \in Tasks : CancelQueuedRuns(t)
    PROVE  Cared(r)
<1>1. status \in [Runs -> Statuses] /\ SupTypeOK
    BY DEF SupInv, SupTypeOK, StoreTypeOK
<1>2. status[r] = "running"
    BY <1>1 DEF TransitionOrGet, SetRunStatus, Requeue, AddRun, CancelQueuedRuns, Final
<1>3. \A p \in Procs : sched[p].run = r => sched'[p] = sched[p]
    BY <1>1, NoCaller, SupervisionConstants DEF Free
<1> QED BY <1>2, <1>3 DEF Cared, Attended, Working

LEMMA ProcessCares ==
    ASSUME SupInv, SlotInv, NEW p \in Procs, NEW r \in Runs, status'[r] = "running",
           proc'[p] \notin Leaving,
           \/ Boot(p) \/ Startup(p) \/ Wake(p) \/ ResumeTimer(p)
           \/ Crash(p) \/ BeginDrain(p) \/ Leave(p) \/ StopRunSupervisors(p)
    PROVE  Cared(r)
<1> USE DEF storeVars, threadVars
<1>1. SupTypeOK /\ todo[p] \subseteq Runs /\ sched \in [Procs -> Scheds]
    BY DEF SupInv, SupTypeOK, Scheds
<1>2. CASE Crash(p) \/ BeginDrain(p) \/ Leave(p) \/ StopRunSupervisors(p)
    BY <1>1, <1>2 DEF Crash, BeginDrain, Leave, StopRunSupervisors, Die, Leaving, SupTypeOK
<1>3. CASE Boot(p) \/ BeginRecovery(p) \/ EndRecovery(p) \/ ResumeTimer(p)
    BY <1>3, OthersCare DEF Boot, BeginRecovery, EndRecovery, ResumeTimer
<1>4. CASE Wake(p)
  <2>1. \A q \in Procs : sched'[q] = sched[q] \/ Free(q)
      BY <1>1, <1>4 DEF Wake, CallScheduleRuns, ScheduleRunsReturnsAtOnce
  <2> QED BY <1>4, <2>1, OthersCare DEF Wake
<1>5. CASE RecoverQueuedCancel(p)
    BY <1>1, <1>5, OthersCare DEF RecoverQueuedCancel, Final
<1>6. CASE RecoverRunningRun(p)
  <2>1. PICK x \in todo[p] : RecoverDetached(p, x) \/ RecoverUnlaunched(p, x)
      BY <1>6 DEF RecoverRunningRun
  <2>2. UNCHANGED sched /\ x \in Runs /\ Main(x) \in Threads
      BY <1>1, <1>6, MainThread DEF RecoverRunningRun
  <2>3. ASSUME NEW th \in Threads, NEW l, Goto(p, th, l), l # "idle"
        PROVE  \A q \in Procs, o \in Threads : pc[q][o] # "idle" => pc'[q][o] # "idle"
      BY <1>1, <2>3, GotoAt
  <2>4. CASE RecoverDetached(p, x)
    <3>1. \A q \in Procs, o \in Threads : pc[q][o] # "idle" => pc'[q][o] # "idle"
        BY <2>2, <2>3, <2>4, LabelsDiffer DEF RecoverDetached
    <3>2. UNCHANGED status \/ TransitionOrGet(x, "failed")
        BY <2>4 DEF RecoverDetached, FailMissing
    <3> QED BY <2>2, <3>1, <3>2, OthersCare DEF Final
  <2>5. CASE RecoverUnlaunched(p, x)
    <3>1. UNCHANGED status \/ TransitionOrGet(x, "canceled") \/ Requeue(x)
        BY <2>5 DEF RecoverUnlaunched
    <3> QED BY <2>2, <2>5, <3>1, OthersCare DEF RecoverUnlaunched, Final
  <2> QED BY <2>1, <2>4, <2>5
<1> QED BY <1>2, <1>3, <1>4, <1>5, <1>6 DEF Startup

LEMMA RequestCares ==
    ASSUME SupInv, SlotInv, NEW c \in Clients, Request(c) \/ HandleRequest(c),
           NEW r \in Runs, status'[r] = "running"
    PROVE  Cared(r)
<1> USE DEF storeVars, threadVars
<1>1. /\ request[c].step \in OfARun => request[c].run \in Runs
      /\ request[c].step = "sweep" => request[c].task \in Tasks
      /\ SupTypeOK
    BY DEF SupInv, Known, RequestKnows
<1>2. {"add", "write", "cancelQueued", "cancelActive", "dequeue", "stop"} \subseteq OfARun
    BY DEF OfARun, RequestSteps
<1>3. CASE Request(c)
  <2>1. UNCHANGED status
      BY <1>3 DEF Request, CreateRun, CancelRun, CloseIssue
  <2> QED BY <1>3, <2>1, OthersCare DEF Request
<1>4. CASE /\ AddQueuedRun(c) \/ WriteRunFiles(c) \/ PersistCancel(c) \/ Dequeue(c)
              \/ SweepQueued(c) \/ CancelRunning(c)
           /\ UNCHANGED <<sched, pc>>
  <2>2. \/ UNCHANGED status
        \/ \E x \in Runs : AddRun(x)
        \/ \E x \in Runs, to \in Final : TransitionOrGet(x, to) \/ SetRunStatus(x, to)
        \/ \E t \in Tasks : CancelQueuedRuns(t)
    <3>1. CASE AddQueuedRun(c)
        BY <1>1, <1>2, <3>1 DEF AddQueuedRun, RequestStep
    <3>2. CASE WriteRunFiles(c)
        BY <1>1, <1>2, <3>2 DEF WriteRunFiles, RequestStep, Final
    <3>3. CASE PersistCancel(c) \/ CancelRunning(c)
        BY <3>3 DEF PersistCancel, CancelRunning
    <3>4. CASE Dequeue(c)
        BY <1>1, <1>2, <3>4 DEF Dequeue, Final
    <3>5. CASE SweepQueued(c)
        BY <1>1, <3>5 DEF SweepQueued, RequestStep
    <3> QED BY <1>4, <3>1, <3>2, <3>3, <3>4, <3>5
  <2> QED BY <1>4, <2>2, OthersCare
<1>5. CASE StopExecution(c) /\ UNCHANGED <<sched, pc>>
    BY <1>5, OthersCare DEF StopExecution
<1>6. CASE RequestSchedule(c) /\ UNCHANGED pc
  <2>1. \A q \in Procs : sched'[q] = sched[q] \/ Free(q)
      BY <1>1, <1>6 DEF RequestSchedule, CallScheduleRuns, ScheduleRunsReturnsAtOnce, SupTypeOK
  <2> QED BY <1>6, <2>1, OthersCare DEF RequestSchedule
<1> QED BY <1>3, <1>4, <1>5, <1>6 DEF HandleRequest

LEMMA StaysLeaving ==
    ASSUME SupTypeOK, [Next]_vars, NEW p \in Procs, proc[p] \in Leaving
    PROVE  proc'[p] \in Leaving
<1> USE DEF Leaving, SupTypeOK
<1>1. ASSUME NEW q \in Procs, Boot(q) \/ BeginRecovery(q) \/ EndRecovery(q) PROVE proc'[p] = proc[p]
    BY <1>1 DEF Boot, BeginRecovery, EndRecovery
<1>2. ASSUME NEW q \in Procs,
             Crash(q) \/ BeginDrain(q) \/ Leave(q) \/ StopRunSupervisors(q)
      PROVE  proc'[p] \in Leaving
    BY <1>2 DEF Crash, BeginDrain, Leave, StopRunSupervisors, Die
<1>3. ASSUME NEW q \in Procs,
             \/ RecoverQueuedCancel(q) \/ RecoverRunningRun(q) \/ Wake(q) \/ ResumeTimer(q)
             \/ Schedule(q) \/ \E th \in Threads : Thread(q, th)
      PROVE  UNCHANGED proc
  <2>1. ASSUME NEW th \in Threads, Thread(q, th) PROVE UNCHANGED proc
      BY <2>1 DEF Thread, ExecuteRun, Prepare, Launch, Record, Register, Watch, StopWatching,
         WatchCancel, WatchCredential, WatchExit, WatchMissing, Settle, RemoveContainer,
         ForgetExecution, FinishRun, Reschedule, Unwind, procVars
  <2> QED BY <1>3, <2>1 DEF RecoverQueuedCancel, RecoverRunningRun, Wake, ResumeTimer, Schedule,
          ScheduleCheck, ScheduleClaim, ScheduleSpawn, procVars
<1>4. ASSUME \/ \E c \in Clients : Request(c) \/ HandleRequest(c)
             \/ \E r \in Runs : ContainerExits(r)
             \/ PauseExpires \/ UNCHANGED vars
      PROVE  UNCHANGED proc
    BY <1>4 DEF Request, HandleRequest, ContainerExits, PauseExpires, procVars, vars, supVars
<1> QED BY <1>1, <1>2, <1>3, <1>4 DEF Next, Startup

\* While no process is on its way out or dead, somebody works on every running
\* run, through every error path of ExecuteRun and of the supervision.
THEOREM RunsAreAttended == ASSUME OneSlot PROVE Spec => []RunningAttended
<1>1. SupInit => RunningAttended
    BY DEF SupInit, StoreInit, RunningAttended
<1>2. SupInv /\ SlotInv /\ RunningAttended /\ [Next]_vars => RunningAttended'
  <2> SUFFICES ASSUME SupInv, SlotInv, RunningAttended, [Next]_vars,
                      \A p \in Procs : proc'[p] \notin Leaving,
                      NEW r \in Runs, status'[r] = "running"
               PROVE  \E p \in Procs : Attended(p, r)'
      BY DEF RunningAttended, Leaving
  <2>1. \A p \in Procs : proc[p] \notin Leaving
      BY StaysLeaving DEF SupInv
  <2>2. status[r] = "running" => \E p \in Procs : Attended(p, r)
      BY <2>1 DEF RunningAttended, Leaving
  <2>3. Cared(r)
    <3>1. CASE PauseExpires \/ UNCHANGED vars \/ \E x \in Runs : ContainerExits(x)
      <4>1. UNCHANGED <<status, pc, sched>>
          BY <3>1 DEF PauseExpires, ContainerExits, vars, supVars, storeVars, threadVars
      <4> QED BY <4>1, OthersCare
    <3> QED BY <3>1, ThreadCares, ScheduleCares, ProcessCares, RequestCares DEF Next
  <2> QED BY <2>2, <2>3 DEF Cared
<1> QED BY <1>1, <1>2, SlotInvHolds, PTL DEF Spec

-----------------------------------------------------------------------------
(* Containers and leases.  A user who cancels, and a new run whose files    *)
(* cannot be written, move a run's status away from whoever works on it;    *)
(* the requests in progress say which runs that may be.                     *)

Wanted(r) == r \in asked \/ TaskOf[r] \in asked

Asks ==
    /\ taskDone \subseteq asked
    /\ \A c \in Clients :
          /\ request[c].step \in {"cancelQueued", "dequeue"} => request[c].run \in asked
          /\ request[c].step = "cancelActive" => Wanted(request[c].run)
          /\ request[c].step \in {"sweep", "flush"} => request[c].task \in asked

LEMMA AsksStay ==
    ASSUME Asks, UNCHANGED <<taskDone, asked>>,
           \A c \in Clients : request'[c] \in {request[c], NoRequest}
    PROVE  Asks'
  BY DEF Asks, NoRequest, Wanted

LEMMA RequestAsks ==
    ASSUME SupInv, Asks, NEW c \in Clients, Request(c)
    PROVE  Asks'
<1> USE DEF Wanted, storeVars, queueVars
<1>2. ASSUME NEW p \in Procs, NEW step, NEW r, NEW t, Receive(c, p, step, r, t)
      PROVE  /\ request'[c].step = step /\ request'[c].run = r /\ request'[c].task = t
             /\ \A d \in Clients : d # c => request'[d] = request[d]
    BY <1>2 DEF Receive, SupInv, SupTypeOK
<1>3. ASSUME NEW p \in Procs, NEW r \in Runs, CreateRun(c, p, r) PROVE Asks'
    BY <1>2, <1>3 DEF CreateRun, Asks
<1>4. ASSUME NEW p \in Procs, NEW r \in Runs, CancelRun(c, p, r) PROVE Asks'
  <2>1. UNCHANGED taskDone /\ asked' = asked \cup {r}
      BY <1>4 DEF CancelRun
  <2>2. CASE UNCHANGED request
      BY <2>1, <2>2 DEF Asks
  <2>3. ASSUME NEW step, step = "cancelQueued" \/ step = "cancelActive",
               Receive(c, p, step, r, TaskOf[r])
        PROVE  Asks'
    <3>1. /\ request'[c].step = step /\ request'[c].run = r
          /\ \A d \in Clients : d # c => request'[d] = request[d]
        BY <1>2, <2>3
    <3> QED BY <2>1, <2>3, <3>1 DEF Asks
  <2> QED BY <1>4, <2>2, <2>3 DEF CancelRun
<1>5. ASSUME NEW p \in Procs, NEW t \in Tasks, CloseIssue(c, p, t) PROVE Asks'
  <2>1. /\ request'[c].step = "sweep" /\ request'[c].task = t
        /\ \A d \in Clients : d # c => request'[d] = request[d]
      BY <1>2, <1>5 DEF CloseIssue
  <2>2. taskDone' = taskDone \cup {t} /\ asked' = asked \cup {t}
      BY <1>5 DEF CloseIssue, MarkTaskCompleted
  <2> QED BY <2>1, <2>2 DEF Asks
<1> QED BY <1>3, <1>4, <1>5 DEF Request

LEMMA HandleAsks ==
    ASSUME SupInv, Asks, NEW c \in Clients, HandleRequest(c)
    PROVE  Asks'
<1> USE DEF Wanted, storeVars, queueVars
<1>1. ASSUME NEW from, NEW to, RequestStep(c, from, to)
      PROVE  /\ request[c].step = from /\ request'[c].step = to
             /\ to # "none" => /\ request'[c].run = request[c].run
                               /\ request'[c].task = request[c].task
             /\ \A d \in Clients : d # c => request'[d] = request[d]
    BY <1>1 DEF RequestStep, NoRequest, SupInv, SupTypeOK
<1>2. UNCHANGED taskDone /\ asked \subseteq asked'
    BY DEF HandleRequest, AddQueuedRun, WriteRunFiles, PersistCancel, Dequeue, SweepQueued,
       CancelRunning, StopExecution, RequestSchedule
<1>3. CASE AddQueuedRun(c) \/ WriteRunFiles(c) \/ StopExecution(c) \/ RequestSchedule(c)
    BY <1>1, <1>2, <1>3 DEF AddQueuedRun, WriteRunFiles, StopExecution, RequestSchedule, Asks
<1>4. CASE PersistCancel(c)
    BY <1>1, <1>2, <1>4 DEF PersistCancel, Asks
<1>5. CASE Dequeue(c)
    BY <1>1, <1>2, <1>5 DEF Dequeue, Asks
<1>6. CASE SweepQueued(c)
    BY <1>1, <1>2, <1>6 DEF SweepQueued, Asks
<1>7. CASE CancelRunning(c)
  <2>1. CASE RequestStep(c, "flush", "none")
      BY <1>1, <1>2, <2>1 DEF Asks
  <2>2. ASSUME NEW r, TaskOf[r] = request[c].task, request[c].step = "flush",
               request' = [request EXCEPT ![c].step = "cancelActive", ![c].run = r]
        PROVE  Asks'
    <3>1. /\ request'[c].step = "cancelActive" /\ request'[c].run = r
          /\ \A d \in Clients : d # c => request'[d] = request[d]
        BY <2>2 DEF SupInv, SupTypeOK
    <3>2. TaskOf[r] \in asked
        BY <2>2 DEF Asks
    <3> QED BY <1>2, <3>1, <3>2 DEF Asks
  <2> QED BY <1>7, <2>1, <2>2 DEF CancelRunning
<1> QED BY <1>3, <1>4, <1>5, <1>6, <1>7 DEF HandleRequest

LEMMA AsksStep ==
    ASSUME SupInv, SlotInv, Asks, [Next]_vars
    PROVE  Asks'
<1> USE DEF storeVars, queueVars, apiVars
<1>1. ASSUME NEW p \in Procs, NEW th \in Threads, Thread(p, th) PROVE Asks'
  <2>1. UNCHANGED <<taskDone, asked>>
      BY <1>1 DEF Thread, ExecuteRun, Prepare, Launch, Record, Register, Watch, StopWatching,
         WatchCancel, WatchCredential, WatchExit, WatchMissing, Settle, RemoveContainer,
         ForgetExecution, FinishRun, Reschedule, Unwind
  <2> QED BY <1>1, <2>1, ThreadLeaves, AsksStay DEF Leaves
<1>2. ASSUME NEW p \in Procs, Schedule(p) PROVE Asks'
  <2>1. ASSUME ReturnFromSchedule(p) PROVE \A c \in Clients : request'[c] \in {request[c], NoRequest}
      BY <2>1 DEF ReturnFromSchedule
  <2>2. UNCHANGED <<taskDone, asked>> /\ (UNCHANGED request \/ ReturnFromSchedule(p))
      BY <1>2 DEF Schedule, ScheduleCheck, ScheduleClaim, ScheduleSpawn
  <2> QED BY <2>1, <2>2, AsksStay
<1>3. ASSUME NEW p \in Procs, Crash(p) \/ Leave(p) PROVE Asks'
  <2>1. UNCHANGED <<taskDone, asked>> /\ \A c \in Clients : request'[c] \in {request[c], NoRequest}
      BY <1>3 DEF Crash, Leave, Die
  <2> QED BY <2>1, AsksStay
<1>4. ASSUME NEW p \in Procs,
             \/ Boot(p) \/ Startup(p) \/ Wake(p) \/ ResumeTimer(p)
             \/ BeginDrain(p) \/ StopRunSupervisors(p)
      PROVE  Asks'
  <2>1. UNCHANGED <<taskDone, asked, request>>
      BY <1>4 DEF Boot, Startup, RecoverQueuedCancel, BeginRecovery, RecoverRunningRun, EndRecovery,
         Wake, ResumeTimer, BeginDrain, StopRunSupervisors
  <2> QED BY <2>1, AsksStay
<1>5. CASE PauseExpires \/ UNCHANGED vars \/ \E r \in Runs : ContainerExits(r)
  <2>1. UNCHANGED <<taskDone, asked, request>>
      BY <1>5 DEF PauseExpires, ContainerExits, vars, supVars
  <2> QED BY <2>1, AsksStay
<1> QED BY <1>1, <1>2, <1>3, <1>4, <1>5, RequestAsks, HandleAsks DEF Next

\* What was asked stays so, and a run that a request closed stays closed.
LEMMA AskedGrows ==
    ASSUME [Next]_vars
    PROVE  asked \subseteq asked'
<1> USE DEF apiVars
<1>1. ASSUME NEW p \in Procs, NEW th \in Threads, Thread(p, th) PROVE asked \subseteq asked'
    BY <1>1 DEF Thread, ExecuteRun, Prepare, Launch, Record, Register, Watch, StopWatching,
       WatchCancel, WatchCredential, WatchExit, WatchMissing, Settle, RemoveContainer,
       ForgetExecution, FinishRun, Reschedule, Unwind
<1>2. ASSUME NEW p \in Procs,
             \/ Schedule(p) \/ Boot(p) \/ Startup(p) \/ Wake(p) \/ ResumeTimer(p)
             \/ Crash(p) \/ BeginDrain(p) \/ Leave(p) \/ StopRunSupervisors(p)
      PROVE  asked \subseteq asked'
    BY <1>2 DEF Schedule, ScheduleCheck, ScheduleClaim, ScheduleSpawn, Boot, Startup,
       RecoverQueuedCancel, BeginRecovery, RecoverRunningRun, EndRecovery, Wake, ResumeTimer,
       Crash, Leave, Die, BeginDrain, StopRunSupervisors
<1>3. ASSUME NEW c \in Clients, Request(c) \/ HandleRequest(c) PROVE asked \subseteq asked'
    BY <1>3 DEF Request, CreateRun, CancelRun, CloseIssue, HandleRequest, AddQueuedRun,
       WriteRunFiles, PersistCancel, Dequeue, SweepQueued, CancelRunning, StopExecution,
       RequestSchedule
<1>4. CASE PauseExpires \/ UNCHANGED vars \/ \E r \in Runs : ContainerExits(r)
    BY <1>4 DEF PauseExpires, ContainerExits, vars, supVars
<1> QED BY <1>1, <1>2, <1>3, <1>4 DEF Next

LEMMA ClosedStays ==
    ASSUME SupInv, [Next]_vars, NEW r \in Runs
    PROVE  /\ Overtaken(r) => Overtaken(r)'
           /\ ClosedByRequest(r) => ClosedByRequest(r)'
           /\ Wanted(r) => Wanted(r)'
<1>1. StoreMoves /\ StoreTypeOK /\ asked \subseteq asked'
    BY SupStep, AskedGrows DEF SupInv, SupTypeOK
<1>2. status[r] \in {"canceled", "failed"} => status'[r] = status[r]
  <2>1. CASE StatusWrite
      BY <1>1, <2>1 DEF StatusWrite, ClaimNextQueuedRun, NextQueuedRun, Claimable, ClaimRunStart,
         SetRunStatus, CanTransition, Transitions, Requeue, CancelQueuedRuns, StoreTypeOK
  <2>2. ASSUME NEW x \in Runs, AddRun(x)
        PROVE  status[r] \in {"canceled", "failed"} => status'[r] = status[r]
    <3>1. TrimOldRuns = {}
        BY <1>1, <2>2, NothingTrimmed DEF AddRun
    <3> QED BY <2>2, <3>1 DEF AddRun
  <2> QED BY <1>1, <2>1, <2>2 DEF StoreMoves
<1> QED BY <1>1, <1>2 DEF Overtaken, ClosedByRequest, Wanted

\* A run in use is claimed, or on its way to its container, or that is at work:
\* it is running, or a request overtook that.
Used(p, r) == sched[p].run = r \/ \E th \in Threads : th[1] = r /\ pc[p][th] \in Fetching
InUse(r) == container[r] = "running" \/ \E p \in Procs : Used(p, r)

UsedRuns == \A r \in Runs : InUse(r) => status[r] = "running" \/ Overtaken(r)

\* Nobody else is at work on the run of a goroutine.
LEMMA AloneOnIt ==
    ASSUME SupInv, SlotInv, NEW p \in Procs, NEW th \in Threads, pc[p][th] # "idle"
    PROVE  /\ \A o \in Threads : o # th /\ o[1] = th[1] => pc[p][o] = "idle"
           /\ \A q \in Procs : sched[q].run # th[1]
           /\ \A q \in Procs : q # p => /\ sched[q].run = NoRun
                                        /\ \A o \in Threads : pc[q][o] = "idle"
<1>1. th[1] \in Runs /\ th[1] # NoRun /\ Alive(p) /\ SupTypeOK
    BY RunOfThread, AtWork, SupervisionConstants DEF SlotInv, SupInv
<1>2. \A q \in Procs : q # p => sched[q].run = NoRun /\ \A o \in Threads : pc[q][o] = "idle"
    BY <1>1, TheLiving, NoCaller DEF Resting, AllIdle, Free
<1>3. sched[p].run # th[1]
    BY <1>1 DEF SlotInv, ProcOK, SchedOK, Working
<1> QED BY <1>1, <1>2, <1>3 DEF SlotInv, ProcOK, OneEach

LEMMA ThreadUses ==
    ASSUME SupInv, SlotInv, UsedRuns, NEW p \in Procs, NEW th \in Threads, Thread(p, th),
           NEW r \in Runs, InUse(r)', ~Overtaken(r)
    PROVE  status'[r] = "running"
<1>1. /\ Leaves(p, th) /\ Spares(p, th) /\ StatusOK(p, th) /\ PlaceOK(p, th)
      /\ SupTypeOK /\ th[1] \in Runs /\ TaskOf[th[1]] \in Tasks
      /\ status \in [Runs -> Statuses] /\ container \in [Runs -> {"absent", "running"} \cup Exits]
    BY ThreadLeaves, ThreadSpares, Stands DEF SupInv
<1>2. r # NoRun
    BY SupervisionConstants
<1>3. \A q \in Procs : sched'[q].run = r => sched[q].run = r
    BY <1>1, <1>2 DEF Leaves, Spares
<1>4. CASE r # th[1]
  <2>1. \A q \in Procs, o \in Threads : o[1] = r => pc'[q][o] = pc[q][o]
      BY <1>1, <1>4 DEF Leaves
  <2>2. container'[r] = container[r]
      BY <1>1, <1>4 DEF Spares
  <2>3. InUse(r)
      BY <1>3, <2>1, <2>2 DEF InUse, Used
  <2> QED BY <1>1, <1>4, <2>3 DEF UsedRuns, Spares
<1>5. CASE r = th[1]
  <2>1. pc[p][th] # "idle"
      BY <1>1 DEF Leaves
  <2>2. /\ \A o \in Threads : o # th /\ o[1] = r => pc[p][o] = "idle"
        /\ \A q \in Procs : sched[q].run # r
        /\ \A q \in Procs : q # p => \A o \in Threads : pc[q][o] = "idle"
      BY <1>5, <2>1, AloneOnIt
  <2>3. container'[r] = "running" \/ pc'[p][th] \in Fetching
    <3>1. ASSUME NEW q \in Procs, NEW o \in Threads, o[1] = r, pc'[q][o] \in Fetching
          PROVE  q = p /\ o = th
      <4>1. pc'[q][o] # "idle"
          BY <3>1, LabelsDiffer
      <4>2. q = p
          BY <1>1, <2>2, <4>1 DEF Leaves
      <4>3. o # th => pc'[p][o] = pc[p][o]
          BY <1>1 DEF Leaves
      <4> QED BY <2>2, <3>1, <4>1, <4>2, <4>3
    <3> QED BY <1>3, <2>2, <3>1 DEF InUse, Used
  <2>4. container[r] = "running" \/ pc[p][th] \in Fetching => status[r] = "running"
      BY <1>5 DEF UsedRuns, InUse, Used
  <2>5. pc[p][th] \in Fetching \cup Exits \cup {"remove", "forget"} => container[r] # "running"
      BY <1>1, <1>5 DEF PlaceOK
  <2>6. ASSUME NEW l, Goto(p, th, l) PROVE pc'[p][th] = l
      BY <1>1, <2>6, GotoAt
  <2>7. CASE ExecuteRun(p, th)
      BY <1>5, <2>3, <2>5, <2>6, <2>7, LabelsDiffer DEF ExecuteRun, dockerVars
  <2>8. CASE Prepare(p, th)
      BY <1>5, <2>3, <2>4, <2>5, <2>6, <2>8, LabelsDiffer DEF Prepare
  <2>9. CASE Launch(p, th)
    <3>1. pc[p][th] \in Fetching
        BY <2>9, LabelsDiffer DEF Launch
    <3>2. status[r] = "running" /\ container[r] # "running"
        BY <2>4, <2>5, <3>1
    <3>3. UNCHANGED status \/ (Goto(p, th, "finish") /\ UNCHANGED container)
        BY <2>9 DEF Launch
    <3> QED BY <2>3, <2>6, <3>2, <3>3, LabelsDiffer
  <2>10. ASSUME UNCHANGED status, pc'[p][th] \notin Fetching,
                container'[r] = "running" => container[r] = "running"
         PROVE  status'[r] = "running"
      BY <2>3, <2>4, <2>10
  <2>11. CASE Record(p, th) \/ Register(p, th) \/ StopWatching(p, th)
      BY <2>6, <2>10, <2>11, LabelsDiffer DEF Record, Register, StopWatching, storeVars, dockerVars
  <2>12. CASE WatchCancel(p, th) \/ WatchCredential(p, th)
    <3>1. container'[r] = "running" => container[r] = "running"
        BY <1>1, <1>5, <2>12 DEF WatchCancel, WatchCredential, StopContainer
    <3> QED BY <2>6, <2>10, <2>12, <3>1, LabelsDiffer DEF WatchCancel, WatchCredential, storeVars
  <2>13. CASE WatchExit(p, th)
      BY <2>6, <2>10, <2>13, LabelsDiffer DEF WatchExit, storeVars, dockerVars
  <2>14. CASE WatchMissing(p, th)
      BY <1>5, <2>3, <2>6, <2>14, LabelsDiffer DEF WatchMissing
  <2>15. CASE Settle(p, th) \/ RemoveContainer(p, th) \/ ForgetExecution(p, th)
    <3>1. container[r] # "running"
        BY <2>5, <2>15 DEF Settle, RemoveContainer, ForgetExecution
    <3>2. container'[r] # "running"
        BY <1>1, <1>5, <2>15, <3>1 DEF Settle, RemoveContainer, ForgetExecution, dockerVars
    <3> QED BY <2>3, <2>6, <2>15, <3>2, LabelsDiffer DEF Settle, RemoveContainer, ForgetExecution
  <2>16. CASE FinishRun(p, th)
    <3>1. pc'[p][th] \notin Fetching /\ UNCHANGED container
        BY <2>6, <2>16, LabelsDiffer DEF FinishRun, dockerVars
    <3>2. status[r] = "running"
        BY <2>3, <2>4, <3>1
    <3> QED BY <1>1, <1>5, <2>16, <3>2 DEF FinishRun, CancelPendingIfCompleted, CancelQueuedRuns
  <2>17. CASE Reschedule(p, th) \/ Unwind(p, th)
      BY <2>6, <2>10, <2>17, LabelsDiffer DEF Reschedule, Unwind, storeVars, dockerVars
  <2> QED BY <2>7, <2>8, <2>9, <2>11, <2>12, <2>13, <2>14, <2>15, <2>16, <2>17 DEF Thread, Watch
<1> QED BY <1>4, <1>5

\* A step that puts no other run to use, and leaves those in use running.
LEMMA UsesLess ==
    ASSUME UsedRuns, NEW r \in Runs, InUse(r)', ~Overtaken(r),
           container'[r] = "running" => container[r] = "running",
           \A q \in Procs, th \in Threads : pc'[q][th] \in Fetching => pc[q][th] \in Fetching,
           \A q \in Procs : sched'[q].run = r => sched[q].run = r,
           InUse(r) /\ status[r] = "running" => status'[r] = "running"
    PROVE  status'[r] = "running"
<1>1. InUse(r)
    BY DEF InUse, Used
<1> QED BY <1>1 DEF UsedRuns

LEMMA ScheduleUses ==
    ASSUME SupInv, SlotInv, UsedRuns, NEW p \in Procs, Schedule(p), NEW r \in Runs, InUse(r)',
           ~Overtaken(r)
    PROVE  status'[r] = "running"
<1> USE DEF SupInv
<1>0. /\ SupTypeOK /\ SchedOK(p) /\ sched \in [Procs -> Scheds] /\ status \in [Runs -> Statuses]
      /\ r # NoRun /\ (sched[p].step # "claimed" => sched[p].run = NoRun) /\ NobodySched.run = NoRun
      /\ UNCHANGED container
    BY NoCaller, SupervisionConstants
       DEF SupTypeOK, StoreTypeOK, Scheds, SlotInv, ProcOK, SchedOK, dockerVars,
           Schedule, ScheduleCheck, ScheduleClaim, ScheduleSpawn
<1>1. ASSUME ReturnFromSchedule(p), sched[p].step # "free"
      PROVE  /\ \A q \in Procs, th \in Threads : pc'[q][th] \in Fetching => pc[q][th] \in Fetching
             /\ \A q \in Procs : sched'[q].run = r => q # p /\ sched[q].run = r
    BY <1>0, <1>1, Returned, LabelsDiffer
<1>2. CASE ScheduleCheck(p)
  <2>1. UNCHANGED status /\ sched[p].step # "free"
      BY <1>2 DEF ScheduleCheck, storeVars
  <2>2. CASE sched' = [sched EXCEPT ![p].step = "claim"] /\ UNCHANGED pc
    <3>1. \A q \in Procs : sched'[q].run = r => sched[q].run = r
        BY <1>0, <2>2 DEF Scheds
    <3> QED BY <1>0, <2>1, <2>2, <3>1, UsesLess
  <2> QED BY <1>0, <1>1, <1>2, <2>1, <2>2, UsesLess DEF ScheduleCheck
<1>3. CASE ScheduleClaim(p)
  <2>1. ASSUME NEW x \in Runs, ClaimNextQueuedRun(sched[p].prefer, x), UNCHANGED pc,
               sched' = [sched EXCEPT ![p].step = "claimed", ![p].run = x, ![p].prefer = NoTask]
        PROVE  status'[r] = "running"
    <3>1. status' = [status EXCEPT ![x] = "running"]
        BY <2>1 DEF ClaimNextQueuedRun
    <3>2. CASE x = r
        BY <1>0, <3>1, <3>2
    <3>3. CASE x # r
      <4>1. \A q \in Procs : sched'[q].run = r => sched[q].run = r
          BY <1>0, <2>1, <3>3 DEF Scheds
      <4> QED BY <1>0, <2>1, <3>1, <3>3, <4>1, UsesLess
    <3> QED BY <3>2, <3>3
  <2>2. CASE ReturnFromSchedule(p) /\ UNCHANGED status
    <3>1. sched[p].step # "free"
        BY <1>3 DEF ScheduleClaim
    <3> QED BY <1>0, <1>1, <2>2, <3>1, UsesLess
  <2> QED BY <1>3, <2>1, <2>2 DEF ScheduleClaim
<1>4. CASE ScheduleSpawn(p)
  <2> DEFINE x == sched[p].run
  <2>1. /\ sched[p].step = "claimed" /\ ~Free(p) /\ x \in Runs
        /\ container[x] # "running" /\ ~Working(p, x)
      BY <1>0, <1>4, NoCaller DEF ScheduleSpawn, SchedOK, Free
  <2>2. \A q \in Procs : q # p => Resting(q)
      BY <2>1, SchedAlone, TheLiving
  \* The run is dropped.
  <2>3. ASSUME TransitionOrGet(x, "canceled"),
               \A q \in Procs, th \in Threads : pc'[q][th] \in Fetching => pc[q][th] \in Fetching,
               \A q \in Procs : sched'[q].run = r => q # p /\ sched[q].run = r
        PROVE  status'[r] = "running"
    <3>1. x # r
      <4> SUFFICES ASSUME x = r PROVE FALSE
          OBVIOUS
      <4>1. PICK q \in Procs : Used(q, r)'
          BY <1>0, <2>1 DEF InUse
      <4>2. \/ q # p /\ sched[q].run = r
            \/ \E th \in Threads : th[1] = r /\ pc[q][th] \in Fetching
          BY <2>3, <4>1 DEF Used
      <4>3. q # p /\ (sched[q].run = r \/ ~AllIdle(q))
          BY <2>1, <4>2, LabelsDiffer DEF Working, AllIdle
      <4> QED BY <1>0, <2>2, <4>3 DEF Resting, Free
    <3>2. status'[r] = status[r]
        BY <1>0, <2>3, <3>1 DEF TransitionOrGet
    <3> QED BY <1>0, <2>3, <3>2, UsesLess
  <2>4. CASE /\ TransitionOrGet(x, "canceled") /\ UNCHANGED pc
             /\ sched' = [sched EXCEPT ![p].step = "check", ![p].run = NoRun]
    <3>1. \A q \in Procs : sched'[q].run = r => q # p /\ sched[q].run = r
        BY <1>0, <2>4 DEF Scheds
    <3> QED BY <2>3, <2>4, <3>1
  <2>5. CASE TransitionOrGet(x, "canceled") /\ ReturnFromSchedule(p)
      BY <1>1, <2>1, <2>3, <2>5
  \* Or its goroutine begins.
  <2>6. ASSUME NEW th \in Threads, IsNewThread(p, x, th), Goto(p, th, "exec"), UNCHANGED status,
               sched' = [sched EXCEPT ![p].step = "check", ![p].run = NoRun]
        PROVE  status'[r] = "running"
    <3>1. CASE x = r
        BY <2>1, <2>6, <3>1 DEF UsedRuns, InUse, Used
    <3>2. CASE x # r
      <4>1. /\ pc'[p][th] = "exec" /\ th[1] = x
            /\ \A o \in Threads : o # th => pc'[p][o] = pc[p][o]
            /\ \A q \in Procs : q # p => pc'[q] = pc[q]
          BY <1>0, <2>6, GotoAt DEF IsNewThread
      <4>2. \A q \in Procs : sched'[q].run = r => sched[q].run = r
          BY <1>0, <2>6 DEF Scheds
      <4>3. InUse(r)
          BY <1>0, <3>2, <4>1, <4>2 DEF InUse, Used
      <4> QED BY <2>6, <4>3 DEF UsedRuns
    <3> QED BY <3>1, <3>2
  <2> QED BY <1>4, <2>4, <2>5, <2>6 DEF ScheduleSpawn
<1> QED BY <1>2, <1>3, <1>4 DEF Schedule

LEMMA ProcessUses ==
    ASSUME SupInv, SlotInv, UsedRuns, NEW p \in Procs, NEW r \in Runs, InUse(r)', ~Overtaken(r),
           \/ Boot(p) \/ Startup(p) \/ Wake(p) \/ ResumeTimer(p)
           \/ Crash(p) \/ BeginDrain(p) \/ Leave(p) \/ StopRunSupervisors(p)
    PROVE  status'[r] = "running"
<1> USE DEF storeVars, threadVars, dockerVars
<1>1. /\ SupTypeOK /\ todo[p] \subseteq Runs /\ sched \in [Procs -> Scheds] /\ r # NoRun
      /\ NobodySched.run = NoRun /\ status \in [Runs -> Statuses]
    BY NoCaller, SupervisionConstants DEF SupInv, SupTypeOK, StoreTypeOK, Scheds
<1>2. CASE Crash(p) \/ Leave(p)
  <2>1. /\ \A q \in Procs : sched'[q].run = r => sched[q].run = r
        /\ \A q \in Procs, th \in Threads : pc'[q][th] \in Fetching => pc[q][th] \in Fetching
    <3>1. /\ sched' = [sched EXCEPT ![p] = NobodySched]
          /\ pc' = [pc EXCEPT ![p] = [th \in Threads |-> "idle"]]
        BY <1>2 DEF Crash, Leave, Die
    <3>2. \A q \in Procs : sched'[q].run = r => sched[q].run = r
        BY <1>1, <3>1
    <3>3. \A th \in Threads : pc'[p][th] = "idle"
        BY <1>1, <3>1 DEF SupTypeOK
    <3>4. \A q \in Procs : q # p => pc'[q] = pc[q]
        BY <1>1, <3>1 DEF SupTypeOK
    <3> QED BY <3>2, <3>3, <3>4, LabelsDiffer
  <2> QED BY <1>2, <2>1, UsesLess DEF Crash, Leave, Die
<1>3. CASE Boot(p) \/ BeginRecovery(p) \/ EndRecovery(p) \/ ResumeTimer(p) \/ BeginDrain(p)
           \/ StopRunSupervisors(p)
    BY <1>3, UsesLess DEF Boot, BeginRecovery, EndRecovery, ResumeTimer, BeginDrain,
       StopRunSupervisors
<1>4. CASE Wake(p)
  <2>1. \A q \in Procs : sched'[q].run = r => sched[q].run = r
      BY <1>1, <1>4 DEF Wake, CallScheduleRuns, ScheduleRunsReturnsAtOnce
  <2> QED BY <1>4, <2>1, UsesLess DEF Wake
<1>5. CASE RecoverQueuedCancel(p)
  <2>1. status[r] = "running" => status'[r] = "running"
    <3>1. TodoOK(p) /\ proc[p] = "booting"
        BY <1>5 DEF RecoverQueuedCancel, SlotInv, ProcOK
    <3> QED BY <1>1, <1>5, <3>1 DEF RecoverQueuedCancel, TransitionOrGet, TodoOK
  <2> QED BY <1>5, <2>1, UsesLess DEF RecoverQueuedCancel
<1>6. CASE RecoverRunningRun(p)
  <2>1. PICK x \in todo[p] : RecoverDetached(p, x) \/ RecoverUnlaunched(p, x)
      BY <1>6 DEF RecoverRunningRun
  <2>2. /\ UNCHANGED <<sched, container>> /\ x \in Runs /\ Main(x) \in Threads
        /\ proc[p] = "recovering" /\ Alive(p)
      BY <1>1, <1>6, MainThread DEF RecoverRunningRun, Alive
  <2>3. \A q \in Procs : ~Used(q, x)
    <3>1. TodoOK(p) /\ \A q \in Procs : q # p => Resting(q)
        BY <2>2, TheLiving
    <3>2. ~Used(p, x)
        BY <2>2, <3>1, LabelsDiffer DEF TodoOK, Attended, Working, Used
    <3>3. x # NoRun
        BY <2>2, SupervisionConstants
    <3> QED BY <1>1, <3>1, <3>2, <3>3, LabelsDiffer DEF Resting, AllIdle, Free, Used
  <2>4. ASSUME NEW th \in Threads, NEW l, Goto(p, th, l), l \notin Fetching
        PROVE  \A q \in Procs, o \in Threads : pc'[q][o] \in Fetching => pc[q][o] \in Fetching
      BY <1>1, <2>4, GotoAt
  <2>5. ASSUME container[x] # "running", \A y \in Runs : y # x => status'[y] = status[y],
               \A q \in Procs, o \in Threads : pc'[q][o] \in Fetching => pc[q][o] \in Fetching
        PROVE  status'[r] = "running"
    <3>1. ~InUse(x)
        BY <2>3, <2>5 DEF InUse
    <3>2. InUse(r) => x # r
        BY <3>1
    <3> QED BY <2>2, <2>5, <3>2, UsesLess
  <2>6. ASSUME FailMissing(x), container[x] = "absent", Goto(p, Main(x), "finish")
        PROVE  status'[r] = "running"
      BY <1>1, <2>2, <2>4, <2>5, <2>6, LabelsDiffer DEF FailMissing, TransitionOrGet
  <2>7. ASSUME NEW th \in Threads, NEW l, Goto(p, th, l), l \notin Fetching, UNCHANGED status
        PROVE  status'[r] = "running"
      BY <2>2, <2>4, <2>7, UsesLess
  <2>8. CASE RecoverDetached(p, x)
      BY <2>2, <2>6, <2>7, <2>8, LabelsDiffer DEF RecoverDetached
  <2>9. CASE RecoverUnlaunched(p, x)
    <3>1. container[x] # "running"
        BY <2>2, <2>9 DEF RecoverUnlaunched, SlotInv, RunOK
    <3>2. \A y \in Runs : y # x => status'[y] = status[y]
        BY <1>1, <2>9 DEF RecoverUnlaunched, TransitionOrGet, Requeue
    <3> QED BY <2>5, <2>9, <3>1, <3>2 DEF RecoverUnlaunched
  <2> QED BY <2>1, <2>8, <2>9
<1> QED BY <1>2, <1>3, <1>4, <1>5, <1>6 DEF Startup

LEMMA RequestUses ==
    ASSUME SupInv, SlotInv, UsedRuns, Asks, NEW c \in Clients, Request(c) \/ HandleRequest(c),
           NEW r \in Runs, InUse(r)', ~Overtaken(r)
    PROVE  status'[r] = "running" \/ Overtaken(r)'
<1> USE DEF storeVars, threadVars, dockerVars
<1>1. /\ SupTypeOK /\ status \in [Runs -> Statuses] /\ sched \in [Procs -> Scheds] /\ r # NoRun
    BY SupervisionConstants DEF SupInv, SupTypeOK, StoreTypeOK, Scheds
<1>2. CASE Request(c)
    BY <1>2, UsesLess DEF Request, CreateRun, CancelRun, CloseIssue
<1>3. ASSUME AddQueuedRun(c) \/ WriteRunFiles(c) \/ PersistCancel(c) \/ Dequeue(c)
             \/ SweepQueued(c) \/ CancelRunning(c),
             UNCHANGED <<sched, pc, container>>
      PROVE  status'[r] = "running" \/ Overtaken(r)'
  <2>1. status[r] = "running" => status'[r] = "running" \/ Overtaken(r)'
    <3>1. CASE AddQueuedRun(c)
      <4>1. AddRun(request[c].run) /\ request[c].run \in Runs
          BY <3>1 DEF AddQueuedRun, RequestStep, SupInv, Known, RequestKnows, OfARun, RequestSteps
      <4>2. TrimOldRuns = {}
          BY <4>1, NothingTrimmed DEF AddRun, SupInv, SupTypeOK
      <4> QED BY <4>1, <4>2 DEF AddRun
    <3>2. CASE PersistCancel(c) \/ CancelRunning(c)
        BY <3>2 DEF PersistCancel, CancelRunning
    <3>3. CASE Dequeue(c)
      <4>1. request[c].run \in asked /\ asked' = asked
          BY <3>3 DEF Dequeue, Asks
      <4>2. UNCHANGED status \/ status' = [status EXCEPT ![request[c].run] = "canceled"]
          BY <3>3 DEF Dequeue, SetRunStatus
      <4> QED BY <1>1, <4>1, <4>2 DEF Overtaken
    <3>4. CASE SweepQueued(c)
        BY <1>1, <3>4 DEF SweepQueued, CancelQueuedRuns
    <3>5. CASE WriteRunFiles(c)
      <4>1. \/ UNCHANGED status
            \/ /\ status' = [status EXCEPT ![request[c].run] = "failed"]
               /\ asked' = asked \cup {request[c].run}
          BY <3>5 DEF WriteRunFiles, TransitionOrGet
      <4> QED BY <1>1, <4>1 DEF Overtaken
    <3> QED BY <1>3, <3>1, <3>2, <3>3, <3>4, <3>5
  <2>2. InUse(r)
      BY <1>3 DEF InUse, Used
  <2> QED BY <2>1, <2>2 DEF UsedRuns
<1>4. CASE StopExecution(c) /\ UNCHANGED <<sched, pc>>
  <2>1. container'[r] = "running" => container[r] = "running"
      BY <1>1, <1>4 DEF StopExecution, StopContainer, SupTypeOK
  <2> QED BY <1>4, <2>1, UsesLess DEF StopExecution
<1>5. CASE RequestSchedule(c) /\ UNCHANGED <<pc, container>>
  <2>1. ASSUME NEW p, CallScheduleRuns(p, c, request[c].task)
        PROVE  \A q \in Procs : sched'[q].run = r => sched[q].run = r
      BY <1>1, <2>1 DEF CallScheduleRuns
  <2>2. \A q \in Procs : sched'[q].run = r => sched[q].run = r
      BY <1>5, <2>1 DEF RequestSchedule, ScheduleRunsReturnsAtOnce
  <2> QED BY <1>5, <2>2, UsesLess DEF RequestSchedule
<1> QED BY <1>2, <1>3, <1>4, <1>5 DEF HandleRequest

LEMMA UsedStep ==
    ASSUME SupInv, SlotInv, UsedRuns, Asks, [Next]_vars
    PROVE  UsedRuns'
<1> SUFFICES ASSUME NEW r \in Runs, InUse(r)', ~Overtaken(r)
             PROVE  status'[r] = "running" \/ Overtaken(r)'
    BY ClosedStays DEF UsedRuns
<1>1. CASE PauseExpires \/ UNCHANGED vars \/ \E x \in Runs : ContainerExits(x)
  <2>1. /\ UNCHANGED <<status, pc, sched>>
        /\ UNCHANGED container \/ \E x \in Runs : ContainerExits(x)
      BY <1>1 DEF PauseExpires, ContainerExits, vars, supVars, storeVars, threadVars, dockerVars
  <2>2. container'[r] = "running" => container[r] = "running"
      BY <2>1, LabelsDiffer, SupervisionConstants DEF ContainerExits, SupInv, SupTypeOK
  <2> QED BY <2>1, <2>2, UsesLess
<1> QED BY <1>1, ThreadUses, ScheduleUses, ProcessUses, RequestUses DEF Next

LEMMA CareInit == SupInit => Asks /\ UsedRuns
<1>1. NobodySched.run = NoRun /\ "idle" \notin Fetching
    BY LabelsDiffer DEF NobodySched
<1> QED BY <1>1, SupervisionConstants
        DEF SupInit, StoreInit, Asks, UsedRuns, InUse, Used, NoRequest

\* No two containers of a task are ever at work together, over any number of
\* crashes, drains, restarts, cancels and closed issues, but for a run that a
\* cancel or a failing write overtook: a run's container follows its status.
THEOREM ContainersAreSerial == ASSUME OneSlot PROVE Spec => []SerialUnlessOvertaken
<1>1. SupInit => Asks /\ UsedRuns
    BY CareInit
<1>2. SupInv /\ SlotInv /\ Asks /\ UsedRuns /\ [Next]_vars => (Asks /\ UsedRuns)'
    BY AsksStep, UsedStep
<1>3. UsedRuns /\ OneRunningPerTask => SerialUnlessOvertaken
    BY DEF UsedRuns, InUse, OneRunningPerTask, SerialUnlessOvertaken
<1> QED BY <1>1, <1>2, <1>3, SlotInvHolds, SupervisionStaysSerial, PTL DEF Spec

\* A run that was claimed, and whose goroutine has not begun, is to be canceled
\* only if a user or the end of its task asked for that.
Pending(r) ==
    \E p \in Procs : sched[p].run = r \/ \E th \in Threads : th[1] = r /\ pc[p][th] = "exec"

Calm == \A r \in Runs : Pending(r) => r \notin cancelReq \/ Wanted(r)

LEMMA StaysCalm ==
    ASSUME Calm, NEW r \in Runs, Pending(r)', ~Wanted(r), r \in cancelReq' => r \in cancelReq,
           \A q \in Procs, th \in Threads :
              th[1] = r /\ pc'[q][th] = "exec" => pc[q][th] = "exec" \/ r \notin cancelReq,
           \A q \in Procs : sched'[q].run = r => sched[q].run = r \/ r \notin cancelReq
    PROVE  r \notin cancelReq'
  BY DEF Calm, Pending

LEMMA ThreadCalm ==
    ASSUME SupInv, SlotInv, Calm, NEW p \in Procs, NEW th \in Threads, Thread(p, th),
           NEW r \in Runs, Pending(r)', ~Wanted(r)
    PROVE  r \notin cancelReq'
<1>1. /\ Leaves(p, th) /\ Spares(p, th) /\ SupTypeOK /\ th[1] \in Runs /\ r # NoRun
    BY ThreadLeaves, ThreadSpares, Stands, SupervisionConstants DEF SupInv
<1>2. pc'[p][th] # "exec"
  <2>1. ASSUME NEW l, Goto(p, th, l) PROVE pc'[p][th] = l
      BY <1>1, <2>1, GotoAt
  <2>2. CASE ExecuteRun(p, th) \/ Prepare(p, th) \/ Launch(p, th) \/ Record(p, th)
      BY <2>1, <2>2 DEF ExecuteRun, Prepare, Launch, Record
  <2>3. CASE Register(p, th) \/ StopWatching(p, th) \/ WatchCancel(p, th) \/ WatchCredential(p, th)
      BY <2>1, <2>3 DEF Register, StopWatching, WatchCancel, WatchCredential
  <2>4. CASE WatchExit(p, th)
      BY <2>1, <2>4, LabelsDiffer DEF WatchExit
  <2>5. CASE WatchMissing(p, th) \/ Settle(p, th) \/ RemoveContainer(p, th)
      BY <2>1, <2>5 DEF WatchMissing, Settle, RemoveContainer
  <2>6. CASE ForgetExecution(p, th) \/ FinishRun(p, th) \/ Reschedule(p, th) \/ Unwind(p, th)
      BY <2>1, <2>6 DEF ForgetExecution, FinishRun, Reschedule, Unwind
  <2> QED BY <2>2, <2>3, <2>4, <2>5, <2>6 DEF Thread, Watch
<1>3. \A q \in Procs, o \in Threads : pc'[q][o] = "exec" => (o # th \/ q # p) /\ pc[q][o] = "exec"
    BY <1>1, <1>2 DEF Leaves
<1>4. \A q \in Procs : sched'[q].run = r => sched[q].run = r
    BY <1>1 DEF Leaves, Spares
<1>5. CASE cancelReq' \subseteq cancelReq
    BY <1>3, <1>4, <1>5, StaysCalm
<1>6. CASE WatchCredential(p, th)
  <2>1. pc[p][th] # "idle"
      BY <1>1 DEF Leaves
  <2>2. r # th[1]
      BY <1>3, <1>4, <2>1, AloneOnIt DEF Pending
  <2>3. r \in cancelReq' => r \in cancelReq
      BY <1>6, <2>2 DEF WatchCredential, RequestRunCancel
  <2> QED BY <1>3, <1>4, <2>3, StaysCalm
<1>7. WatchCredential(p, th) \/ cancelReq' \subseteq cancelReq
    BY DEF Thread, ExecuteRun, Prepare, Launch, Record, Register, Watch, StopWatching,
       WatchCancel, WatchExit, WatchMissing, Settle, RemoveContainer, ForgetExecution,
       FinishRun, ClearRunCancel, Reschedule, Unwind, storeVars
<1> QED BY <1>5, <1>6, <1>7

LEMMA ScheduleCalm ==
    ASSUME SupInv, SlotInv, Calm, NEW p \in Procs, Schedule(p), NEW r \in Runs, Pending(r)',
           ~Wanted(r)
    PROVE  r \notin cancelReq'
<1> USE DEF storeVars
<1>1. /\ SupTypeOK /\ SchedOK(p) /\ sched \in [Procs -> Scheds] /\ r # NoRun
      /\ NobodySched.run = NoRun
    BY NoCaller, SupervisionConstants DEF SupInv, SupTypeOK, Scheds, SlotInv, ProcOK
<1>2. cancelReq' \subseteq cancelReq
    BY DEF Schedule, ScheduleCheck, ScheduleClaim, ScheduleSpawn, ClearRunCancel
<1>3. ASSUME ReturnFromSchedule(p), sched[p].step # "free" PROVE r \notin cancelReq'
  <2>1. /\ \A q \in Procs, th \in Threads : pc'[q][th] = "exec" => pc[q][th] = "exec"
        /\ \A q \in Procs : sched'[q].run = r => sched[q].run = r
      BY <1>1, <1>3, Returned
  <2> QED BY <1>2, <2>1, StaysCalm
<1>4. CASE ScheduleCheck(p)
  <2>1. CASE sched' = [sched EXCEPT ![p].step = "claim"] /\ UNCHANGED pc
    <3>1. \A q \in Procs : sched'[q].run = r => sched[q].run = r
        BY <1>1, <2>1 DEF Scheds
    <3> QED BY <1>2, <2>1, <3>1, StaysCalm
  <2> QED BY <1>3, <1>4, <2>1 DEF ScheduleCheck
<1>5. CASE ScheduleClaim(p)
  <2>1. ASSUME NEW x \in Runs, ClaimNextQueuedRun(sched[p].prefer, x), UNCHANGED pc,
               sched' = [sched EXCEPT ![p].step = "claimed", ![p].run = x, ![p].prefer = NoTask]
        PROVE  r \notin cancelReq'
    <3>1. x \notin cancelReq
        BY <2>1 DEF ClaimNextQueuedRun, NextQueuedRun, Claimable
    <3>2. \A q \in Procs : sched'[q].run = r => sched[q].run = r \/ r = x
        BY <1>1, <2>1 DEF Scheds
    <3> QED BY <1>2, <2>1, <3>1, <3>2, StaysCalm
  <2> QED BY <1>3, <1>5, <2>1 DEF ScheduleClaim
<1>6. CASE ScheduleSpawn(p)
  <2> DEFINE x == sched[p].run
  <2>1. CASE UNCHANGED pc /\ sched' = [sched EXCEPT ![p].step = "check", ![p].run = NoRun]
    <3>1. \A q \in Procs : sched'[q].run = r => sched[q].run = r
        BY <1>1, <2>1 DEF Scheds
    <3> QED BY <1>2, <2>1, <3>1, StaysCalm
  <2>2. ASSUME NEW th \in Threads, IsNewThread(p, x, th), Goto(p, th, "exec"), x \notin cancelReq,
               sched' = [sched EXCEPT ![p].step = "check", ![p].run = NoRun]
        PROVE  r \notin cancelReq'
    <3>1. /\ th[1] = x /\ \A o \in Threads : o # th => pc'[p][o] = pc[p][o]
          /\ \A q \in Procs : q # p => pc'[q] = pc[q]
        BY <1>1, <2>2, GotoAt DEF IsNewThread
    <3>2. \A q \in Procs : sched'[q].run = r => sched[q].run = r
        BY <1>1, <2>2 DEF Scheds
    <3> QED BY <1>2, <2>2, <3>1, <3>2, StaysCalm
  <2> QED BY <1>3, <1>6, <2>1, <2>2 DEF ScheduleSpawn
<1> QED BY <1>4, <1>5, <1>6 DEF Schedule

LEMMA ProcessCalm ==
    ASSUME SupInv, SlotInv, Calm, NEW p \in Procs, NEW r \in Runs, Pending(r)', ~Wanted(r),
           \/ Boot(p) \/ Startup(p) \/ Wake(p) \/ ResumeTimer(p)
           \/ Crash(p) \/ BeginDrain(p) \/ Leave(p) \/ StopRunSupervisors(p)
    PROVE  r \notin cancelReq'
<1> USE DEF storeVars, threadVars
<1>1. /\ SupTypeOK /\ todo[p] \subseteq Runs /\ sched \in [Procs -> Scheds] /\ r # NoRun
      /\ NobodySched.run = NoRun
    BY NoCaller, SupervisionConstants DEF SupInv, SupTypeOK, Scheds
<1>2. cancelReq' \subseteq cancelReq
    BY DEF Boot, Startup, RecoverQueuedCancel, BeginRecovery, RecoverRunningRun, RecoverDetached,
       RecoverUnlaunched, EndRecovery, Wake, ResumeTimer, Crash, Leave, Die, BeginDrain,
       StopRunSupervisors, ClearRunCancel
<1>3. \A q \in Procs : sched'[q].run = r => sched[q].run = r
  <2>1. \/ UNCHANGED sched \/ sched' = [sched EXCEPT ![p] = NobodySched]
        \/ CallScheduleRuns(p, Itself, NoTask)
      BY DEF Boot, Startup, RecoverQueuedCancel, BeginRecovery, RecoverRunningRun, EndRecovery,
         Wake, ScheduleRunsReturnsAtOnce, ResumeTimer, Crash, Leave, Die, BeginDrain,
         StopRunSupervisors
  <2> QED BY <1>1, <2>1 DEF CallScheduleRuns
<1>4. \A q \in Procs, th \in Threads : pc'[q][th] = "exec" => pc[q][th] = "exec"
  <2>1. CASE UNCHANGED pc
      BY <2>1
  <2>2. CASE pc' = [pc EXCEPT ![p] = [th \in Threads |-> "idle"]]
    <3>1. \A th \in Threads : pc'[p][th] = "idle"
        BY <1>1, <2>2 DEF SupTypeOK
    <3>2. \A q \in Procs : q # p => pc'[q] = pc[q]
        BY <1>1, <2>2 DEF SupTypeOK
    <3> QED BY <3>1, <3>2
  <2>3. ASSUME NEW th \in Threads, NEW l, Goto(p, th, l), l # "exec"
        PROVE  \A q \in Procs, o \in Threads : pc'[q][o] = "exec" => pc[q][o] = "exec"
      BY <1>1, <2>3, GotoAt
  <2>4. ASSUME NEW x \in todo[p], RecoverDetached(p, x)
        PROVE  \A q \in Procs, o \in Threads : pc'[q][o] = "exec" => pc[q][o] = "exec"
    <3>1. Main(x) \in Threads
        BY <1>1, MainThread
    <3> QED BY <2>3, <2>4, <3>1, LabelsDiffer DEF RecoverDetached
  <2> QED BY <2>1, <2>2, <2>4 DEF Boot, Startup, RecoverQueuedCancel, BeginRecovery,
          RecoverRunningRun, RecoverUnlaunched, EndRecovery, Wake, ResumeTimer, Crash, Leave, Die,
          BeginDrain, StopRunSupervisors
<1> QED BY <1>2, <1>3, <1>4, StaysCalm

LEMMA RequestCalm ==
    ASSUME SupInv, SlotInv, Calm, Asks, NEW c \in Clients, Request(c) \/ HandleRequest(c),
           NEW r \in Runs, Pending(r)', ~Wanted(r)
    PROVE  r \notin cancelReq'
<1> USE DEF storeVars, threadVars
<1>1. SupTypeOK /\ r # NoRun
    BY SupervisionConstants DEF SupInv
<1>2. r \in cancelReq' => r \in cancelReq
  <2>1. CASE PersistCancel(c)
    <3>1. Wanted(request[c].run) /\ cancelReq' = cancelReq \cup {request[c].run}
        BY <2>1 DEF PersistCancel, RequestStep, RequestRunCancel, Asks, Wanted
    <3> QED BY <3>1
  <2> QED BY <2>1 DEF Request, CreateRun, CancelRun, CloseIssue, HandleRequest, AddQueuedRun,
          WriteRunFiles, Dequeue, SweepQueued, CancelRunning, StopExecution, RequestSchedule,
          ClearRunCancel
<1>3. \A q \in Procs : sched'[q].run = r => sched[q].run = r
  <2>1. ASSUME NEW p, CallScheduleRuns(p, c, request[c].task)
        PROVE  \A q \in Procs : sched'[q].run = r => sched[q].run = r
      BY <1>1, <2>1 DEF CallScheduleRuns, SupTypeOK
  <2>2. UNCHANGED sched \/ RequestSchedule(c)
      BY DEF Request, HandleRequest
  <2> QED BY <2>1, <2>2 DEF RequestSchedule, ScheduleRunsReturnsAtOnce
<1> QED BY <1>2, <1>3, StaysCalm DEF Request, HandleRequest

LEMMA CalmStep ==
    ASSUME SupInv, SlotInv, Calm, Asks, [Next]_vars
    PROVE  Calm'
<1> SUFFICES ASSUME NEW r \in Runs, Pending(r)', ~Wanted(r) PROVE r \notin cancelReq'
    BY ClosedStays DEF Calm
<1>1. CASE PauseExpires \/ UNCHANGED vars \/ \E x \in Runs : ContainerExits(x)
  <2>1. UNCHANGED <<cancelReq, pc, sched>>
      BY <1>1 DEF PauseExpires, ContainerExits, vars, supVars, storeVars, threadVars
  <2> QED BY <2>1, StaysCalm
<1> QED BY <1>1, ThreadCalm, ScheduleCalm, ProcessCalm, RequestCalm DEF Next

\* Whoever holds a lease has a goroutine that will delete it, or will owe that
\* once it has passed its first checks, unless a request closed the run.
Answers(p, th) == pc[p][th] # "idle" /\ (th \in debt[p] \/ pc[p][th] \in {"exec", "register"})
Owned(p, r) == \E th \in Threads : th[1] = r /\ Answers(p, th)

Keeping == {"booting", "recovering", "up", "draining"}
Leased == \A p \in Procs, r \in Runs :
             proc[p] \in Keeping /\ lease[r] = p => Owned(p, r) \/ ClosedByRequest(r)

LEMMA StaysLeased ==
    ASSUME Leased, NEW p \in Procs, NEW r \in Runs, proc[p] \in Keeping, lease[r] = p,
           ~ClosedByRequest(r),
           \A th \in Threads : th[1] = r /\ Answers(p, th) => Answers(p, th)'
    PROVE  Owned(p, r)'
  BY DEF Leased, Owned

LEMMA ThreadLeased ==
    ASSUME SupInv, SlotInv, Leased, Calm, UsedRuns, Asks, NEW p \in Procs, NEW th \in Threads,
           Thread(p, th), NEW q \in Procs, NEW r \in Runs, proc'[q] \in Keeping, lease'[r] = q,
           ~ClosedByRequest(r)
    PROVE  Owned(q, r)' \/ ClosedByRequest(r)'
<1> USE DEF SupInv
<1>1. /\ Leaves(p, th) /\ Spares(p, th) /\ SupTypeOK /\ th[1] \in Runs /\ Alive(p)
      /\ PlaceOK(p, th) /\ p # NoProc /\ q # NoProc /\ TaskOf[th[1]] \in Tasks
      /\ lease \in [Runs -> Procs \cup {NoProc}] /\ pc[p][th] # "idle"
    BY ThreadLeaves, ThreadSpares, Stands, AtWork, SupervisionConstants DEF Leaves, SlotInv
<1>2. lease[r] = q /\ proc[q] \in Keeping
    BY <1>1 DEF Spares, Leaves
<1>3. q = p
    BY <1>1, <1>2, TheLiving DEF Alive, Keeping
<1>4. debt \in [Procs -> SUBSET Threads] /\ registered \in [Procs -> SUBSET Threads]
    BY DEF SupTypeOK
<1>5. \A o \in Threads : o # th => (o \in debt'[p] <=> o \in debt[p])
  <2>1. \/ UNCHANGED debt \/ debt' = [debt EXCEPT ![p] = @ \cup {th}]
        \/ debt' = [debt EXCEPT ![p] = @ \ {th}]
      BY DEF Thread, ExecuteRun, Prepare, Launch, Record, Register, Watch, StopWatching,
         WatchCancel, WatchCredential, WatchExit, WatchMissing, Settle, RemoveContainer,
         ForgetExecution, FinishRun, Reschedule, Unwind
  <2> QED BY <1>4, <2>1
<1>6. CASE r # th[1]
    BY <1>1, <1>2, <1>3, <1>5, <1>6, StaysLeased DEF Leaves, Answers
<1>7. CASE r = th[1]
  <2> SUFFICES Answers(p, th)' \/ ClosedByRequest(r)'
      BY <1>3, <1>7 DEF Owned
  <2>1. Answers(p, th)
    <3>1. PICK o \in Threads : o[1] = r /\ Answers(p, o)
        BY <1>2, <1>3 DEF Leased, Owned
    <3>2. o = th
        BY <1>1, <1>7, <3>1, AloneOnIt DEF Answers
    <3> QED BY <3>1, <3>2
  <2>2. ASSUME NEW l, Goto(p, th, l) PROVE pc'[p][th] = l
      BY <1>1, <2>2, GotoAt
  <2>3. ASSUME NEW l, Goto(p, th, l), l # "idle", UNCHANGED debt,
               pc[p][th] \notin {"exec", "register"}
        PROVE  Answers(p, th)'
      BY <2>1, <2>2, <2>3 DEF Answers
  <2>4. CASE ExecuteRun(p, th)
    <3>1. status[r] = "running" /\ (r \in cancelReq => Wanted(r))
      <4>1. pc[p][th] = "exec"
          BY <2>4 DEF ExecuteRun
      <4> QED BY <1>7, <4>1, LabelsDiffer
              DEF UsedRuns, InUse, Used, Calm, Pending, ClosedByRequest
    <3>2. CASE (r \in cancelReq \/ TaskOf[r] \in taskDone) /\ TransitionOrGet(r, "canceled")
      <4>1. Wanted(r) /\ asked' = asked
          BY <2>4, <3>1, <3>2 DEF Asks, Wanted, ExecuteRun, apiVars
      <4>2. CanTransition(r, "canceled")
          BY <3>1 DEF CanTransition, Transitions, Final
      <4>3. status'[r] = "canceled"
          BY <3>2, <4>2 DEF TransitionOrGet, SupTypeOK, StoreTypeOK
      <4> QED BY <4>1, <4>3 DEF ClosedByRequest, Overtaken, Wanted
    <3>3. CASE debt' = [debt EXCEPT ![p] = @ \cup {th}] /\ Goto(p, th, "prepare")
        BY <1>4, <2>2, <3>3 DEF Answers
    <3> QED BY <1>7, <2>4, <3>1, <3>2, <3>3 DEF ExecuteRun
  <2>5. CASE Prepare(p, th) \/ Launch(p, th)
      BY <2>3, <2>5 DEF Prepare, Launch
  <2>6. CASE Record(p, th)
      BY <2>2, <2>6 DEF Record, Answers
  <2>7. CASE Register(p, th)
    <3>1. ~\E o \in registered[p] : o[1] = th[1]
      <4> SUFFICES ASSUME NEW o \in registered[p], o[1] = th[1] PROVE FALSE
          OBVIOUS
      <4>1. o \in Threads /\ PlaceOK(p, o)
          BY <1>1, <1>4, TheLiving
      <4>2. o # th
          BY <1>1, <2>7 DEF Register, PlaceOK
      <4>3. pc[p][o] = "idle"
          BY <1>1, <4>1, <4>2, AloneOnIt
      <4> QED BY <4>1, <4>3 DEF PlaceOK
    <3>2. proc[p] # "stopping"
        BY <1>2, <1>3 DEF Keeping
    <3>3. th \in debt'[p] /\ Goto(p, th, "watch")
        BY <1>4, <2>7, <3>1, <3>2 DEF Register
    <3> QED BY <2>2, <3>3 DEF Answers
  <2>8. CASE StopWatching(p, th) \/ WatchCancel(p, th) \/ WatchCredential(p, th) \/ WatchMissing(p, th)
      BY <2>3, <2>8, LabelsDiffer
         DEF StopWatching, WatchCancel, WatchCredential, WatchMissing
  <2>9. CASE WatchExit(p, th)
      BY <2>3, <2>9, LabelsDiffer DEF WatchExit
  <2>10. CASE Settle(p, th)
      BY <2>3, <2>10, LabelsDiffer DEF Settle
  <2>11. CASE RemoveContainer(p, th) \/ ForgetExecution(p, th) \/ FinishRun(p, th) \/ Reschedule(p, th)
      BY <2>3, <2>11 DEF RemoveContainer, ForgetExecution, FinishRun, Reschedule
  <2>12. ~Unwind(p, th)
      BY <1>1, <1>2, <1>3, <1>7, <2>1 DEF Unwind, Answers, LeaseWithout
  <2> QED BY <2>4, <2>5, <2>6, <2>7, <2>8, <2>9, <2>10, <2>11, <2>12 DEF Thread, Watch
<1> QED BY <1>6, <1>7

LEMMA ScheduleLeased ==
    ASSUME SupInv, SlotInv, Leased, NEW p \in Procs, Schedule(p),
           NEW q \in Procs, NEW r \in Runs, proc'[q] \in Keeping, lease'[r] = q,
           ~ClosedByRequest(r)
    PROVE  Owned(q, r)'
<1> USE DEF procVars
<1>1. /\ SupTypeOK /\ SchedOK(p) /\ lease \in [Runs -> Procs \cup {NoProc}]
      /\ q # NoProc /\ proc' = proc /\ debt' = debt
    BY SupervisionConstants DEF SupInv, SupTypeOK, SlotInv, ProcOK, Schedule, ScheduleCheck,
       ScheduleClaim, ScheduleSpawn
<1>2. ASSUME UNCHANGED lease, UNCHANGED pc \/ (ReturnFromSchedule(p) /\ sched[p].step # "free")
      PROVE  Owned(q, r)'
  <2>1. \A th \in Threads :
           pc'[q][th] = pc[q][th] \/ (pc[q][th] = "insched" /\ pc'[q][th] = "unwind")
      BY <1>1, <1>2, Returned
  <2>2. \A th \in Threads : Answers(q, th) => Answers(q, th)'
      BY <1>1, <2>1 DEF Answers
  <2> QED BY <1>1, <1>2, <2>2, StaysLeased
<1>3. CASE ScheduleCheck(p) \/ ScheduleClaim(p)
  <2>1. /\ sched[p].step # "free" /\ UNCHANGED lease
        /\ UNCHANGED pc \/ ReturnFromSchedule(p)
      BY <1>3 DEF ScheduleCheck, ScheduleClaim
  <2> QED BY <1>2, <2>1
<1>4. CASE ScheduleSpawn(p)
  <2> DEFINE x == sched[p].run
  <2>1. CASE UNCHANGED lease /\ (UNCHANGED pc \/ ReturnFromSchedule(p))
      BY <1>2, <1>4, <2>1 DEF ScheduleSpawn
  <2>2. ASSUME NEW th \in Threads, IsNewThread(p, x, th), Goto(p, th, "exec"),
               lease' = [lease EXCEPT ![x] = p]
        PROVE  Owned(q, r)'
    <3>1. /\ pc'[p][th] = "exec" /\ \A o \in Threads : o # th => pc'[p][o] = pc[p][o]
          /\ \A z \in Procs : z # p => pc'[z] = pc[z]
          /\ th[1] = x /\ pc[p][th] = "idle"
      <4>1. th[1] = x
          BY <2>2 DEF IsNewThread
      <4>2. ~Working(p, x)
          BY <1>1, <1>4 DEF ScheduleSpawn, SchedOK
      <4>3. pc[p][th] = "idle"
          BY <2>2, <4>1, <4>2 DEF Working
      <4> QED BY <1>1, <2>2, <4>1, <4>3, GotoAt
    <3>2. CASE lease[r] = q
      <4>1. \A o \in Threads : Answers(q, o) => Answers(q, o)'
          BY <1>1, <3>1 DEF Answers
      <4> QED BY <1>1, <3>2, <4>1, StaysLeased
    <3>3. CASE lease[r] # q
      <4>1. r = x /\ q = p
          BY <1>1, <2>2, <3>3
      <4> QED BY <2>2, <3>1, <4>1 DEF Owned, Answers
    <3> QED BY <3>2, <3>3
  <2> QED BY <1>4, <2>1, <2>2 DEF ScheduleSpawn
<1> QED BY <1>3, <1>4 DEF Schedule

LEMMA ProcessLeased ==
    ASSUME SupInv, SlotInv, Leased, NEW p \in Procs,
           \/ Boot(p) \/ Startup(p) \/ Wake(p) \/ ResumeTimer(p)
           \/ Crash(p) \/ BeginDrain(p) \/ Leave(p) \/ StopRunSupervisors(p),
           NEW q \in Procs, NEW r \in Runs, proc'[q] \in Keeping, lease'[r] = q,
           ~ClosedByRequest(r)
    PROVE  Owned(q, r)'
<1> USE DEF threadVars
<1>1. /\ SupTypeOK /\ todo[p] \subseteq Runs /\ q # NoProc
      /\ lease \in [Runs -> Procs \cup {NoProc}]
    BY SupervisionConstants DEF SupInv, SupTypeOK
<1>2. ASSUME UNCHANGED <<lease, pc, debt>>, proc[q] \in Keeping PROVE Owned(q, r)'
    BY <1>2, StaysLeased DEF Answers
<1>3. CASE Crash(p) \/ Leave(p)
  <2>1. /\ UNCHANGED lease /\ proc' = [proc EXCEPT ![p] = "dead"]
        /\ pc' = [pc EXCEPT ![p] = [th \in Threads |-> "idle"]]
        /\ debt' = [debt EXCEPT ![p] = {}]
      BY <1>3 DEF Crash, Leave, Die
  <2>2. q # p /\ proc[q] \in Keeping
      BY <1>1, <2>1 DEF Keeping, SupTypeOK
  <2>3. pc'[q] = pc[q] /\ debt'[q] = debt[q]
      BY <1>1, <2>1, <2>2 DEF SupTypeOK
  <2>4. \A th \in Threads : Answers(q, th) => Answers(q, th)'
      BY <2>3 DEF Answers
  <2> QED BY <2>1, <2>2, <2>4, StaysLeased
<1>4. CASE Boot(p)
  <2>1. proc[p] = "unborn" /\ UNCHANGED lease /\ Unleased(p)
      BY <1>4 DEF Boot, SlotInv, ProcsOK
  <2>2. q # p
      BY <2>1 DEF Unleased
  <2>3. proc[q] \in Keeping
      BY <1>1, <1>4, <2>2 DEF Boot, SupTypeOK
  <2> QED BY <1>2, <1>4, <2>3 DEF Boot
<1>5. CASE BeginRecovery(p) \/ EndRecovery(p) \/ BeginDrain(p) \/ StopRunSupervisors(p)
  <2>1. proc[q] \in Keeping
      BY <1>1, <1>5 DEF BeginRecovery, EndRecovery, BeginDrain, StopRunSupervisors, Keeping, SupTypeOK
  <2> QED BY <1>2, <1>5, <2>1 DEF BeginRecovery, EndRecovery, BeginDrain, StopRunSupervisors
<1>6. CASE RecoverQueuedCancel(p) \/ Wake(p) \/ ResumeTimer(p)
    BY <1>2, <1>6 DEF RecoverQueuedCancel, Wake, ResumeTimer
<1>7. CASE RecoverRunningRun(p)
  <2>1. PICK x \in todo[p] : RecoverDetached(p, x) \/ RecoverUnlaunched(p, x)
      BY <1>7 DEF RecoverRunningRun
  <2>2. /\ UNCHANGED <<proc, debt>> /\ proc[q] \in Keeping /\ x \in Runs
        /\ Main(x) \in Threads /\ pc[p][Main(x)] = "idle" /\ TodoOK(p) /\ proc[p] = "recovering"
      BY <1>1, <1>7, MainThread DEF RecoverRunningRun, RecoveryIdle, SlotInv, ProcOK
  <2>3. \A th \in Threads : th[1] = x => pc[p][th] = "idle"
      BY <2>2 DEF TodoOK, Attended, Working
  \* A goroutine begins that was idle.
  <2>4. ASSUME NEW th \in Threads, NEW l, Goto(p, th, l), pc[p][th] = "idle"
        PROVE  \A o \in Threads : Answers(q, o) => Answers(q, o)'
    <3>1. /\ \A o \in Threads : o # th => pc'[p][o] = pc[p][o]
          /\ \A z \in Procs : z # p => pc'[z] = pc[z]
        BY <1>1, <2>4, GotoAt
    <3> QED BY <2>2, <2>4, <3>1 DEF Answers
  <2>5. ASSUME lease[r] = q, NEW th \in Threads, NEW l, Goto(p, th, l), pc[p][th] = "idle"
        PROVE  Owned(q, r)'
      BY <2>2, <2>4, <2>5, StaysLeased
  <2>6. CASE FailMissing(x) /\ Goto(p, Main(x), "finish")
    <3>1. lease[r] = q
        BY <1>1, <2>6 DEF FailMissing
    <3> QED BY <2>2, <2>5, <2>6, <3>1
  <2>7. ASSUME NEW th \in Threads, IsNewThread(p, x, th), Goto(p, th, "register"),
               lease' = [lease EXCEPT ![x] = p]
        PROVE  Owned(q, r)'
    <3>1. th[1] = x /\ pc[p][th] = "idle"
        BY <2>3, <2>7 DEF IsNewThread
    <3>2. CASE lease[r] = q
        BY <2>5, <2>7, <3>1, <3>2
    <3>3. CASE lease[r] # q
      <4>1. r = x /\ q = p
          BY <1>1, <2>7, <3>3
      <4>2. pc'[p][th] = "register"
          BY <1>1, <2>7, GotoAt
      <4> QED BY <2>7, <3>1, <4>1, <4>2 DEF Owned, Answers
    <3> QED BY <3>2, <3>3
  <2>8. CASE UNCHANGED lease /\ Goto(p, Main(x), container[x])
      BY <2>2, <2>5, <2>8
  <2>9. CASE RecoverUnlaunched(p, x)
    <3>1. lease[r] = q /\ UNCHANGED pc
        BY <1>1, <2>9 DEF RecoverUnlaunched
    <3> QED BY <2>2, <3>1, StaysLeased DEF Answers
  <2> QED BY <2>1, <2>6, <2>7, <2>8, <2>9 DEF RecoverDetached
<1> QED BY <1>3, <1>4, <1>5, <1>6, <1>7 DEF Startup

LEMMA LeasedStep ==
    ASSUME SupInv, SlotInv, Leased, Calm, UsedRuns, Asks, [Next]_vars
    PROVE  Leased'
<1> SUFFICES ASSUME NEW q \in Procs, NEW r \in Runs, proc'[q] \in Keeping, lease'[r] = q,
                    ~ClosedByRequest(r)
             PROVE  Owned(q, r)' \/ ClosedByRequest(r)'
    BY ClosedStays DEF Leased
<1>1. CASE \/ PauseExpires \/ UNCHANGED vars \/ \E x \in Runs : ContainerExits(x)
           \/ \E c \in Clients : Request(c) \/ HandleRequest(c)
  <2>1. UNCHANGED <<proc, lease, pc, debt>>
      BY <1>1 DEF PauseExpires, ContainerExits, Request, HandleRequest, vars, supVars, procVars,
         threadVars
  <2> QED BY <2>1, StaysLeased DEF Answers
<1> QED BY <1>1, ThreadLeased, ScheduleLeased, ProcessLeased DEF Next

\* A process that is not stopping its supervisors works on every run whose lease
\* it holds: no lease is left behind to take its capacity, unless the run was
\* closed by a cancel, the end of its task or a failing write, as it began.
THEOREM LeasesAreAttended == ASSUME OneSlot PROVE Spec => []NoLeakedLease
<1> DEFINE Inv == Asks /\ UsedRuns /\ Calm /\ Leased
<1>1. SupInit => Inv
  <2>1. SupInit => Calm /\ Leased
    <3>1. NobodySched.run = NoRun
        BY DEF NobodySched
    <3> QED BY <3>1, SupervisionConstants DEF SupInit, StoreInit, Calm, Pending, Leased, Keeping
  <2> QED BY <2>1, CareInit
<1>2. SupInv /\ SlotInv /\ Inv /\ [Next]_vars => Inv'
    BY AsksStep, UsedStep, CalmStep, LeasedStep
<1>3. SupInv /\ Inv => NoLeakedLease
  <2> SUFFICES ASSUME SupInv, Leased, NEW p \in Procs, NEW r \in Runs,
                      proc[p] \notin {"unborn", "stopping", "dead"}, lease[r] = p
               PROVE  Attended(p, r) \/ ClosedByRequest(r)
      BY DEF NoLeakedLease
  <2>1. proc[p] \in Keeping
      BY DEF Keeping, SupInv, SupTypeOK
  <2> QED BY <2>1 DEF Leased, Owned, Answers, Attended, Working
<1> HIDE DEF Inv
<1> QED BY <1>1, <1>2, <1>3, SlotInvHolds, PTL DEF Spec

-----------------------------------------------------------------------------
(* One process at a time, with any limit.  A run that a process has at hand *)
(* is not in the queue, so that no scheduler claims it a second time.       *)

ToRecover(p)    == {r \in todo[p] : proc[p] = "recovering"}
EngagedOn(p, r) == \E th \in Threads : th[1] = r /\ pc[p][th] \in Engaged
AtHand(p, r)    == sched[p].run = r \/ EngagedOn(p, r) \/ r \in ToRecover(p)
Waiting         == {"absent", "queued"}

AloneInv ==
    /\ ProcsOK
    /\ OneAtWork
    /\ \A p \in Procs, r \in Runs :
          /\ AtHand(p, r) => status[r] \notin Waiting
          /\ r \in ToRecover(p) => sched[p].run # r /\ ~EngagedOn(p, r)

LEMMA EngagedLabels ==
    /\ Engaged = {"exec", "prepare", "launch", "record", "register", "watch", "halted"} \cup Exits
    /\ Exits = {"ok", "failed", "limited"}
  BY DEF Engaged, Exits

\* A step by which no process takes up anything, and a run that goes back to
\* the queue is at hand nowhere.
LEMMA NothingTakenUp ==
    ASSUME SupInv, AloneInv, ProcsOK',
           \A p \in Procs, th \in Threads : pc'[p][th] \in Engaged => pc[p][th] \in Engaged,
           \A p \in Procs : sched'[p].run \in {sched[p].run, NoRun},
           \A p \in Procs : proc'[p] = "recovering" =>
               proc[p] = "recovering" /\ todo'[p] \subseteq todo[p],
           \A r \in Runs : status'[r] \in Waiting =>
               status[r] \in Waiting \/ \A p \in Procs : ~AtHand(p, r)'
    PROVE  AloneInv'
<1>1. ASSUME NEW p \in Procs, NEW r \in Runs
      PROVE  /\ sched'[p].run = r => sched[p].run = r
             /\ EngagedOn(p, r)' => EngagedOn(p, r)
             /\ r \in ToRecover(p)' => r \in ToRecover(p)
  <2>1. r # NoRun
      BY SupervisionConstants
  <2>2. sched'[p].run = r => sched[p].run = r
      BY <2>1
  <2>3. EngagedOn(p, r)' => EngagedOn(p, r)
      BY DEF EngagedOn
  <2>4. r \in ToRecover(p)' => r \in ToRecover(p)
      BY DEF ToRecover
  <2> QED BY <2>2, <2>3, <2>4
<1>2. ASSUME NEW p \in Procs, NEW r \in Runs
      PROVE  /\ AtHand(p, r)' => status'[r] \notin Waiting
             /\ r \in ToRecover(p)' => sched'[p].run # r /\ ~EngagedOn(p, r)'
  <2>1. AtHand(p, r)' => AtHand(p, r)
      BY <1>1 DEF AtHand
  <2> QED BY <1>1, <2>1 DEF AloneInv
<1>3. OneAtWork'
  <2> SUFFICES ASSUME NEW p \in Procs, NEW th \in Threads, pc'[p][th] \in Engaged
               PROVE  /\ sched'[p].run # th[1]
                      /\ \A o \in Threads : pc'[p][o] \in Engaged /\ o[1] = th[1] => o = th
      BY DEF OneAtWork
  <2>1. th[1] \in Runs /\ pc[p][th] \in Engaged
      BY RunOfThread
  <2> QED BY <1>1, <2>1 DEF AloneInv, OneAtWork
<1> QED BY <1>2, <1>3 DEF AloneInv

\* What a goroutine's step leaves alone.
LEMMA ThreadAside ==
    ASSUME SupTypeOK, ProcsOK, NEW p \in Procs, NEW th \in Threads, Thread(p, th)
    PROVE  /\ Inside(p) /\ UNCHANGED <<proc, todo>>
           /\ sched'[p].run \in {sched[p].run, NoRun}
           /\ \A o \in Threads : o # th => pc'[p][o] = pc[p][o]
           /\ pc'[p][th] \in Engaged => pc[p][th] \in Engaged
<1>0. /\ registered \in [Procs -> SUBSET Threads] /\ lease \in [Runs -> Procs \cup {NoProc}]
      /\ container \in [Runs -> {"absent", "running"} \cup Exits] /\ th[1] \in Runs
      /\ sched \in [Procs -> Scheds] /\ armed \in [Procs -> BOOLEAN]
    BY RunOfThread DEF SupTypeOK, Scheds
<1>1. ASSUME NEW l, Goto(p, th, l), l \in Engaged => pc[p][th] \in Engaged, pc[p][th] # "idle",
             UNCHANGED <<procVars, request>>, UNCHANGED registered \/ Register(p, th) \/ Unwind(p, th),
             UNCHANGED sched \/ Reschedule(p, th),
             UNCHANGED armed \/ Reschedule(p, th) \/ EnsureResumeTimer(p),
             \/ UNCHANGED lease \/ lease' = [lease EXCEPT ![th[1]] = p]
             \/ lease' = [lease EXCEPT ![th[1]] = NoProc] \/ lease' = LeaseWithout(p, th[1])
      PROVE  /\ Inside(p) /\ UNCHANGED <<proc, todo>>
             /\ sched'[p].run \in {sched[p].run, NoRun}
             /\ \A o \in Threads : o # th => pc'[p][o] = pc[p][o]
             /\ pc'[p][th] \in Engaged => pc[p][th] \in Engaged
  <2>1. /\ pc'[p][th] = l
        /\ \A o \in Threads : o # th => pc'[p][o] = pc[p][o]
        /\ \A q \in Procs : q # p => pc'[q] = pc[q]
      BY <1>1, GotoAt
  <2>2. \A q \in Procs : q # p => registered'[q] = registered[q]
      BY <1>0, <1>1 DEF Register, Unwind
  <2>3. \A q \in Procs : q # p => sched'[q] = sched[q] /\ armed'[q] = armed[q]
      BY <1>0, <1>1 DEF Reschedule, CallScheduleRuns, ScheduleRunsReturnsAtOnce, EnsureResumeTimer
  <2>4. sched'[p].run \in {sched[p].run, NoRun}
      BY <1>0, <1>1 DEF Reschedule, CallScheduleRuns, ScheduleRunsReturnsAtOnce
  <2>5. \A r \in Runs : lease'[r] \in {lease[r], p, NoProc}
      BY <1>0, <1>1 DEF LeaseWithout
  <2>6. Alive(p) /\ proc[p] # "booting"
      BY <1>1, AtWork
  <2>7. Inside(p)
      BY <1>1, <2>1, <2>2, <2>3, <2>5, <2>6 DEF Inside, procVars, Alive
  <2> QED BY <1>1, <2>1, <2>4, <2>7 DEF procVars
<1>2. CASE ExecuteRun(p, th)
    BY <1>1, <1>2, EngagedLabels DEF ExecuteRun, apiVars, timerVars
<1>3. CASE Prepare(p, th)
    BY <1>1, <1>3, EngagedLabels DEF Prepare, apiVars, timerVars
<1>4. CASE Launch(p, th)
    BY <1>1, <1>4, EngagedLabels DEF Launch, apiVars, timerVars
<1>5. CASE Record(p, th)
    BY <1>1, <1>5, EngagedLabels DEF Record, apiVars, timerVars
<1>6. CASE Register(p, th)
    BY <1>1, <1>6, EngagedLabels DEF Register, apiVars, timerVars
<1>7. CASE StopWatching(p, th) \/ WatchCancel(p, th) \/ WatchCredential(p, th) \/ WatchExit(p, th)
    BY <1>1, <1>7, EngagedLabels DEF StopWatching, WatchCancel, WatchCredential, WatchExit, Watching,
       apiVars, timerVars
<1>8. CASE WatchMissing(p, th)
    BY <1>1, <1>8, EngagedLabels DEF WatchMissing, FailMissing, Watching, apiVars, timerVars
<1>9. CASE Settle(p, th)
    BY <1>1, <1>9, EngagedLabels DEF Settle, apiVars, timerVars
<1>10. CASE RemoveContainer(p, th)
    BY <1>1, <1>10, EngagedLabels DEF RemoveContainer, apiVars, timerVars
<1>11. CASE ForgetExecution(p, th)
    BY <1>1, <1>11, EngagedLabels DEF ForgetExecution, apiVars, timerVars
<1>12. CASE FinishRun(p, th)
    BY <1>1, <1>12, EngagedLabels DEF FinishRun, apiVars, timerVars
<1>13. CASE Reschedule(p, th)
    BY <1>1, <1>13, EngagedLabels DEF Reschedule, apiVars
<1>14. CASE Unwind(p, th)
    BY <1>1, <1>14, EngagedLabels DEF Unwind, apiVars, timerVars
<1> QED BY <1>2, <1>3, <1>4, <1>5, <1>6, <1>7, <1>8, <1>9, <1>10, <1>11, <1>12, <1>13, <1>14
        DEF Thread, Watch

\* A goroutine writes an end, or hands its run back when it has settled it.
LEMMA ThreadHandsBack ==
    ASSUME SupTypeOK, NEW p \in Procs, NEW th \in Threads, Thread(p, th), NEW r \in Runs,
           status'[r] \in Waiting
    PROVE  status[r] \in Waiting \/ (r = th[1] /\ pc[p][th] \in Exits /\ Goto(p, th, "remove"))
<1>0. status \in [Runs -> Statuses] /\ th[1] \in Runs
    BY RunOfThread DEF SupTypeOK, StoreTypeOK
<1>1. ASSUME NEW to \in Final, TransitionOrGet(th[1], to) PROVE status[r] \in Waiting
    BY <1>0, <1>1 DEF TransitionOrGet, Waiting, Final
<1>2. ASSUME UNCHANGED status PROVE status[r] \in Waiting
    BY <1>2
<1>3. {"failed", "canceled"} \subseteq Final
    BY DEF Final
<1>4. CASE ExecuteRun(p, th) \/ Prepare(p, th) \/ Launch(p, th) \/ WatchMissing(p, th)
    BY <1>1, <1>2, <1>3, <1>4 DEF ExecuteRun, Prepare, Launch, WatchMissing, FailMissing
<1>5. CASE Settle(p, th)
  <2>1. ASSUME NEW to \in SettledStatuses(th[1], pc[p][th]), SettleRun(th[1], to)
        PROVE  status[r] \in Waiting
    <3>1. to \in Final
        BY <1>5 DEF Settle, Exits, SettledStatuses, Final
    <3> QED BY <1>1, <1>3, <2>1, <3>1, SettleRunWrites
  <2>2. ASSUME Requeue(th[1]) PROVE status[r] \in Waiting \/ r = th[1]
      BY <1>0, <2>2 DEF Requeue
  <2> QED BY <1>2, <1>5, <2>1, <2>2 DEF Settle
<1>6. CASE FinishRun(p, th)
    BY <1>0, <1>6 DEF FinishRun, CancelPendingIfCompleted, CancelQueuedRuns, Waiting
<1>7. CASE \/ Record(p, th) \/ Register(p, th) \/ StopWatching(p, th) \/ WatchCancel(p, th)
           \/ WatchCredential(p, th) \/ WatchExit(p, th) \/ RemoveContainer(p, th)
           \/ ForgetExecution(p, th) \/ Reschedule(p, th) \/ Unwind(p, th)
    BY <1>2, <1>7 DEF Record, Register, StopWatching, WatchCancel, WatchCredential, WatchExit,
       RemoveContainer, ForgetExecution, Reschedule, Unwind, storeVars
<1> QED BY <1>4, <1>5, <1>6, <1>7 DEF Thread, Watch

LEMMA ThreadAlone ==
    ASSUME SupInv, AloneInv, NEW p \in Procs, NEW th \in Threads, Thread(p, th)
    PROVE  AloneInv'
<1>1. SupTypeOK /\ ProcsOK
    BY DEF SupInv, AloneInv
<1>2. /\ Inside(p) /\ UNCHANGED <<proc, todo>>
      /\ sched'[p].run \in {sched[p].run, NoRun}
      /\ \A o \in Threads : o # th => pc'[p][o] = pc[p][o]
      /\ pc'[p][th] \in Engaged => pc[p][th] \in Engaged
    BY <1>1, ThreadAside
<1>3. ProcsOK' /\ \A q \in Procs : q # p => ~Alive(q)' /\ Resting(q)'
    BY <1>1, <1>2, InsideProcs DEF ProcsOK, Inside
<1>4. \A q \in Procs : q # p => /\ sched'[q] = sched[q] /\ pc'[q] = pc[q]
    BY <1>2 DEF Inside
<1>5. ASSUME NEW r \in Runs, status'[r] \in Waiting, status[r] \notin Waiting, NEW q \in Procs
      PROVE  ~AtHand(q, r)'
  <2>1. r = th[1] /\ pc[p][th] \in Exits /\ Goto(p, th, "remove")
      BY <1>1, <1>5, ThreadHandsBack
  <2>2. CASE q # p
    <3>1. /\ sched'[q].run = NoRun /\ proc'[q] # "recovering"
          /\ \A o \in Threads : pc'[q][o] = "idle"
        BY <1>3, <2>2, NoCaller, <1>1 DEF Resting, AllIdle, Free, Alive
    <3> QED BY <3>1, EngagedLabels, SupervisionConstants DEF AtHand, EngagedOn, ToRecover
  <2>3. CASE q = p
    <3>1. pc'[p][th] = "remove" /\ pc[p][th] \in Engaged
        BY <1>1, <2>1, GotoAt, EngagedLabels
    <3>2. EngagedOn(p, r)
        BY <2>1, <3>1 DEF EngagedOn
    <3>3. sched[p].run # r /\ r \notin ToRecover(p)
        BY <2>1, <3>1, <3>2 DEF AloneInv, OneAtWork
    <3>4. ~EngagedOn(p, r)'
        BY <1>2, <2>1, <3>1, EngagedLabels DEF EngagedOn, AloneInv, OneAtWork
    <3>5. sched'[p].run # r
        BY <1>2, <3>3, SupervisionConstants
    <3>6. r \notin ToRecover(p)'
        BY <1>2, <3>3 DEF ToRecover
    <3> QED BY <2>3, <3>4, <3>5, <3>6 DEF AtHand
  <2> QED BY <2>2, <2>3
<1>6. \A q \in Procs, o \in Threads : pc'[q][o] \in Engaged => pc[q][o] \in Engaged
    BY <1>2, <1>4
<1>7. \A q \in Procs : sched'[q].run \in {sched[q].run, NoRun}
    BY <1>2, <1>4
<1> QED BY <1>2, <1>3, <1>5, <1>6, <1>7, NothingTakenUp

\* The scheduler.
LEMMA SchedAside ==
    ASSUME SupTypeOK, ProcsOK, NEW p \in Procs, Schedule(p)
    PROVE  /\ Inside(p) /\ UNCHANGED <<proc, todo>>
           /\ \A q \in Procs : q # p => sched'[q] = sched[q] /\ pc'[q] = pc[q]
<1>1. sched \in [Procs -> Scheds] /\ armed \in [Procs -> BOOLEAN]
      /\ lease \in [Runs -> Procs \cup {NoProc}]
    BY DEF SupTypeOK, Scheds
<1>2. sched[p].step # "free"
    BY DEF Schedule, ScheduleCheck, ScheduleClaim, ScheduleSpawn
<1>3. \A q \in Procs : q # p => pc'[q] = pc[q]
    BY DEF Schedule, ScheduleCheck, ScheduleClaim, ScheduleSpawn, ReturnFromSchedule, Goto, SupTypeOK
<1>4. \A q \in Procs : q # p => sched'[q] = sched[q] /\ armed'[q] = armed[q]
    BY <1>1 DEF Schedule, ScheduleCheck, ScheduleClaim, ScheduleSpawn, ReturnFromSchedule,
       EnsureResumeTimer, timerVars
<1>5. \A c \in Clients : request'[c] \in {request[c], NoRequest}
    BY DEF Schedule, ScheduleCheck, ScheduleClaim, ScheduleSpawn, ReturnFromSchedule
<1>6. \A r \in Runs : lease'[r] \in {lease[r], p}
    BY <1>1 DEF Schedule, ScheduleCheck, ScheduleClaim, ScheduleSpawn
<1>7. UNCHANGED <<execRow, container, paused, proc, todo, wake, registered>>
    BY DEF Schedule, ScheduleCheck, ScheduleClaim, ScheduleSpawn, dockerVars, timerVars, procVars
<1>8. SchedFrame(p)
    BY <1>3, <1>4, <1>5, <1>6, <1>7 DEF SchedFrame
<1> QED BY <1>2, <1>3, <1>4, <1>7, <1>8, SchedInside

\* It returns, or goes on to look at the queue.
LEMMA SchedLetsGo ==
    ASSUME SupInv, AloneInv, NEW p \in Procs, Schedule(p),
           \/ ReturnFromSchedule(p)
           \/ pc' = pc /\ \E s : sched' = [sched EXCEPT ![p].step = s]
           \/ pc' = pc /\ \E s : sched' = [sched EXCEPT ![p].step = s, ![p].run = NoRun],
           \A r \in Runs : status'[r] \in Waiting => status[r] \in Waiting
    PROVE  AloneInv'
<1>1. SupTypeOK /\ ProcsOK /\ sched \in [Procs -> Scheds]
    BY DEF SupInv, AloneInv, SupTypeOK, Scheds
<1>2. /\ Inside(p) /\ UNCHANGED <<proc, todo>>
      /\ \A q \in Procs : q # p => sched'[q] = sched[q] /\ pc'[q] = pc[q]
    BY <1>1, SchedAside
<1>3. ProcsOK'
    BY <1>1, <1>2, InsideProcs
<1>4. \A th \in Threads : pc'[p][th] = pc[p][th] \/ pc'[p][th] = "unwind"
    BY <1>1 DEF ReturnFromSchedule, Goto, SupTypeOK
<1>5. \A q \in Procs, o \in Threads : pc'[q][o] \in Engaged => pc[q][o] \in Engaged
    BY <1>2, <1>4, EngagedLabels
<1>6. sched'[p].run \in {sched[p].run, NoRun}
    BY <1>1, NoCaller DEF ReturnFromSchedule, Scheds
<1>7. \A q \in Procs : sched'[q].run \in {sched[q].run, NoRun}
    BY <1>2, <1>6
<1> QED BY <1>2, <1>3, <1>5, <1>7, NothingTakenUp

\* It takes up a run from the queue, which nobody has at hand.
LEMMA ClaimAlone ==
    ASSUME SupInv, AloneInv, NEW p \in Procs, Schedule(p), UNCHANGED pc, NEW r \in Runs,
           status[r] = "queued", status' = [status EXCEPT ![r] = "running"],
           sched'[p].run = r
    PROVE  AloneInv'
<1>1. SupTypeOK /\ ProcsOK /\ status \in [Runs -> Statuses] /\ r # NoRun
    BY SupervisionConstants DEF SupInv, AloneInv, SupTypeOK, StoreTypeOK
<1>2. /\ Inside(p) /\ UNCHANGED <<proc, todo>>
      /\ \A q \in Procs : q # p => sched'[q] = sched[q]
    BY <1>1, SchedAside
<1>3. ProcsOK'
    BY <1>1, <1>2, InsideProcs
<1>4. \A q \in Procs : ~AtHand(q, r)
    BY DEF AloneInv, Waiting
<1>5. \A q \in Procs, x \in Runs : /\ EngagedOn(q, x)' <=> EngagedOn(q, x)
                                   /\ x \in ToRecover(q)' <=> x \in ToRecover(q)
    BY <1>2 DEF EngagedOn, ToRecover
<1>6. \A q \in Procs, x \in Runs : sched'[q].run = x => sched[q].run = x \/ x = r
    BY <1>2
<1>7. \A x \in Runs : status'[x] \in Waiting => status[x] \in Waiting /\ x # r
    BY <1>1 DEF Waiting
<1>8. ASSUME NEW q \in Procs, NEW x \in Runs
      PROVE  /\ AtHand(q, x)' => status'[x] \notin Waiting
             /\ x \in ToRecover(q)' => sched'[q].run # x /\ ~EngagedOn(q, x)'
  <2>1. x # r => (AtHand(q, x)' => AtHand(q, x))
      BY <1>5, <1>6 DEF AtHand
  <2>2. x \in ToRecover(q) => x # r
      BY <1>4 DEF AtHand
  <2> QED BY <1>5, <1>6, <1>7, <2>1, <2>2 DEF AloneInv
<1>9. OneAtWork'
  <2> SUFFICES ASSUME NEW q \in Procs, NEW th \in Threads, pc[q][th] \in Engaged
               PROVE  /\ sched'[q].run # th[1]
                      /\ \A o \in Threads : pc[q][o] \in Engaged /\ o[1] = th[1] => o = th
      BY DEF OneAtWork
  <2>1. th[1] \in Runs /\ EngagedOn(q, th[1])
      BY RunOfThread DEF EngagedOn
  <2>2. th[1] # r
      BY <1>4, <2>1 DEF AtHand
  <2> QED BY <1>6, <2>1, <2>2 DEF AloneInv, OneAtWork
<1> QED BY <1>3, <1>8, <1>9 DEF AloneInv

\* A goroutine takes up a run that the scheduler, or the recovery, had at hand.
LEMMA HandsOver ==
    ASSUME SupInv, AloneInv, ProcsOK', NEW p \in Procs, NEW th \in Threads,
           AtHand(p, th[1]), ~EngagedOn(p, th[1]),
           sched'[p].run # th[1], th[1] \notin ToRecover(p)',
           \A q \in Procs, o \in Threads : <<q, o>> # <<p, th>> =>
               (pc'[q][o] \in Engaged => pc[q][o] \in Engaged),
           \A q \in Procs : sched'[q].run \in {sched[q].run, NoRun},
           UNCHANGED <<status, proc>>, \A q \in Procs : todo'[q] \subseteq todo[q]
    PROVE  AloneInv'
<1>1. th[1] \in Runs
    BY RunOfThread
<1>2. ASSUME NEW q \in Procs, NEW r \in Runs
      PROVE  /\ sched'[q].run = r => sched[q].run = r
             /\ EngagedOn(q, r)' => EngagedOn(q, r) \/ (q = p /\ r = th[1])
             /\ r \in ToRecover(q)' => r \in ToRecover(q)
  <2>1. r # NoRun
      BY SupervisionConstants
  <2>2. sched'[q].run = r => sched[q].run = r
      BY <2>1
  <2>3. EngagedOn(q, r)' => EngagedOn(q, r) \/ (q = p /\ r = th[1])
      BY DEF EngagedOn
  <2>4. r \in ToRecover(q)' => r \in ToRecover(q)
      BY DEF ToRecover
  <2> QED BY <2>2, <2>3, <2>4
<1>3. ASSUME NEW q \in Procs, NEW r \in Runs
      PROVE  /\ AtHand(q, r)' => status'[r] \notin Waiting
             /\ r \in ToRecover(q)' => sched'[q].run # r /\ ~EngagedOn(q, r)'
  <2>1. AtHand(q, r)' => AtHand(q, r)
      BY <1>2 DEF AtHand
  <2> QED BY <1>2, <2>1 DEF AloneInv
<1>4. OneAtWork'
  <2> SUFFICES ASSUME NEW q \in Procs, NEW o \in Threads, pc'[q][o] \in Engaged
               PROVE  /\ sched'[q].run # o[1]
                      /\ \A x \in Threads : pc'[q][x] \in Engaged /\ x[1] = o[1] => x = o
      BY DEF OneAtWork
  <2>1. o[1] \in Runs
      BY RunOfThread
  <2>2. CASE q = p /\ o[1] = th[1]
      BY <2>2 DEF EngagedOn
  <2>3. CASE ~(q = p /\ o[1] = th[1])
    <3>1. \A x \in Threads : x[1] = o[1] /\ pc'[q][x] \in Engaged => pc[q][x] \in Engaged
        BY <2>3
    <3>2. pc[q][o] \in Engaged
        BY <3>1
    <3>3. sched[q].run # o[1] /\ \A x \in Threads : pc[q][x] \in Engaged /\ x[1] = o[1] => x = o
        BY <3>2 DEF AloneInv, OneAtWork
    <3> QED BY <1>2, <2>1, <3>1, <3>3
  <2> QED BY <2>2, <2>3
<1> QED BY <1>3, <1>4 DEF AloneInv

LEMMA ScheduleAlone ==
    ASSUME SupInv, AloneInv, NEW p \in Procs, Schedule(p)
    PROVE  AloneInv'
<1>1. SupTypeOK /\ ProcsOK /\ sched \in [Procs -> Scheds] /\ status \in [Runs -> Statuses]
    BY DEF SupInv, AloneInv, SupTypeOK, StoreTypeOK, Scheds
<1>2. CASE ScheduleCheck(p)
  <2>1. UNCHANGED status
      BY <1>2 DEF ScheduleCheck, storeVars
  <2> QED BY <1>2, <2>1, SchedLetsGo DEF ScheduleCheck
<1>3. CASE ScheduleClaim(p)
  <2>1. ASSUME NEW r \in Runs, ClaimNextQueuedRun(sched[p].prefer, r), UNCHANGED pc,
               sched' = [sched EXCEPT ![p].step = "claimed", ![p].run = r, ![p].prefer = NoTask]
        PROVE  AloneInv'
    <3>1. status[r] = "queued" /\ status' = [status EXCEPT ![r] = "running"]
        BY <2>1 DEF ClaimNextQueuedRun, NextQueuedRun, Claimable
    <3>2. sched'[p].run = r
        BY <1>1, <2>1 DEF Scheds
    <3> QED BY <2>1, <3>1, <3>2, ClaimAlone
  <2>2. CASE ReturnFromSchedule(p) /\ UNCHANGED status
      BY <2>2, SchedLetsGo
  <2> QED BY <1>3, <2>1, <2>2 DEF ScheduleClaim
<1>4. CASE ScheduleSpawn(p)
  <2> DEFINE r == sched[p].run
  <2>1. sched[p].step = "claimed" /\ r \in Runs
      BY <1>4 DEF ScheduleSpawn, SupInv, Known, SchedKnows, Rows
  <2>2. ASSUME TransitionOrGet(r, "canceled")
        PROVE  \A x \in Runs : status'[x] \in Waiting => status[x] \in Waiting
      BY <1>1, <2>1, <2>2 DEF TransitionOrGet, Waiting
  <2>3. CASE /\ TransitionOrGet(r, "canceled") /\ UNCHANGED pc
             /\ sched' = [sched EXCEPT ![p].step = "check", ![p].run = NoRun]
      BY <2>2, <2>3, SchedLetsGo
  <2>4. CASE TransitionOrGet(r, "canceled") /\ ReturnFromSchedule(p)
      BY <2>2, <2>4, SchedLetsGo
  <2>5. ASSUME NEW th \in Threads, IsNewThread(p, r, th), Goto(p, th, "exec"), UNCHANGED status,
               sched' = [sched EXCEPT ![p].step = "check", ![p].run = NoRun]
        PROVE  AloneInv'
    <3>1. th[1] = r /\ AtHand(p, th[1])
        BY <2>5 DEF IsNewThread, AtHand
    <3>2. ~EngagedOn(p, r)
        BY DEF EngagedOn, AloneInv, OneAtWork
    <3>3. r \notin ToRecover(p)
        BY <2>1 DEF AloneInv
    <3>4. Inside(p) /\ UNCHANGED <<proc, todo>>
        BY <1>1, SchedAside
    <3>5. ProcsOK'
        BY <1>1, <3>4, InsideProcs
    <3>6. sched'[p].run = NoRun /\ \A q \in Procs : q # p => sched'[q] = sched[q]
        BY <1>1, <2>5 DEF Scheds
    <3>7. \A q \in Procs, o \in Threads : <<q, o>> # <<p, th>> => pc'[q][o] = pc[q][o]
        BY <1>1, <2>5, GotoAt
    <3>8. sched'[p].run # th[1] /\ th[1] \notin ToRecover(p)'
        BY <2>1, <3>1, <3>3, <3>4, <3>6, SupervisionConstants DEF ToRecover
    <3>9. \A q \in Procs : sched'[q].run \in {sched[q].run, NoRun} /\ todo'[q] \subseteq todo[q]
        BY <3>4, <3>6
    <3>10. ~EngagedOn(p, th[1])
        BY <3>1, <3>2
    <3>11. \A q \in Procs, o \in Threads : <<q, o>> # <<p, th>> =>
              (pc'[q][o] \in Engaged => pc[q][o] \in Engaged)
        BY <3>7
    <3> QED BY <2>5, <3>1, <3>4, <3>5, <3>8, <3>9, <3>10, <3>11, HandsOver
  <2> QED BY <1>4, <2>3, <2>4, <2>5 DEF ScheduleSpawn
<1> QED BY <1>2, <1>3, <1>4 DEF Schedule

\* The steps of a process as a whole.
LEMMA ProcessAlone ==
    ASSUME SupInv, AloneInv, NEW p \in Procs,
           \/ RecoverQueuedCancel(p) \/ EndRecovery(p) \/ Wake(p) \/ ResumeTimer(p)
           \/ BeginDrain(p) \/ StopRunSupervisors(p)
    PROVE  AloneInv'
<1>1. /\ UNCHANGED <<lease, pc, registered, request>>
      /\ \A q \in Procs : q # p => /\ proc'[q] = proc[q] /\ sched'[q] = sched[q]
                                   /\ todo'[q] = todo[q] /\ wake'[q] = wake[q]
                                   /\ armed'[q] = armed[q]
    BY DEF SupInv, RecoverQueuedCancel, EndRecovery, Wake, ResumeTimer, BeginDrain,
       StopRunSupervisors, CallScheduleRuns, ScheduleRunsReturnsAtOnce, EnsureResumeTimer,
       SupTypeOK, storeVars, dockerVars, timerVars, threadVars, apiVars
<1>2. Alive(p)
    BY DEF RecoverQueuedCancel, EndRecovery, Wake, ResumeTimer, BeginDrain, StopRunSupervisors,
       Alive, AloneInv, ProcsOK, Resting
<1>3. /\ SupTypeOK /\ ProcsOK /\ todo[p] \subseteq Rows /\ sched \in [Procs -> Scheds]
    BY DEF SupInv, AloneInv, Known, SupTypeOK, Scheds
<1>4. \A q \in Procs : sched'[q].run \in {sched[q].run, NoRun}
  <2>1. sched'[p].run \in {sched[p].run, NoRun}
      BY <1>3 DEF RecoverQueuedCancel, EndRecovery, Wake, ResumeTimer, BeginDrain,
         StopRunSupervisors, CallScheduleRuns, ScheduleRunsReturnsAtOnce
  <2> QED BY <1>1, <2>1
<1>5. \A q \in Procs : proc'[q] = "recovering" => proc[q] = "recovering" /\ todo'[q] \subseteq todo[q]
  <2>1. proc'[p] = "recovering" => proc[p] = "recovering" /\ todo'[p] \subseteq todo[p]
      BY <1>3 DEF RecoverQueuedCancel, EndRecovery, Wake, ResumeTimer, BeginDrain,
         StopRunSupervisors, SupTypeOK, procVars
  <2> QED BY <1>1, <2>1
<1>6. ProcsOK'
  <2>1. CASE RecoverQueuedCancel(p)
    <3>1. UNCHANGED <<proc, sched, wake, armed>>
        BY <2>1 DEF RecoverQueuedCancel, timerVars
    <3> QED BY <1>1, <1>3, <3>1, ProcsStay
  <2>2. CASE \/ EndRecovery(p) \/ Wake(p) \/ ResumeTimer(p) \/ BeginDrain(p) \/ StopRunSupervisors(p)
    <3>1. /\ proc[p] # "booting" /\ proc'[p] # "booting" /\ Alive(p)'
          /\ proc[p] \in Serving => proc'[p] \in Serving
        BY <1>2, <1>3, <2>2 DEF EndRecovery, Wake, ResumeTimer, BeginDrain, StopRunSupervisors,
           Alive, ProcsOK, Resting, Serving, SupTypeOK, procVars
    <3>2. Inside(p)
        BY <1>1, <1>2, <3>1 DEF Inside
    <3> QED BY <1>3, <3>2, InsideProcs
  <2> QED BY <2>1, <2>2
<1>7. \A r \in Runs : status'[r] \in Waiting => status[r] \in Waiting
  <2>1. ASSUME NEW r \in Runs, TransitionOrGet(r, "canceled")
        PROVE  \A x \in Runs : status'[x] \in Waiting => status[x] \in Waiting
      BY <1>3, <2>1 DEF TransitionOrGet, SupTypeOK, StoreTypeOK, Waiting
  <2>2. \A r \in todo[p] : r \in Runs
      BY <1>3 DEF Rows
  <2> QED BY <2>1, <2>2 DEF RecoverQueuedCancel, EndRecovery, Wake, ResumeTimer, BeginDrain,
         StopRunSupervisors, storeVars
<1> QED BY <1>1, <1>4, <1>5, <1>6, <1>7, NothingTakenUp

\* A process is born when none lives, and leaves nothing at hand when it dies.
LEMMA LifeAlone ==
    ASSUME MaxAlive = 1, SupInv, AloneInv, NEW p \in Procs, Boot(p) \/ Crash(p) \/ Leave(p)
    PROVE  AloneInv'
<1>1. SupTypeOK /\ ProcsOK /\ UNCHANGED <<status, lease>>
    BY DEF SupInv, AloneInv, Boot, Crash, Leave, Die, storeVars
<1>2. /\ proc'[p] \in {"booting", "dead"} /\ Resting(p)'
      /\ \A q \in Procs : q # p => ~Alive(q) /\ Resting(q)
      /\ proc'[p] = "booting" => Unleased(p)
  <2>1. CASE Boot(p)
    <3>1. proc[p] = "unborn" /\ Resting(p) /\ Unleased(p)
        BY <1>1, <2>1 DEF Boot, ProcsOK, Alive
    <3>2. ASSUME NEW q \in Procs, Alive(q) PROVE FALSE
      <4>1. {x \in Procs : Alive(x)} = {q}
          BY <1>1, <3>2 DEF ProcsOK
      <4>2. Cardinality({q}) = 1
          BY FS_Singleton
      <4> QED BY <2>1, <4>1, <4>2 DEF Boot
    <3>3. \A q \in Procs : ~Alive(q) /\ Resting(q)
        BY <1>1, <3>2 DEF ProcsOK
    <3>4. Resting(p)' /\ proc'[p] = "booting"
        BY <1>1, <2>1, <3>1 DEF Boot, Resting, AllIdle, Free, threadVars, timerVars, SupTypeOK
    <3> QED BY <3>1, <3>3, <3>4
  <2>2. CASE Alive(p) /\ Die(p)
    <3>1. \A q \in Procs : q # p => ~Alive(q) /\ Resting(q)
        BY <1>1, <2>2 DEF ProcsOK
    <3>2. /\ proc'[p] = "dead" /\ sched'[p] = NobodySched /\ registered'[p] = {}
          /\ \A th \in Threads : pc'[p][th] = "idle"
          /\ ~wake'[p] /\ ~armed'[p]
        BY <1>1, <2>2 DEF Die, SupTypeOK
    <3> QED BY <3>1, <3>2 DEF Resting, AllIdle, Free
  <2> QED BY <2>1, <2>2 DEF Crash, Leave, Alive
<1>3. ASSUME NEW q \in Procs, q # p
      PROVE  /\ proc'[q] = proc[q] /\ pc'[q] = pc[q] /\ sched'[q] = sched[q]
             /\ registered'[q] = registered[q] /\ wake'[q] = wake[q] /\ armed'[q] = armed[q]
    BY <1>1, <1>3 DEF Boot, Crash, Leave, Die, SupTypeOK, threadVars, timerVars
<1>4. \A q \in Procs : q # p => ~Alive(q)' /\ Resting(q)'
    BY <1>2, <1>3 DEF Alive, Resting, AllIdle, Free
<1>5. \A c \in Clients : request'[c] = NoRequest
  <2> SUFFICES ASSUME NEW c \in Clients, request'[c] # NoRequest PROVE FALSE
      OBVIOUS
  <2>1. request'[c] = request[c] /\ (request[c].at = p => UNCHANGED request /\ Boot(p))
      BY DEF Boot, Crash, Leave, Die, apiVars
  <2>2. request[c].at \in Procs /\ Alive(request[c].at)
      BY <1>1, <2>1 DEF ProcsOK, Serving, Alive
  <2> QED BY <1>2, <2>1, <2>2 DEF Boot, Alive
<1>6. ProcsOK'
  <2>1. \A q \in Procs : proc'[q] \in {"unborn", "booting"} => Unleased(q)'
      BY <1>1, <1>2, <1>3 DEF ProcsOK, Unleased
  <2>2. \A q \in Procs : ~Alive(q)' \/ proc'[q] = "booting" => Resting(q)'
      BY <1>2, <1>4
  <2>3. \A x, y \in Procs : Alive(x)' /\ Alive(y)' => x = y
      BY <1>4
  <2> QED BY <1>5, <2>1, <2>2, <2>3 DEF ProcsOK
<1>7. \A q \in Procs : Resting(q)' /\ proc'[q] # "recovering"
    BY <1>2, <1>4 DEF Alive
<1>8. ASSUME NEW q \in Procs
      PROVE  sched'[q].run = NoRun /\ \A th \in Threads : pc'[q][th] \notin Engaged
    BY <1>1, <1>7, NoCaller, EngagedLabels DEF Resting, Free, AllIdle
<1> QED BY <1>1, <1>6, <1>7, <1>8, NothingTakenUp

\* The recovery begins with what is running, none of it at hand.
LEMMA BeginAlone ==
    ASSUME SupInv, AloneInv, NEW p \in Procs, BeginRecovery(p)
    PROVE  AloneInv'
<1>1. /\ UNCHANGED <<status, lease, pc, registered, sched, wake, armed, request>>
      /\ proc[p] = "booting" /\ Alive(p) /\ SupTypeOK /\ ProcsOK
    BY DEF BeginRecovery, storeVars, timerVars, threadVars, apiVars, Alive, SupInv, AloneInv
<1>2. /\ \A q \in Procs : q # p => ~Alive(q) /\ Resting(q)
      /\ Resting(p) /\ Unleased(p)
    BY <1>1 DEF ProcsOK
<1>3. /\ proc'[p] = "recovering" /\ todo'[p] = {r \in Runs : status[r] = "running"}
      /\ \A q \in Procs : q # p => proc'[q] = proc[q] /\ todo'[q] = todo[q]
    BY <1>1 DEF BeginRecovery, SupTypeOK, ListRunningRuns
<1>4. ASSUME NEW q \in Procs
      PROVE  (Resting(q)' <=> Resting(q)) /\ (Unleased(q)' <=> Unleased(q))
    BY <1>1 DEF Resting, AllIdle, Free, Unleased
<1>5. ProcsOK'
  <2>1. \A c \in Clients : request'[c] = NoRequest
    <3> SUFFICES ASSUME NEW c \in Clients, request[c] # NoRequest PROVE FALSE
        BY <1>1
    <3>1. request[c].at \in Procs /\ proc[request[c].at] \in Serving
        BY <1>1 DEF ProcsOK
    <3> QED BY <1>1, <1>2, <3>1 DEF Serving, Alive
  <2>2. \A q \in Procs : q # p => ~Alive(q)'
      BY <1>2, <1>3 DEF Alive
  <2>3. \A q \in Procs : proc'[q] \in {"unborn", "booting"} => Unleased(q)'
      BY <1>1, <1>3, <1>4 DEF ProcsOK
  <2> QED BY <1>2, <1>4, <2>1, <2>2, <2>3 DEF ProcsOK
<1>6. ASSUME NEW q \in Procs
      PROVE  sched'[q].run = NoRun /\ \A th \in Threads : pc'[q][th] \notin Engaged
    BY <1>1, <1>2, NoCaller, EngagedLabels DEF Resting, Free, AllIdle
<1>7. OneAtWork'
    BY <1>6 DEF OneAtWork
<1>8. ASSUME NEW q \in Procs, NEW r \in Runs
      PROVE  /\ AtHand(q, r)' => status'[r] \notin Waiting
             /\ r \in ToRecover(q)' => sched'[q].run # r /\ ~EngagedOn(q, r)'
  <2>1. r # NoRun /\ ~EngagedOn(q, r)' /\ sched'[q].run # r
      BY <1>6, SupervisionConstants DEF EngagedOn
  <2>2. r \in ToRecover(q)' => status[r] = "running"
      BY <1>2, <1>3 DEF ToRecover, Alive
  <2> QED BY <1>1, <2>1, <2>2 DEF AtHand, Waiting
<1> QED BY <1>5, <1>7, <1>8 DEF AloneInv

\* It takes up one of them, or hands it back.
LEMMA RecoverAlone ==
    ASSUME SupInv, AloneInv, NEW p \in Procs, RecoverRunningRun(p)
    PROVE  AloneInv'
<1>1. PICK r \in todo[p] : /\ RecoverDetached(p, r) \/ RecoverUnlaunched(p, r)
                           /\ todo' = [todo EXCEPT ![p] = @ \ {r}]
    BY DEF RecoverRunningRun
<1>2. /\ proc[p] = "recovering" /\ Alive(p) /\ SupTypeOK /\ ProcsOK /\ r \in Runs
      /\ UNCHANGED <<sched, registered, wake, armed, proc, request>>
      /\ status \in [Runs -> Statuses] /\ lease \in [Runs -> Procs \cup {NoProc}]
    BY DEF RecoverRunningRun, timerVars, apiVars, Alive, SupInv, AloneInv, SupTypeOK, StoreTypeOK
<1>3. /\ todo'[p] = todo[p] \ {r} /\ \A q \in Procs : q # p => todo'[q] = todo[q]
    BY <1>1, <1>2 DEF SupTypeOK
<1>4. r \in ToRecover(p) /\ sched[p].run # r /\ ~EngagedOn(p, r) /\ AtHand(p, r)
    BY <1>2 DEF ToRecover, AtHand, AloneInv
<1>5. Main(r) \in Threads /\ Main(r)[1] = r
    BY <1>2, MainThread
<1>6. \A q \in Procs : q # p => pc'[q] = pc[q]
    BY <1>1, <1>2 DEF RecoverDetached, RecoverUnlaunched, Goto, SupTypeOK
<1>7. \A x \in Runs : lease'[x] \in {lease[x], p, NoProc}
    BY <1>1, <1>2 DEF RecoverDetached, RecoverUnlaunched, FailMissing
<1>8. ProcsOK'
  <2>1. Inside(p)
      BY <1>2, <1>3, <1>6, <1>7 DEF Inside, Alive
  <2> QED BY <1>2, <2>1, InsideProcs
<1>9. ASSUME NEW th \in Threads, th[1] = r, NEW l, Goto(p, th, l), UNCHANGED status PROVE AloneInv'
  <2>1. \A q \in Procs, o \in Threads : <<q, o>> # <<p, th>> =>
            (pc'[q][o] \in Engaged => pc[q][o] \in Engaged)
      BY <1>2, <1>9, GotoAt
  <2>2. sched'[p].run # th[1] /\ th[1] \notin ToRecover(p)'
      BY <1>2, <1>3, <1>4, <1>9 DEF ToRecover
  <2>3. \A q \in Procs : sched'[q].run \in {sched[q].run, NoRun} /\ todo'[q] \subseteq todo[q]
      BY <1>2, <1>3
  <2> QED BY <1>2, <1>4, <1>8, <1>9, <2>1, <2>2, <2>3, HandsOver
<1>10. ASSUME \A q \in Procs, o \in Threads : pc'[q][o] \in Engaged => pc[q][o] \in Engaged,
              \A x \in Runs : status'[x] \in Waiting => status[x] \in Waiting \/ x = r
       PROVE  AloneInv'
  <2>1. \A q \in Procs : ~AtHand(q, r)'
    <3> TAKE q \in Procs
    <3>1. ~EngagedOn(p, r)'
        BY <1>4, <1>10 DEF EngagedOn
    <3>2. sched'[p].run # r /\ r \notin ToRecover(p)'
        BY <1>2, <1>3, <1>4 DEF ToRecover
    <3>3. ASSUME q # p PROVE ~AtHand(q, r)'
      <4>1. ~Alive(q) /\ Resting(q)
          BY <1>2, <3>3 DEF ProcsOK
      <4>2. sched[q].run = NoRun /\ proc[q] # "recovering" /\ \A o \in Threads : pc[q][o] = "idle"
          BY <1>2, <4>1, NoCaller DEF Resting, AllIdle, Free, Alive
      <4>3. ~EngagedOn(q, r)'
          BY <1>6, <3>3, <4>2, EngagedLabels DEF EngagedOn
      <4> QED BY <1>2, <4>2, <4>3, SupervisionConstants DEF AtHand, ToRecover
    <3> QED BY <3>1, <3>2, <3>3 DEF AtHand
  <2>2. \A x \in Runs : status'[x] \in Waiting =>
            status[x] \in Waiting \/ \A q \in Procs : ~AtHand(q, x)'
      BY <1>10, <2>1
  <2>3. \A q \in Procs : /\ sched'[q].run \in {sched[q].run, NoRun}
                         /\ proc'[q] = "recovering" => proc[q] = "recovering" /\ todo'[q] \subseteq todo[q]
      BY <1>2, <1>3
  <2> QED BY <1>8, <1>10, <2>2, <2>3, NothingTakenUp
<1>11. CASE FailMissing(r) /\ Goto(p, Main(r), "finish")
  <2>1. \A q \in Procs, o \in Threads : pc'[q][o] \in Engaged => pc[q][o] \in Engaged
      BY <1>2, <1>5, <1>6, <1>11, GotoAt, EngagedLabels
  <2>2. \A x \in Runs : status'[x] \in Waiting => status[x] \in Waiting
      BY <1>2, <1>11 DEF FailMissing, TransitionOrGet, Waiting
  <2> QED BY <1>10, <2>1, <2>2
<1>12. CASE /\ \E th \in Threads : IsNewThread(p, r, th) /\ Goto(p, th, "register")
            /\ UNCHANGED status
    BY <1>9, <1>12 DEF IsNewThread
<1>13. CASE Goto(p, Main(r), container[r]) /\ UNCHANGED status
    BY <1>5, <1>9, <1>13
<1>14. CASE RecoverUnlaunched(p, r)
  <2>1. UNCHANGED pc
      BY <1>14 DEF RecoverUnlaunched
  <2>2. \A x \in Runs : status'[x] \in Waiting => status[x] \in Waiting \/ x = r
      BY <1>2, <1>14 DEF RecoverUnlaunched, TransitionOrGet, Requeue, Waiting
  <2> QED BY <1>10, <2>1, <2>2
<1> QED BY <1>1, <1>11, <1>12, <1>13, <1>14 DEF RecoverDetached

\* Requests, and what happens outside.
LEMMA StaysAlone ==
    ASSUME SupInv, AloneInv, ProcsOK', UNCHANGED <<proc, todo, pc>>,
           \A p \in Procs : sched'[p].run \in {sched[p].run, NoRun},
           \A r \in Runs : status'[r] \in Waiting => status[r] \in Waiting
    PROVE  AloneInv'
  BY NothingTakenUp

LEMMA OutsideAlone ==
    ASSUME SupInv, AloneInv,
           \/ PauseExpires \/ UNCHANGED vars \/ \E r \in Runs : ContainerExits(r)
           \/ \E c \in Clients : Request(c)
    PROVE  AloneInv'
<1>1. UNCHANGED <<status, lease, pc, registered, sched, todo, proc, wake, armed>>
    BY DEF PauseExpires, ContainerExits, vars, supVars, storeVars, dockerVars, timerVars, procVars,
       threadVars, Request, CreateRun, CancelRun, CloseIssue
<1>2. /\ SupTypeOK /\ ProcsOK
    BY DEF SupInv, AloneInv
<1>3. UNCHANGED request \/ \E c \in Clients : Request(c)
    BY DEF PauseExpires, ContainerExits, vars, supVars, apiVars
<1>4. \A d \in Clients : \/ request'[d] = request[d]
                         \/ request'[d].at \in Procs /\ proc[request'[d].at] \in Serving
  <2>1. CASE UNCHANGED request
      BY <2>1
  <2>2. ASSUME NEW c \in Clients, Request(c) PROVE
            \A d \in Clients : \/ request'[d] = request[d]
                               \/ request'[d].at \in Procs /\ proc[request'[d].at] \in Serving
    <3>1. PICK p \in Procs : /\ proc[p] = "up"
                             /\ \/ UNCHANGED request
                                \/ \E step, r, t : Receive(c, p, step, r, t)
        BY <2>2 DEF Request, CreateRun, CancelRun, CloseIssue, Receive
    <3>2. \A d \in Clients : request'[d] = request[d] \/ request'[d].at = p
        BY <1>2, <3>1 DEF Receive, SupTypeOK
    <3> QED BY <3>1, <3>2 DEF Serving
  <2> QED BY <1>3, <2>1, <2>2
<1>5. ProcsOK'
    BY <1>1, <1>2, <1>4, ProcsStay
<1> QED BY <1>1, <1>5, StaysAlone

LEMMA HandleAlone ==
    ASSUME SupInv, AloneInv, NEW c \in Clients, HandleRequest(c)
    PROVE  AloneInv'
<1> USE DEF SupInv
<1> DEFINE r == request[c].run
<1>0. PICK p : p = request[c].at
    OBVIOUS
<1>1. /\ UNCHANGED <<lease, proc, todo, wake, pc, registered>>
      /\ UNCHANGED <<sched, armed>> \/ RequestSchedule(c)
      /\ SupTypeOK /\ ProcsOK /\ status \in [Runs -> Statuses]
    BY DEF HandleRequest, procVars, threadVars, timerVars, AloneInv, SupTypeOK, StoreTypeOK
<1>2. /\ request[c] # NoRequest
      /\ \A d \in Clients : d # c => request'[d] = request[d]
      /\ request'[c] = NoRequest \/ request'[c].at = p
    BY <1>0 DEF HandleRequest, AddQueuedRun, WriteRunFiles, PersistCancel, Dequeue, SweepQueued,
       CancelRunning, StopExecution, RequestSchedule, RequestStep, NoRequest, SupTypeOK
<1>3. p \in Procs /\ proc[p] \in Serving
    BY <1>0, <1>1, <1>2 DEF ProcsOK
<1>4. request[c].step \in OfARun => r \in Runs
    BY DEF Known, RequestKnows
<1>5. {"add", "write", "dequeue", "stop"} \subseteq OfARun
    BY DEF OfARun, RequestSteps
<1>6. \/ UNCHANGED status
      \/ r \in Runs /\ AddRun(r)
      \/ r \in Runs /\ \E to \in Final : TransitionOrGet(r, to) \/ SetRunStatus(r, to)
      \/ \E t : CancelQueuedRuns(t)
    BY <1>4, <1>5 DEF HandleRequest, AddQueuedRun, WriteRunFiles, PersistCancel, Dequeue,
       SweepQueued, CancelRunning, StopExecution, RequestSchedule, RequestStep, storeVars, Final
<1>7. \A x \in Runs : status'[x] \in Waiting => status[x] \in Waiting
  <2>1. CASE r \in Runs /\ AddRun(r)
    <3>1. TrimOldRuns = {}
        BY <2>1, NothingTrimmed DEF AddRun, SupTypeOK
    <3> QED BY <1>1, <2>1, <3>1 DEF AddRun, Waiting
  <2>2. CASE r \in Runs /\ \E to \in Final : TransitionOrGet(r, to) \/ SetRunStatus(r, to)
      BY <1>1, <2>2 DEF TransitionOrGet, SetRunStatus, Waiting, Final
  <2>3. CASE \E t : CancelQueuedRuns(t)
      BY <2>3 DEF CancelQueuedRuns, Waiting
  <2> QED BY <1>6, <2>1, <2>2, <2>3
<1>8. /\ \A q \in Procs : q # p => sched'[q] = sched[q] /\ armed'[q] = armed[q]
      /\ sched'[p].run \in {sched[p].run, NoRun}
    BY <1>0, <1>1, <1>3 DEF RequestSchedule, CallScheduleRuns, ScheduleRunsReturnsAtOnce,
       EnsureResumeTimer, SupTypeOK
<1>9. Inside(p)
    BY <1>1, <1>2, <1>3, <1>8 DEF Inside, Serving, Alive
<1>10. ProcsOK'
    BY <1>1, <1>3, <1>9, InsideProcs
<1>11. \A q \in Procs : sched'[q].run \in {sched[q].run, NoRun}
    BY <1>3, <1>8
<1> QED BY <1>1, <1>7, <1>10, <1>11, StaysAlone

LEMMA AloneInit == SupInit => AloneInv
<1> SUFFICES ASSUME SupInit PROVE AloneInv
    OBVIOUS
<1>1. /\ \A p \in Procs : /\ proc[p] = "unborn" /\ sched[p] = NobodySched /\ registered[p] = {}
                          /\ ~wake[p] /\ ~armed[p] /\ todo[p] = {}
                          /\ \A th \in Threads : pc[p][th] = "idle"
      /\ \A c \in Clients : request[c] = NoRequest
      /\ \A r \in Runs : lease[r] = NoProc
    BY DEF SupInit
<1>2. \A p \in Procs : Resting(p) /\ Unleased(p) /\ ~Alive(p)
    BY <1>1, SupervisionConstants DEF Resting, AllIdle, Free, Unleased, Alive
<1>3. ProcsOK
    BY <1>1, <1>2 DEF ProcsOK
<1>4. \A p \in Procs : sched[p].run = NoRun
    BY <1>1 DEF NobodySched
<1>5. \A p \in Procs, r \in Runs : ~AtHand(p, r) /\ r \notin ToRecover(p)
    BY <1>1, <1>4, EngagedLabels, SupervisionConstants DEF AtHand, EngagedOn, ToRecover
<1>6. OneAtWork
    BY <1>1, EngagedLabels DEF OneAtWork
<1> QED BY <1>3, <1>5, <1>6 DEF AloneInv

LEMMA AloneStep ==
    ASSUME MaxAlive = 1, SupInv, AloneInv, [Next]_vars
    PROVE  AloneInv'
  BY ThreadAlone, ScheduleAlone, ProcessAlone, LifeAlone, BeginAlone, RecoverAlone, OutsideAlone,
     HandleAlone DEF Next, Startup

\* With one process at a time, at any limit, under every fault and request, and
\* with usage limits: no run is readied, supervised or settled by two goroutines
\* of a process, and none is claimed that has such a goroutine.
THEOREM OneGoroutineAtWork == ASSUME MaxAlive = 1 PROVE Spec => []OneAtWork
<1>1. SupInv /\ AloneInv /\ [Next]_vars => (SupInv /\ AloneInv)'
    BY AloneStep, SupStep
<1>2. SupInit => SupInv /\ AloneInv
    BY SupInitInv, AloneInit
<1>3. AloneInv => OneAtWork
    BY DEF AloneInv
<1> QED BY <1>1, <1>2, <1>3, PTL DEF Spec
=============================================================================
