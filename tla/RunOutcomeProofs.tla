-------------------------- MODULE RunOutcomeProofs --------------------------
(***************************************************************************)
(* Proofs about RunOutcome, for any set of processes, any number of        *)
(* executions and any faults: the outcome is written as RunStore allows, a *)
(* success is closed as one only if the worker of this very execution      *)
(* earned it, one copy of its result is enough, and it is commented once.  *)
(***************************************************************************)
EXTENDS RunOutcome, TLAPS

Live    == status[Run] = "running"
Earned  == turn \in succeeded
Ahead   == {"claimed", "persisted", "launched", "start", "started", "watch"}
Judging == {"ended", "load", "decide"}

Types ==
    /\ status \in [Runs -> Statuses]
    /\ turn \in Nat /\ \A n \in succeeded : n \in Nat /\ n <= turn
    /\ prKnown \in BOOLEAN
    /\ worker \in [stage : WorkerStages, result : Result, code : {0, 1}]
    /\ meta \in Result \cup {NoFile}
    /\ row \in [there : BOOLEAN, reported : BOOLEAN, result : Result]
    /\ up \in [Procs -> {"unborn", "up", "gone"}] /\ pc \in [Procs -> PCs]
    /\ seen \in [Procs -> [row : [there : BOOLEAN, reported : BOOLEAN, result : Result],
                           code : {0, 1}, result : Result, status : Statuses, pr : BOOLEAN]]

\* Only finalizers share a run.  Those that may still settle it have seen the
\* exit of the container, and put its code into the row.
Position(p) ==
    /\ up[p] # "up" => pc[p] = "idle"
    /\ pc[p] \in Ahead => Live /\ \A q \in Procs \ {p} : pc[q] = "idle"
    /\ pc[p] \in {"claimed", "persisted"} => ~Working /\ ~Earned
    /\ pc[p] \in Ahead \ {"claimed"} => row.there
    /\ pc[p] = "persisted" => ~row.reported
    /\ Live /\ pc[p] \in Finalizing =>
        /\ pc[p] \in Judging /\ At("exited")
        /\ row.there /\ (row.result.ok <=> worker.code = 0) /\ seen[p].code = worker.code

Positions == \A p \in Procs : Position(p)

\* A worker is at work on a running run with a row, and reports at its end.
WorkerInv ==
    /\ Working =>
        /\ Live /\ row.there
        /\ row.reported => At("reported")
        /\ worker.result.ok => Earned
        /\ worker.result.pr => worker.result.ok \/ At("ready")
    /\ Live /\ Earned =>
        /\ worker.result.ok
        /\ worker.stage \in {"done", "saved", "reported", "exited"}

\* What an earlier execution left in the row, in the file and in its container
\* cannot pass for a success of this one.
Copies ==
    /\ ~row.there => ~row.reported
    /\ row.reported /\ row.result.ok => status[Run] # "queued" /\ (Live => Earned)
    /\ Live /\ Earned => row.there /\ (row.reported => row.result.pr = worker.result.pr)
    /\ meta # [ok |-> FALSE, pr |-> TRUE]
    /\ status[Run] \in {"queued", "running"} /\ At("exited") /\ worker.code = 0
        => \/ Live /\ Earned
           \/ ~row.reported /\ meta # NoFile /\ ~meta.ok

\* A verdict is what the copies tell, also when others look at them.
Judged ==
    \A p \in Procs : Live /\ pc[p] = "decide" =>
        /\ row.reported \/ meta # NoFile
        /\ seen[p].result = ResultOf(row, meta, worker.code)

OutcomeInv == Types /\ Positions /\ WorkerInv /\ Copies /\ Judged

-----------------------------------------------------------------------------
(* The store.                                                              *)

LEMMA RunIsRun == Run \in Runs
  BY OutcomeConstants

\* An outcome is written to the store, and a request recorded in it, as the
\* store's own operations do, wherever processes die and however many finalize.
THEOREM OutcomeUsesStore == FairSpec => OutcomeImplementsStore
<1>1. [Next]_vars => [StoreNext]_storeVars
  <2> SUFFICES ASSUME [Next]_vars PROVE StoreNext \/ UNCHANGED storeVars
      OBVIOUS
  <2> USE RunIsRun
  <2>1. CASE Work
      BY <2>1 DEF Work
  <2>2. ASSUME NEW p \in Procs, Serve(p)
        PROVE  StoreNext \/ UNCHANGED storeVars
    <3>1. UNCHANGED <<seq, lastSeq, taskDone, taskDraft>>
        BY <2>2 DEF Serve
    <3>2. CASE Claim(p)
        BY <3>1, <3>2 DEF Claim, StoreNext, StatusOp, StatusWrite
    <3>3. CASE PersistHandle(p) \/ Record(p) \/ StopWorker(p) \/ NoticeExit(p)
               \/ BeginFinalize(p) \/ LoadMeta(p) \/ RemoveContainer(p) \/ Notify(p)
        BY <3>1, <3>3 DEF PersistHandle, Record, StopWorker, NoticeExit, BeginFinalize,
           LoadMeta, RemoveContainer, Notify, storeVars
    <3>4. CASE Launch(p)
        BY <3>1, <3>4 DEF Launch, SetRunStatus, StoreNext, StatusOp, StatusWrite, storeVars
    <3>5. CASE HandBack(p)
        BY <3>1, <3>5 DEF HandBack, RequeueIfRunning, Requeue, StoreNext, StatusOp, StatusWrite,
           storeVars
    <3>6. CASE Settle(p)
        BY <3>1, <3>6 DEF Settle, SetRunStatus, StoreNext, StatusOp, StatusWrite, storeVars
    <3>7. CASE Finish(p)
        BY <3>1, <3>7 DEF Finish, StoreNext, FlagOp, Final, storeVars
    <3> QED BY <2>2, <3>2, <3>3, <3>4, <3>5, <3>6, <3>7 DEF Serve
  <2>3. CASE Manage
    <3>1. UNCHANGED <<seq, lastSeq, taskDone, taskDraft>>
        BY <2>3 DEF Manage
    <3>2. CASE Cancel
        BY <3>1, <3>2 DEF Cancel, StoreNext, FlagOp
    <3>3. ASSUME NEW p \in Procs, Boot(p)
          PROVE  StoreNext \/ UNCHANGED storeVars
        BY <3>1, <3>3 DEF Boot, Recover, SetRunStatus, Requeue, StoreNext, StatusOp, StatusWrite,
           storeVars
    <3>4. ASSUME NEW p \in Procs, Crash(p) \/ Leave(p)
          PROVE  UNCHANGED storeVars
        BY <3>1, <3>4 DEF Crash, Leave, Forgotten, storeVars
    <3> QED BY <2>3, <3>2, <3>3, <3>4 DEF Manage
  <2>4. CASE UNCHANGED vars
      BY <2>4 DEF vars, storeVars
  <2> QED BY <2>1, <2>2, <2>3, <2>4 DEF Next
<1> QED BY <1>1, PTL DEF FairSpec, OutcomeImplementsStore

-----------------------------------------------------------------------------
(* A step of the worker.                                                   *)

LEMMA NoFileIsNoResult == NoFile \notin Result /\ NoFile # [ok |-> FALSE, pr |-> TRUE]
<1>1. [ok |-> FALSE, pr |-> TRUE] \in Result
    BY DEF Result
<1>2. NoFile \notin Result
    BY OutcomeConstants DEF Result
<1> QED BY <1>1, <1>2

LEMMA SameResult ==
    ASSUME NEW a \in Result, NEW b \in Result, a.ok <=> b.ok, a.pr = b.pr
    PROVE  a = b
  BY DEF Result

LEMMA WriteMetaGives ==
    ASSUME NEW result \in Result, meta \in Result \cup {NoFile}, WriteMeta(result)
    PROVE  meta' \in {result, meta, NoFile} /\ meta' \in Result \cup {NoFile}
  BY DEF WriteMeta

\* While a worker is at work, nobody is about to judge or to launch.
LEMMA WorkingAlone ==
    ASSUME OutcomeInv, Working
    PROVE  /\ Live /\ row.there
           /\ \A p \in Procs : pc[p] \notin Finalizing \cup {"claimed", "persisted"}
  BY DEF OutcomeInv, Positions, Position, WorkerInv, Working, At

\* What a step of a worker, or the end of it, has to keep.
LEMMA WorkerStep ==
    ASSUME OutcomeInv, Working, Types', WorkerInv', Copies',
           row'.there, UNCHANGED <<status, up, pc>>
    PROVE  OutcomeInv'
<1>1. Live' /\ \A p \in Procs : pc'[p] \notin Finalizing \cup {"claimed", "persisted"}
    BY WorkingAlone DEF Live
<1>2. Positions'
    BY <1>1 DEF OutcomeInv, Positions, Position
<1>3. Judged'
    BY <1>1 DEF Judged, Finalizing
<1> QED BY <1>2, <1>3 DEF OutcomeInv

LEMMA KilledStep ==
    ASSUME OutcomeInv, Killed, UNCHANGED <<status, turn, prKnown, row, up, pc, seen, succeeded>>
    PROVE  OutcomeInv'
<1> USE DEF OutcomeInv
<1>1. Working /\ Live /\ row.there
    BY WorkingAlone DEF Killed
<1>2. /\ worker' = [worker EXCEPT !.stage = "exited", !.code = 1]
      /\ meta' \in {meta, NoFile}
    BY DEF Killed
<1>3. Types'
    BY <1>2 DEF Types, WorkerStages
<1>4. /\ worker'.stage = "exited" /\ worker'.code = 1 /\ worker'.result = worker.result
    BY <1>2 DEF Types
<1>5. WorkerInv'
    BY <1>4 DEF WorkerInv, Working, Live, Earned
<1>6. Copies'
    BY <1>1, <1>2, <1>4, NoFileIsNoResult DEF Copies, Live, Earned, At
<1> QED BY <1>1, <1>3, <1>5, <1>6, WorkerStep

LEMMA WorkStep ==
    ASSUME OutcomeInv, Work
    PROVE  OutcomeInv'
<1> USE DEF OutcomeInv
<1>1. UNCHANGED <<status, turn, prKnown, up, pc, seen>>
    BY DEF Work, storeVars
<1>2. CASE Kill
    BY <1>1, <1>2, KilledStep DEF Kill
<1>3. CASE ~Kill
  <2>1. Working
      BY <1>3 DEF Work, Begin, CheckoutRepo, RunAgent, PushBranch, LoadPR, CreatePR, FinalizeMeta,
         SaveMeta, ReportResult, Exit, At, Working
  <2>2. Live /\ row.there
      BY <2>1, WorkingAlone
  \* Stages that leave result, row and meta alone.
  <2>3. ASSUME NEW from, NEW to \in {"checkedOut", "done", "ran", "pushed", "unopened"},
               from \in {"begun", "checkedOut", "ran", "pushed", "unopened"},
               At(from), GoTo(to), UNCHANGED <<meta, row, succeeded>>
        PROVE  OutcomeInv'
    <3>1. worker'.stage = to /\ worker'.result = worker.result /\ worker'.code = worker.code
        BY <2>3 DEF GoTo, Types
    <3>2. Types'
        BY <1>1, <2>3 DEF GoTo, Types, WorkerStages
    <3>3. ~Earned
        BY <2>2, <2>3 DEF WorkerInv, At
    <3>4. WorkerInv'
        BY <1>1, <2>1, <2>2, <2>3, <3>1, <3>3 DEF WorkerInv, Working, Live, Earned, At
    <3>5. Copies'
        BY <1>1, <2>2, <2>3, <3>1 DEF Copies, Live, Earned, At
    <3> QED BY <1>1, <2>1, <2>2, <2>3, <3>2, <3>4, <3>5, WorkerStep
  <2>4. ASSUME NEW from \in {"pushed", "unopened"}, At(from),
               worker' \in {[worker EXCEPT !.stage = "ready", !.result.pr = TRUE],
                            [worker EXCEPT !.stage = "ready"]},
               UNCHANGED <<meta, row, succeeded>>
        PROVE  OutcomeInv'
    <3>1. /\ worker'.stage = "ready" /\ worker'.code = worker.code
          /\ worker'.result.ok = worker.result.ok
          /\ worker' \in [stage : WorkerStages, result : Result, code : {0, 1}]
      <4>1. CASE worker' = [worker EXCEPT !.stage = "ready", !.result.pr = TRUE]
          BY <4>1 DEF Types, WorkerStages, Result
      <4>2. CASE worker' = [worker EXCEPT !.stage = "ready"]
          BY <4>2 DEF Types, WorkerStages
      <4> QED BY <2>4, <4>1, <4>2
    <3>2. Types'
        BY <1>1, <2>4, <3>1 DEF Types
    <3>3. ~Earned /\ ~row.reported
        BY <2>1, <2>2, <2>4 DEF WorkerInv, At
    <3>4. WorkerInv'
      <4>1. UNCHANGED <<row, succeeded>>
          BY <2>4
      <4> QED BY <1>1, <2>1, <2>2, <3>1, <3>3, <4>1 DEF WorkerInv, Working, Live, Earned, At
    <3>5. Copies'
      <4>1. UNCHANGED <<meta, row, succeeded>>
          BY <2>4
      <4> QED BY <1>1, <2>2, <3>1, <3>3, <4>1 DEF Copies, Live, Earned, At
    <3> QED BY <1>1, <2>1, <2>2, <2>4, <3>2, <3>4, <3>5, WorkerStep
  <2>5. CASE Begin
    <3>1. /\ At("boot") /\ UNCHANGED <<row, succeeded>> /\ meta' \in {Unfinished, meta, NoFile}
          /\ Unfinished \in Result
        BY <2>5, WriteMetaGives DEF Begin, Unfinished, Result, Types
    <3>2. worker'.stage = "begun" /\ worker'.result = worker.result /\ worker'.code = worker.code
        BY <2>5 DEF Begin, GoTo, Types
    <3>3. Types'
        BY <1>1, <2>5, <3>1 DEF Begin, GoTo, Types, WorkerStages
    <3>4. ~Earned
        BY <2>2, <3>1 DEF WorkerInv, At
    <3>5. WorkerInv'
        BY <1>1, <2>1, <2>2, <3>1, <3>2, <3>4 DEF WorkerInv, Working, Live, Earned, At
    <3>6. Copies'
        BY <1>1, <2>2, <3>1, <3>2, NoFileIsNoResult DEF Copies, Live, Earned, At, Unfinished
    <3> QED BY <1>1, <2>1, <2>2, <3>1, <3>3, <3>5, <3>6, WorkerStep
  <2>6. CASE FinalizeMeta
    <3>1. At("ready") /\ UNCHANGED <<meta, row>> /\ ~row.reported
        BY <2>1, <2>6 DEF FinalizeMeta, WorkerInv, At
    <3>2. ~Earned
        BY <2>2, <3>1 DEF WorkerInv, At
    <3>3. ~worker.result.ok
        BY <2>1, <3>2 DEF WorkerInv
    <3>4. CASE /\ worker' = [worker EXCEPT !.stage = "done", !.result.ok = TRUE]
               /\ succeeded' = succeeded \cup {turn}
      <4>1. worker'.stage = "done" /\ worker'.result.ok /\ worker'.code = worker.code
          BY <3>1, <3>4 DEF Types, Result
      <4>2. Earned' /\ Types'
        <5>1. worker' \in [stage : WorkerStages, result : Result, code : {0, 1}]
            BY <3>4 DEF Types, WorkerStages, Result
        <5>2. \A n \in succeeded' : n \in Nat /\ n <= turn'
            BY <1>1, <3>4 DEF Types
        <5> QED BY <1>1, <3>1, <3>4, <5>1, <5>2 DEF Earned, Types
      <4>3. WorkerInv' /\ Copies'
          BY <1>1, <2>2, <3>1, <4>1, <4>2 DEF WorkerInv, Copies, Working, Live, Earned, At
      <4> QED BY <1>1, <2>1, <2>2, <3>1, <4>2, <4>3, WorkerStep
    <3>5. CASE /\ worker' = [worker EXCEPT !.stage = "done", !.result.pr = FALSE]
               /\ UNCHANGED succeeded
      <4>1. /\ worker'.stage = "done" /\ worker'.code = worker.code
            /\ worker'.result.ok = worker.result.ok /\ ~worker'.result.pr
          BY <3>5 DEF Types, Result
      <4>2. Types' /\ ~Earned'
          BY <1>1, <3>1, <3>2, <3>5 DEF Types, WorkerStages, Result, Earned
      <4>3. WorkerInv' /\ Copies'
          BY <1>1, <2>2, <3>1, <3>3, <4>1, <4>2 DEF WorkerInv, Copies, Working, Live, At, Earned
      <4> QED BY <1>1, <2>1, <2>2, <3>1, <4>2, <4>3, WorkerStep
    <3> QED BY <2>6, <3>4, <3>5 DEF FinalizeMeta
  <2>7. CASE SaveMeta
    <3>1. /\ At("done") /\ UNCHANGED <<row, succeeded>> /\ ~row.reported
          /\ meta' \in {worker.result, meta, NoFile} /\ meta' \in Result \cup {NoFile}
        BY <2>1, <2>7, WriteMetaGives DEF SaveMeta, Types, WorkerInv, At
    <3>2. worker'.stage = "saved" /\ worker'.result = worker.result /\ worker'.code = worker.code
        BY <2>7 DEF SaveMeta, GoTo, Types
    <3>3. Types'
        BY <1>1, <2>7, <3>1 DEF SaveMeta, GoTo, Types, WorkerStages
    <3>4. WorkerInv'
        BY <1>1, <2>1, <2>2, <3>1, <3>2 DEF WorkerInv, Working, Live, Earned, At
    <3>5. worker.result.pr => worker.result.ok
        BY <2>1, <3>1 DEF WorkerInv, At
    <3>6. Copies'
        BY <1>1, <2>2, <3>1, <3>2, <3>5, NoFileIsNoResult DEF Copies, Live, Earned, At
    <3> QED BY <1>1, <2>1, <2>2, <3>1, <3>3, <3>4, <3>6, WorkerStep
  <2>8. CASE ReportResult
    <3>1. /\ At("saved") /\ UNCHANGED <<meta, succeeded>>
          /\ row' \in {row, [row EXCEPT !.reported = TRUE, !.result = worker.result]}
        BY <2>8 DEF ReportResult, ReportRunExecutionResult
    <3>2. worker'.stage = "reported" /\ worker'.result = worker.result /\ worker'.code = worker.code
        BY <2>8 DEF ReportResult, GoTo, Types
    <3>3. Types'
        BY <1>1, <2>8, <3>1 DEF ReportResult, GoTo, Types, WorkerStages
    <3>4. row'.there /\ (row' = row \/ row'.result = worker.result)
        BY <2>2, <3>1 DEF Types
    <3>5. WorkerInv'
        BY <1>1, <2>1, <2>2, <3>1, <3>2, <3>4 DEF WorkerInv, Working, Live, Earned, At
    <3>6. worker.result.ok => Earned
        BY <2>1 DEF WorkerInv
    <3>7. Copies'
        BY <1>1, <2>2, <3>1, <3>2, <3>4, <3>6 DEF Copies, Live, Earned, At
    <3> QED BY <1>1, <2>1, <3>3, <3>4, <3>5, <3>7, WorkerStep
  <2>9. CASE Exit
    <3>1. At("reported") /\ UNCHANGED <<meta, row, succeeded>>
        BY <2>9 DEF Exit
    <3>2. /\ worker'.stage = "exited" /\ worker'.result = worker.result
          /\ worker'.code = 0 => worker.result.ok
        BY <2>9 DEF Exit, Types
    <3>3. Types'
        BY <1>1, <2>9, <3>1 DEF Exit, Types, WorkerStages
    <3>4. WorkerInv' /\ Copies'
        BY <1>1, <2>1, <2>2, <3>1, <3>2 DEF WorkerInv, Copies, Working, Live, Earned, At
    <3> QED BY <1>1, <2>1, <2>2, <3>1, <3>3, <3>4, WorkerStep
  <2> QED BY <1>3, <2>3, <2>4, <2>5, <2>6, <2>7, <2>8, <2>9
          DEF Work, CheckoutRepo, RunAgent, PushBranch, LoadPR, CreatePR, GoTo
<1> QED BY <1>2, <1>3

-----------------------------------------------------------------------------
(* A step of a process.                                                    *)

LEMMA StatusOfRun ==
    ASSUME Types
    PROVE  /\ status[Run] \in Statuses
           /\ \A s \in Statuses : [status EXCEPT ![Run] = s] \in [Runs -> Statuses]
           /\ \A s : [status EXCEPT ![Run] = s][Run] = s
  BY RunIsRun DEF Types

LEMMA SettledRun ==
    ASSUME Types, NEW to, SetRunStatus(Run, to)
    PROVE  /\ status'[Run] \in Final /\ ~Live' /\ status' \in [Runs -> Statuses]
           /\ status'[Run] # "queued"
  BY StatusOfRun DEF SetRunStatus, Final, Statuses, Live

LEMMA GoTypes ==
    ASSUME Types, NEW p \in Procs, NEW l \in PCs, Go(p, l)
    PROVE  /\ pc' \in [Procs -> PCs] /\ pc'[p] = l
           /\ \A q \in Procs \ {p} : pc'[q] = pc[q]
  BY DEF Types, Go

LEMMA EachPosition == ASSUME OutcomeInv, NEW p \in Procs PROVE Position(p)
  BY DEF OutcomeInv, Positions

\* While somebody finalizes, nobody is ahead, and nothing is at work.
LEMMA FinalizerFacts ==
    ASSUME OutcomeInv, NEW p \in Procs, pc[p] \in Finalizing
    PROVE  /\ \A q \in Procs : pc[q] \notin Ahead
           /\ ~Working
<1>1. \A q \in Procs : pc[q] \notin Ahead
  <2> SUFFICES ASSUME NEW q \in Procs, pc[q] \in Ahead PROVE FALSE
      OBVIOUS
  <2>1. q # p
      BY DEF Ahead, Finalizing
  <2> QED BY <2>1, EachPosition DEF Position, Finalizing
<1>2. ~Working
    BY WorkingAlone
<1> QED BY <1>1, <1>2

\* Once a finalizer has left the run in another status than running, only the
\* rows and files need to be looked at.
LEMMA SettleStep ==
    ASSUME OutcomeInv, NEW p \in Procs, pc[p] \in Finalizing, NEW l \in Finalizing \cup {"idle"},
           Go(p, l), ~Live', Types', Copies', ~Working', UNCHANGED up
    PROVE  OutcomeInv'
<1>1. l \in PCs /\ l \notin Ahead
    BY DEF PCs, Finalizing, Ahead
<1>2. /\ pc'[p] = l
      /\ \A q \in Procs \ {p} : pc'[q] = pc[q]
    BY <1>1, GoTypes DEF OutcomeInv
<1>3. \A q \in Procs : pc'[q] \notin Ahead
    BY <1>1, <1>2, FinalizerFacts
<1>4. \A q \in Procs : up[q] # "up" => pc[q] = "idle"
    BY EachPosition DEF Position
<1>5. up[p] = "up"
    BY <1>4 DEF Finalizing
<1>6. Positions'
    BY <1>2, <1>3, <1>4, <1>5 DEF Positions, Position, Ahead
<1>7. WorkerInv' /\ Judged'
    BY DEF WorkerInv, Judged
<1> QED BY <1>6, <1>7 DEF OutcomeInv

\* A process ahead of all others takes a step and stays alone with the run.
LEMMA AheadStep ==
    ASSUME OutcomeInv, NEW p \in Procs, up[p] = "up", \A q \in Procs \ {p} : pc[q] = "idle",
           NEW l \in Ahead \cup Finalizing, Go(p, l), UNCHANGED up,
           Types', WorkerInv', Copies',
           l \in Ahead => Live',
           l \in {"claimed", "persisted"} => ~Working' /\ ~Earned',
           l \in Ahead \ {"claimed"} => row'.there,
           l = "persisted" => ~row'.reported,
           l # "decide",
           Live' /\ l \in Finalizing => /\ l \in Judging /\ At("exited")'
                                        /\ row'.there /\ (row'.result.ok <=> worker'.code = 0)
                                        /\ seen'[p].code = worker'.code
    PROVE  OutcomeInv'
<1>1. l \in PCs
    BY DEF PCs, Ahead, Finalizing
<1>2. /\ pc'[p] = l
      /\ \A q \in Procs \ {p} : pc'[q] = "idle"
    BY <1>1, GoTypes DEF OutcomeInv
<1>3. Positions'
  <2>1. Position(p)'
      BY <1>2 DEF Position
  <2>2. ASSUME NEW q \in Procs \ {p} PROVE Position(q)'
      BY <1>2 DEF Position, Ahead, Finalizing
  <2> QED BY <2>1, <2>2 DEF Positions
<1>4. Judged'
    BY <1>2 DEF Judged
<1> QED BY <1>3, <1>4 DEF OutcomeInv

LEMMA AheadFacts ==
    ASSUME OutcomeInv, NEW p \in Procs, pc[p] \in Ahead
    PROVE  Live /\ \A q \in Procs \ {p} : pc[q] = "idle"
  BY EachPosition DEF Position

\* From the claim of the run to the watch over its container.
LEMMA ExecuteStep ==
    ASSUME OutcomeInv, NEW p \in Procs,
           Claim(p) \/ PersistHandle(p) \/ Launch(p) \/ Record(p), UNCHANGED <<up, succeeded>>
    PROVE  OutcomeInv'
<1> USE DEF OutcomeInv
<1>1. {"claimed", "persisted", "launched", "start"} \subseteq Ahead /\ Ahead \subseteq PCs
    BY DEF Ahead, PCs
<1>2. CASE Claim(p)
  <2>1. /\ up[p] = "up" /\ \A q \in Procs : pc[q] = "idle"
        /\ turn' = turn + 1 /\ Go(p, "claimed") /\ UNCHANGED <<worker, meta, row, seen, prKnown>>
        /\ status[Run] = "queued" /\ status' = [status EXCEPT ![Run] = "running"]
      BY <1>2 DEF Claim, Is, ClaimNextQueuedRun, NextQueuedRun, Claimable
  <2>2. Live' /\ ~Live /\ status' \in [Runs -> Statuses]
      BY <2>1, StatusOfRun DEF Live, Statuses
  <2>3. ~Earned'
      BY <2>1 DEF Earned, Types
  <2>4. Types'
      BY <1>1, <2>1, <2>2, GoTypes DEF Types
  <2>5. ~Working /\ ~Working'
      BY <2>1, <2>2 DEF WorkerInv, Working
  <2>6. WorkerInv'
      BY <2>3, <2>5 DEF WorkerInv
  <2>7. Copies'
      BY <2>1, <2>2, <2>3 DEF Copies, At
  <2> QED BY <1>1, <2>1, <2>2, <2>3, <2>4, <2>5, <2>6, <2>7, AheadStep DEF Ahead, Finalizing
<1>3. CASE PersistHandle(p)
  <2>1. /\ up[p] = "up" /\ pc[p] = "claimed" /\ Go(p, "persisted")
        /\ UNCHANGED <<status, turn, prKnown, worker, meta, seen>>
        /\ row' = [NoRow EXCEPT !.there = TRUE]
      BY <1>3 DEF PersistHandle, Is, UpsertRunExecution
  <2>2. Live /\ (\A q \in Procs \ {p} : pc[q] = "idle") /\ ~Working /\ ~Earned
      BY <1>1, <2>1, AheadFacts, EachPosition DEF Position
  <2>3. Live' /\ ~Working' /\ ~Earned'
      BY <2>1, <2>2 DEF Live, Working, Earned
  <2>4. row'.there /\ ~row'.reported
      BY <2>1 DEF NoRow
  <2>5. Types'
      BY <1>1, <2>1, GoTypes DEF Types, NoRow, Unfinished, Result
  <2>6. WorkerInv' /\ Copies'
      BY <2>1, <2>2, <2>3, <2>4 DEF WorkerInv, Copies, At
  <2> QED BY <1>1, <2>1, <2>2, <2>3, <2>4, <2>5, <2>6, AheadStep DEF Ahead, Finalizing
<1>4. CASE Launch(p)
  <2>1. /\ up[p] = "up" /\ pc[p] = "persisted" /\ UNCHANGED <<turn, prKnown, meta>>
      BY <1>4 DEF Launch, Is
  <2>2. /\ Live /\ (\A q \in Procs \ {p} : pc[q] = "idle") /\ ~Working /\ ~Earned
        /\ row.there /\ ~row.reported
      BY <1>1, <2>1, AheadFacts, EachPosition DEF Position
  <2>3. CASE worker' = [NoWorker EXCEPT !.stage = "boot"] /\ Go(p, "launched")
             /\ UNCHANGED <<status, row, seen>>
    <3>1. worker' = [stage |-> "boot", result |-> Unfinished, code |-> 0]
        BY <2>3 DEF NoWorker
    <3>2. Types'
      <4>1. worker' \in [stage : WorkerStages, result : Result, code : {0, 1}]
          BY <3>1 DEF Unfinished, Result, WorkerStages
      <4> QED BY <1>1, <2>1, <2>3, <4>1, GoTypes DEF Types
    <3>3. Live' /\ ~Earned'
        BY <2>1, <2>2, <2>3 DEF Live, Earned
    <3>4. WorkerInv' /\ Copies'
        BY <2>1, <2>2, <2>3, <3>1, <3>3 DEF WorkerInv, Copies, At, Unfinished
    <3> QED BY <1>1, <2>1, <2>2, <2>3, <3>2, <3>3, <3>4, AheadStep DEF Ahead, Finalizing
  <2>4. CASE /\ row' = NoRow /\ SetRunStatus(Run, "failed") /\ UNCHANGED worker
             /\ seen' = [seen EXCEPT ![p].status = "failed"] /\ Go(p, "notify")
    <3>1. "notify" \in PCs /\ "notify" \in Finalizing
        BY DEF PCs, Finalizing
    <3>2. seen' \in [Procs -> [row : [there : BOOLEAN, reported : BOOLEAN, result : Result],
                               code : {0, 1}, result : Result, status : Statuses, pr : BOOLEAN]]
        BY <2>4 DEF Types, Statuses, Final
    <3>3. ~Live' /\ status'[Run] \in Final /\ status' \in [Runs -> Statuses]
        BY <2>4, SettledRun
    <3>4. Types'
        BY <2>1, <2>4, <3>1, <3>2, <3>3, GoTypes DEF Types, NoRow, Unfinished, Result
    <3>5. ~Working' /\ WorkerInv'
        BY <2>2, <2>4, <3>3 DEF Working, WorkerInv
    <3>6. Copies'
        BY <2>1, <2>4, <3>3 DEF Copies, NoRow, Final
    <3> QED BY <2>1, <2>2, <2>4, <3>1, <3>3, <3>4, <3>5, <3>6, AheadStep DEF Ahead
  <2> QED BY <1>4, <2>3, <2>4 DEF Launch, DeleteRunExecution
<1>5. CASE Record(p)
  <2>1. /\ up[p] = "up" /\ pc[p] = "launched" /\ Go(p, "start")
        /\ UNCHANGED <<status, turn, prKnown, worker, meta>>
        /\ row' = [NoRow EXCEPT !.there = TRUE]
        /\ seen' = [seen EXCEPT ![p] = [Unseen EXCEPT !.row = row']]
      BY <1>5 DEF Record, Is, UpsertRunExecution
  <2>2. Live /\ \A q \in Procs \ {p} : pc[q] = "idle"
      BY <1>1, <2>1, AheadFacts
  <2>3. /\ row'.there /\ ~row'.reported
        /\ row' \in [there : BOOLEAN, reported : BOOLEAN, result : Result]
      BY <2>1 DEF NoRow, Unfinished, Result
  <2>4. seen' \in [Procs -> [row : [there : BOOLEAN, reported : BOOLEAN, result : Result],
                             code : {0, 1}, result : Result, status : Statuses, pr : BOOLEAN]]
      BY <2>1, <2>3 DEF Types, Unseen, Unfinished, Result, Statuses
  <2>5. Types'
      BY <1>1, <2>1, <2>3, <2>4, GoTypes DEF Types
  <2>6. Live' /\ WorkerInv' /\ Copies'
      BY <2>1, <2>2, <2>3 DEF Live, Earned, WorkerInv, Copies, At, Working
  <2> QED BY <1>1, <2>1, <2>2, <2>3, <2>5, <2>6, AheadStep DEF Ahead, Finalizing
<1> QED BY <1>2, <1>3, <1>4, <1>5

\* The exit code that a process puts into the row.
LEMMA UpdateGives ==
    ASSUME OutcomeInv, row.there, At("exited"), UpdateRunExecutionState(worker.code)
    PROVE  /\ row' \in [there : BOOLEAN, reported : BOOLEAN, result : Result]
           /\ row'.there /\ row'.reported = row.reported
           /\ row'.result.ok <=> worker.code = 0
           /\ row'.result.pr = row.result.pr
  BY DEF UpdateRunExecutionState, OutcomeInv, Types, Result

\* From the exit of the container to what is made of it.
LEMMA NoticeStep ==
    ASSUME OutcomeInv, NEW p \in Procs, Go(p, "ended"), UNCHANGED up,
           UNCHANGED <<status, turn, prKnown, worker, meta, succeeded>>,
           up[p] = "up", \A q \in Procs \ {p} : pc[q] = "idle",
           seen' \in [Procs -> [row : [there : BOOLEAN, reported : BOOLEAN, result : Result],
                                code : {0, 1}, result : Result, status : Statuses, pr : BOOLEAN]],
           seen'[p].code = worker.code,
           Live, At("exited"), row.there, UpdateRunExecutionState(worker.code)
    PROVE  OutcomeInv'
<1> USE DEF OutcomeInv
<1>1. "ended" \in PCs /\ "ended" \in Finalizing /\ "ended" \in Judging
    BY DEF PCs, Finalizing, Judging
<1>2. Types'
    BY <1>1, UpdateGives, GoTypes DEF Types
<1>3. At("exited")' /\ Live'
    BY DEF At, Live
<1>4. WorkerInv'
    BY <1>3 DEF WorkerInv, Working, At, Live, Earned
<1>5. Copies'
    BY UpdateGives DEF Copies, Live, Earned, At
<1> QED BY <1>1, <1>2, <1>3, <1>4, <1>5, UpdateGives, AheadStep DEF Ahead

\* A finalizer that leaves status, worker and rows alone.
LEMMA FinalizerMoves ==
    ASSUME OutcomeInv, NEW p \in Procs, pc[p] \in Judging, NEW l \in Finalizing, Go(p, l),
           Live => l \in Judging, UNCHANGED <<status, turn, worker, row, up, succeeded>>,
           Types', Copies', \A q \in Procs : seen'[q].code = seen[q].code,
           Live => \A q \in Procs : pc'[q] = "decide" =>
               /\ row.reported \/ meta' # NoFile
               /\ seen'[q].result = ResultOf(row, meta', worker.code)
    PROVE  OutcomeInv'
<1> USE DEF OutcomeInv
<1>1. pc[p] \in Finalizing /\ l \in PCs /\ l \notin Ahead
    BY DEF Judging, Finalizing, PCs, Ahead
<1>2. pc'[p] = l /\ \A q \in Procs \ {p} : pc'[q] = pc[q]
    BY <1>1, GoTypes
<1>3. up[p] = "up"
    BY <1>1, EachPosition DEF Position, Finalizing
<1>4. Live' = Live /\ Working' = Working /\ Earned' = Earned /\ \A s : At(s)' = At(s)
    BY DEF Live, Working, Earned, At
<1>5. Positions'
  <2>1. Position(p)'
    <3>1. Live => /\ At("exited") /\ row.there
                  /\ row.result.ok <=> worker.code = 0
                  /\ seen[p].code = worker.code
        BY <1>1, EachPosition DEF Position
    <3> QED BY <1>1, <1>2, <1>3, <1>4, <3>1 DEF Position, Ahead
  <2>2. ASSUME NEW q \in Procs \ {p} PROVE Position(q)'
      BY <1>1, <1>2, <1>4, EachPosition, FinalizerFacts DEF Position, Ahead
  <2> QED BY <2>1, <2>2 DEF Positions
<1>6. WorkerInv'
    BY DEF WorkerInv, Working, Live, Earned, At
<1>7. Judged'
    BY <1>4 DEF Judged, ResultOf
<1> QED BY <1>5, <1>6, <1>7

LEMMA FinalizeStep ==
    ASSUME OutcomeInv, NEW p \in Procs,
           \/ NoticeExit(p) \/ BeginFinalize(p) \/ LoadMeta(p) \/ HandBack(p)
           \/ Settle(p) \/ RemoveContainer(p) \/ Finish(p),
           UNCHANGED <<up, succeeded>>
    PROVE  OutcomeInv'
<1> USE DEF OutcomeInv
<1> DEFINE SeenRow == [row : [there : BOOLEAN, reported : BOOLEAN, result : Result],
                       code : {0, 1}, result : Result, status : Statuses, pr : BOOLEAN]
<1>1. /\ Finalizing \cup {"idle"} \subseteq PCs /\ Judging \subseteq Finalizing
      /\ {"ended", "load", "decide", "notify", "clean", "forget"} \subseteq Finalizing
      /\ {"ended", "load", "decide"} \subseteq Judging
      /\ {"notify", "clean", "forget"} \cap Judging = {}
    BY DEF PCs, Finalizing, Judging
<1>2. CASE NoticeExit(p)
  <2>1. /\ up[p] = "up" /\ pc[p] = "watch" /\ At("exited") /\ Go(p, "ended")
        /\ UpdateRunExecutionState(worker.code)
        /\ UNCHANGED <<status, turn, prKnown, worker, meta>>
        /\ seen' = [seen EXCEPT ![p].code = worker.code]
      BY <1>2 DEF NoticeExit, Is
  <2>2. Live /\ row.there /\ \A q \in Procs \ {p} : pc[q] = "idle"
      BY <2>1, EachPosition DEF Position, Ahead
  <2>3. seen' \in [Procs -> SeenRow] /\ seen'[p].code = worker.code
    <3> DEFINE mine == [seen[p] EXCEPT !.code = worker.code]
    <3>1. seen \in [Procs -> SeenRow] /\ worker.code \in {0, 1}
        BY DEF Types
    <3>2. mine \in SeenRow /\ mine.code = worker.code
        BY <3>1
    <3>3. seen' = [seen EXCEPT ![p] = mine]
        BY <2>1, <3>1
    <3> HIDE DEF mine, SeenRow
    <3> QED BY <3>1, <3>2, <3>3
  <2> QED BY <2>1, <2>2, <2>3, NoticeStep
<1>3. CASE BeginFinalize(p)
  <2>1. /\ up[p] = "up" /\ pc[p] = "ended"
        /\ UNCHANGED <<status, turn, prKnown, worker, meta, row>>
        /\ seen' = [seen EXCEPT ![p].pr = prKnown, ![p].status = status[Run]]
      BY <1>3 DEF BeginFinalize, Is
  <2>2. PICK l \in {"clean", "load"} : Go(p, l) /\ (l = "clean" <=> status[Run] \in Final)
      BY <1>3 DEF BeginFinalize
  <2>3. Live => l = "load"
      BY <2>2 DEF Live, Final
  <2>4. /\ seen' \in [Procs -> SeenRow]
        /\ \A q \in Procs : seen'[q].result = seen[q].result /\ seen'[q].code = seen[q].code
    <3> DEFINE mine == [seen[p] EXCEPT !.pr = prKnown, !.status = status[Run]]
    <3>1. seen \in [Procs -> SeenRow]
        BY DEF Types
    <3>2. mine \in SeenRow /\ mine.result = seen[p].result /\ mine.code = seen[p].code
      <4>1. prKnown \in BOOLEAN /\ status[Run] \in Statuses
          BY StatusOfRun DEF Types
      <4>2. seen[p] \in SeenRow
          BY <3>1
      <4> QED BY <4>1, <4>2
    <3>3. seen' = [seen EXCEPT ![p] = mine]
        BY <2>1, <3>1
    <3> HIDE DEF mine, SeenRow
    <3> QED BY <3>1, <3>2, <3>3
  <2>5. Types'
      BY <1>1, <2>1, <2>2, <2>4, GoTypes DEF Types
  <2>6. Copies'
      BY <2>1 DEF Copies, Live, Earned, At
  <2>7. pc'[p] = l /\ \A q \in Procs \ {p} : pc'[q] = pc[q]
      BY <1>1, <2>2, GoTypes
  <2>8. Live => \A q \in Procs : pc'[q] = "decide" =>
               /\ row.reported \/ meta' # NoFile
               /\ seen'[q].result = ResultOf(row, meta', worker.code)
      BY <2>1, <2>2, <2>4, <2>7 DEF Judged
  <2> QED BY <1>1, <2>1, <2>2, <2>3, <2>4, <2>5, <2>6, <2>8, FinalizerMoves
<1>4. CASE LoadMeta(p)
  <2> DEFINE copy   == IF row.there THEN row ELSE seen[p].row
             result == ResultOf(copy, meta, seen[p].code)
  <2>1. /\ up[p] = "up" /\ pc[p] = "load" /\ Go(p, "decide")
        /\ UNCHANGED <<status, turn, prKnown, worker, row>>
        /\ seen' = [seen EXCEPT ![p].row = copy, ![p].result = result]
        /\ meta' = IF meta = NoFile /\ ~copy.reported THEN result ELSE meta
      BY <1>4 DEF LoadMeta, Is
  <2>2. copy \in [there : BOOLEAN, reported : BOOLEAN, result : Result]
      BY DEF Types
  <2>3. result \in Result
      BY <2>2 DEF ResultOf, Types, Result
  <2>4. /\ seen'[p].result = result /\ seen'[p].code = seen[p].code
        /\ \A q \in Procs \ {p} : seen'[q] = seen[q]
      BY <2>1 DEF Types
  <2>5. seen' \in [Procs -> SeenRow]
    <3> DEFINE mine == [seen[p] EXCEPT !.row = copy, !.result = result]
    <3>1. seen \in [Procs -> SeenRow]
        BY DEF Types
    <3>2. mine \in SeenRow
        BY <2>2, <2>3, <3>1
    <3>3. seen' = [seen EXCEPT ![p] = mine]
        BY <2>1, <3>1
    <3> HIDE DEF mine, SeenRow
    <3> QED BY <3>1, <3>2, <3>3
  <2>6. Types'
      BY <1>1, <2>1, <2>3, <2>5, GoTypes DEF Types
  <2>7. meta = NoFile /\ ~copy.reported => /\ result = [ok |-> seen[p].code = 0, pr |-> FALSE]
                                           /\ result # [ok |-> FALSE, pr |-> TRUE]
      BY DEF ResultOf
  <2>8. Copies'
    <3>1. meta' # [ok |-> FALSE, pr |-> TRUE]
        BY <2>1, <2>7 DEF Copies
    <3>2. meta # NoFile => meta' = meta
        BY <2>1
    <3> QED BY <2>1, <3>1, <3>2 DEF Copies, Live, Earned, At
  <2>9. pc'[p] = "decide" /\ \A q \in Procs \ {p} : pc'[q] = pc[q]
      BY <1>1, <2>1, GoTypes
  <2>10. ASSUME Live, NEW q \in Procs, pc'[q] = "decide"
         PROVE  /\ row.reported \/ meta' # NoFile
                /\ seen'[q].result = ResultOf(row, meta', worker.code)
    <3>1. copy = row /\ seen[p].code = worker.code
        BY <1>1, <2>1, <2>10, EachPosition DEF Position
    <3>2. CASE q = p
      <4>1. row.reported \/ meta' # NoFile
          BY <2>1, <2>3, <3>1, NoFileIsNoResult
      <4>2. ResultOf(row, meta', worker.code) = result
        <5>1. CASE meta' = meta
            BY <3>1, <5>1
        <5>2. CASE meta' # meta
          <6>1. /\ meta = NoFile /\ ~row.reported
                /\ meta' = [ok |-> worker.code = 0, pr |-> FALSE]
                /\ result = [ok |-> worker.code = 0, pr |-> FALSE] /\ meta' # NoFile
              BY <2>1, <2>3, <2>7, <3>1, <5>2, NoFileIsNoResult
          <6> DEFINE again == [meta' EXCEPT !.ok = @ /\ worker.code = 0]
          <6>2. ResultOf(row, meta', worker.code) = again
              BY <6>1 DEF ResultOf
          <6>3. again = result
            <7>1. meta' \in Result /\ meta'.ok = (worker.code = 0) /\ meta' = result
                BY <2>3, <6>1
            <7>2. /\ again \in Result /\ again.pr = meta'.pr
                  /\ again.ok = (meta'.ok /\ worker.code = 0)
                BY <7>1 DEF Result
            <7> HIDE DEF again, result
            <7>3. again.ok <=> meta'.ok
                BY <7>1, <7>2
            <7> QED BY <7>1, <7>2, <7>3, SameResult
          <6> QED BY <6>2, <6>3
        <5> QED BY <5>1, <5>2
      <4> QED BY <2>4, <3>2, <4>1, <4>2
    <3>3. CASE q # p
      <4>1. pc[q] = "decide" /\ seen'[q] = seen[q]
          BY <2>4, <2>9, <2>10, <3>3
      <4>2. /\ row.reported \/ meta # NoFile
            /\ seen[q].result = ResultOf(row, meta, worker.code)
          BY <2>10, <4>1 DEF Judged
      <4>3. meta' = meta
          BY <2>1, <3>1, <4>2
      <4> QED BY <4>1, <4>2, <4>3
    <3> QED BY <3>2, <3>3
  <2> HIDE DEF copy, result
  <2> QED BY <1>1, <2>1, <2>4, <2>6, <2>8, <2>10, FinalizerMoves
<1>5. CASE HandBack(p)
  <2>1. /\ pc[p] = "decide" /\ ~seen[p].result.ok
        /\ RequeueIfRunning /\ Go(p, "clean")
        /\ UNCHANGED <<turn, prKnown, worker, meta, row, seen>>
      BY <1>5 DEF HandBack, Is, DetectUsageLimitPause
  <2>2. /\ ~Live' /\ status' \in [Runs -> Statuses]
        /\ status'[Run] = IF Live THEN "queued" ELSE status[Run]
      BY <2>1, StatusOfRun DEF RequeueIfRunning, Live, Statuses, Types
  <2>3. Types' /\ ~Working'
      BY <1>1, <2>1, <2>2, GoTypes, FinalizerFacts DEF Types, Working
  <2>4. Live => /\ row.reported => ~row.result.ok
                /\ worker.code = 0 => ~row.reported /\ meta # NoFile /\ ~meta.ok
    <3> SUFFICES ASSUME Live PROVE /\ row.reported => ~row.result.ok
                                   /\ worker.code = 0 => ~row.reported /\ meta # NoFile /\ ~meta.ok
        OBVIOUS
    <3>1. /\ seen[p].result = ResultOf(row, meta, worker.code)
          /\ row.reported \/ meta # NoFile
        BY <2>1 DEF Judged
    <3>2. row.result.ok <=> worker.code = 0
        BY <1>1, <2>1, EachPosition DEF Position
    <3>3. row.reported => ~row.result.ok
      <4>1. row.reported => ResultOf(row, meta, worker.code) = row.result
          BY DEF ResultOf
      <4> QED BY <2>1, <3>1, <4>1
    <3>4. ~row.reported /\ meta # NoFile /\ worker.code = 0 => ~meta.ok
        BY <2>1, <3>1 DEF ResultOf, Types, Result
    <3> QED BY <3>1, <3>2, <3>3, <3>4
  <2>5. Copies'
      BY <2>1, <2>2, <2>4 DEF Copies, Live, At
  <2> QED BY <1>1, <1>5, <2>1, <2>2, <2>3, <2>5, SettleStep
<1>6. CASE Settle(p)
  <2>1. /\ pc[p] = "decide" /\ Go(p, "notify") /\ UNCHANGED <<turn, worker, meta, row>>
        /\ seen' = [seen EXCEPT ![p].status = status'[Run]]
      BY <1>6 DEF Settle, Is
  <2>2. /\ ~Live' /\ status' \in [Runs -> Statuses] /\ prKnown' \in BOOLEAN
        /\ status'[Run] \in Final \/ UNCHANGED status
    <3>1. CASE \E to \in Final : SetRunStatus(Run, to)
        BY <1>6, <3>1, SettledRun DEF Settle, Types, Result
    <3>2. CASE ~CanTransition(Run, "failed") /\ UNCHANGED <<status, prKnown>>
        BY <3>2 DEF CanTransition, Transitions, Final, Live, Types
    <3> QED BY <1>6, <3>1, <3>2 DEF Settle, SetRunStatus
  <2>3. seen' \in [Procs -> SeenRow]
      BY <2>1, <2>2, RunIsRun DEF Types
  <2>4. Types' /\ ~Working'
      BY <1>1, <2>1, <2>2, <2>3, GoTypes, FinalizerFacts DEF Types, Working
  <2>5. Copies'
      BY <2>1, <2>2 DEF Copies, Live, At, Final
  <2> QED BY <1>1, <1>6, <2>1, <2>2, <2>4, <2>5, SettleStep
<1>7. CASE RemoveContainer(p)
  <2>1. /\ pc[p] = "clean" /\ Go(p, "forget") /\ worker' = NoWorker
        /\ UNCHANGED <<status, turn, prKnown, meta, row, seen>>
      BY <1>7 DEF RemoveContainer, Is
  <2>2. ~Live'
      BY <1>1, <2>1, EachPosition DEF Position, Live
  <2>3. worker'.stage = "none" /\ worker' \in [stage : WorkerStages, result : Result, code : {0, 1}]
      BY <2>1 DEF NoWorker, Unfinished, Result, WorkerStages
  <2>4. Types' /\ ~Working'
      BY <1>1, <2>1, <2>3, GoTypes DEF Types, Working
  <2>5. Copies'
      BY <2>1, <2>2, <2>3 DEF Copies, Live, At
  <2> QED BY <1>1, <2>1, <2>2, <2>4, <2>5, SettleStep
<1>8. CASE Finish(p)
  <2>1. /\ pc[p] = "forget" /\ Go(p, "idle") /\ row' = NoRow
        /\ UNCHANGED <<status, turn, prKnown, meta, worker>>
        /\ seen' = [seen EXCEPT ![p] = Unseen]
      BY <1>8 DEF Finish, Is, DeleteRunExecution
  <2>2. ~Live'
      BY <1>1, <2>1, EachPosition DEF Position, Live
  <2>3. NoRow \in [there : BOOLEAN, reported : BOOLEAN, result : Result] /\ Unseen \in SeenRow
      BY DEF NoRow, Unseen, Unfinished, Result, Statuses
  <2>4. Types' /\ ~Working'
      BY <1>1, <2>1, <2>3, GoTypes, FinalizerFacts DEF Types, Working
  <2>5. Copies'
      BY <2>1, <2>2 DEF Copies, Live, At, NoRow
  <2> QED BY <1>1, <2>1, <2>2, <2>4, <2>5, SettleStep
<1> QED BY <1>2, <1>3, <1>4, <1>5, <1>6, <1>7, <1>8

-----------------------------------------------------------------------------
(* The notifier, and processes that come and go.                           *)

LEMMA NotifyStep ==
    ASSUME OutcomeInv, NEW p \in Procs, Notify(p), UNCHANGED <<up, succeeded>>
    PROVE  OutcomeInv'
<1> USE DEF OutcomeInv
<1>1. UNCHANGED <<status, turn, prKnown, worker, meta, row, seen>>
    BY DEF Notify
<1>2. WorkerInv' /\ Copies'
    BY <1>1 DEF WorkerInv, Copies, Working, Live, Earned, At
<1>3. ASSUME pc[p] \in {"start", "started"}, NEW l \in {"started", "watch"}, Go(p, l), up[p] = "up"
      PROVE  OutcomeInv'
  <2>1. l \in Ahead \ {"claimed", "persisted"} /\ l \in PCs /\ pc[p] \in Ahead \ {"claimed"}
        /\ l \notin Finalizing
      BY <1>3 DEF Ahead, PCs, Finalizing
  <2>2. Live /\ row.there /\ \A q \in Procs \ {p} : pc[q] = "idle"
      BY <2>1, EachPosition DEF Position
  <2>3. Live' /\ row'.there
      BY <1>1, <2>2 DEF Live
  <2>4. Types'
      BY <1>1, <1>3, <2>1, GoTypes DEF Types
  <2> QED BY <1>2, <1>3, <2>1, <2>2, <2>3, <2>4, AheadStep DEF Finalizing
<1>4. ASSUME pc[p] \in Finalizing \ Judging, NEW l \in Finalizing, Go(p, l)
      PROVE  OutcomeInv'
  <2>1. ~Live' /\ ~Working'
      BY <1>1, <1>4, EachPosition, FinalizerFacts DEF Position, Live, Working
  <2>2. l \in PCs
      BY DEF PCs
  <2>3. Types'
      BY <1>1, <1>4, <2>2, GoTypes DEF Types
  <2> QED BY <1>2, <1>4, <2>1, <2>3, SettleStep
<1>5. /\ {"notify", "told", "look", "post", "relook", "found", "mark"} \subseteq Finalizing \ Judging
      /\ "clean" \in Finalizing
    BY DEF Finalizing, Judging
<1>6. \/ \E l \in {"started", "watch"} : pc[p] \in {"start", "started"} /\ Go(p, l)
      \/ \E l \in Finalizing : pc[p] \in Finalizing \ Judging /\ Go(p, l)
    BY <1>5 DEF Notify, NotifyRunStarted, NotifyRunFailed, Tell, UpsertRunNotification,
       NotifyNothing, ClaimRunCompletionComment, LookForComment, PostComment, LookAgain,
       MarkPosted, MarkFailed, Is
<1>7. up[p] = "up"
    BY DEF Notify, NotifyRunStarted, NotifyRunFailed, Tell, UpsertRunNotification,
       NotifyNothing, ClaimRunCompletionComment, LookForComment, PostComment, LookAgain,
       MarkPosted, Is
<1> QED BY <1>3, <1>4, <1>6, <1>7

\* A process that leaves frees its place, and disturbs nothing.
LEMMA ForgottenStep ==
    ASSUME OutcomeInv, NEW p \in Procs, Forgotten(p),
           UNCHANGED <<turn, prKnown, worker, meta, succeeded>>
    PROVE  OutcomeInv'
<1> USE DEF OutcomeInv
<1>1. /\ up' = [up EXCEPT ![p] = "gone"] /\ Go(p, "idle") /\ seen' = [seen EXCEPT ![p] = Unseen]
      /\ UNCHANGED <<status, row>>
    BY DEF Forgotten
<1>2. "idle" \in PCs /\ "idle" \notin Ahead /\ "idle" \notin Finalizing
    BY DEF PCs, Ahead, Finalizing
<1>3. pc'[p] = "idle" /\ \A q \in Procs \ {p} : pc'[q] = pc[q] /\ up'[q] = up[q] /\ seen'[q] = seen[q]
    BY <1>1, <1>2, GoTypes DEF Types
<1>4. Types'
  <2>1. seen' \in [Procs -> [row : [there : BOOLEAN, reported : BOOLEAN, result : Result],
                             code : {0, 1}, result : Result, status : Statuses, pr : BOOLEAN]]
      BY <1>1 DEF Types, Unseen, NoRow, Unfinished, Result, Statuses
  <2>2. up' \in [Procs -> {"unborn", "up", "gone"}]
      BY <1>1 DEF Types
  <2> QED BY <1>1, <1>2, <2>1, <2>2, GoTypes DEF Types
<1>5. WorkerInv' /\ Copies'
    BY <1>1 DEF WorkerInv, Copies, Working, Live, Earned, At
<1>6. Live' = Live /\ Working' = Working /\ Earned' = Earned /\ \A s : At(s)' = At(s)
    BY <1>1 DEF Live, Working, Earned, At
<1>7. ASSUME NEW q \in Procs PROVE Position(q)'
  <2>1. CASE q = p
      BY <1>2, <1>3, <2>1 DEF Position
  <2>2. CASE q # p
      BY <1>1, <1>3, <1>6, <2>2, EachPosition DEF Position
  <2> QED BY <2>1, <2>2
<1>8. Judged'
  <2> SUFFICES ASSUME NEW q \in Procs, Live', pc'[q] = "decide"
               PROVE  /\ row'.reported \/ meta' # NoFile
                      /\ seen'[q].result = ResultOf(row', meta', worker'.code)
      BY DEF Judged
  <2>1. q # p /\ pc[q] = "decide" /\ Live /\ seen'[q] = seen[q]
      BY <1>3, <1>6
  <2> QED BY <1>1, <2>1 DEF Judged
<1> QED BY <1>4, <1>5, <1>7, <1>8 DEF Positions

\* A process that starts takes over a run that nobody holds.
LEMMA BootStep ==
    ASSUME OutcomeInv, NEW p \in Procs, Boot(p),
           UNCHANGED <<turn, prKnown, worker, meta, succeeded>>
    PROVE  OutcomeInv'
<1> USE DEF OutcomeInv
<1>1. up[p] = "unborn" /\ up' = [up EXCEPT ![p] = "up"] /\ Recover(p)
    BY DEF Boot
<1>2. pc[p] = "idle"
    BY <1>1, EachPosition DEF Position
<1>3. up' \in [Procs -> {"unborn", "up", "gone"}] /\ up'[p] = "up"
      /\ \A q \in Procs \ {p} : up'[q] = up[q]
    BY <1>1 DEF Types
\* Nobody else is at work with a run it may take over, but a finalizer.
<1>4. ASSUME Live, ~HeldByAnother(p), NEW q \in Procs \ {p}, pc[q] # "idle"
      PROVE  /\ pc[q] \in Judging /\ At("exited")
             /\ row.there /\ (row.result.ok <=> worker.code = 0)
             /\ seen[q].code = worker.code
    BY <1>4, EachPosition DEF HeldByAnother, Position
<1>5. \A s : At(s)' = At(s) /\ Working' = Working /\ Earned' = Earned
    BY DEF At, Working, Earned
<1>6. CASE UNCHANGED <<status, row, pc, seen>>
  <2>1. WorkerInv' /\ Copies' /\ Judged'
      BY <1>6 DEF WorkerInv, Copies, Judged, Working, Live, Earned, At
  <2>2. Types'
      BY <1>3, <1>6 DEF Types
  <2>3. Live' = Live
      BY <1>6 DEF Live
  <2>4. Positions'
      BY <1>2, <1>3, <1>5, <1>6, <2>3, EachPosition DEF Positions, Position
  <2> QED BY <2>1, <2>2, <2>4
<1>7. CASE Live /\ ~HeldByAnother(p) /\ ~row.there /\ Requeue(Run) /\ UNCHANGED <<row, pc, seen>>
  <2>1. \A q \in Procs : pc'[q] = "idle"
      BY <1>2, <1>4, <1>7
  <2>2. status' \in [Runs -> Statuses] /\ status'[Run] = "queued" /\ ~Live'
      BY <1>7, StatusOfRun DEF Requeue, Live, Statuses
  <2>3. Types'
      BY <1>3, <1>7, <2>2 DEF Types
  <2>4. ~Working'
      BY <1>5, <1>7 DEF WorkerInv
  <2>5. Positions' /\ WorkerInv' /\ Judged'
      BY <2>1, <2>2, <2>4 DEF Positions, Position, WorkerInv, Judged, Ahead, Finalizing
  <2>6. Copies'
      BY <1>5, <1>7, <2>2 DEF Copies, Live, At
  <2> QED BY <2>3, <2>5, <2>6
<1>8. CASE /\ Live /\ ~HeldByAnother(p) /\ row.there
           /\ seen' = [seen EXCEPT ![p] = [Unseen EXCEPT !.row = row, !.code = worker.code]]
  <2>1. seen' \in [Procs -> [row : [there : BOOLEAN, reported : BOOLEAN, result : Result],
                             code : {0, 1}, result : Result, status : Statuses, pr : BOOLEAN]]
      BY <1>8 DEF Types, Unseen, NoRow, Unfinished, Result, Statuses
  <2>2. CASE At("none") /\ SetRunStatus(Run, "failed") /\ row' = NoRow /\ UNCHANGED pc
    <3>1. \A q \in Procs : pc'[q] = "idle"
        BY <1>2, <1>4, <1>8, <2>2 DEF At
    <3>2. ~Live' /\ status'[Run] \in Final /\ status' \in [Runs -> Statuses]
        BY <2>2, SettledRun
    <3>3. Types'
        BY <1>3, <2>1, <2>2, <3>2 DEF Types, NoRow, Unfinished, Result
    <3>4. ~Working'
        BY <1>5, <2>2 DEF Working, At
    <3>5. Positions' /\ WorkerInv' /\ Judged'
        BY <3>1, <3>2, <3>4 DEF Positions, Position, WorkerInv, Judged, Ahead, Finalizing
    <3>6. Copies'
        BY <2>2, <3>2 DEF Copies, NoRow, Final
    <3> QED BY <3>3, <3>5, <3>6
  <2>3. CASE Working /\ Go(p, "watch") /\ UNCHANGED <<status, row>>
    <3>1. "watch" \in PCs /\ "watch" \in Ahead /\ "watch" \notin Finalizing
        BY DEF PCs, Ahead, Finalizing
    <3>2. \A q \in Procs \ {p} : pc[q] = "idle"
        BY <1>4, <1>8, <2>3 DEF Working, At
    <3>3. pc'[p] = "watch" /\ \A q \in Procs \ {p} : pc'[q] = "idle"
        BY <2>3, <3>1, <3>2, GoTypes
    <3>4. Types'
        BY <1>3, <2>1, <2>3, <3>1, GoTypes DEF Types
    <3>5. Live' /\ row'.there
        BY <1>8, <2>3 DEF Live
    <3>6. Positions' /\ Judged'
        BY <1>3, <3>1, <3>3, <3>5 DEF Positions, Position, Judged, Ahead, Finalizing
    <3>7. WorkerInv' /\ Copies'
        BY <2>3 DEF WorkerInv, Copies, Working, Live, Earned, At
    <3> QED BY <3>4, <3>6, <3>7
  <2>4. CASE At("exited") /\ UpdateRunExecutionState(worker.code) /\ Go(p, "ended") /\ UNCHANGED status
    <3>1. "ended" \in PCs /\ "ended" \notin Ahead /\ "ended" \in Judging
        BY DEF PCs, Ahead, Judging, Finalizing
    <3>2. pc'[p] = "ended" /\ \A q \in Procs \ {p} : pc'[q] = pc[q]
        BY <2>4, <3>1, GoTypes
    <3>3. Live' /\ At("exited")'
        BY <1>5, <1>8, <2>4 DEF Live
    <3>4. Types'
        BY <1>3, <1>8, <2>1, <2>4, <3>1, UpdateGives, GoTypes DEF Types
    <3>5. Copies'
        BY <1>8, <2>4, UpdateGives DEF Copies, Live, Earned, At
    <3>6. WorkerInv'
        BY <1>8, <2>4, <3>3 DEF WorkerInv, Working, Live, Earned, At
    <3>7. ASSUME NEW q \in Procs PROVE Position(q)'
      <4>1. CASE q = p
        <5>1. seen'[p].code = worker.code
            BY <1>8 DEF Types, Unseen
        <5> QED BY <1>3, <1>8, <2>4, <3>1, <3>2, <3>3, <4>1, <5>1, UpdateGives DEF Position, Ahead
      <4>2. CASE q # p /\ pc[q] = "idle"
          BY <3>2, <4>2 DEF Position, Ahead, Finalizing
      <4>3. CASE q # p /\ pc[q] # "idle"
        <5>1. pc'[q] \in Judging /\ up'[q] = "up"
            BY <1>3, <1>4, <1>8, <3>2, <4>3, EachPosition DEF Position
        <5>2. seen'[q] = seen[q] /\ seen[q].code = worker.code
            BY <1>4, <1>8, <4>3 DEF Types
        <5> QED BY <1>8, <2>4, <3>3, <5>1, <5>2, UpdateGives DEF Position, Judging, Ahead
      <4> QED BY <4>1, <4>2, <4>3
    <3>8. Judged'
      <4> SUFFICES ASSUME NEW q \in Procs, pc'[q] = "decide"
                   PROVE  /\ row'.reported \/ meta' # NoFile
                          /\ seen'[q].result = ResultOf(row', meta', worker'.code)
          BY DEF Judged
      <4>1. q # p /\ pc[q] = "decide"
          BY <3>2
      <4>2. row.result.ok <=> worker.code = 0
          BY <1>4, <1>8, <4>1
      <4>3. row'.result = row.result /\ row'.reported = row.reported
          BY <1>8, <2>4, <4>2, UpdateGives, SameResult DEF Types
      <4>4. seen'[q] = seen[q]
          BY <1>8, <4>1 DEF Types
      <4> QED BY <1>8, <4>1, <4>3, <4>4 DEF Judged, ResultOf
    <3> QED BY <3>4, <3>5, <3>6, <3>7, <3>8 DEF Positions
  <2> QED BY <1>1, <1>8, <2>2, <2>3, <2>4 DEF Recover, DeleteRunExecution, Live
<1> QED BY <1>1, <1>6, <1>7, <1>8 DEF Recover, Live

LEMMA OutcomeStep ==
    ASSUME OutcomeInv, [Next]_vars
    PROVE  OutcomeInv'
<1>1. ASSUME NEW p \in Procs, Serve(p)
      PROVE  OutcomeInv'
  <2>1. UNCHANGED <<up, succeeded>>
      BY <1>1 DEF Serve
  <2>2. CASE StopWorker(p)
      BY <2>1, <2>2, KilledStep DEF StopWorker
  <2> QED BY <1>1, <2>1, <2>2, ExecuteStep, FinalizeStep, NotifyStep DEF Serve
<1>2. CASE Manage
  <2>1. UNCHANGED <<turn, prKnown, worker, meta, succeeded>>
      BY <1>2 DEF Manage
  <2>2. CASE Cancel
      BY <2>1, <2>2 DEF Cancel, OutcomeInv, Types, Positions, Position, WorkerInv, Copies, Judged,
         Live, Working, Earned, At, ResultOf
  <2> QED BY <1>2, <2>1, <2>2, BootStep, ForgottenStep DEF Manage, Crash, Leave
<1>3. CASE UNCHANGED vars
    BY <1>3 DEF vars, storeVars, outcomeVars, OutcomeInv, Types, Positions, Position, WorkerInv,
       Copies, Judged, Live, Working, Earned, At, ResultOf
<1> QED BY <1>1, <1>2, <1>3, WorkStep DEF Next

LEMMA OutcomeInit == Init => OutcomeInv
<1> SUFFICES ASSUME Init PROVE OutcomeInv
    OBVIOUS
<1>1. status[Run] = "queued" /\ ~Live
    BY RunIsRun DEF Init, Live
<1>2. /\ Unfinished \in Result /\ "idle" \in PCs /\ "none" \in WorkerStages
      /\ NoRow \in [there : BOOLEAN, reported : BOOLEAN, result : Result]
      /\ NoWorker \in [stage : WorkerStages, result : Result, code : {0, 1}]
      /\ Unseen \in [row : [there : BOOLEAN, reported : BOOLEAN, result : Result],
                     code : {0, 1}, result : Result, status : Statuses, pr : BOOLEAN]
    BY DEF Unfinished, Result, PCs, WorkerStages, NoRow, NoWorker, Unseen, Statuses
<1>3. Types
    BY <1>2, OutcomeConstants DEF Init, Types, Statuses
<1>4. Positions
    BY DEF Init, Positions, Position, Ahead, Finalizing
<1>5. WorkerInv
    BY <1>1 DEF Init, WorkerInv, Working, NoWorker
<1>6. Copies
    BY <1>1, NoFileIsNoResult DEF Init, Copies, NoRow, NoWorker, At
<1>7. Judged
    BY DEF Init, Judged
<1> QED BY <1>3, <1>4, <1>5, <1>6, <1>7 DEF OutcomeInv

LEMMA OutcomeInvHolds == FairSpec => []OutcomeInv
  BY OutcomeInit, OutcomeStep, PTL DEF FairSpec

-----------------------------------------------------------------------------
(* What follows for the status of the run.                                 *)

\* The only steps that settle a running run: a finalizer's, and two that
\* settle it as failed because it never got a container.
LEMMA WhoSettles ==
    ASSUME OutcomeInv, [Next]_vars, Settles
    PROVE  \/ \E p \in Procs : Settle(p) /\ pc[p] = "decide"
           \/ status'[Run] = "failed" /\ ~(Earned /\ At("exited"))
<1> USE RunIsRun DEF Settles
<1>1. status'[Run] # status[Run] /\ status' # status /\ status[Run] = "running"
    BY DEF Final
<1>2. ASSUME NEW p \in Procs, Serve(p)
      PROVE  \/ Settle(p) /\ pc[p] = "decide"
             \/ status'[Run] = "failed" /\ ~Earned
  <2>1. Claim(p) \/ Launch(p) \/ HandBack(p) \/ Settle(p)
      BY <1>1, <1>2 DEF Serve, PersistHandle, Record, StopWorker, NoticeExit, BeginFinalize,
         LoadMeta, RemoveContainer, Finish, Notify
  <2>2. ~Claim(p)
      BY <1>1 DEF Claim, ClaimNextQueuedRun, NextQueuedRun, Claimable
  <2>3. ~HandBack(p)
      BY <1>1, StatusOfRun DEF HandBack, RequeueIfRunning, Final, OutcomeInv, Statuses
  <2>4. Launch(p) => status'[Run] = "failed" /\ ~Earned
    <3> SUFFICES ASSUME Launch(p) PROVE status'[Run] = "failed" /\ ~Earned
        OBVIOUS
    <3>1. pc[p] = "persisted" /\ SetRunStatus(Run, "failed")
        BY <1>1 DEF Launch, Is
    <3>2. status'[Run] = "failed"
        BY <3>1, StatusOfRun DEF SetRunStatus, OutcomeInv
    <3>3. ~Earned
        BY <3>1, EachPosition DEF Position
    <3> QED BY <3>2, <3>3
  <2>5. Settle(p) => pc[p] = "decide"
      BY DEF Settle, Is
  <2> QED BY <2>1, <2>2, <2>3, <2>4, <2>5
<1>3. ASSUME Manage
      PROVE  status'[Run] = "failed" /\ ~At("exited")
  <2>1. PICK p \in Procs : Boot(p)
      BY <1>1, <1>3 DEF Manage, Cancel, Crash, Leave, Forgotten
  <2>2. ~Requeue(Run)
      BY <1>1, StatusOfRun DEF Requeue, Final, OutcomeInv, Statuses
  <2>3. At("none") /\ SetRunStatus(Run, "failed")
      BY <1>1, <2>1, <2>2 DEF Boot, Recover
  <2> QED BY <2>3, StatusOfRun DEF SetRunStatus, OutcomeInv, At
<1>4. ~Work /\ ~UNCHANGED vars
    BY <1>1 DEF Work, vars, storeVars
<1> QED BY <1>2, <1>3, <1>4 DEF Next

\* Whatever an earlier execution left behind, wherever processes died and
\* however many of them finalize: a success was earned by this execution's
\* worker, for any number of executions and processes.
THEOREM SuccessOnlyIfEarned == FairSpec => SuccessIsEarned
<1>1. ASSUME OutcomeInv, [Next]_vars, Settles, status'[Run] \in {"review", "succeeded"}
      PROVE  turn \in succeeded
  <2>1. PICK p \in Procs : Settle(p) /\ pc[p] = "decide"
      BY <1>1, WhoSettles
  <2>2. seen[p].result.ok
    <3>1. status'[Run] = Verdict(p) \/ status'[Run] = "failed" \/ UNCHANGED status
        BY <2>1, <1>1, StatusOfRun DEF Settle, SetRunStatus, OutcomeInv, Statuses
    <3>2. Verdict(p) \in {"review", "succeeded"}
        BY <1>1, <3>1 DEF Settles
    <3> QED BY <3>2 DEF Verdict
  <2>3. Live /\ At("exited") /\ (row.result.ok <=> worker.code = 0)
      BY <1>1, <2>1, EachPosition DEF Position, Finalizing, Settles, Live
  <2>4. /\ row.reported \/ meta # NoFile
        /\ seen[p].result = ResultOf(row, meta, worker.code)
      BY <1>1, <2>1, <2>3 DEF OutcomeInv, Judged
  <2>5. CASE row.reported
      BY <1>1, <2>2, <2>3, <2>4, <2>5 DEF ResultOf, OutcomeInv, Copies, Earned
  <2>6. CASE ~row.reported
    <3>1. meta.ok /\ worker.code = 0
        BY <1>1, <2>2, <2>4, <2>6 DEF ResultOf, OutcomeInv, Types, Result
    <3> QED BY <1>1, <2>3, <3>1 DEF OutcomeInv, Copies, Earned, Live
  <2> QED BY <2>5, <2>6
<1> QED BY <1>1, OutcomeInvHolds, PTL DEF FairSpec, SuccessIsEarned

\* As long as the report or the file got through, an earned success is closed
\* as one, in review if the copy that got through tells of the pull request.
THEOREM OneCopyDoes == FairSpec => OneCopyIsEnough
<1>1. ASSUME OutcomeInv, [Next]_vars, Settles, turn \in succeeded, worker.code = 0, At("exited"),
             row.reported \/ meta \notin {NoFile, Unfinished}
      PROVE  /\ status'[Run] \in {"review", "succeeded"}
             /\ worker.result.pr => \/ status'[Run] = "review" /\ prKnown'
                                    \/ ~row.reported /\ meta = [ok |-> TRUE, pr |-> FALSE]
  <2>1. PICK p \in Procs : Settle(p) /\ pc[p] = "decide"
      BY <1>1, WhoSettles DEF Earned
  <2>2. Live /\ (row.result.ok <=> worker.code = 0)
      BY <1>1, <2>1, EachPosition DEF Position, Finalizing, Settles, Live
  <2>3. /\ row.reported \/ meta # NoFile
        /\ seen[p].result = ResultOf(row, meta, worker.code)
      BY <1>1, <2>1, <2>2 DEF OutcomeInv, Judged
  <2>4. /\ seen[p].result.ok
        /\ worker.result.pr => \/ seen[p].result.pr
                               \/ ~row.reported /\ meta = [ok |-> TRUE, pr |-> FALSE]
    <3>1. CASE row.reported
      <4>1. row.result.ok /\ row.result.pr = worker.result.pr
          BY <1>1, <2>2, <3>1 DEF OutcomeInv, Copies, Earned
      <4> QED BY <2>3, <3>1, <4>1 DEF ResultOf
    <3>2. CASE ~row.reported
      <4>1. /\ meta \in Result /\ meta # NoFile /\ meta # Unfinished
            /\ meta # [ok |-> FALSE, pr |-> TRUE]
          BY <1>1, <3>2 DEF OutcomeInv, Types, Copies
      <4>2. meta.ok /\ (meta.pr \/ meta = [ok |-> TRUE, pr |-> FALSE])
          BY <4>1 DEF Result, Unfinished
      <4> QED BY <1>1, <2>3, <3>2, <4>1, <4>2 DEF ResultOf, Result
    <3> QED BY <3>1, <3>2
  <2>5. /\ Verdict(p) \in {"review", "succeeded"}
        /\ seen[p].result.pr => Verdict(p) = "review"
      BY <2>4 DEF Verdict
  <2>6. CanTransition(Run, Verdict(p))
      BY <2>2, <2>5 DEF CanTransition, Transitions, Live, Final
  <2>7. SetRunStatus(Run, Verdict(p)) /\ prKnown' = (prKnown \/ seen[p].result.pr)
      BY <2>1, <2>6 DEF Settle
  <2>8. status'[Run] = Verdict(p)
      BY <1>1, <2>5, <2>7, StatusOfRun DEF SetRunStatus, OutcomeInv, Statuses, Final
  <2> QED BY <2>4, <2>5, <2>7, <2>8
<1> QED BY <1>1, OutcomeInvHolds, PTL DEF FairSpec, OneCopyIsEnough

-----------------------------------------------------------------------------
(* The completion comment.                                                 *)

\* Whoever is between the claim and its mark holds the claim, and knows how
\* many comments there are.
Holding == {"look", "post", "relook", "found", "mark"}

CommentInv ==
    /\ pc \in [Procs -> PCs] /\ up \in [Procs -> {"unborn", "up", "gone"}]
    /\ posted \subseteq Kinds
    /\ comments \in [Kinds -> Nat]
    /\ CommentedOnce
    /\ \A p \in Procs :
        /\ up[p] # "up" => pc[p] = "idle"
        /\ pc[p] \in Holding => claim = [state |-> "posting", by |-> p]
        /\ pc[p] = "post" => comments["completion"] = 0
        /\ pc[p] \in {"found", "mark"} => comments["completion"] = 1
        /\ pc[p] = "started" => comments["start"] > 0
        /\ pc[p] = "told" => comments["failure"] > 0

\* A step that neither posts nor claims, and does not come to hold the claim.
LEMMA QuietStep ==
    ASSUME CommentInv, NEW p \in Procs, NEW l \in PCs, Go(p, l),
           l \notin Holding \cup {"started", "told"},
           up' \in [Procs -> {"unborn", "up", "gone"}],
           \A q \in Procs \ {p} : up'[q] = up[q], up'[p] # "up" => l = "idle",
           UNCHANGED <<claim, posted, comments>>
    PROVE  CommentInv'
<1>1. /\ pc' \in [Procs -> PCs] /\ pc'[p] = l
      /\ \A q \in Procs \ {p} : pc'[q] = pc[q]
    BY DEF Go, CommentInv
<1> QED BY <1>1 DEF CommentInv, CommentedOnce, Holding

LEMMA StillStep ==
    ASSUME CommentInv, UNCHANGED <<pc, claim, posted, comments>>,
           up' \in [Procs -> {"unborn", "up", "gone"}],
           \A q \in Procs : up'[q] # "up" => pc[q] = "idle"
    PROVE  CommentInv'
  BY DEF CommentInv, CommentedOnce, Holding

\* A step of the notifier at its process, with what it does to claim, record and
\* comments.
LEMMA NotifierStep ==
    ASSUME CommentInv, NEW p \in Procs, Is(p, pc[p]), NEW l \in PCs, Go(p, l), UNCHANGED up,
           posted' \subseteq Kinds, comments' \in [Kinds -> Nat], CommentedOnce',
           \A q \in Procs \ {p} :
               /\ pc[q] \in Holding => /\ claim' = claim
                                       /\ comments'["completion"] = comments["completion"]
               /\ comments'["start"] >= comments["start"]
               /\ comments'["failure"] >= comments["failure"],
           l \in Holding => claim' = [state |-> "posting", by |-> p],
           l = "post" => comments'["completion"] = 0,
           l \in {"found", "mark"} => comments'["completion"] = 1,
           l = "started" => comments'["start"] > 0,
           l = "told" => comments'["failure"] > 0
    PROVE  CommentInv'
<1>1. /\ pc' \in [Procs -> PCs] /\ pc'[p] = l
      /\ \A q \in Procs \ {p} : pc'[q] = pc[q]
    BY DEF Go, CommentInv
<1>2. up[p] = "up"
    BY DEF Is
<1>3. \A k \in Kinds : comments[k] \in Nat /\ comments'[k] \in Nat
    BY DEF CommentInv
<1>4. {"start", "completion", "failure"} \subseteq Kinds
    BY DEF Kinds
<1>5. ASSUME NEW q \in Procs
      PROVE  /\ up'[q] # "up" => pc'[q] = "idle"
             /\ pc'[q] \in Holding => claim' = [state |-> "posting", by |-> q]
             /\ pc'[q] = "post" => comments'["completion"] = 0
             /\ pc'[q] \in {"found", "mark"} => comments'["completion"] = 1
             /\ pc'[q] = "started" => comments'["start"] > 0
             /\ pc'[q] = "told" => comments'["failure"] > 0
  <2>1. CASE q = p
      BY <1>1, <1>2, <2>1
  <2>2. CASE q # p
      BY <1>1, <1>3, <1>4, <2>2 DEF CommentInv, Holding
  <2> QED BY <2>1, <2>2
<1> QED BY <1>1, <1>5 DEF CommentInv

LEMMA CommentStep ==
    ASSUME CommentInv, [Next]_vars
    PROVE  CommentInv'
<1> USE DEF CommentInv
<1>1. {"start", "completion", "failure"} = Kinds
    BY DEF Kinds
<1>2. /\ {"idle", "claimed", "persisted", "launched", "start", "started", "watch"} \subseteq PCs
      /\ {"ended", "load", "decide", "notify", "told", "look", "post", "relook", "found",
          "mark", "clean", "forget"} \subseteq PCs
    BY DEF PCs, Finalizing
<1>3. \A k \in Kinds : comments[k] \in Nat
    OBVIOUS
<1>4. ASSUME NEW p \in Procs, Serve(p)
      PROVE  CommentInv'
  <2>1. UNCHANGED up
      BY <1>4 DEF Serve
  <2>2. CASE \/ Claim(p) \/ PersistHandle(p) \/ Launch(p) \/ Record(p)
             \/ NoticeExit(p) \/ BeginFinalize(p) \/ LoadMeta(p) \/ HandBack(p) \/ Settle(p)
             \/ RemoveContainer(p) \/ Finish(p)
    <3>1. /\ UNCHANGED <<claim, posted, comments>> /\ up[p] = "up"
          /\ \E l \in PCs \ (Holding \cup {"started", "told"}) : Go(p, l)
        BY <1>2, <2>2 DEF Claim, PersistHandle, Launch, Record, NoticeExit, BeginFinalize, LoadMeta,
           HandBack, Settle, RemoveContainer, Finish, Is, Holding
    <3> QED BY <2>1, <3>1, QuietStep
  <2>3. CASE StopWorker(p)
      BY <2>1, <2>3, StillStep DEF StopWorker
  <2>4. ASSUME NEW k \in {"start", "failure"}, NEW step, NEW told, NEW after \in {"watch", "clean"},
               Tell(p, k, step, told, after), told = IF k = "start" THEN "started" ELSE "told"
        PROVE  CommentInv'
    <3>1. Is(p, pc[p]) /\ UNCHANGED <<posted, claim>>
        BY <2>4 DEF Tell, Is
    <3>2. /\ \/ comments' = comments
             \/ comments' = [comments EXCEPT ![k] = @ + 1]
          /\ \/ Go(p, after)
             \/ Go(p, told) /\ comments' = [comments EXCEPT ![k] = @ + 1]
        BY <2>4 DEF Tell, Posts, PostedUnheard
    <3>3. /\ comments' \in [Kinds -> Nat] /\ \A x \in Kinds : comments'[x] >= comments[x]
          /\ comments'["completion"] = comments["completion"]
        BY <1>1, <1>3, <2>4, <3>2
    <3>4. CommentedOnce'
        BY <1>3, <3>1, <3>3 DEF CommentedOnce
    <3>5. CASE Go(p, after)
        BY <1>1, <1>2, <2>1, <2>4, <3>1, <3>3, <3>4, <3>5, NotifierStep DEF Holding
    <3>6. CASE Go(p, told) /\ comments' = [comments EXCEPT ![k] = @ + 1]
      <4>1. comments'[k] > 0
          BY <1>1, <1>3, <2>4, <3>6
      <4> QED BY <1>1, <1>2, <2>1, <2>4, <3>1, <3>3, <3>4, <3>6, <4>1, NotifierStep DEF Holding
    <3> QED BY <3>2, <3>5, <3>6
  <2>5. ASSUME NEW k \in Kinds, NEW step, NEW after \in PCs \ {"look", "post", "relook", "found"},
               UpsertRunNotification(p, k, step, after), comments[k] > 0,
               after = "mark" => step = "found", after \notin {"started", "told"}
        PROVE  CommentInv'
    <3>1. /\ Is(p, step) /\ pc[p] = step /\ Go(p, after) /\ posted' = posted \cup {k}
          /\ UNCHANGED <<claim, comments>>
        BY <2>5 DEF UpsertRunNotification, Is
    <3>2. CommentedOnce' /\ posted' \subseteq Kinds
        BY <2>5, <3>1 DEF CommentedOnce
    <3>3. after \in Holding => /\ claim' = [state |-> "posting", by |-> p]
                               /\ comments'["completion"] = 1
        BY <2>5, <3>1 DEF Holding
    <3> QED BY <1>1, <1>3, <2>1, <2>5, <3>1, <3>2, <3>3, NotifierStep DEF Holding
  <2>6. CASE NotifyNothing(p)
    <3>1. UNCHANGED <<claim, posted, comments>> /\ Go(p, "clean") /\ up[p] = "up"
        BY <2>6 DEF NotifyNothing, Is
    <3> QED BY <1>2, <2>1, <3>1, QuietStep DEF Holding
  \* Whoever claims finds nobody at the comment.
  <2>7. CASE ClaimRunCompletionComment(p)
    <3>1. /\ Is(p, "notify") /\ pc[p] = "notify" /\ Go(p, "look") /\ Claimable1(claim)
          /\ claim' = [state |-> "posting", by |-> p] /\ UNCHANGED <<posted, comments>>
        BY <2>7 DEF ClaimRunCompletionComment, Is
    <3>2. \A q \in Procs : pc[q] \notin Holding
        BY <3>1 DEF Claimable1, Holding
    <3>3. CommentedOnce'
        BY <3>1 DEF CommentedOnce
    <3> QED BY <1>1, <1>2, <1>3, <2>1, <3>1, <3>2, <3>3, NotifierStep DEF Holding
  \* The holder may release the claim, or go on with it.
  <2>8. ASSUME pc[p] \in Holding, Is(p, pc[p]), MarkFailed(p), UNCHANGED <<posted, comments>>
        PROVE  CommentInv'
    <3>1. /\ claim = [state |-> "posting", by |-> p] /\ Go(p, "clean")
          /\ claim' = [claim EXCEPT !.state = "failed"]
        BY <2>8 DEF MarkFailed
    <3>2. \A q \in Procs \ {p} : pc[q] \notin Holding
        BY <3>1
    <3>3. CommentedOnce'
        BY <2>8, <3>1 DEF CommentedOnce
    <3> QED BY <1>1, <1>2, <1>3, <2>1, <2>8, <3>1, <3>2, <3>3, NotifierStep DEF Holding
  <2>9. ASSUME pc[p] \in Holding, Is(p, pc[p]), NEW l \in Holding, Go(p, l), UNCHANGED <<claim, posted>>,
               \/ UNCHANGED comments
               \/ comments["completion"] = 0 /\ Posts("completion"),
               l = "post" => comments'["completion"] = 0,
               l \in {"found", "mark"} => comments'["completion"] = 1
        PROVE  CommentInv'
    <3>1. claim = [state |-> "posting", by |-> p]
        BY <2>9
    <3>2. \A q \in Procs \ {p} : pc[q] \notin Holding
        BY <3>1
    <3>3. /\ comments' \in [Kinds -> Nat] /\ \A k \in Kinds : comments'[k] >= comments[k]
          /\ comments'["completion"] <= 1
        BY <1>1, <1>3, <2>9 DEF Posts, CommentedOnce
    <3>4. CommentedOnce'
        BY <1>3, <2>9, <3>1, <3>3 DEF CommentedOnce
    <3>5. l \in PCs /\ l \notin {"started", "told"}
        BY <1>2 DEF Holding
    <3> QED BY <1>1, <2>1, <2>9, <3>1, <3>2, <3>3, <3>4, <3>5, NotifierStep
  <2>10. comments["completion"] > 0 => comments["completion"] = 1
      BY <1>1, <1>3 DEF CommentedOnce
  <2>11. {"look", "post", "relook", "found", "mark"} = Holding
      BY DEF Holding
  <2>12. CASE LookForComment(p)
      BY <2>8, <2>9, <2>10, <2>11, <2>12 DEF LookForComment, Is
  <2>13. CASE LookAgain(p)
      BY <2>8, <2>9, <2>10, <2>11, <2>13 DEF LookAgain, Is
  <2>14. CASE PostComment(p)
    <3>1. /\ pc[p] = "post" /\ Is(p, pc[p]) /\ comments["completion"] = 0
          /\ UNCHANGED <<claim, posted>>
        BY <2>14 DEF PostComment, Is
    <3>2. Posts("completion") => comments'["completion"] = 1
        BY <1>1, <3>1 DEF Posts
    <3> QED BY <2>9, <2>11, <2>14, <3>1, <3>2 DEF PostComment, PostedUnheard
  <2>15. CASE MarkPosted(p)
    <3>1. /\ pc[p] = "mark" /\ Is(p, pc[p]) /\ Go(p, "clean")
          /\ claim = [state |-> "posting", by |-> p] /\ comments["completion"] = 1
          /\ claim' = [claim EXCEPT !.state = "posted"] /\ UNCHANGED <<posted, comments>>
        BY <2>11, <2>15 DEF MarkPosted, Is
    <3>2. \A q \in Procs \ {p} : pc[q] \notin Holding
        BY <3>1
    <3>3. CommentedOnce'
        BY <3>1 DEF CommentedOnce
    <3> QED BY <1>1, <1>2, <1>3, <2>1, <3>1, <3>2, <3>3, NotifierStep DEF Holding
  <2>16. CASE NotifyRunStarted(p) \/ NotifyRunFailed(p)
      BY <2>4, <2>16 DEF NotifyRunStarted, NotifyRunFailed
  <2>17. CASE UpsertRunNotification(p, "start", "started", "watch")
      BY <1>1, <1>2, <2>5, <2>17 DEF UpsertRunNotification, Is
  <2>18. CASE UpsertRunNotification(p, "failure", "told", "clean")
      BY <1>1, <1>2, <2>5, <2>18 DEF UpsertRunNotification, Is
  <2>19. CASE UpsertRunNotification(p, "completion", "found", "mark")
      BY <1>1, <1>2, <2>5, <2>19 DEF UpsertRunNotification, Is
  <2> QED BY <1>4, <2>2, <2>3, <2>6, <2>7, <2>12, <2>13, <2>14, <2>15, <2>16, <2>17, <2>18, <2>19
          DEF Serve, Notify
<1>5. CASE Manage
  <2>1. UNCHANGED <<claim, posted, comments>>
      BY <1>5 DEF Manage
  <2>2. CASE Cancel
      BY <2>1, <2>2, StillStep DEF Cancel
  <2>3. ASSUME NEW p \in Procs, Boot(p)
        PROVE  CommentInv'
    <3>1. /\ up' = [up EXCEPT ![p] = "up"]
          /\ UNCHANGED pc \/ \E l \in {"watch", "ended"} : Go(p, l)
        BY <2>3 DEF Boot, Recover
    <3>2. /\ up' \in [Procs -> {"unborn", "up", "gone"}] /\ up'[p] = "up"
          /\ \A q \in Procs \ {p} : up'[q] = up[q]
        BY <3>1
    <3> QED BY <1>2, <2>1, <3>1, <3>2, QuietStep, StillStep DEF Holding
  <2>4. ASSUME NEW p \in Procs, Forgotten(p)
        PROVE  CommentInv'
    <3>1. up' = [up EXCEPT ![p] = "gone"] /\ Go(p, "idle")
        BY <2>4 DEF Forgotten
    <3> QED BY <1>2, <2>1, <3>1, QuietStep DEF Holding
  <2> QED BY <1>5, <2>2, <2>3, <2>4 DEF Manage, Crash, Leave
<1>6. CASE Work \/ UNCHANGED vars
  <2>1. UNCHANGED <<pc, up, claim, posted, comments>>
      BY <1>6 DEF Work, vars, outcomeVars
  <2> QED BY <2>1, StillStep
<1> QED BY <1>4, <1>5, <1>6 DEF Next

LEMMA CommentInit == Init => CommentInv
<1> SUFFICES ASSUME Init PROVE CommentInv
    OBVIOUS
<1>1. "idle" \in PCs
    BY DEF PCs
<1> QED BY <1>1 DEF Init, CommentInv, CommentedOnce, Holding, Kinds

\* However many processes finalize the run, die at it or are told by GitHub that
\* a comment failed that did not: one completion comment at most, and each
\* comment that is on record was posted.
THEOREM OneCompletionComment == FairSpec => []CommentedOnce
<1>1. CommentInv => CommentedOnce
    BY DEF CommentInv
<1> QED BY <1>1, CommentInit, CommentStep, PTL DEF FairSpec

-----------------------------------------------------------------------------
(* The types that the arguments above did not need.                        *)

\* Before the first claim nothing has begun.
Fresh == turn = 0 => status[Run] = "queued" /\ \A p \in Procs : pc[p] = "idle"

Others ==
    /\ faults \in FaultMixes /\ forPull \in BOOLEAN /\ pull \in BOOLEAN
    /\ turn <= MaxTurns
    /\ output \in {"none", "plain", "limit"}
    /\ socket \in Procs \cup {Nobody}
    /\ claim \in [state : {"pending", "posting", "posted", "failed"}, by : Procs \cup {Nobody}]
    /\ succeeded \subseteq 1..MaxTurns

LEMMA WorkKeepsOthers ==
    ASSUME OutcomeInv, Fresh, Others, Work
    PROVE  Fresh' /\ Others'
<1>1. /\ UNCHANGED <<faults, forPull, turn, socket, claim, status, pc>>
      /\ turn \in Nat /\ (Working => turn > 0)
    BY DEF Work, storeVars, OutcomeInv, Types, WorkerInv, Live, Fresh
<1>2. pull' \in BOOLEAN /\ output' \in {"none", "plain", "limit"}
    BY DEF Work, Others, Begin, CheckoutRepo, RunAgent, PushBranch, LoadPR, CreatePR,
       FinalizeMeta, SaveMeta, ReportResult, Exit, Kill
<1>3. succeeded' \subseteq 1..MaxTurns
  <2>1. CASE FinalizeMeta
    <3>1. Working
        BY <2>1 DEF FinalizeMeta, At, Working
    <3> QED BY <1>1, <2>1, <3>1, OutcomeConstants DEF FinalizeMeta, Others
  <2>2. CASE ~FinalizeMeta
      BY <2>2 DEF Work, Others, Begin, CheckoutRepo, RunAgent, PushBranch, LoadPR, CreatePR,
         SaveMeta, ReportResult, Exit, Kill
  <2> QED BY <2>1, <2>2
<1> QED BY <1>1, <1>2, <1>3 DEF Fresh, Others

LEMMA ServeKeepsOthers ==
    ASSUME OutcomeInv, Fresh, Others, NEW p \in Procs, Serve(p)
    PROVE  Fresh' /\ Others'
<1>1. UNCHANGED <<faults, forPull, pull, output, socket, succeeded>> /\ turn \in Nat
    BY DEF Serve, OutcomeInv, Types
<1>2. CASE Claim(p)
  <2>1. turn' = turn + 1 /\ turn < MaxTurns /\ UNCHANGED claim
      BY <1>2 DEF Claim
  <2> QED BY <1>1, <2>1, OutcomeConstants DEF Fresh, Others
<1>3. CASE ~Claim(p)
  <2>1. UNCHANGED turn
      BY <1>3 DEF Serve, PersistHandle, Launch, Record, StopWorker, NoticeExit, BeginFinalize,
         LoadMeta, HandBack, Settle, RemoveContainer, Finish, Notify
  <2>2. pc[p] # "idle"
      BY <1>3 DEF Serve, Is, PersistHandle, Launch, Record, StopWorker, NoticeExit, BeginFinalize,
         LoadMeta, HandBack, Settle, RemoveContainer, Finish, Notify, NotifyRunStarted, Tell,
         NotifyRunFailed, UpsertRunNotification, NotifyNothing, ClaimRunCompletionComment,
         LookForComment, PostComment, LookAgain, MarkPosted
  <2>3. \/ UNCHANGED claim \/ claim' = [state |-> "posting", by |-> p]
        \/ claim' = [claim EXCEPT !.state = "failed"] \/ claim' = [claim EXCEPT !.state = "posted"]
    <3>1. CASE Notify(p)
        BY <3>1 DEF Notify, NotifyRunStarted, Tell, NotifyRunFailed, UpsertRunNotification,
           NotifyNothing, ClaimRunCompletionComment, LookForComment, PostComment, LookAgain,
           MarkFailed, MarkPosted
    <3>2. CASE ~Notify(p)
        BY <1>3, <3>2 DEF Serve, PersistHandle, Launch, Record, StopWorker, NoticeExit,
           BeginFinalize, LoadMeta, HandBack, Settle, RemoveContainer, Finish
    <3> QED BY <3>1, <3>2
  <2>4. claim' \in [state : {"pending", "posting", "posted", "failed"}, by : Procs \cup {Nobody}]
      BY <2>3 DEF Others
  <2>5. Others'
      BY <1>1, <2>1, <2>4 DEF Others
  <2>6. Fresh'
      BY <2>1, <2>2 DEF Fresh
  <2> QED BY <2>5, <2>6
<1> QED BY <1>2, <1>3

LEMMA ManageKeepsOthers ==
    ASSUME OutcomeInv, Fresh, Others, Manage
    PROVE  Fresh' /\ Others'
<1>1. UNCHANGED <<faults, forPull, turn, pull, output, claim, succeeded>>
    BY DEF Manage
<1>2. socket' \in Procs \cup {Nobody}
    BY DEF Manage, Cancel, Boot, Crash, Leave, Others
<1>3. ASSUME turn = 0
      PROVE  status'[Run] = "queued" /\ \A q \in Procs : pc'[q] = "idle"
  <2>1. status[Run] = "queued" /\ (\A q \in Procs : pc[q] = "idle") /\ pc \in [Procs -> PCs]
      BY <1>3 DEF Fresh, OutcomeInv, Types
  <2>2. ~Cancel
      BY <2>1 DEF Cancel
  <2>3. ASSUME NEW p \in Procs, Boot(p) PROVE UNCHANGED <<status, pc>>
      BY <2>1, <2>3 DEF Boot, Recover
  <2>4. ASSUME NEW p \in Procs, Crash(p) \/ Leave(p)
        PROVE  UNCHANGED status /\ \A q \in Procs : pc'[q] = "idle"
      BY <2>1, <2>4 DEF Crash, Leave, Forgotten, Go
  <2> QED BY <2>1, <2>2, <2>3, <2>4 DEF Manage
<1> QED BY <1>1, <1>2, <1>3 DEF Fresh, Others

\* Every variable keeps its type, in any number of executions, with any faults,
\* and however often a comment that did not seem to land is posted.
THEOREM OutcomeTypeCorrect == FairSpec => []OutcomeTypeOK
<1> DEFINE Inv == OutcomeInv /\ CommentInv /\ Fresh /\ Others
<1>1. Init => Inv
  <2> SUFFICES ASSUME Init PROVE Fresh /\ Others
      BY OutcomeInit, CommentInit
  <2>1. Nobody \in Procs \cup {Nobody} /\ First \in Procs /\ MaxTurns \in Nat
      BY OutcomeConstants
  <2> QED BY <2>1, RunIsRun DEF Init, Fresh, Others
<1>2. Inv /\ [Next]_vars => Inv'
  <2> SUFFICES ASSUME Inv, [Next]_vars PROVE Inv'
      OBVIOUS
  <2>1. CASE UNCHANGED vars
    <3>1. Fresh' /\ Others'
        BY <2>1 DEF vars, storeVars, outcomeVars, Fresh, Others
    <3> QED BY <3>1, OutcomeStep, CommentStep
  <2> QED BY <2>1, OutcomeStep, CommentStep, WorkKeepsOthers, ServeKeepsOthers,
             ManageKeepsOthers DEF Next
<1>3. Inv => OutcomeTypeOK
  <2> SUFFICES ASSUME Inv PROVE OutcomeTypeOK
      OBVIOUS
  <2>1. turn \in 0..MaxTurns
      BY OutcomeConstants DEF OutcomeInv, Types, Others
  <2>2. comments \in [Kinds -> Nat] /\ posted \subseteq Kinds
      BY DEF CommentInv
  <2> QED BY <2>1, <2>2 DEF OutcomeTypeOK, OutcomeInv, Types, Others
<1> HIDE DEF Inv
<1> QED BY <1>1, <1>2, <1>3, PTL DEF FairSpec
=============================================================================
