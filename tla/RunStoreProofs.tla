--------------------------- MODULE RunStoreProofs ---------------------------
(***************************************************************************)
(* Proofs about RunStore, for every set of runs and tasks and every trim   *)
(* bound: the tables keep their types, two runs of a task are never both   *)
(* running, trimming forgets from the old end only, and the store          *)
(* implements RunLifecycle.                                                *)
(***************************************************************************)
EXTENDS RunStore, FiniteSetTheorems, TLAPS

LEMMA TypeInit == StoreInit => StoreTypeOK
  BY StoreConstants DEF StoreInit, StoreTypeOK, Statuses

\* The targets runStatusTransitions allows are statuses.
LEMMA TransitionsAreStatuses ==
    ASSUME NEW from, NEW to \in Transitions(from)
    PROVE  to \in Statuses
  BY DEF Transitions, Statuses, Final

\* No write of a status, on its own or beside other writes, leaves the statuses.
LEMMA StatusTypes ==
    ASSUME StoreTypeOK, StatusWrite
    PROVE  status' \in [Runs -> Statuses]
<1>1. ASSUME NEW r \in Runs, NEW s \in Statuses, status' = [status EXCEPT ![r] = s]
      PROVE  status' \in [Runs -> Statuses]
    BY <1>1 DEF StoreTypeOK
<1>2. ASSUME NEW t \in Tasks, CancelQueuedRuns(t)
      PROVE  status' \in [Runs -> Statuses]
    BY <1>2 DEF CancelQueuedRuns, StoreTypeOK, Statuses, Final
<1>3. {"running", "queued"} \cup Final \subseteq Statuses
    BY DEF Statuses
<1> QED BY <1>1, <1>2, <1>3
        DEF StatusWrite, ClaimNextQueuedRun, ClaimRunStart, SetRunStatus, Requeue

LEMMA TypeStep == StoreTypeOK /\ [StoreNext]_storeVars => StoreTypeOK'
<1> SUFFICES ASSUME StoreTypeOK, [StoreNext]_storeVars
             PROVE  StoreTypeOK'
    OBVIOUS
<1> USE StoreConstants
<1>1. ASSUME NEW r \in Runs, AddRun(r), UNCHANGED <<cancelReq, taskDone, taskDraft>>
      PROVE  StoreTypeOK'
    BY <1>1 DEF AddRun, StoreTypeOK, Statuses
<1>2. CASE StatusOp
  <2>1. status' \in [Runs -> Statuses]
      BY <1>2, StatusTypes DEF StatusOp
  <2> QED BY <1>2, <2>1 DEF StatusOp, StoreTypeOK
<1>3. CASE FlagOp
    BY <1>3 DEF FlagOp, StoreTypeOK, Rows, RequestRunCancel, ClearRunCancel,
                MarkTaskCompleted, MarkTaskOpen, SetTaskPRDraft
<1>4. CASE UNCHANGED storeVars
    BY <1>4 DEF storeVars, StoreTypeOK
<1> QED BY <1>1, <1>2, <1>3, <1>4 DEF StoreNext

\* The columns of the tables keep their types.
THEOREM TypeCorrect == StoreSpec => []StoreTypeOK
  BY TypeInit, TypeStep, PTL DEF StoreSpec

-----------------------------------------------------------------------------
(* One running run per task.                                               *)

\* A step that starts no run cannot break the invariant ...
LEMMA NoneStarted ==
    ASSUME OneRunningPerTask, \A r \in Runs : status'[r] = "running" => status[r] = "running"
    PROVE  OneRunningPerTask'
  BY DEF OneRunningPerTask

LEMMA OneRunningAdd ==
    ASSUME OneRunningPerTask, NEW r \in Runs, AddRun(r)
    PROVE  OneRunningPerTask'
  BY NoneStarted DEF AddRun

LEMMA OneRunningWrite ==
    ASSUME StoreTypeOK, OneRunningPerTask, StatusWrite
    PROVE  OneRunningPerTask'
\* ... and one that starts a run does so in an idle task.
<1>1. ASSUME NEW r \in Runs, status' = [status EXCEPT ![r] = "running"],
             \A x \in Runs \ {r} : TaskOf[x] = TaskOf[r] => status[x] # "running"
      PROVE  OneRunningPerTask'
    BY <1>1 DEF OneRunningPerTask, StoreTypeOK
<1>2. ASSUME NEW r \in Runs, NEW p \in Tasks \cup {NoTask}, ClaimNextQueuedRun(p, r)
      PROVE  OneRunningPerTask'
  <2>1. Claimable(r)
      BY <1>2 DEF ClaimNextQueuedRun, NextQueuedRun
  <2> QED BY <1>1, <1>2, <2>1 DEF ClaimNextQueuedRun, Claimable, TaskBusy
<1>3. ASSUME NEW r \in Runs, ClaimRunStart(r)
      PROVE  OneRunningPerTask'
    BY <1>1, <1>3 DEF ClaimRunStart
<1>4. ASSUME NEW r \in Runs, NEW to \in Final, SetRunStatus(r, to)
      PROVE  OneRunningPerTask'
    BY <1>4, NoneStarted DEF SetRunStatus, Final, StoreTypeOK
<1>5. ASSUME NEW r \in Runs, Requeue(r)
      PROVE  OneRunningPerTask'
    BY <1>5, NoneStarted DEF Requeue, StoreTypeOK
<1>6. ASSUME NEW t \in Tasks, CancelQueuedRuns(t)
      PROVE  OneRunningPerTask'
    BY <1>6, NoneStarted DEF CancelQueuedRuns
<1> QED BY <1>2, <1>3, <1>4, <1>5, <1>6 DEF StatusWrite

LEMMA OneRunningStep ==
    StoreTypeOK /\ OneRunningPerTask /\ [StoreNext]_storeVars => OneRunningPerTask'
<1> SUFFICES ASSUME StoreTypeOK, OneRunningPerTask, [StoreNext]_storeVars
             PROVE  OneRunningPerTask'
    OBVIOUS
<1>1. CASE StatusOp
    BY <1>1, OneRunningWrite DEF StatusOp
<1>2. CASE FlagOp \/ UNCHANGED storeVars
    BY <1>2, NoneStarted DEF FlagOp, storeVars
<1> QED BY <1>1, <1>2, OneRunningAdd DEF StoreNext

\* Two runs of one task are never both in status running.
THEOREM OneRunning == StoreSpec => []OneRunningPerTask
<1>1. StoreInit => OneRunningPerTask
    BY DEF StoreInit, OneRunningPerTask
<1> QED BY <1>1, OneRunningStep, TypeCorrect, PTL DEF StoreSpec

-----------------------------------------------------------------------------
(* Trimming forgets from the old end.                                      *)

\* Only AddRun moves a run into or out of the rows, or numbers one.
KeepsRows ==
    \A r \in Runs : /\ status'[r] = "forgotten" <=> status[r] = "forgotten"
                    /\ status'[r] = "absent" <=> status[r] = "absent"
StableRows == KeepsRows /\ UNCHANGED <<seq, lastSeq>>

LEMMA WritesKeepRows ==
    ASSUME StoreTypeOK, StatusWrite
    PROVE  KeepsRows
<1>1. ASSUME NEW r \in Runs, NEW s, s \notin {"absent", "forgotten"},
             status[r] \notin {"absent", "forgotten"},
             status' = [status EXCEPT ![r] = s]
      PROVE  KeepsRows
    BY <1>1 DEF KeepsRows, StoreTypeOK
<1>2. ASSUME NEW r \in Runs, NEW p \in Tasks \cup {NoTask}, ClaimNextQueuedRun(p, r)
      PROVE  KeepsRows
  <2>1. status[r] = "queued"
      BY <1>2 DEF ClaimNextQueuedRun, NextQueuedRun, Claimable
  <2> QED BY <1>1, <1>2, <2>1 DEF ClaimNextQueuedRun
<1>3. ASSUME NEW r \in Runs, ClaimRunStart(r)
      PROVE  KeepsRows
    BY <1>1, <1>3 DEF ClaimRunStart
<1>4. ASSUME NEW r \in Runs, NEW to \in Final, SetRunStatus(r, to)
      PROVE  KeepsRows
  <2>1. status[r] \notin {"absent", "forgotten"}
      BY <1>4 DEF SetRunStatus, CanTransition, Transitions
  <2> QED BY <1>1, <1>4, <2>1 DEF SetRunStatus, Final
<1>5. ASSUME NEW r \in Runs, Requeue(r)
      PROVE  KeepsRows
    BY <1>1, <1>5 DEF Requeue
<1>6. ASSUME NEW t \in Tasks, CancelQueuedRuns(t)
      PROVE  KeepsRows
    BY <1>6 DEF CancelQueuedRuns, KeepsRows, StoreTypeOK
<1> QED BY <1>2, <1>3, <1>4, <1>5, <1>6 DEF StatusWrite

LEMMA OnlyAddRunMovesRows ==
    ASSUME StoreTypeOK, StatusOp \/ FlagOp \/ UNCHANGED storeVars
    PROVE  StableRows
<1>1. CASE StatusOp
    BY <1>1, WritesKeepRows DEF StatusOp, StableRows
<1>2. CASE FlagOp
    BY <1>2 DEF FlagOp, StableRows, KeepsRows
<1>3. CASE UNCHANGED storeVars
    BY <1>3 DEF storeVars, StableRows, KeepsRows
<1> QED BY <1>1, <1>2, <1>3

\* The inductive invariant: the counter is ahead of every number given.
Numbered == \A r \in Runs : seq[r] <= lastSeq
TrimInv  == Numbered /\ OldestForgotten

LEMMA TrimStep ==
    StoreTypeOK /\ TrimInv /\ [StoreNext]_storeVars => TrimInv'
<1> SUFFICES ASSUME StoreTypeOK, TrimInv, [StoreNext]_storeVars
             PROVE  TrimInv'
    OBVIOUS
<1>1. ASSUME StableRows PROVE TrimInv'
    BY <1>1 DEF StableRows, KeepsRows, TrimInv, Numbered, OldestForgotten, Rows
<1>2. ASSUME NEW n \in Runs, AddRun(n) PROVE TrimInv'
  <2> DEFINE newer(x) == {y \in Rows : seq[y] > seq[x]}
  <2>1. Numbered'
      BY <1>2 DEF AddRun, TrimInv, Numbered, StoreTypeOK
  <2>2. \A x \in Runs : status'[x] = "forgotten" =>
            \/ status[x] = "forgotten"
            \/ x \in TrimOldRuns
      BY <1>2 DEF AddRun
  <2>3. \A y \in Rows' : y # n => y \in Rows /\ y \notin TrimOldRuns
      BY <1>2 DEF AddRun, Rows
  <2>4. n \notin TrimOldRuns /\ status'[n] = "queued" /\ n \notin Rows
      BY <1>2 DEF AddRun, TrimOldRuns, Rows
  \* A row at least as old as a trimmed one has as many newer rows.
  <2>5. ASSUME NEW x \in TrimOldRuns, NEW y \in Rows, seq[y] <= seq[x]
        PROVE  y \in TrimOldRuns
    <3>1. x \in Rows /\ Cardinality(newer(x)) + 1 >= MaxRuns
        BY DEF TrimOldRuns
    <3>2. newer(x) \subseteq newer(y)
        BY <2>5, <3>1 DEF StoreTypeOK, Rows
    <3>3. IsFiniteSet(newer(x)) /\ IsFiniteSet(newer(y))
        BY FS_Subset, StoreConstants DEF Rows
    <3>4. Cardinality(newer(x)) <= Cardinality(newer(y))
        BY <3>2, <3>3, FS_Subset
    <3>5. Cardinality(newer(x)) \in Nat /\ Cardinality(newer(y)) \in Nat
        BY <3>3, FS_CardinalityType
    <3>6. Cardinality(newer(y)) + 1 >= MaxRuns
        BY <3>1, <3>4, <3>5, StoreConstants
    <3> QED BY <3>6 DEF TrimOldRuns
  <2>6. ASSUME NEW x \in Runs, status'[x] = "forgotten", NEW y \in Rows'
        PROVE  seq'[x] < seq'[y]
    <3>1. x # n
        BY <2>4, <2>6
    <3>2. seq'[x] = seq[x] /\ seq'[n] = lastSeq + 1 /\ (y # n => seq'[y] = seq[y])
        BY <1>2, <3>1, <2>6 DEF AddRun, StoreTypeOK, Rows
    <3>3. seq[x] \in Nat /\ lastSeq \in Nat /\ seq[y] \in Nat
        BY <2>6 DEF StoreTypeOK, Rows
    <3>4. CASE y = n
        BY <3>2, <3>3, <3>4 DEF TrimInv, Numbered
    <3>5. CASE y # n
      <4>1. y \in Rows /\ y \notin TrimOldRuns
          BY <2>3, <2>6, <3>5
      <4>2. seq[x] < seq[y]
          BY <2>2, <2>5, <2>6, <3>3, <4>1 DEF TrimInv, OldestForgotten
      <4> QED BY <3>2, <3>5, <4>2
    <3> QED BY <3>4, <3>5
  <2> QED BY <2>1, <2>6 DEF TrimInv, OldestForgotten
<1> QED BY <1>1, <1>2, OnlyAddRunMovesRows DEF StoreNext

\* Every forgotten run is older than every run still stored.
THEOREM TrimmingForgetsOldest == StoreSpec => []OldestForgotten
<1>1. StoreInit => TrimInv
    BY DEF StoreInit, TrimInv, Numbered, OldestForgotten, Rows
<1>2. TrimInv => OldestForgotten
    BY DEF TrimInv
<1> QED BY <1>1, <1>2, TrimStep, TypeCorrect, PTL DEF StoreSpec

-----------------------------------------------------------------------------
(* The store implements the life cycle.                                    *)

\* An insert is a Submit that forgets the trimmed rows.
LEMMA LifecycleAdd ==
    ASSUME NEW n \in Runs, AddRun(n)
    PROVE  Lifecycle!Next
<1>1. TrimOldRuns \in SUBSET Runs /\ \A x \in TrimOldRuns : status[x] # "absent"
    BY DEF TrimOldRuns, Rows
<1>2. Lifecycle!Submit(n, TrimOldRuns)
    BY <1>1, Zenon DEF AddRun, Lifecycle!Submit
<1> QED BY <1>1, <1>2 DEF Lifecycle!Next

LEMMA LifecycleWrite ==
    ASSUME StoreTypeOK, StatusWrite
    PROVE  Lifecycle!Next \/ UNCHANGED status
<1> USE DEF Lifecycle!Next
\* Both claims start a queued run of an idle task.
<1>2. ASSUME NEW r \in Runs, NEW p \in Tasks \cup {NoTask}, ClaimNextQueuedRun(p, r)
      PROVE  Lifecycle!Next
  <2>1. Claimable(r)
      BY <1>2 DEF ClaimNextQueuedRun, NextQueuedRun
  <2>2. Lifecycle!Start(r)
      BY <1>2, <2>1 DEF ClaimNextQueuedRun, Claimable, TaskBusy, Lifecycle!Start, Lifecycle!Busy
  <2> QED BY <2>2
<1>3. ASSUME NEW r \in Runs, ClaimRunStart(r)
      PROVE  Lifecycle!Next
  <2>1. Lifecycle!Start(r)
      BY <1>3 DEF ClaimRunStart, Lifecycle!Start, Lifecycle!Busy
  <2> QED BY <2>1
\* A validated transition drops, closes or resolves its run, or rewrites the
\* status it finds.
<1>4. ASSUME NEW r \in Runs, NEW to \in Final, SetRunStatus(r, to)
      PROVE  Lifecycle!Next \/ UNCHANGED status
  <2>1. status[r] \in Statuses
      BY DEF StoreTypeOK
  <2>2. to \in Lifecycle!Closed
      BY DEF Final, Lifecycle!Closed, Lifecycle!Settled
  <2>3. CASE status[r] = "queued"
    <3>1. Lifecycle!Drop(r, to)
        BY <1>4, <2>3 DEF SetRunStatus, CanTransition, Transitions, Final, Lifecycle!Drop
    <3> QED BY <2>2, <3>1
  <2>4. CASE status[r] = "running"
    <3>1. Lifecycle!Close(r, to)
        BY <1>4, <2>2, <2>4 DEF SetRunStatus, Lifecycle!Close
    <3> QED BY <2>2, <3>1
  <2>5. CASE status[r] = "review" /\ to # "review"
    <3>1. Lifecycle!Resolve(r, to)
        BY <1>4, <2>5 DEF SetRunStatus, CanTransition, Transitions, Final, Lifecycle!Resolve
    <3> QED BY <2>2, <3>1
  <2>6. CASE status[r] \in {"succeeded", "failed", "canceled"} \/ (status[r] = "review" /\ to = "review")
    <3>1. to = status[r]
        BY <1>4, <2>6 DEF SetRunStatus, CanTransition, Transitions
    <3> QED BY <1>4, <3>1 DEF SetRunStatus, StoreTypeOK
  <2>7. status[r] \notin {"absent", "forgotten"}
      BY <1>4 DEF SetRunStatus, CanTransition, Transitions
  <2> QED BY <2>1, <2>3, <2>4, <2>5, <2>6, <2>7 DEF Statuses, Final
<1>5. ASSUME NEW r \in Runs, Requeue(r)
      PROVE  Lifecycle!Next
  <2>1. Lifecycle!HandBack(r)
      BY <1>5 DEF Requeue, Lifecycle!HandBack
  <2> QED BY <2>1
<1>6. ASSUME NEW t \in Tasks, CancelQueuedRuns(t)
      PROVE  Lifecycle!Next
  <2>1. Lifecycle!Withdraw(t)
      BY <1>6 DEF CancelQueuedRuns, Lifecycle!Withdraw
  <2> QED BY <2>1
<1> QED BY <1>2, <1>3, <1>4, <1>5, <1>6 DEF StatusWrite

LEMMA LifecycleStep ==
    StoreTypeOK /\ [StoreNext]_storeVars => [Lifecycle!Next]_status
<1> SUFFICES ASSUME StoreTypeOK, [StoreNext]_storeVars
             PROVE  Lifecycle!Next \/ UNCHANGED status
    OBVIOUS
<1>1. CASE StatusOp
    BY <1>1, LifecycleWrite DEF StatusOp
<1>2. CASE FlagOp \/ UNCHANGED storeVars
    BY <1>2 DEF FlagOp, storeVars
<1> QED BY <1>1, <1>2, LifecycleAdd DEF StoreNext

\* Every behaviour of the store is a run life cycle.
THEOREM StoreImplementsLifecycle == StoreSpec => ImplementsLifecycle
<1>1. StoreInit => Lifecycle!Init
    BY DEF StoreInit, Lifecycle!Init
<1> QED BY <1>1, LifecycleStep, TypeCorrect, PTL
        DEF StoreSpec, ImplementsLifecycle, Lifecycle!Spec
=============================================================================
