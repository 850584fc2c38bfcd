---------------------------- MODULE RunLifecycle ----------------------------
(***************************************************************************)
(* What rascal promises about the status of its runs, seen from outside.   *)
(* A run is submitted once, waits in its task's queue, runs alone in its   *)
(* task, may be handed back to the queue, and is closed.  A closed run is  *)
(* never reopened, except that a run awaiting review is resolved when its  *)
(* pull request is.  Old runs may be forgotten.                            *)
(*                                                                         *)
(* Nothing here says who moves a run or how: leases, containers, cancel    *)
(* requests, processes and the order of the queue are in the modules that  *)
(* implement this one.                                                     *)
(***************************************************************************)

CONSTANTS
    Runs,       \* run ids
    Tasks,      \* task ids
    TaskOf      \* the task of each run

VARIABLE status

Settled  == {"succeeded", "failed", "canceled"}
Closed   == Settled \cup {"review"}
Statuses == {"absent", "queued", "running", "forgotten"} \cup Closed

Busy(t) == \E r \in Runs : TaskOf[r] = t /\ status[r] = "running"

Init == status = [r \in Runs |-> "absent"]

\* A new run is queued; room is made by forgetting some older ones.
Submit(r, gone) ==
    /\ status[r] = "absent"
    /\ \A x \in gone : status[x] # "absent"
    /\ status' = [x \in Runs |-> CASE x = r -> "queued"
                                   [] x \in gone -> "forgotten"
                                   [] OTHER -> status[x]]

Start(r) ==
    /\ status[r] = "queued"
    /\ ~Busy(TaskOf[r])
    /\ status' = [status EXCEPT ![r] = "running"]

HandBack(r) ==
    /\ status[r] = "running"
    /\ status' = [status EXCEPT ![r] = "queued"]

\* A queued run ends without having produced anything.
Drop(r, to) ==
    /\ status[r] = "queued"
    /\ to \in {"failed", "canceled"}
    /\ status' = [status EXCEPT ![r] = to]

Close(r, to) ==
    /\ status[r] = "running"
    /\ to \in Closed
    /\ status' = [status EXCEPT ![r] = to]

Resolve(r, to) ==
    /\ status[r] = "review"
    /\ to \in {"succeeded", "canceled"}
    /\ status' = [status EXCEPT ![r] = to]

\* All the queued runs of a task are withdrawn at once.
Withdraw(t) ==
    status' = [r \in Runs |-> IF TaskOf[r] = t /\ status[r] = "queued"
                              THEN "canceled" ELSE status[r]]

Next ==
    \/ \E r \in Runs :
        \/ \E gone \in SUBSET Runs : Submit(r, gone)
        \/ Start(r)
        \/ HandBack(r)
        \/ \E to \in Closed : Drop(r, to) \/ Close(r, to) \/ Resolve(r, to)
    \/ \E t \in Tasks : Withdraw(t)

Spec == Init /\ [][Next]_status
=============================================================================
