-------------------------- MODULE MCRunSupervision --------------------------
(* RunSupervision for TLC: up to three runs of one task, two processes and *)
(* two requests at a time; the configurations choose what may happen.      *)
EXTENDS RunSupervision

CONSTANTS r1, r2, r3, t1, p1, p2, c1, c2

OneTask1 == [r \in {r1} |-> t1]
OneTask2 == [r \in {r1, r2} |-> t1]
OneTask3 == [r \in {r1, r2, r3} |-> t1]

\* Two starts with a run in the queue.  In the first, a process that stays has
\* come up and is about to add a second run to the same task; in the second,
\* the second run is over and no process has started yet: p1, which may crash,
\* or p2 does.
RunIsAdded ==
    /\ status = [r \in Runs |-> IF r = r1 THEN "queued" ELSE "absent"]
    /\ seq = [r \in Runs |-> IF r = r1 THEN 1 ELSE 0]
    /\ lastSeq = 1
    /\ proc = [p \in Procs |-> IF p \in Mortal THEN "unborn" ELSE "up"]
    /\ wake = [p \in Procs |-> p \notin Mortal]
    /\ \E p \in Procs \ Mortal :
        request = [c \in Clients |-> IF c # c1 THEN NoRequest
                    ELSE [step |-> "add", at |-> p, run |-> r2, task |-> TaskOf[r2]]]

RunIsLeftOver ==
    /\ status = [r \in Runs |-> IF r = r1 THEN "queued" ELSE "succeeded"]
    /\ seq = [r \in Runs |-> IF r = r1 THEN 2 ELSE 1]
    /\ lastSeq = 2
    /\ proc = [p \in Procs |-> "unborn"]
    /\ wake = [p \in Procs |-> FALSE]
    /\ request = [c \in Clients |-> NoRequest]

BacklogInit ==
    /\ RunIsAdded \/ RunIsLeftOver
    /\ cancelReq = {} /\ taskDone = {} /\ taskDraft = {}
    /\ lease = [r \in Runs |-> NoProc]
    /\ execRow = {}
    /\ container = [r \in Runs |-> "absent"]
    /\ paused = FALSE
    /\ pc = [p \in Procs |-> [th \in Threads |-> "idle"]]
    /\ registered = [p \in Procs |-> {}]
    /\ debt = [p \in Procs |-> {}]
    /\ todo = [p \in Procs |-> {}]
    /\ sched = [p \in Procs |-> NobodySched]
    /\ armed = [p \in Procs |-> FALSE]
    /\ asked = {}

BacklogSpec == BacklogInit /\ [][Next]_vars /\ Fairness
=============================================================================
