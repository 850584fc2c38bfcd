---------------------------- MODULE AgentSessions ----------------------------
(***************************************************************************)
(* The agent sessions of a task: what lets a run go on in the conversation *)
(* of an earlier run.  A session has three traces, kept by three parties:  *)
(* the task's row in task_sessions, which the orchestrator writes before   *)
(* a run and after it; the task's session directory, mounted into the      *)
(* container, which any launch may remove when it looks old; and the id    *)
(* that the worker hands to the agent, or finds after it.                  *)
(*                                                                         *)
(* One task.  Its runs execute one at a time and in order, which is the    *)
(* subject of RunStore; what an agent does with a session is external.     *)
(***************************************************************************)
EXTENDS Naturals

CONSTANTS
    RunCount,  \* the runs of the task are numbered
    Runtimes,  \* the runtimes that runs ask for
    Modes,     \* RASCAL_TASK_SESSION_MODE may be one of these
    Faults,    \* what may go wrong: subset of FaultKinds
    MaxTurns   \* bound on the executions of all runs together

GooseRuntimes == {"goose-codex", "goose-claude"}
AllRuntimes   == GooseRuntimes \cup {"codex", "claude"}

\* Writing the row or the directory, the result of a run, rascald, goose's
\* list of sessions, a session that goose cannot load, the removal of a session.
FaultKinds == {"disk", "lost", "crash", "list", "corrupt", "reset"}

ASSUME SessionConstants ==
    /\ RunCount \in Nat /\ MaxTurns \in Nat
    /\ Runtimes \subseteq AllRuntimes
    /\ Modes \subseteq {"off", "pr-only", "all"}
    /\ Faults \subseteq FaultKinds

Runs == 1..RunCount

VARIABLES
    mode,        \* the session mode of this behaviour
    taskRuntime, \* tasks.agent_runtime, "none" before the first run
    runtime,     \* runs.agent_runtime
    followsUp,   \* the run's trigger is one that pr-only mode lets resume
    phase,       \* where each run is
    turns,       \* executions so far
    row,         \* the task's row in task_sessions
    dir,         \* the sessions in the task's directory
    age,         \* the directory's modification time, see Stale
    own,         \* the sessions in each run's own directory
    told,        \* what each worker is told: to resume, and the id
    args,        \* how goose is called: "resume", "fresh" or "none"
    found,       \* meta.TaskSessionID
    current,     \* history: the codex session the task is in, NoId if nobody can know
    lastRun      \* history: the runtime of the last execution, "none" before the first

vars == <<mode, taskRuntime, runtime, followsUp, phase, turns, row, dir, age, own, told,
          args, found, current, lastRun>>

\* Ids: goose's is made of repository and task, codex numbers its own (by
\* execution, here), and claude's are never asked for. Of the times of
\* their files it is kept which is the latest of its agent.
NoId  == 0
Name  == MaxTurns + 1
NoRow == [runtime |-> "none", id |-> NoId]
Forgotten == [resume |-> FALSE, id |-> NoId]
Session(rt, id) == [by |-> rt, id |-> id, latest |-> TRUE]
Ids(sessions)   == {s.id : s \in sessions}

Init ==
    /\ mode \in Modes
    /\ taskRuntime = "none"
    /\ runtime = [r \in Runs |-> "none"]
    /\ followsUp = [r \in Runs |-> FALSE]
    /\ phase = [r \in Runs |-> "absent"]
    /\ turns = 0
    /\ row = NoRow
    /\ dir = {} /\ age = "none"
    /\ own = [r \in Runs |-> {}]
    /\ told = [r \in Runs |-> Forgotten]
    /\ args = [r \in Runs |-> "none"]
    /\ found = [r \in Runs |-> NoId]
    /\ current = NoId /\ lastRun = "none"

Phases == {"absent", "created", "queued", "told", "goose", "ready", "codex", "ended",
           "persisted", "closed"}

IsGoose(r) == runtime[r] \in GooseRuntimes
Executing  == {r \in Runs : phase[r] \notin {"absent", "created", "queued", "closed"}}
GoTo(r, p) == phase' = [phase EXCEPT ![r] = p]

-----------------------------------------------------------------------------
(* Defects someone could write into the definitions below: they show what  *)
(* the properties notice, and are no part of the specification.            *)

ResumeAnyRow(r) == row.id
NameForAll(r, id) == IF id = NoId THEN Name ELSE id
Oldest(sessions) ==
    IF sessions = {} THEN NoId
    ELSE (CHOOSE s \in sessions : \A x \in sessions : s.id <= x.id).id

-----------------------------------------------------------------------------
(* The orchestrator, before a run.                                         *)

DeleteTaskSession == row' = NoRow

UpsertTaskSession(r, id) == row' = [runtime |-> runtime[r], id |-> id]

\* CreateAndQueueRun reads the task, and a row of another runtime goes, even
\* while a run of that one is at work.
CreateRun(r, rt, f) ==
    /\ phase[r] = "absent" /\ GoTo(r, "created")
    /\ runtime' = [runtime EXCEPT ![r] = rt]
    /\ followsUp' = [followsUp EXCEPT ![r] = f]
    /\ IF taskRuntime \in {rt, "none"} THEN UNCHANGED <<row, current>>
                                        ELSE DeleteTaskSession /\ current' = NoId
    /\ UNCHANGED <<mode, taskRuntime, turns, dir, age, own, told, args, found, lastRun>>

\* Then it writes the task and the run, in whose order the runs are numbered.
AddRun(r) ==
    /\ phase[r] = "created" /\ GoTo(r, "queued")
    /\ \A q \in Runs : q < r => phase[q] \notin {"absent", "created"}
    /\ taskRuntime' = runtime[r]
    /\ UNCHANGED <<mode, runtime, followsUp, turns, row, dir, age, own, told, args, found,
                   current, lastRun>>

\* A queued run may be withdrawn.
CancelRun(r) ==
    /\ phase[r] = "queued" /\ GoTo(r, "closed")
    /\ UNCHANGED <<mode, taskRuntime, runtime, followsUp, turns, row, dir, age, own, told,
                   args, found, current, lastRun>>

SessionEnabled(r) == mode = "all" \/ (mode = "pr-only" /\ followsUp[r])

\* The id a run of this runtime may resume: a row of another runtime is no use.
GetTaskSession(r) == IF row.runtime = runtime[r] THEN row.id ELSE NoId

DefaultId(r, id) == IF id = NoId /\ IsGoose(r) THEN Name ELSE id

\* CleanupStaleAgentSessionDirs goes by the modification time of the directory
\* itself, which does not change with what happens further down.
\* A directory is "new" to the run that made it, "known" to later ones, and "old"
\* after RASCAL_TASK_SESSION_TTL_DAYS.
Stale == mode # "off" /\ age = "old"
Cleaned == IF Stale THEN "none" ELSE age
Made    == IF Cleaned = "none" THEN "new" ELSE age

\* What the container's environment says of the session.
ContainerEnv(r, id) == [resume |-> SessionEnabled(r), id |-> IF SessionEnabled(r) THEN id ELSE NoId]

\* ExecuteRun: old directories go, the row is read, the directory is made, and
\* the row is written, in place of one that is of no use to this runtime.
Launch(r) ==
    LET id == DefaultId(r, GetTaskSession(r)) IN
    /\ phase[r] = "queued" /\ Executing = {} /\ turns < MaxTurns
    /\ \A q \in Runs : q < r => phase[q] # "queued"
    /\ turns' = turns + 1
    /\ dir' = IF Stale THEN {} ELSE dir
    /\ current' = IF runtime[r] = "codex" /\ ~Stale THEN current ELSE NoId
    /\ found' = [found EXCEPT ![r] = NoId]
    /\ told' = [told EXCEPT ![r] = ContainerEnv(r, id)]
    /\ \/ /\ GoTo(r, "told") /\ lastRun' = runtime[r]
          /\ IF SessionEnabled(r) THEN age' = Made /\ UpsertTaskSession(r, id)
                                  ELSE age' = Cleaned /\ UNCHANGED row
       \/ /\ "disk" \in Faults /\ SessionEnabled(r) /\ GoTo(r, "closed")
          /\ UNCHANGED lastRun /\ age' \in {Cleaned, Made}
          /\ IF row.runtime # runtime[r] THEN DeleteTaskSession ELSE UNCHANGED row
    /\ UNCHANGED <<mode, taskRuntime, runtime, followsUp, own, args>>

\* Days pass, and nothing but an entry of its own refreshes the directory.
GrowOld ==
    /\ age = "known" /\ age' = "old"
    /\ UNCHANGED <<mode, taskRuntime, runtime, followsUp, phase, turns, row, dir, own, told,
                   args, found, current, lastRun>>

\* The launch of another task's run removes the directory, mounted or not.
CleanupAgentSessions ==
    /\ Stale
    /\ dir' = {} /\ age' = "none"
    /\ current' = NoId
    /\ UNCHANGED <<mode, taskRuntime, runtime, followsUp, phase, turns, row, own, told, args,
                   found, lastRun>>

-----------------------------------------------------------------------------
(* The worker.                                                             *)

\* Where the harness of a run keeps its sessions: newDockerRuntimeLayout.
Home(r) == IF told[r].resume THEN dir ELSE own[r]

\* A directory that was removed under its mount keeps nothing.
KeepInDir(sessions) == dir' = IF age = "none" THEN {} ELSE sessions

Use(sessions, s) ==
    {[x EXCEPT !.latest = @ /\ x.by # s.by] : x \in {y \in sessions : y.id # s.id}} \cup {s}

GooseRunArgs(r, resume) ==
    IF told[r].id = NoId THEN "none" ELSE IF resume THEN "resume" ELSE "fresh"

gooseSessionExists(r) == told[r].id \in Ids(Home(r))

\* runGoose asks goose for its sessions; without an answer it resumes.
RunGoose(r) ==
    /\ phase[r] = "told" /\ IsGoose(r) /\ GoTo(r, "goose")
    /\ \/ args' = [args EXCEPT ![r] =
                       GooseRunArgs(r, told[r].resume /\ gooseSessionExists(r))]
       \/ /\ "list" \in Faults
          /\ args' = [args EXCEPT ![r] = GooseRunArgs(r, told[r].resume)]
    /\ UNCHANGED <<dir, age, own, found, current>>

Ends(r, id) == GoTo(r, "ended") /\ found' = [found EXCEPT ![r] = id]

\* goose is told to resume a session that is not there, or that it cannot load.
ResumeFails(r) ==
    args[r] = "resume" /\ (gooseSessionExists(r) => "corrupt" \in Faults)

\* The first attempt, or the one after it: goose ends, well or badly.
RunGooseOnce(r) ==
    /\ phase[r] = "goose" /\ Ends(r, told[r].id)
    /\ \/ args[r] = "resume" /\ gooseSessionExists(r)
          /\ \E s \in dir : /\ s.id = told[r].id
                        /\ KeepInDir(Use(dir, Session(s.by, s.id)))
       \/ args[r] = "fresh" /\ KeepInDir(Use(dir, Session(runtime[r], told[r].id)))
       \/ args[r] # "resume" /\ UNCHANGED dir    \* it needs none, or fails before it has one
       \/ ResumeFails(r) /\ UNCHANGED dir        \* for a reason that matches no marker
    /\ UNCHANGED <<age, args, own, current>>

ResetGooseSessionRoot(r) ==
    \/ dir' = {} /\ age' = IF age = "none" THEN "none" ELSE "new"
    \/ "reset" \in Faults /\ UNCHANGED <<dir, age>>

IsSessionResumeFailure(r) == ResumeFails(r)

FallBack(r) ==
    /\ phase[r] = "goose" /\ IsSessionResumeFailure(r)
    /\ ResetGooseSessionRoot(r)
    /\ args' = [args EXCEPT ![r] = GooseRunArgs(r, FALSE)]
    /\ UNCHANGED <<phase, own, found, current>>

CodexRunArgs(r) == told[r].resume /\ told[r].id # NoId

\* The worker sees to CODEX_HOME, and measures what is in it (see TokenUsage).
PrepareCodex(r) ==
    /\ phase[r] = "told" /\ runtime[r] = "codex" /\ GoTo(r, "ready")
    /\ UNCHANGED <<dir, age, own, args, found, current>>

\* codex goes on in the session it is told to resume, or begins one, or fails
\* before that.  What it does about a session that is not there is its own affair.
RunCodex(r) ==
    LET new == Session("codex", turns) IN
    /\ phase[r] = "ready" /\ GoTo(r, "codex")
    /\ \/ /\ CodexRunArgs(r) /\ told[r].id \in Ids(dir)
          /\ KeepInDir(Use(dir, Session("codex", told[r].id)))
          /\ current' = told[r].id
          /\ UNCHANGED own
       \/ /\ CodexRunArgs(r) => told[r].id \notin Ids(dir)
          /\ IF told[r].resume
             THEN KeepInDir(Use(dir, new)) /\ UNCHANGED own
             ELSE own' = [own EXCEPT ![r] = Use(@, new)] /\ UNCHANGED dir
          /\ current' = IF told[r].resume /\ age # "none" THEN turns ELSE NoId
       \/ UNCHANGED <<dir, own, current>>
    /\ UNCHANGED <<age, args, found>>

listCodexSessionFiles(sessions) == {s \in sessions : s.by = "codex"}

\* The newest session is taken to be the run's.
Newest(sessions) ==
    IF sessions = {} THEN NoId ELSE (CHOOSE s \in sessions : s.latest).id

discoverLatestCodexSessionID(r) ==
    /\ phase[r] = "codex" /\ Ends(r, Newest(listCodexSessionFiles(Home(r))))
    /\ UNCHANGED <<dir, age, own, args, current>>

\* The id that claude was told, if any, is the one that is reported.
RunClaude(r) ==
    /\ phase[r] = "told" /\ runtime[r] = "claude" /\ Ends(r, told[r].id)
    /\ UNCHANGED <<dir, age, own, args, current>>

RunAgent(r) ==
    /\ \/ RunGoose(r) \/ RunGooseOnce(r) \/ FallBack(r)
       \/ PrepareCodex(r) \/ RunCodex(r) \/ discoverLatestCodexSessionID(r)
       \/ RunClaude(r)
    /\ UNCHANGED <<mode, taskRuntime, runtime, followsUp, turns, row, told, lastRun>>

-----------------------------------------------------------------------------
(* The orchestrator, after a run.                                          *)

\* finalizeDetachedRun writes the id down, if one was reported, before it
\* settles the run: until then no other run of the task is launched.
PersistSession(r) ==
    /\ phase[r] = "ended" /\ GoTo(r, "persisted")
    /\ \/ /\ IF found[r] = NoId THEN UNCHANGED row ELSE UpsertTaskSession(r, found[r])
          /\ UNCHANGED current
       \/ "lost" \in Faults /\ current' = NoId /\ UNCHANGED row
    /\ UNCHANGED <<age, told, args, found>>

\* The run is closed, or handed back on a usage limit, and its container removed
\* with what its worker was told.
FinishRun(r) ==
    /\ phase[r] = "persisted" /\ (GoTo(r, "closed") \/ GoTo(r, "queued"))
    /\ age' = IF age = "new" THEN "known" ELSE age
    /\ told' = [told EXCEPT ![r] = Forgotten]
    /\ args' = [args EXCEPT ![r] = "none"]
    /\ found' = [found EXCEPT ![r] = NoId]
    /\ UNCHANGED <<row, current>>

\* A process that recovers a run which was not settled finalizes it again.
RecoverRun(r) ==
    /\ "crash" \in Faults /\ phase[r] = "persisted" /\ GoTo(r, "ended")
    /\ UNCHANGED <<row, age, told, args, found, current>>

Finalize(r) ==
    /\ PersistSession(r) \/ FinishRun(r) \/ RecoverRun(r)
    /\ UNCHANGED <<mode, taskRuntime, runtime, followsUp, turns, dir, own, lastRun>>

Next ==
    \/ \E r \in Runs :
          \/ \E rt \in Runtimes : \E f \in (IF mode = "pr-only" THEN BOOLEAN ELSE {TRUE}) :
                 CreateRun(r, rt, f)
          \/ AddRun(r) \/ CancelRun(r) \/ Launch(r) \/ RunAgent(r) \/ Finalize(r)
    \/ GrowOld \/ CleanupAgentSessions

Spec == Init /\ [][Next]_vars

-----------------------------------------------------------------------------
(* Properties.                                                             *)

RuntimeIds(rt) ==
    CASE rt \in GooseRuntimes -> {Name}
      [] rt = "codex" -> 0..MaxTurns
      [] OTHER -> {NoId}

\* Type invariant.  A row's id is one its runtime knows what to do with.
SessionTypeOK ==
    /\ mode \in Modes /\ taskRuntime \in Runtimes \cup {"none"}
    /\ runtime \in [Runs -> Runtimes \cup {"none"}] /\ followsUp \in [Runs -> BOOLEAN]
    /\ phase \in [Runs -> Phases] /\ lastRun \in Runtimes \cup {"none"}
    /\ turns \in 0..MaxTurns
    /\ \/ row = NoRow
       \/ row.runtime \in Runtimes /\ row.id \in RuntimeIds(row.runtime)
    /\ age \in {"none", "new", "known", "old"} /\ (age = "none" => dir = {})
    /\ dir \subseteq [by : AllRuntimes, id : 1..Name, latest : BOOLEAN]
    /\ own \in [Runs -> SUBSET [by : {"codex"}, id : 1..turns, latest : BOOLEAN]]
    /\ told \in [Runs -> [resume : BOOLEAN, id : 0..Name]]
    /\ args \in [Runs -> {"resume", "fresh", "none"}]
    /\ found \in [Runs -> 0..Name] /\ current \in 0..MaxTurns

\* "Codex resumes by reusing a task-scoped CODEX_HOME and the discovered harness
\* session id": the id it is told was made by codex and in the task's directory,
\* even though a run of another runtime may be created, or a run of codex end,
\* in between.
ToldWhatWasKept ==
    \A r \in Executing :
        runtime[r] = "codex" /\ told[r].id # NoId =>
            /\ told[r].id \in 1..MaxTurns
            /\ \A q \in Runs : told[r].id \notin Ids(own[q])

\* "If a task switches runtime between runs, Rascal starts a fresh session for
\* the new runtime": codex after another agent is told of no session, also of
\* none that a run of codex wrote down when the switch was already made.
StartsFresh(r) ==
    phase[r] = "queued" /\ phase'[r] = "told" /\ runtime[r] = "codex"
      /\ lastRun \notin {"none", "codex"}
    => told'[r].id = NoId

\* Where sessions follow a whole task, or none at all, a switch is a fresh start.
SwitchForgets == [][mode # "pr-only" => \A r \in Runs : StartsFresh(r)]_vars

\* In pr-only mode, too?  A run that keeps no session leaves a late row alone:
\* the configuration MCLateRow.
SwitchAlwaysForgets == [][\A r \in Runs : StartsFresh(r)]_vars

\* A task that stays with codex stays in its session: a run is told to go on in
\* the one that the task's last execution was in, of this run or an earlier one,
\* unless its directory was removed, its result was lost, or another runtime had
\* its turn.
ContinuesItsSession ==
    [][\A r \in Runs :
         phase[r] = "queued" /\ phase'[r] = "told" /\ runtime[r] = "codex"
           /\ SessionEnabled(r) /\ current # NoId
         => told'[r].id = current]_vars

\* "If a task switches runtime between runs, Rascal starts a fresh session for
\* the new runtime": goose does not resume a session of the other goose runtime.
SwitchStartsFresh ==
    \A r \in Runs :
        phase[r] = "goose" /\ args[r] = "resume" =>
            \A s \in dir : s.id = Name => s.by = runtime[r]
=============================================================================
