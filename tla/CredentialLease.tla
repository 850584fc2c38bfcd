-------------------------- MODULE CredentialLease --------------------------
(***************************************************************************)
(* Credential leases: how a run gets a stored credential, keeps it while   *)
(* its container works, and gives it back (internal/credentials, the       *)
(* statements of internal/state/credentials.go, and the part of            *)
(* internal/orchestrator/execution.go that holds the handle).              *)
(*                                                                         *)
(* A lease is a row of credential_leases; what runs hold is only its id.   *)
(* Two processes may hold the id of the same lease: the one that acquired  *)
(* it and the one that adopted the run.  Leases are numbered in the order  *)
(* they were acquired.                                                     *)
(*                                                                         *)
(* The runs' own life is RunSupervision's subject and is reduced to what a *)
(* handle can notice.  One provider: credentials and runs of different     *)
(* ones never meet in a statement.  Time: a lease expires when no living   *)
(* supervisor renews it, a cooldown ends at any moment, and the usage      *)
(* window holds any part of the usage there was.                           *)
(***************************************************************************)
EXTENDS AllocationStrategies, FiniteSets

CONSTANTS
    Creds,          \* credential ids, numbers that order like the strings
    Users, Everyone,\* owners of credentials; Everyone owns the shared ones
    Stored,         \* credentials there are from the beginning
    Owner0,         \* the owner each credential is created with
    Weight,
    Configured,     \* strategies the service may be configured with
    Patchable,      \* credentials the operators of the service work on
    MaxRequests,    \* bound on the operators' requests
    AskedStatus,    \* the values they ask for when they change a credential
    AskedOwner,
    Broken,         \* credentials the cipher cannot decrypt
    Runs, NoRun,
    UserOf,         \* the user a run was created by
    Procs, NoProc,  \* rascald instances
    MaxLeases,      \* bound on the rows of credential_leases
    MaxAttempts,    \* attempts of Acquire, 12 in the code
    MaxAlive        \* 1: restarts only; 2: blue/green slots overlap

Leases == 1..MaxLeases
NoLease == 0

ASSUME CredentialConstants ==
    /\ Creds \subseteq Nat /\ IsFiniteSet(Creds) /\ NoCred \notin Creds
    /\ Everyone \notin Users
    /\ Stored \subseteq Creds
    /\ Owner0 \in [Creds -> Users \cup {Everyone}]
    /\ Weight \in [Creds -> Nat \ {0}]
    /\ Configured \subseteq StrategyNames
    /\ Patchable \subseteq Creds /\ Broken \subseteq Creds
    /\ AskedStatus \subseteq {"active", "disabled", "cooldown"}
    /\ AskedOwner \subseteq Users \cup {Everyone}
    /\ UserOf \in [Runs -> Users]
    /\ NoProc \notin Procs /\ NoRun \notin Runs
    /\ MaxRequests \in Nat /\ MaxLeases \in Nat
    /\ MaxAttempts \in Nat \ {0} /\ MaxAlive \in Nat \ {0}

VARIABLES
    status, owner,          \* credentials: status, "absent" without a row; owner and scope
    cooling,                \* credentials whose cooldown_until is to come
    with, of,               \* credential_leases: credential and run
    open,                   \* credential_leases: released_at IS NULL
    fresh,                  \* credential_leases: expires_at is to come
    usage,                  \* credential_usage: runs ever counted
    strategy,               \* the configured strategy
    phase,                  \* of each run: "queued", "running", "done"
    container,              \* "absent", "named" (its row only), "running", "exited"
    lost,                   \* runs asked to cancel: credential lease lost
    leaseOwner,             \* the process that holds the run's own lease
    proc,                   \* life of each process
    todo,                   \* runs a process still has to recover
    pc,                     \* where each process is with each run
    handle,                 \* the lease it holds for the run
    chosen, tries,          \* locals of Acquire
    patch,                  \* the PATCH request in progress
    requests                \* the operators' requests so far

credVars  == <<status, cooling, owner, usage>>
leaseVars == <<with, of, open, fresh>>
runVars   == <<phase, container, lost, leaseOwner>>
procVars  == <<proc, todo>>
localVars == <<handle, chosen, tries>>
operatorVars == <<patch, requests>>
vars == <<credVars, leaseVars, strategy, runVars, procVars, pc, localVars, operatorVars>>

NoPatch == [step |-> "none"]
Alive(p) == proc[p] \in {"up", "stopping"}
\* A lease in force: released_at IS NULL AND expires_at > now.
InForce == open \cap fresh

Init ==
    /\ status = [c \in Creds |-> IF c \in Stored THEN "active" ELSE "absent"]
    /\ cooling = {}
    /\ owner = Owner0
    /\ usage = [c \in Creds |-> 0]
    /\ with = [l \in Leases |-> NoCred]
    /\ of = [l \in Leases |-> NoRun]
    /\ open = {}
    /\ fresh = {}
    /\ strategy \in Configured
    /\ phase = [r \in Runs |-> "queued"]
    /\ container = [r \in Runs |-> "absent"]
    /\ lost = {}
    /\ leaseOwner = [r \in Runs |-> NoProc]
    /\ proc = [p \in Procs |-> "unborn"]
    /\ todo = [p \in Procs |-> {}]
    /\ pc = [p \in Procs |-> [r \in Runs |-> "idle"]]
    /\ handle = [p \in Procs |-> [r \in Runs |-> NoLease]]
    /\ chosen = [p \in Procs |-> [r \in Runs |-> NoCred]]
    /\ tries = [p \in Procs |-> [r \in Runs |-> 0]]
    /\ patch = NoPatch
    /\ requests = 0

At(p, r, l)   == Alive(p) /\ pc[p][r] = l
Goto(p, r, l) == pc' = [pc EXCEPT ![p][r] = l]

Usable(c, user) ==
    /\ status[c] = "active"
    /\ c \notin cooling
    /\ owner[c] \in {Everyone, user}

-----------------------------------------------------------------------------
(* Defects someone could write into the definitions below, each with the   *)
(* signature of the one it would replace: they show what the properties    *)
(* notice, and are no part of the specification.                           *)

LeaseAnyUsable(c, r) == c \in Creds /\ Usable(c, UserOf[r])

LeaseWithoutCredential(l, c, r) ==
    /\ UNCHANGED with
    /\ of' = [of EXCEPT ![l] = r]
    /\ open' = open \cup {l}
    /\ fresh' = fresh \cup {l}

ForgetFailedWrite(p, r) ==
    /\ At(p, r, "write")
    /\ Goto(p, r, "prepare") \/ Goto(p, r, "refused")
    /\ UNCHANGED <<credVars, leaseVars, runVars, localVars>>

CountEveryRelease(p, r) ==
    /\ At(p, r, "release") \/ At(p, r, "undo")
    /\ handle[p][r] # NoLease
    /\ open' = open \ {handle[p][r]}
    /\ Goto(p, r, IF pc[p][r] = "undo" THEN "undoCount" ELSE "count")
    /\ UNCHANGED <<credVars, with, of, fresh, runVars, localVars>>

-----------------------------------------------------------------------------
(* The statements.                                                         *)

CreateCredential(c, user) ==
    /\ status' = [status EXCEPT ![c] = "active"]
    /\ owner' = [owner EXCEPT ![c] = user]

\* recent: the runs of each credential that fall into the usage window.
ListCredentialCandidates(user, recent) ==
    {[id |-> c, shared |-> owner[c] = Everyone, owner |-> owner[c],
      weight |-> Weight[c], runs |-> recent[c],
      active |-> Cardinality({l \in InForce : with[l] = c})] :
        c \in {d \in Creds : Usable(d, user)}}

\* INSERT ... WHERE EXISTS (a usable credential) AND NOT EXISTS (a lease of
\* the run in force).
CanLease(c, r) ==
    /\ c \in Creds /\ Usable(c, UserOf[r])
    /\ ~\E l \in InForce : of[l] = r

TryCreateCredentialLease(l, c, r) ==
    /\ with' = [with EXCEPT ![l] = c]
    /\ of' = [of EXCEPT ![l] = r]
    /\ open' = open \cup {l}
    /\ fresh' = fresh \cup {l}

ReclaimExpiredCredentialLeases == open' = open \cap fresh

ReleaseCredentialLease(l) == open' = open \ {l}

\* UPDATE ... SET expires_at WHERE released_at IS NULL AND expires_at > now.
Renewable(l) == l \in InForce

RenewCredentialLease(l) == fresh' = IF Renewable(l) THEN fresh \cup {l} ELSE fresh

\* The newest lease of the run that is not released, expired or not.
GetActiveCredentialLeaseByRunID(r) ==
    LET newest == {l \in open : of[l] = r /\ \A k \in open : of[k] = r => k <= l}
    IN  IF newest = {} THEN NoLease ELSE CHOOSE l \in newest : TRUE

SetCredentialStatus(c, s, cool) ==
    /\ status' = [status EXCEPT ![c] = s]
    /\ cooling' = IF cool THEN cooling \cup {c} ELSE cooling \ {c}

UpsertCredentialUsage(c) == usage' = [usage EXCEPT ![c] = @ + 1]

-----------------------------------------------------------------------------
(* Acquire and PrepareCredential, in the goroutine of process p that       *)
(* executes run r.                                                         *)

AcquireReturns(p, r) ==
    /\ chosen' = [chosen EXCEPT ![p][r] = NoCred]
    /\ tries' = [tries EXCEPT ![p][r] = 0]

StartRun(p, r) ==
    /\ proc[p] = "up" /\ todo[p] = {} /\ pc[p][r] = "idle"
    /\ phase[r] = "queued" /\ r \notin lost
    /\ phase' = [phase EXCEPT ![r] = "running"]
    /\ leaseOwner' = [leaseOwner EXCEPT ![r] = p]
    /\ Goto(p, r, "reclaim")
    /\ UNCHANGED <<credVars, leaseVars, container, lost, localVars>>

Reclaim(p, r) ==
    /\ At(p, r, "reclaim")
    /\ ReclaimExpiredCredentialLeases
    /\ Goto(p, r, "select")
    /\ UNCHANGED <<credVars, with, of, fresh, runVars, localVars>>

SelectCredential(p, r) ==
    /\ At(p, r, "select")
    /\ \E recent \in [Creds -> 0..MaxLeases] :
        LET c == Select(strategy, UserOf[r], ListCredentialCandidates(UserOf[r], recent)) IN
        /\ \A d \in Creds : recent[d] <= usage[d]
        /\ chosen' = [chosen EXCEPT ![p][r] = c]
        /\ Goto(p, r, IF c = NoCred THEN "refused" ELSE "create")
    /\ UNCHANGED <<credVars, leaseVars, runVars, handle, tries>>

CreateLease(p, r) ==
    LET c == chosen[p][r] IN
    /\ At(p, r, "create")
    /\ \/ /\ CanLease(c, r)
          /\ \E l \in Leases :
                /\ of[l] = NoRun /\ \A k \in Leases : k < l => of[k] # NoRun
                /\ TryCreateCredentialLease(l, c, r)
                /\ handle' = [handle EXCEPT ![p][r] = l]
          /\ Goto(p, r, "open")
          /\ UNCHANGED tries
       \/ /\ ~CanLease(c, r)
          /\ tries' = [tries EXCEPT ![p][r] = @ + 1]
          /\ Goto(p, r, IF tries[p][r] + 1 < MaxAttempts THEN "select" ELSE "refused")
          /\ UNCHANGED <<leaseVars, handle>>
    /\ UNCHANGED <<credVars, runVars, chosen>>

\* GetCredential, Decrypt, SetRunCredentialID.  When one of them fails the lease
\* is given back, and a credential that cannot be decrypted is put on cooldown.
OpenCredential(p, r) ==
    LET broken == chosen[p][r] \in Broken IN
    /\ At(p, r, "open")
    /\ \/ /\ ~broken
          /\ Goto(p, r, "write")
          /\ AcquireReturns(p, r)
          /\ UNCHANGED open
       \/ /\ \/ broken /\ Goto(p, r, "cooldown")
             \/ Goto(p, r, "refused")
          /\ ReleaseCredentialLease(handle[p][r])
          /\ UNCHANGED <<chosen, tries>>
    /\ UNCHANGED <<credVars, with, of, fresh, runVars, handle>>

CoolBroken(p, r) ==
    /\ At(p, r, "cooldown")
    /\ SetCredentialStatus(chosen[p][r], "cooldown", TRUE)
    /\ Goto(p, r, "refused")
    /\ UNCHANGED <<owner, usage, leaseVars, runVars, localVars>>

\* writeAuthFileAtomic.  When it fails, the broker releases the lease.
WriteAuthFile(p, r) ==
    /\ At(p, r, "write")
    /\ Goto(p, r, "prepare") \/ Goto(p, r, "undo")
    /\ UNCHANGED <<credVars, leaseVars, runVars, localVars>>

\* The run fails: no credential.
Refuse(p, r) ==
    /\ At(p, r, "refused")
    /\ phase' = [phase EXCEPT ![r] = "done"]
    /\ handle' = [handle EXCEPT ![p][r] = NoLease]
    /\ AcquireReturns(p, r)
    /\ Goto(p, r, "idle")
    /\ UNCHANGED <<credVars, leaseVars, container, lost, leaseOwner>>

-----------------------------------------------------------------------------
(* The run: launch, supervision, adoption, and the end.                    *)

\* The execution row is written, or the run ends before: canceled, or its
\* session or its row could not be prepared.
PrepareRun(p, r) ==
    /\ At(p, r, "prepare")
    /\ \/ /\ container' = [container EXCEPT ![r] = "named"]
          /\ Goto(p, r, "launch")
          /\ UNCHANGED phase
       \/ /\ phase' = [phase EXCEPT ![r] = "done"]
          /\ Goto(p, r, "release")
          /\ UNCHANGED container
    /\ UNCHANGED <<credVars, leaseVars, lost, leaseOwner, localVars>>

\* Supervisors that were told to stop before this one began keep it out, and
\* its handle is not released: the next process will find the lease.
LaunchRun(p, r) ==
    /\ At(p, r, "launch")
    /\ \/ /\ container' = [container EXCEPT ![r] = "running"]
          /\ Goto(p, r, IF proc[p] = "stopping" THEN "left" ELSE "supervise")
          /\ UNCHANGED phase
       \/ /\ container' = [container EXCEPT ![r] = "absent"]
          /\ phase' = [phase EXCEPT ![r] = "done"]
          /\ Goto(p, r, "release")
    /\ UNCHANGED <<credVars, leaseVars, lost, leaseOwner, localVars>>

\* A tick of the supervisor that comes to renewing the credential lease.  When it
\* is lost the run is asked to cancel and the container stopped, if that works.
RenewLease(p, r) ==
    LET l == handle[p][r] IN
    /\ At(p, r, "supervise") /\ l # NoLease
    /\ RenewCredentialLease(l)
    /\ IF Renewable(l)
       THEN UNCHANGED <<lost, container>>
       ELSE /\ lost' = lost \cup {r}
            /\ container' \in {container,
                   [container EXCEPT ![r] = IF @ = "running" THEN "exited" ELSE @]}
    /\ UNCHANGED <<credVars, with, of, open, phase, leaseOwner, localVars, pc>>

\* ctx.Done, or the run's own lease was taken by another process.
LeaveRun(p, r) ==
    /\ At(p, r, "supervise")
    /\ proc[p] = "stopping" \/ leaseOwner[r] # p
    /\ Goto(p, r, "release")
    /\ UNCHANGED <<credVars, leaseVars, runVars, localVars>>

\* The container has exited: the run is closed, or goes back to the queue after
\* a usage limit.  A failure to authenticate, unless the run was asked to stop,
\* puts the credential on cooldown.
SettleRun(p, r) ==
    LET l == handle[p][r] IN
    /\ pc[p][r] \in {"supervise", "settle"} /\ Alive(p)
    /\ container[r] = "exited"
    /\ \/ phase' = [phase EXCEPT ![r] = "done"] /\ UNCHANGED <<status, cooling>>
       \/ /\ l # NoLease /\ r \notin lost
          /\ phase' = [phase EXCEPT ![r] = "done"]
          /\ SetCredentialStatus(with[l], "cooldown", TRUE)
       \/ /\ phase[r] # "done"
          /\ phase' = [phase EXCEPT ![r] = "queued"]
          /\ UNCHANGED <<status, cooling>>
    /\ Goto(p, r, IF pc[p][r] = "settle" THEN "tidy" ELSE "clean")
    /\ UNCHANGED <<owner, usage, leaseVars, container, lost, leaseOwner, localVars>>

\* failRunForMissingExecution.
MissRun(p, r) ==
    /\ pc[p][r] \in {"supervise", "settle"} /\ Alive(p)
    /\ container[r] \in {"named", "absent"}
    /\ phase' = [phase EXCEPT ![r] = "done"]
    /\ container' = [container EXCEPT ![r] = "absent"]
    /\ leaseOwner' = [leaseOwner EXCEPT ![r] = NoProc]
    /\ Goto(p, r, "release")
    /\ UNCHANGED <<credVars, leaseVars, lost, localVars>>

\* cleanupDetachedExecution.  A run settled by the recovery loop ends here: its
\* credential lease is left to expire.
CleanUpRun(p, r) ==
    /\ container' = [container EXCEPT ![r] = "absent"]
    /\ leaseOwner' = [leaseOwner EXCEPT ![r] = NoProc]
    /\ \/ /\ At(p, r, "tidy")
          /\ handle' = [handle EXCEPT ![p][r] = NoLease]
          /\ Goto(p, r, "idle")
       \/ /\ At(p, r, "clean")
          /\ Goto(p, r, "release")
          /\ UNCHANGED handle
    /\ UNCHANGED <<credVars, leaseVars, phase, lost, chosen, tries>>

Undoing(p, r) == pc[p][r] \in {"undo", "undoCount"}

\* The handle is let go of; Acquire's caller fails the run.
LetGo(p, r) ==
    /\ handle' = [handle EXCEPT ![p][r] = NoLease]
    /\ Goto(p, r, IF Undoing(p, r) THEN "refused" ELSE "idle")

\* Broker.Release, called by CredentialHandle.Release and after a failed write:
\* the row, then the usage if it was this call that released the row.
ReleaseLease(p, r) ==
    LET l == handle[p][r] IN
    /\ At(p, r, "release") \/ At(p, r, "undo")
    /\ ReleaseCredentialLease(l)
    /\ IF l \in open
       THEN /\ Goto(p, r, IF Undoing(p, r) THEN "undoCount" ELSE "count")
            /\ UNCHANGED handle
       ELSE LetGo(p, r)
    /\ UNCHANGED <<credVars, with, of, fresh, runVars, chosen, tries>>

CountUsage(p, r) ==
    /\ At(p, r, "count") \/ At(p, r, "undoCount")
    /\ UpsertCredentialUsage(with[handle[p][r]])
    /\ LetGo(p, r)
    /\ UNCHANGED <<status, cooling, owner, leaseVars, runVars, chosen, tries>>

Supervise(p, r) ==
    \/ StartRun(p, r) \/ Reclaim(p, r) \/ SelectCredential(p, r) \/ CreateLease(p, r)
    \/ OpenCredential(p, r) \/ CoolBroken(p, r) \/ WriteAuthFile(p, r) \/ Refuse(p, r)
    \/ PrepareRun(p, r) \/ LaunchRun(p, r) \/ RenewLease(p, r) \/ LeaveRun(p, r)
    \/ SettleRun(p, r) \/ MissRun(p, r) \/ CleanUpRun(p, r)
    \/ ReleaseLease(p, r) \/ CountUsage(p, r)

-----------------------------------------------------------------------------
(* Processes.                                                              *)

Boot(p) ==
    /\ proc[p] = "unborn"
    /\ Cardinality({q \in Procs : Alive(q)}) < MaxAlive
    /\ proc' = [proc EXCEPT ![p] = "up"]
    /\ todo' = [todo EXCEPT ![p] = {r \in Runs : phase[r] = "running"}]
    /\ UNCHANGED <<credVars, leaseVars, runVars, pc, localVars>>

\* RecoverRunningRuns for one run: its container is adopted with the credential
\* lease found in the store (supervised, too, when it cannot be inspected), or
\* settled at once when it has ended; without an execution row the run is
\* requeued, or left alone if its run lease may be alive.  The supervisor of an
\* adopted run is taken to begin before the process is told to stop.
RecoverRun(p, r) ==
    /\ proc[p] = "up" /\ r \in todo[p]
    /\ todo' = [todo EXCEPT ![p] = @ \ {r}]
    /\ IF container[r] # "absent"
       THEN /\ handle' = [handle EXCEPT ![p][r] = GetActiveCredentialLeaseByRunID(r)]
            /\ \/ /\ leaseOwner' = [leaseOwner EXCEPT ![r] = p]
                  /\ Goto(p, r, "supervise")
               \/ /\ container[r] # "running"
                  /\ Goto(p, r, "settle")
                  /\ UNCHANGED leaseOwner
            /\ UNCHANGED phase
       ELSE /\ phase' \in {phase, [phase EXCEPT ![r] = IF @ = "running" THEN "queued" ELSE @]}
            /\ UNCHANGED <<handle, leaseOwner, pc>>
    /\ UNCHANGED <<credVars, leaseVars, container, lost, proc, chosen, tries>>

StopRunSupervisors(p) ==
    /\ proc[p] = "up" /\ todo[p] = {}
    /\ proc' = [proc EXCEPT ![p] = "stopping"]
    /\ UNCHANGED <<credVars, leaseVars, runVars, todo, pc, localVars>>

\* A crash, or the end of a process that was told to stop: its memory is gone,
\* and handle remembers what it held.
Die(p) ==
    /\ Alive(p)
    /\ proc' = [proc EXCEPT ![p] = "dead"]
    /\ todo' = [todo EXCEPT ![p] = {}]
    /\ pc' = [pc EXCEPT ![p] = [r \in Runs |-> "idle"]]
    /\ chosen' = [chosen EXCEPT ![p] = [r \in Runs |-> NoCred]]
    /\ tries' = [tries EXCEPT ![p] = [r \in Runs |-> 0]]
    /\ UNCHANGED <<credVars, leaseVars, runVars, handle>>

-----------------------------------------------------------------------------
(* Operators of the service, containers, and time.                         *)

Patches == [step : {"update"}, cred : Creds, status : {"active", "disabled", "cooldown"},
            cool : BOOLEAN, owner : Users \cup {Everyone}]

\* POST /v1/credentials.  The id is the caller's choice, and must be a new one.
HandleCredentials(c) ==
    /\ status[c] = "absent"
    /\ CreateCredential(c, Owner0[c])
    /\ UNCHANGED <<cooling, usage, operatorVars>>

\* PATCH /v1/credentials/<id>: the row is read, and written with all its
\* columns, those of the request replaced.
LoadCredential(c) ==
    /\ status[c] # "absent"
    /\ patch = NoPatch /\ requests < MaxRequests
    /\ requests' = requests + 1
    /\ patch' = [step |-> "update", cred |-> c,
                 status |-> status[c], cool |-> c \in cooling, owner |-> owner[c]]
    /\ UNCHANGED credVars

Patched ==
    {row \in Patches : /\ row.cred = patch.cred
                       /\ row.status \in AskedStatus \cup {patch.status}
                       /\ row.owner \in AskedOwner \cup {patch.owner}}

UpdateCredential ==
    /\ patch # NoPatch
    /\ \E row \in Patched :
        /\ SetCredentialStatus(patch.cred, row.status, row.cool)
        /\ owner' = [owner EXCEPT ![patch.cred] = row.owner]
    /\ patch' = NoPatch
    /\ UNCHANGED <<usage, requests>>

\* DELETE /v1/credentials/<id>.
DisableCredential(c) ==
    /\ status[c] # "absent"
    /\ requests < MaxRequests
    /\ requests' = requests + 1
    /\ SetCredentialStatus(c, "disabled", FALSE)
    /\ UNCHANGED <<owner, usage, patch>>

CooldownEnds(c) ==
    /\ c \in cooling
    /\ cooling' = cooling \ {c}
    /\ UNCHANGED <<status, owner, usage, operatorVars>>

LeaseExpires(l) ==
    /\ l \in InForce
    /\ ~\E p \in Procs, r \in Runs : At(p, r, "supervise") /\ handle[p][r] = l
    /\ fresh' = fresh \ {l}
    /\ UNCHANGED <<with, of, open, runVars>>

ContainerExits(r) ==
    /\ container[r] = "running"
    /\ container' = [container EXCEPT ![r] = "exited"]
    /\ UNCHANGED <<leaseVars, phase, lost, leaseOwner>>

World ==
    \/ /\ \/ UpdateCredential
          \/ \E c \in Patchable : LoadCredential(c) \/ DisableCredential(c)
          \/ \E c \in Creds : HandleCredentials(c) \/ CooldownEnds(c)
       /\ UNCHANGED <<leaseVars, runVars>>
    \/ /\ (\E l \in Leases : LeaseExpires(l)) \/ (\E r \in Runs : ContainerExits(r))
       /\ UNCHANGED <<credVars, operatorVars>>

Next ==
    \/ /\ \E p \in Procs, r \in Runs : Supervise(p, r)
       /\ UNCHANGED <<strategy, procVars, operatorVars>>
    \/ /\ \E p \in Procs :
            \/ Boot(p) \/ StopRunSupervisors(p) \/ Die(p)
            \/ \E r \in Runs : RecoverRun(p, r)
       /\ UNCHANGED <<strategy, operatorVars>>
    \/ World /\ UNCHANGED <<strategy, procVars, pc, localVars>>

Spec == Init /\ [][Next]_vars

-----------------------------------------------------------------------------
(* Properties.                                                             *)

Steps == {"idle", "reclaim", "select", "create", "open", "cooldown", "write", "undo",
          "undoCount", "refused", "prepare", "launch", "supervise", "settle", "clean",
          "tidy", "release", "count", "left"}

CredentialsTyped ==
    /\ status \in [Creds -> {"absent", "active", "disabled", "cooldown"}]
    /\ cooling \subseteq Creds
    /\ owner \in [Creds -> Users \cup {Everyone}]
    /\ usage \in [Creds -> Nat]

LeasesTyped ==
    /\ with \in [Leases -> Creds \cup {NoCred}]
    /\ of \in [Leases -> Runs \cup {NoRun}]
    /\ open \subseteq Leases
    /\ fresh \subseteq Leases

RunsTyped ==
    /\ phase \in [Runs -> {"queued", "running", "done"}]
    /\ container \in [Runs -> {"absent", "named", "running", "exited"}]
    /\ lost \subseteq Runs
    /\ leaseOwner \in [Runs -> Procs \cup {NoProc}]

ProcessesTyped ==
    /\ proc \in [Procs -> {"unborn", "up", "stopping", "dead"}]
    /\ todo \in [Procs -> SUBSET Runs]
    /\ pc \in [Procs -> [Runs -> Steps]]

LocalsTyped ==
    /\ handle \in [Procs -> [Runs -> Leases \cup {NoLease}]]
    /\ chosen \in [Procs -> [Runs -> Creds \cup {NoCred}]]
    /\ tries \in [Procs -> [Runs -> Nat]]

OperatorsTyped ==
    /\ strategy \in StrategyNames
    /\ patch \in Patches \cup {NoPatch}
    /\ requests \in Nat

\* A lease is on record with both its credential and its run, only such a lease
\* is open, and a handle names a lease of the run it is held for.
LeasesLinked ==
    /\ \A l \in Leases : with[l] = NoCred <=> of[l] = NoRun
    /\ \A l \in open : of[l] # NoRun
    /\ \A p \in Procs, r \in Runs : handle[p][r] # NoLease => of[handle[p][r]] = r

\* Type invariant.
CredentialTypeOK ==
    /\ CredentialsTyped
    /\ LeasesTyped
    /\ RunsTyped
    /\ ProcessesTyped
    /\ LocalsTyped
    /\ OperatorsTyped
    /\ LeasesLinked

\* "A credential lease binds exactly one stored credential to exactly one run":
\* a run never has two leases in force, although it may be executed again by
\* another process while its first lease is still being given back, and
\* although whoever holds a lease's id may renew it.
OneLeasePerRun ==
    \A k, l \in InForce : of[k] = of[l] => k = l

\* A lease that is not released is in the hands of a goroutine that will
\* release it, or of a process that ended or is ending: every error path
\* between Acquire and the supervisor gives the lease back.
NoOrphanLease ==
    \A l \in open : \E p \in Procs : handle[p][of[l]] = l

\* A credential is charged for no more runs than leases of it were released, with
\* what is about to be counted, although two processes may both release a lease.
ChargedOnce ==
    \A c \in Creds :
        usage[c] + Cardinality({h \in Procs \X Runs :
                        /\ pc[h[1]][h[2]] \in {"count", "undoCount"}
                        /\ with[handle[h[1]][h[2]]] = c})
            <= Cardinality({l \in Leases \ open : with[l] = c})

\* "auth credentials cooldown cred_123 --for 30m", and five minutes after a failure
\* to decrypt or to authenticate: a credential is out of use while it cools down,
\* and no longer.  Nothing makes it active again: the configuration MCCooldown.
CooldownsEnd ==
    \A c \in Creds : status[c] = "cooldown" => c \in cooling

\* "Adoption recovers the Execution Handle and its associated Credential Lease.
\* The lease is tied to the Run, not the slot": a run is supervised without a
\* lease, or canceled because its lease was lost, only after a lease of it did
\* expire, never because another process let go of it.
LeaseFollowsRun ==
    \A r \in Runs :
        (r \in lost \/ \E p \in Procs : At(p, r, "supervise") /\ handle[p][r] = NoLease)
            => \E l \in Leases \ fresh : of[l] = r
=============================================================================
