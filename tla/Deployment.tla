----------------------------- MODULE Deployment -----------------------------
(***************************************************************************)
(* A blue/green deploy (internal/deploy) and the two rascald units it      *)
(* works on (cmd/rascald, the systemd unit it installs): the steps of      *)
(* Execute with what each remote script does to the host, the rollback,    *)
(* how a unit takes signals, exits and is started again, the file that     *)
(* names the active slot, Caddy's upstream, and the path of the result     *)
(* socket, which both slots bind.                                          *)
(***************************************************************************)
EXTENDS Naturals, FiniteSets

CONSTANTS
    NoSlot,     \* none of the two
    FaultMixes, \* sets of faults to look at together
    MaxDeploys, \* bound on deploys
    MaxTroubles \* bound on crashes, reboots and token rotations

Slots     == {"blue", "green"}
AllFaults == {"crash", "reboot", "sync", "ssh", "unready", "caddy", "probe", "nosite"}

ASSUME DeploymentConstants ==
    /\ NoSlot \notin Slots
    /\ \A mix \in FaultMixes : mix \subseteq AllFaults
    /\ MaxDeploys \in Nat \ {0} /\ MaxTroubles \in Nat

VARIABLES
    faults,     \* the faults of this behaviour
    unit,       \* state of each rascald unit
    runs,       \* version of the files each unit was started with last
    enabled,    \* units started at boot
    installed,  \* version of the installed files
    bad,        \* versions that never get ready
    socket,     \* slot that bound the result socket's path last, if it is there
    activeSlot, \* /etc/rascal/active_slot
    upstream,   \* rascal-upstream.caddy
    caddy,      \* whether Caddy runs, and the upstream it has loaded
    pc, old, new, \* the deploy: its next step, activeSlot and inactiveSlot
    deploys,    \* deploys so far
    troubles    \* crashes, reboots and rotations so far

hostVars == <<unit, runs, socket>>
fileVars == <<enabled, installed, bad, activeSlot, upstream, caddy>>
ctlVars  == <<faults, deploys, troubles>>
vars     == <<hostVars, fileVars, pc, old, new, ctlVars>>

UnitStates == {"off", "waiting", "starting", "bound", "up", "draining", "leaving"}
Resting    == {"idle", "done", "failed", "rolledBack"}
Undoing    == {"rollback", "reloadOld", "stopNew", "restartOld"}
Deploying  == {"install", "detect", "keepOld", "reclaim", "reclaiming", "startNew", "await",
               "writeUpstream", "reload", "verify", "flip", "retire", "confirm"} \cup Undoing

\* A host that has seen no deploy yet.
Init ==
    /\ faults \in FaultMixes
    /\ unit = [s \in Slots |-> "off"]
    /\ runs = [s \in Slots |-> 0]
    /\ enabled = {} /\ installed = 0 /\ bad = {}
    /\ socket = NoSlot /\ activeSlot = NoSlot /\ upstream = NoSlot
    /\ caddy = [up |-> FALSE, to |-> NoSlot]
    /\ pc = "idle" /\ old = NoSlot /\ new = NoSlot
    /\ deploys = 0 /\ troubles = 0

-----------------------------------------------------------------------------
(* Defects someone could write into the definitions below: they show what  *)
(* the properties notice, and are no part of the specification.            *)

RestartOnFailure(s) == unit[s] = "waiting" /\ "crash" \in faults
                       /\ unit' = [unit EXCEPT ![s] = "starting"]
                       /\ runs' = [runs EXCEPT ![s] = installed] /\ UNCHANGED socket
RetireBeforeReload == /\ pc = "writeUpstream" /\ pc' = "reload" /\ upstream' = new
                      /\ unit' = [unit EXCEPT ![old] = "draining"] /\ UNCHANGED <<runs, socket>>
                      /\ UNCHANGED <<enabled, installed, bad, activeSlot, caddy, old, new>>
KeepUpstream == /\ pc = "rollback" /\ pc' = "reloadOld" /\ UNCHANGED <<fileVars, hostVars, old, new>>
ReloadLeniently ==
    /\ pc = "reload" /\ pc' = "verify"
    /\ caddy' \in {[up |-> TRUE, to |-> upstream]} \cup
                 (IF "caddy" \in faults THEN {[caddy EXCEPT !.up = FALSE]} ELSE {})
    /\ UNCHANGED <<hostVars, enabled, installed, bad, activeSlot, upstream, old, new>>
NeverRestart(s) == unit[s] = "waiting" /\ UNCHANGED hostVars
InstallNext ==
    /\ pc = "install" /\ pc' = "detect" /\ installed' = deploys + 1
    /\ UNCHANGED <<hostVars, enabled, bad, activeSlot, upstream, caddy, old, new>>

-----------------------------------------------------------------------------
(* A unit.  A process takes signals once it listens; before that any of    *)
(* them kills it.                                                          *)

Active(s)  == unit[s] \notin {"off", "waiting"}
Handles(s) == unit[s] \in {"up", "draining", "leaving"}
Becomes(s, state) == unit' = [unit EXCEPT ![s] = state]

\* main: StartRunResultReporter, then recovery, then ListenAndServe.
BindSocket(s) ==
    /\ unit[s] = "starting"
    /\ Becomes(s, "bound") /\ socket' = s
    /\ UNCHANGED runs

Listen(s) ==
    /\ unit[s] = "bound" /\ runs[s] \notin bad
    /\ Becomes(s, "up") /\ UNCHANGED <<runs, socket>>

\* A bad version exits before or after it has taken the socket's path over.
FailToStart(s) ==
    /\ unit[s] \in {"starting", "bound"} /\ runs[s] \in bad
    /\ Becomes(s, "waiting") /\ UNCHANGED <<runs, socket>>

\* StopRunResultReporter removes the path, whoever has bound it meanwhile.
Unbind(s) == socket' = IF Handles(s) THEN NoSlot ELSE socket

\* A drain closes the listener and waits up to 15 s for its requests; main then
\* returns with ListenAndServe, and not with waitForActiveRunsToFinish.
ExitCleanly(s) ==
    unit[s] \in {"draining", "leaving"} /\ Unbind(s) /\ Becomes(s, "waiting") /\ UNCHANGED runs

\* Restart=always, RestartSec=3: however the process ended.
AutoRestart(s) ==
    /\ unit[s] = "waiting" /\ Becomes(s, "starting")
    /\ runs' = [runs EXCEPT ![s] = installed]
    /\ UNCHANGED socket

SystemctlStop(s) == Becomes(s, "off") /\ Unbind(s) /\ UNCHANGED runs

SystemctlRestart(s) ==
    /\ Becomes(s, "starting") /\ Unbind(s)
    /\ runs' = [runs EXCEPT ![s] = installed]

\* SIGUSR2 reclaims, SIGUSR1 drains; a reclaimed process takes no more signals.
SystemctlKill(s, usr2) ==
    /\ Becomes(s, IF ~Handles(s) THEN "waiting"
                  ELSE IF usr2 \/ unit[s] = "leaving" THEN "leaving" ELSE "draining")
    /\ UNCHANGED <<runs, socket>>

UnitStep(s) ==
    /\ BindSocket(s) \/ Listen(s) \/ FailToStart(s) \/ ExitCleanly(s) \/ AutoRestart(s)
    /\ UNCHANGED <<fileVars, pc, old, new, ctlVars>>

-----------------------------------------------------------------------------
(* Execute.                                                                *)

Step(from, to) == pc = from /\ pc' = to

otherSlot(s) == IF s = "blue" THEN "green" ELSE "blue"

detectActiveRemoteSlot ==
    CASE activeSlot # NoSlot -> activeSlot
      [] activeSlot = NoSlot /\ Active("blue") -> "blue"
      [] activeSlot = NoSlot /\ ~Active("blue") /\ Active("green") -> "green"
      [] OTHER -> "blue"

\* Building, uploading, bootstrap_host.sh, the binary, the unit, the env files.
Install ==
    /\ Step("install", "detect")
    /\ installed' = deploys
    /\ bad' \in {bad} \cup (IF "unready" \in faults THEN {bad \cup {deploys}} ELSE {})
    /\ UNCHANGED <<hostVars, enabled, activeSlot, upstream, caddy, old, new>>

Detect ==
    /\ Step("detect", "keepOld")
    /\ old' = detectActiveRemoteSlot
    /\ new' = otherSlot(old')
    /\ UNCHANGED <<hostVars, fileVars>>

KeepOld ==
    /\ Step("keepOld", "reclaim")
    /\ \/ Active(old) /\ UNCHANGED <<hostVars, enabled>>
       \/ ~Active(old) /\ SystemctlRestart(old) /\ enabled' = enabled \cup {old}
    /\ UNCHANGED <<installed, bad, activeSlot, upstream, caddy, old, new>>

Reclaim ==
    /\ \/ Step("reclaim", "reclaiming") /\ Active(new) /\ SystemctlKill(new, TRUE)
       \/ Step("reclaim", "startNew") /\ ~Active(new) /\ UNCHANGED hostVars
       \/ Step("reclaiming", "startNew") /\ ~Active(new) /\ UNCHANGED hostVars
       \/ Step("reclaiming", "startNew") /\ Active(new) /\ SystemctlStop(new)   \* after 30 s
    /\ UNCHANGED <<fileVars, old, new>>

StartNew ==
    /\ Step("startNew", "await")
    /\ SystemctlRestart(new) /\ enabled' = enabled \cup {new}
    /\ UNCHANGED <<installed, bad, activeSlot, upstream, caddy, old, new>>

AwaitReady ==
    /\ \/ Step("await", "writeUpstream") /\ unit[new] = "up" /\ UNCHANGED hostVars
       \/ /\ Step("await", "failed") /\ unit[new] # "up" /\ "unready" \in faults
          /\ SystemctlStop(new)
    /\ UNCHANGED <<fileVars, old, new>>

WriteUpstream ==
    /\ Step("writeUpstream", "reload") /\ upstream' = new
    /\ UNCHANGED <<hostVars, enabled, installed, bad, activeSlot, caddy, old, new>>

\* systemctl reload caddy || systemctl restart caddy: if both fail, it is down.
CaddyLoads == caddy' = [up |-> TRUE, to |-> upstream]
CaddyFails == "caddy" \in faults /\ caddy' = [caddy EXCEPT !.up = FALSE]

ReloadCaddy ==
    /\ \/ Step("reload", "verify") /\ CaddyLoads
       \/ Step("reload", "rollback") /\ CaddyFails
    /\ UNCHANGED <<hostVars, enabled, installed, bad, activeSlot, upstream, old, new>>

\* Without a domain, a Caddyfile that has no local site is not probed.
VerifyProxy ==
    /\ \/ Step("verify", "flip") /\ ("nosite" \in faults \/ (caddy.up /\ unit[caddy.to] = "up"))
       \/ Step("verify", "rollback") /\ "probe" \in faults
    /\ UNCHANGED <<hostVars, fileVars, old, new>>

Flip ==
    /\ Step("flip", "retire") /\ activeSlot' = new
    /\ UNCHANGED <<hostVars, enabled, installed, bad, upstream, caddy, old, new>>

Retire ==
    /\ Step("retire", "confirm")
    /\ IF Active(old) THEN SystemctlKill(old, FALSE) ELSE UNCHANGED hostVars
    /\ UNCHANGED <<fileVars, old, new>>

Confirm ==
    /\ Step("confirm", IF Active(new) THEN "done" ELSE "failed")
    /\ UNCHANGED <<hostVars, fileVars, old, new>>

-----------------------------------------------------------------------------
(* rollback, which nobody undoes.                                          *)

RestoreUpstream ==
    /\ Step("rollback", "reloadOld") /\ upstream' = old
    /\ UNCHANGED <<hostVars, enabled, installed, bad, activeSlot, caddy, old, new>>

ReloadOld ==
    /\ Step("reloadOld", "stopNew") /\ (CaddyLoads \/ CaddyFails)
    /\ UNCHANGED <<hostVars, enabled, installed, bad, activeSlot, upstream, old, new>>

StopNew    == Step("stopNew", "restartOld") /\ SystemctlStop(new) /\ UNCHANGED <<fileVars, old, new>>
RestartOld == Step("restartOld", "rolledBack") /\ SystemctlRestart(old)
              /\ UNCHANGED <<fileVars, old, new>>

\* A script is cut off, or its answer is: only two steps are rolled back.
LoseSsh ==
    /\ "ssh" \in faults /\ pc \in Deploying
    /\ pc' = IF pc \in {"reload", "verify"} THEN "rollback" ELSE "failed"
    /\ UNCHANGED <<hostVars, fileVars, old, new>>

Execute ==
    /\ \/ Install \/ Detect \/ KeepOld \/ Reclaim \/ StartNew \/ AwaitReady \/ WriteUpstream
       \/ ReloadCaddy \/ VerifyProxy \/ Flip \/ Retire \/ Confirm
       \/ RestoreUpstream \/ ReloadOld \/ StopNew \/ RestartOld
    /\ UNCHANGED ctlVars

StartDeploy ==
    /\ pc \in Resting /\ deploys < MaxDeploys
    /\ pc' = "install" /\ deploys' = deploys + 1
    /\ UNCHANGED <<hostVars, fileVars, old, new, faults, troubles>>

-----------------------------------------------------------------------------
(* What else happens to the host.                                          *)

Crash(s) ==
    /\ "crash" \in faults /\ Active(s) /\ Becomes(s, "waiting")
    /\ UNCHANGED <<runs, socket, fileVars, pc>>

\* /tmp, where the socket is, is empty after a reboot.
Reboot ==
    /\ "reboot" \in faults /\ caddy.to # NoSlot
    /\ unit' = [s \in Slots |-> IF s \in enabled THEN "starting" ELSE "off"]
    /\ runs' = [s \in Slots |-> IF s \in enabled THEN installed ELSE runs[s]]
    /\ socket' = NoSlot
    /\ caddy' = [up |-> TRUE, to |-> upstream]
    /\ pc' = IF pc \in Deploying THEN "failed" ELSE pc
    /\ UNCHANGED <<enabled, installed, bad, activeSlot, upstream>>

\* syncRemoteAuth with Restart, on a host in service: a restart to use new tokens.
SyncRemoteAuth ==
    /\ "sync" \in faults /\ activeSlot # NoSlot
    /\ SystemctlRestart(detectActiveRemoteSlot)
    /\ UNCHANGED <<fileVars, pc>>

Trouble ==
    /\ troubles < MaxTroubles /\ troubles' = troubles + 1
    /\ Reboot \/ SyncRemoteAuth \/ \E s \in Slots : Crash(s)
    /\ UNCHANGED <<old, new, faults, deploys>>

Next ==
    \/ StartDeploy \/ Execute \/ (LoseSsh /\ UNCHANGED ctlVars) \/ Trouble
    \/ \E s \in Slots : UnitStep(s)

\* A deploy goes on, and so do systemd and the processes.
FairSpec ==
    /\ Init /\ [][Next]_vars
    /\ WF_vars(Execute)
    /\ \A s \in Slots : WF_vars(UnitStep(s))

-----------------------------------------------------------------------------
(* Properties.                                                             *)

\* Type invariant of the deploy and the host.
DeployTypeOK ==
    /\ faults \in FaultMixes
    /\ unit \in [Slots -> UnitStates]
    /\ runs \in [Slots -> 0..MaxDeploys] /\ installed \in 0..MaxDeploys
    /\ enabled \subseteq Slots /\ bad \subseteq 1..MaxDeploys
    /\ {socket, activeSlot, upstream, old, new} \subseteq Slots \cup {NoSlot}
    /\ caddy \in [up : BOOLEAN, to : Slots \cup {NoSlot}]
    /\ pc \in Resting \cup Deploying
    /\ deploys \in 0..MaxDeploys /\ troubles \in 0..MaxTroubles

\* A deploy that says it is done has moved everything to the new slot: Caddy
\* leads there, its file and the active slot say so, and the unit is there with
\* the new files, whatever crashed, was cut off or rolled back on the way.
DoneMeansMoved ==
    pc = "done" =>
        /\ caddy = [up |-> TRUE, to |-> new] /\ upstream = new /\ activeSlot = new
        /\ unit[new] # "off" /\ runs[new] = installed

\* A rollback that goes through leads the traffic back, if Caddy runs at all:
\* the next deploy, and every webhook, finds the old slot in its place.
RollbackRestores ==
    [][pc # "rolledBack" /\ pc' = "rolledBack" =>
        /\ upstream = old /\ (caddy.up => caddy.to = old) /\ activeSlot # new
        /\ unit'[new] = "off" /\ unit'[old] # "off"]_vars

\* No gap in the API, also when a new version does not get ready: unless
\* something else fails, the slot Caddy leads to serves, in every deploy, while
\* it is drained, reclaimed or started again.
ApiStaysUp ==
    faults \subseteq {"unready"} /\ caddy.to # NoSlot => caddy.up /\ unit[caddy.to] = "up"

\* Whatever crashes, reboots, or is rolled back: as long as versions are sound,
\* Caddy runs and no script is cut off, its upstream serves again and again.
ServesAgain ==
    (faults \cap {"unready", "caddy", "ssh"} = {}) => []<>(caddy.to # NoSlot => unit[caddy.to] = "up")

\* The result socket's path leads to a process again and again once a slot is
\* active.  It does not: see ReportsAreHeard, and the configuration MCDeafSlot.
SocketComesBack == [](activeSlot # NoSlot => <>(socket # NoSlot /\ Active(socket)))

\* The socket comes back although every slot that exits removes the path the
\* other one bound: after crashes, reboots, rotations and rolled back deploys.
\* Two faults are left out, because with them it stays away for good.  A version
\* that never gets ready takes the path over, is stopped, and the slot that
\* serves never binds again; the same if a script is cut after it has reclaimed
\* or stopped a slot and before it starts one.
ReportsAreHeard == (faults \cap {"unready", "ssh"} = {}) => SocketComesBack

\* "Its remaining value is: [...] avoiding API/webhook downtime during `rascald`
\* replacement": a webhook that Caddy hands over passes the slot gate.
WebhooksPassTheGate ==
    activeSlot # NoSlot /\ caddy.up /\ unit[caddy.to] = "up" => activeSlot = caddy.to
=============================================================================
