-------------------------- MODULE DeploymentProofs --------------------------
(***************************************************************************)
(* Proofs about Deployment, for any number of deploys and troubles and any *)
(* mix of faults: a deploy that is done has moved everything, a rollback   *)
(* that goes through leads back, and the API has no gap as long as at most *)
(* the new version fails.                                                  *)
(***************************************************************************)
EXTENDS Deployment, TLAPS

\* The steps of a deploy, by how far it has come.
Chosen  == {"keepOld", "reclaim", "reclaiming", "startNew", "await", "writeUpstream", "reload",
            "verify", "flip"}
Started == {"await", "writeUpstream", "reload", "verify", "flip", "retire", "confirm", "done"}
Written == {"reload", "verify", "flip", "retire", "confirm", "done"}
Loaded  == {"verify", "flip", "retire", "confirm", "done"}
Flipped == {"retire", "confirm", "done"}

Types ==
    /\ DeployTypeOK
    /\ pc = "install" => deploys > 0

\* Old and new slot stay what they were chosen to be.
SlotsInv ==
    /\ pc \in Chosen \cup Undoing \cup {"retire", "confirm"} =>
        old \in Slots /\ new \in Slots /\ old # new
    /\ pc \in Chosen \cup Undoing => activeSlot \in {old, NoSlot}

MovedInv ==
    /\ pc \in Started => new \in enabled /\ unit[new] # "off" /\ runs[new] = installed
    /\ pc \in Written => upstream = new
    /\ pc \in Loaded  => caddy = [up |-> TRUE, to |-> new]
    /\ pc \in Flipped => activeSlot = new

RollbackInv ==
    /\ pc \in {"reloadOld", "stopNew", "restartOld"} => upstream = old
    /\ pc \in {"stopNew", "restartOld"} => (caddy.up => caddy.to = old)
    /\ pc = "restartOld" => unit[new] = "off"

\* When only the new version may fail, Caddy leads to the active slot, and until
\* it is reloaded the new slot is another.
UpInv ==
    faults \subseteq {"unready"} =>
        /\ pc \notin Undoing \cup {"rolledBack"}
        /\ caddy.to # NoSlot => caddy.up /\ unit[caddy.to] = "up"
        /\ pc \notin {"verify", "flip"} => caddy.to = activeSlot
        /\ pc \in {"writeUpstream", "reload", "verify", "flip", "retire", "confirm"}
            => unit[new] = "up"

DeployInv == Types /\ SlotsInv /\ MovedInv /\ RollbackInv /\ UpInv

-----------------------------------------------------------------------------
(* Units.                                                                  *)

LEMMA BecomesGives ==
    ASSUME unit \in [Slots -> UnitStates], NEW s \in Slots, NEW state \in UnitStates,
           Becomes(s, state)
    PROVE  /\ unit' \in [Slots -> UnitStates] /\ unit'[s] = state
           /\ \A x \in Slots : x # s => unit'[x] = unit[x]
  BY DEF Becomes

LEMMA UnitStateNames ==
    UnitStates = {"off", "waiting", "starting", "bound", "up", "draining", "leaving"}
  BY DEF UnitStates

LEMMA RestartGives ==
    ASSUME DeployTypeOK, NEW s \in Slots, SystemctlRestart(s)
    PROVE  /\ unit' \in [Slots -> UnitStates] /\ unit'[s] = "starting"
           /\ \A x \in Slots : x # s => unit'[x] = unit[x] /\ runs'[x] = runs[x]
           /\ runs'[s] = installed /\ runs' \in [Slots -> 0..MaxDeploys]
           /\ socket' \in Slots \cup {NoSlot}
  BY BecomesGives, UnitStateNames DEF SystemctlRestart, Unbind, DeployTypeOK

LEMMA StopGives ==
    ASSUME DeployTypeOK, NEW s \in Slots, SystemctlStop(s)
    PROVE  /\ unit' \in [Slots -> UnitStates] /\ unit'[s] = "off"
           /\ \A x \in Slots : x # s => unit'[x] = unit[x]
           /\ runs' = runs /\ socket' \in Slots \cup {NoSlot}
  BY BecomesGives, UnitStateNames DEF SystemctlStop, Unbind, DeployTypeOK

LEMMA KillGives ==
    ASSUME DeployTypeOK, NEW s \in Slots, NEW usr2 \in BOOLEAN, SystemctlKill(s, usr2)
    PROVE  /\ unit' \in [Slots -> UnitStates] /\ unit'[s] # "off"
           /\ \A x \in Slots : x # s => unit'[x] = unit[x]
           /\ runs' = runs /\ socket' = socket
<1>1. PICK state \in {"waiting", "leaving", "draining"} : Becomes(s, state)
    BY DEF SystemctlKill
<1> QED BY <1>1, BecomesGives, UnitStateNames DEF SystemctlKill, DeployTypeOK

\* What a unit does by itself: it never leaves "up", nor leaves or comes to "off".
LEMMA UnitStepGives ==
    ASSUME DeployTypeOK, NEW s \in Slots, UnitStep(s)
    PROVE  /\ unit' \in [Slots -> UnitStates]
           /\ \A x \in Slots : /\ unit[x] = "up" => unit'[x] = "up"
                               /\ unit'[x] = "off" <=> unit[x] = "off"
           /\ runs' \in [Slots -> 0..MaxDeploys]
           /\ \A x \in Slots : runs'[x] = runs[x] \/ runs'[x] = installed
           /\ socket' \in Slots \cup {NoSlot}
  BY BecomesGives, UnitStateNames
     DEF UnitStep, BindSocket, Listen, FailToStart, ExitCleanly, AutoRestart, Unbind, DeployTypeOK

LEMMA ActiveSlotIsSlot ==
    ASSUME DeployTypeOK, activeSlot # NoSlot
    PROVE  detectActiveRemoteSlot = activeSlot /\ activeSlot \in Slots
  BY DEF detectActiveRemoteSlot, DeployTypeOK

LEMMA Detected ==
    ASSUME DeployTypeOK
    PROVE  /\ detectActiveRemoteSlot \in Slots
           /\ \A s \in Slots : otherSlot(s) \in Slots /\ otherSlot(s) # s
<1>1. CASE activeSlot # NoSlot
    BY <1>1, ActiveSlotIsSlot DEF otherSlot, Slots
<1>2. CASE activeSlot = NoSlot
    BY <1>2 DEF detectActiveRemoteSlot, otherSlot, Slots
<1> QED BY <1>1, <1>2

LEMMA PcNames ==
    Resting \cup Deploying =
        {"idle", "done", "failed", "rolledBack", "install", "detect", "keepOld", "reclaim",
         "reclaiming", "startNew", "await", "writeUpstream", "reload", "verify", "flip", "retire",
         "confirm", "rollback", "reloadOld", "stopNew", "restartOld"}
  BY DEF Resting, Deploying, Undoing

-----------------------------------------------------------------------------
(* The invariant.                                                          *)

LEMMA InitDeploy == Init => DeployInv
<1> SUFFICES ASSUME Init PROVE DeployInv
    OBVIOUS
<1>1. Types
    BY DeploymentConstants DEF Init, Types, DeployTypeOK, UnitStates, Resting, Deploying
<1>2. SlotsInv /\ MovedInv /\ RollbackInv
    BY DEF Init, SlotsInv, MovedInv, RollbackInv, Chosen, Undoing, Started, Written, Loaded, Flipped
<1>3. UpInv
    BY DEF Init, UpInv, Undoing
<1> QED BY <1>1, <1>2, <1>3 DEF DeployInv

LEMMA CaddyTyped ==
    ASSUME DeployTypeOK, CaddyLoads \/ CaddyFails
    PROVE  caddy' \in [up : BOOLEAN, to : Slots \cup {NoSlot}]
<1>1. CASE CaddyLoads
    BY <1>1 DEF CaddyLoads, DeployTypeOK
<1>2. CASE CaddyFails
  <2>1. caddy \in [up : BOOLEAN, to : Slots \cup {NoSlot}]
    BY DEF DeployTypeOK
  <2> QED BY <1>2, <2>1 DEF CaddyFails
<1> QED BY <1>1, <1>2

LEMMA InstallKeeps ==
    ASSUME DeployInv, Install, UNCHANGED ctlVars
    PROVE  DeployInv'
<1> USE PcNames DEF DeployInv, Install, Step, hostVars, fileVars, ctlVars
<1>1. Types'
    BY UnitStateNames DEF Types, DeployTypeOK, SlotsInv, Chosen, Undoing
<1>2. SlotsInv'
    BY UnitStateNames DEF SlotsInv, Types, DeployTypeOK, Chosen, Undoing
<1>3. MovedInv'
    BY UnitStateNames DEF MovedInv, SlotsInv, Types, DeployTypeOK, Chosen, Undoing, Started, Written, Loaded, Flipped
<1>4. RollbackInv'
    BY UnitStateNames DEF RollbackInv, SlotsInv, Types, DeployTypeOK, Chosen, Undoing
<1>5. UpInv'
    BY UnitStateNames DEF UpInv, SlotsInv, MovedInv, Types, DeployTypeOK, Chosen, Undoing, Started, Written, Loaded
<1> QED BY <1>1, <1>2, <1>3, <1>4, <1>5

LEMMA DetectKeeps ==
    ASSUME DeployInv, Detect, UNCHANGED ctlVars
    PROVE  DeployInv'
<1> USE PcNames DEF DeployInv, Detect, Step, hostVars, fileVars, ctlVars
<1>1. Types'
    BY Detected DEF Types, DeployTypeOK, SlotsInv, Chosen, Undoing
<1>2. SlotsInv'
    BY Detected, ActiveSlotIsSlot DEF SlotsInv, Types, DeployTypeOK, Chosen, Undoing
<1>3. MovedInv'
    BY Detected DEF MovedInv, SlotsInv, Types, DeployTypeOK, Chosen, Undoing, Started, Written, Loaded, Flipped
<1>4. RollbackInv'
    BY Detected DEF RollbackInv, SlotsInv, Types, DeployTypeOK, Chosen, Undoing
<1>5. UpInv'
    BY Detected DEF UpInv, SlotsInv, MovedInv, Types, DeployTypeOK, Chosen, Undoing, Started, Written, Loaded
<1> QED BY <1>1, <1>2, <1>3, <1>4, <1>5

LEMMA KeepOldKeeps ==
    ASSUME DeployInv, KeepOld, UNCHANGED ctlVars
    PROVE  DeployInv'
<1> USE PcNames DEF DeployInv, KeepOld, Step, hostVars, fileVars, ctlVars
<1>1. Types'
    BY RestartGives DEF Types, DeployTypeOK, SlotsInv, Chosen, Undoing
<1>2. SlotsInv'
    BY RestartGives DEF SlotsInv, Types, DeployTypeOK, Chosen, Undoing
<1>3. MovedInv'
    BY RestartGives DEF MovedInv, SlotsInv, Types, DeployTypeOK, Chosen, Undoing, Started, Written, Loaded, Flipped
<1>4. RollbackInv'
    BY RestartGives DEF RollbackInv, SlotsInv, Types, DeployTypeOK, Chosen, Undoing
<1>5. UpInv'
  <2>1. CASE Active(old)
    BY <2>1, PcNames DEF Active, UpInv, SlotsInv, Types, DeployTypeOK, Chosen, Undoing,
                        SystemctlRestart, Becomes
  <2>2. CASE ~Active(old)
    <3>1. faults \subseteq {"unready"} => caddy.to = NoSlot
      BY <2>2 DEF UpInv, SlotsInv, Active, Chosen
    <3> QED BY <2>2, <3>1, PcNames DEF UpInv, Undoing
  <2> QED BY <2>1, <2>2
<1> QED BY <1>1, <1>2, <1>3, <1>4, <1>5

LEMMA ReclaimKeeps ==
    ASSUME DeployInv, Reclaim, UNCHANGED ctlVars
    PROVE  DeployInv'
<1> USE PcNames DEF DeployInv, Reclaim, Step, hostVars, fileVars, ctlVars
<1>0. /\ unit' \in [Slots -> UnitStates] /\ runs' = runs /\ socket' \in Slots \cup {NoSlot}
      /\ pc' \in {"reclaiming", "startNew"}
  <2>1. new \in Slots /\ DeployTypeOK
    BY DEF SlotsInv, Types, Chosen
  <2>2. CASE Active(new) /\ SystemctlKill(new, TRUE)
    BY <2>1, <2>2, KillGives DEF DeployTypeOK
  <2>3. CASE SystemctlStop(new)
    BY <2>1, <2>3, StopGives
  <2> QED BY <2>1, <2>2, <2>3 DEF DeployTypeOK
<1>1. Types'
    BY <1>0 DEF Types, DeployTypeOK
<1>2. SlotsInv'
    BY KillGives, StopGives DEF SlotsInv, Types, DeployTypeOK, Chosen, Undoing
<1>3. MovedInv'
    BY KillGives, StopGives DEF MovedInv, SlotsInv, Types, DeployTypeOK, Chosen, Undoing, Started, Written, Loaded, Flipped
<1>4. RollbackInv'
    BY KillGives, StopGives DEF RollbackInv, SlotsInv, Types, DeployTypeOK, Chosen, Undoing
<1>5. UpInv'
    BY KillGives, StopGives DEF UpInv, SlotsInv, MovedInv, Types, DeployTypeOK, Chosen, Undoing, Started, Written, Loaded
<1> QED BY <1>1, <1>2, <1>3, <1>4, <1>5

LEMMA StartNewKeeps ==
    ASSUME DeployInv, StartNew, UNCHANGED ctlVars
    PROVE  DeployInv'
<1> USE PcNames DEF DeployInv, StartNew, Step, hostVars, fileVars, ctlVars
<1>1. Types'
    BY RestartGives DEF Types, DeployTypeOK, SlotsInv, Chosen, Undoing
<1>2. SlotsInv'
    BY RestartGives DEF SlotsInv, Types, DeployTypeOK, Chosen, Undoing
<1>3. MovedInv'
    BY RestartGives DEF MovedInv, SlotsInv, Types, DeployTypeOK, Chosen, Undoing, Started, Written, Loaded, Flipped
<1>4. RollbackInv'
    BY RestartGives DEF RollbackInv, SlotsInv, Types, DeployTypeOK, Chosen, Undoing
<1>5. UpInv'
    BY RestartGives DEF UpInv, SlotsInv, MovedInv, Types, DeployTypeOK, Chosen, Undoing, Started, Written, Loaded
<1> QED BY <1>1, <1>2, <1>3, <1>4, <1>5

LEMMA AwaitReadyKeeps ==
    ASSUME DeployInv, AwaitReady, UNCHANGED ctlVars
    PROVE  DeployInv'
<1> USE PcNames DEF DeployInv, AwaitReady, Step, hostVars, fileVars, ctlVars
<1>1. Types'
    BY StopGives DEF Types, DeployTypeOK, SlotsInv, Chosen, Undoing
<1>2. SlotsInv'
    BY StopGives DEF SlotsInv, Types, DeployTypeOK, Chosen, Undoing
<1>3. MovedInv'
    BY StopGives DEF MovedInv, SlotsInv, Types, DeployTypeOK, Chosen, Undoing, Started, Written, Loaded, Flipped
<1>4. RollbackInv'
    BY StopGives DEF RollbackInv, SlotsInv, Types, DeployTypeOK, Chosen, Undoing
<1>5. UpInv'
    BY StopGives DEF UpInv, SlotsInv, MovedInv, Types, DeployTypeOK, Chosen, Undoing, Started, Written, Loaded
<1> QED BY <1>1, <1>2, <1>3, <1>4, <1>5

LEMMA WriteUpstreamKeeps ==
    ASSUME DeployInv, WriteUpstream, UNCHANGED ctlVars
    PROVE  DeployInv'
<1> USE PcNames DEF DeployInv, WriteUpstream, Step, hostVars, fileVars, ctlVars
<1>1. Types'
    BY UnitStateNames DEF Types, DeployTypeOK, SlotsInv, Chosen, Undoing
<1>2. SlotsInv'
    BY UnitStateNames DEF SlotsInv, Types, DeployTypeOK, Chosen, Undoing
<1>3. MovedInv'
    BY UnitStateNames DEF MovedInv, SlotsInv, Types, DeployTypeOK, Chosen, Undoing, Started, Written, Loaded, Flipped
<1>4. RollbackInv'
    BY UnitStateNames DEF RollbackInv, SlotsInv, Types, DeployTypeOK, Chosen, Undoing
<1>5. UpInv'
    BY UnitStateNames DEF UpInv, SlotsInv, MovedInv, Types, DeployTypeOK, Chosen, Undoing, Started, Written, Loaded
<1> QED BY <1>1, <1>2, <1>3, <1>4, <1>5

LEMMA ReloadCaddyKeeps ==
    ASSUME DeployInv, ReloadCaddy, UNCHANGED ctlVars
    PROVE  DeployInv'
<1> USE PcNames DEF DeployInv, ReloadCaddy, CaddyLoads, CaddyFails, Step, hostVars, fileVars, ctlVars
<1>0. caddy' \in [up : BOOLEAN, to : Slots \cup {NoSlot}]
    BY CaddyTyped DEF Types
<1>1. Types'
    BY <1>0 DEF Types, DeployTypeOK
<1>2. SlotsInv'
    BY UnitStateNames DEF SlotsInv, Types, DeployTypeOK, Chosen, Undoing
<1>3. MovedInv'
    BY UnitStateNames DEF MovedInv, SlotsInv, Types, DeployTypeOK, Chosen, Undoing, Started, Written, Loaded, Flipped
<1>4. RollbackInv'
    BY UnitStateNames DEF RollbackInv, SlotsInv, Types, DeployTypeOK, Chosen, Undoing
<1>5. UpInv'
    BY UnitStateNames DEF UpInv, SlotsInv, MovedInv, Types, DeployTypeOK, Chosen, Undoing, Started, Written, Loaded
<1> QED BY <1>1, <1>2, <1>3, <1>4, <1>5

LEMMA VerifyProxyKeeps ==
    ASSUME DeployInv, VerifyProxy, UNCHANGED ctlVars
    PROVE  DeployInv'
<1> USE PcNames DEF DeployInv, VerifyProxy, Step, hostVars, fileVars, ctlVars
<1>1. Types'
    BY UnitStateNames DEF Types, DeployTypeOK, SlotsInv, Chosen, Undoing
<1>2. SlotsInv'
    BY UnitStateNames DEF SlotsInv, Types, DeployTypeOK, Chosen, Undoing
<1>3. MovedInv'
    BY UnitStateNames DEF MovedInv, SlotsInv, Types, DeployTypeOK, Chosen, Undoing, Started, Written, Loaded, Flipped
<1>4. RollbackInv'
    BY UnitStateNames DEF RollbackInv, SlotsInv, Types, DeployTypeOK, Chosen, Undoing
<1>5. UpInv'
    BY UnitStateNames DEF UpInv, SlotsInv, MovedInv, Types, DeployTypeOK, Chosen, Undoing, Started, Written, Loaded
<1> QED BY <1>1, <1>2, <1>3, <1>4, <1>5

LEMMA FlipKeeps ==
    ASSUME DeployInv, Flip, UNCHANGED ctlVars
    PROVE  DeployInv'
<1> USE PcNames DEF DeployInv, Flip, Step, hostVars, fileVars, ctlVars
<1>1. Types'
    BY UnitStateNames DEF Types, DeployTypeOK, SlotsInv, Chosen, Undoing
<1>2. SlotsInv'
    BY UnitStateNames DEF SlotsInv, Types, DeployTypeOK, Chosen, Undoing
<1>3. MovedInv'
    BY UnitStateNames DEF MovedInv, SlotsInv, Types, DeployTypeOK, Chosen, Undoing, Started, Written, Loaded, Flipped
<1>4. RollbackInv'
    BY UnitStateNames DEF RollbackInv, SlotsInv, Types, DeployTypeOK, Chosen, Undoing
<1>5. UpInv'
    BY UnitStateNames DEF UpInv, SlotsInv, MovedInv, Types, DeployTypeOK, Chosen, Undoing, Started, Written, Loaded
<1> QED BY <1>1, <1>2, <1>3, <1>4, <1>5

LEMMA RetireKeeps ==
    ASSUME DeployInv, Retire, UNCHANGED ctlVars
    PROVE  DeployInv'
<1> USE PcNames DEF DeployInv, Retire, Step, hostVars, fileVars, ctlVars
<1>0. /\ unit' \in [Slots -> UnitStates] /\ runs' = runs /\ socket' = socket
      /\ unit'[new] = unit[new] /\ new \in Slots
  <2>1. old \in Slots /\ new \in Slots /\ old # new /\ DeployTypeOK
    BY DEF SlotsInv, Types
  <2>2. CASE SystemctlKill(old, FALSE)
    BY <2>1, <2>2, KillGives
  <2> QED BY <2>1, <2>2 DEF DeployTypeOK
<1>1. Types'
    BY <1>0 DEF Types, DeployTypeOK
<1>2. SlotsInv'
    BY KillGives DEF SlotsInv, Types, DeployTypeOK, Chosen, Undoing
<1>3. MovedInv'
    BY KillGives DEF MovedInv, SlotsInv, Types, DeployTypeOK, Chosen, Undoing, Started, Written, Loaded, Flipped
<1>4. RollbackInv'
    BY KillGives DEF RollbackInv, SlotsInv, Types, DeployTypeOK, Chosen, Undoing
<1>5. UpInv'
    BY <1>0 DEF UpInv, MovedInv, Undoing, Loaded, Flipped
<1> QED BY <1>1, <1>2, <1>3, <1>4, <1>5

LEMMA ConfirmKeeps ==
    ASSUME DeployInv, Confirm, UNCHANGED ctlVars
    PROVE  DeployInv'
<1> USE PcNames DEF DeployInv, Confirm, Step, hostVars, fileVars, ctlVars
<1>1. Types'
    BY UnitStateNames DEF Types, DeployTypeOK, SlotsInv, Chosen, Undoing
<1>2. SlotsInv'
    BY UnitStateNames DEF SlotsInv, Types, DeployTypeOK, Chosen, Undoing
<1>3. MovedInv'
    BY UnitStateNames DEF MovedInv, SlotsInv, Types, DeployTypeOK, Chosen, Undoing, Started, Written, Loaded, Flipped
<1>4. RollbackInv'
    BY UnitStateNames DEF RollbackInv, SlotsInv, Types, DeployTypeOK, Chosen, Undoing
<1>5. UpInv'
    BY UnitStateNames DEF UpInv, SlotsInv, MovedInv, Types, DeployTypeOK, Chosen, Undoing, Started, Written, Loaded
<1> QED BY <1>1, <1>2, <1>3, <1>4, <1>5

LEMMA RestoreUpstreamKeeps ==
    ASSUME DeployInv, RestoreUpstream, UNCHANGED ctlVars
    PROVE  DeployInv'
<1> USE PcNames DEF DeployInv, RestoreUpstream, Step, hostVars, fileVars, ctlVars
<1>1. Types'
    BY UnitStateNames DEF Types, DeployTypeOK, SlotsInv, Chosen, Undoing
<1>2. SlotsInv'
    BY UnitStateNames DEF SlotsInv, Types, DeployTypeOK, Chosen, Undoing
<1>3. MovedInv'
    BY UnitStateNames DEF MovedInv, SlotsInv, Types, DeployTypeOK, Chosen, Undoing, Started, Written, Loaded, Flipped
<1>4. RollbackInv'
    BY UnitStateNames DEF RollbackInv, SlotsInv, Types, DeployTypeOK, Chosen, Undoing
<1>5. UpInv'
    BY UnitStateNames DEF UpInv, SlotsInv, MovedInv, Types, DeployTypeOK, Chosen, Undoing, Started, Written, Loaded
<1> QED BY <1>1, <1>2, <1>3, <1>4, <1>5

LEMMA ReloadOldKeeps ==
    ASSUME DeployInv, ReloadOld, UNCHANGED ctlVars
    PROVE  DeployInv'
<1> USE PcNames DEF DeployInv, ReloadOld, CaddyLoads, CaddyFails, Step, hostVars, fileVars, ctlVars
<1>0. caddy' \in [up : BOOLEAN, to : Slots \cup {NoSlot}]
    BY CaddyTyped DEF Types
<1>1. Types'
    BY <1>0 DEF Types, DeployTypeOK
<1>2. SlotsInv'
    BY UnitStateNames DEF SlotsInv, Types, DeployTypeOK, Chosen, Undoing
<1>3. MovedInv'
    BY UnitStateNames DEF MovedInv, SlotsInv, Types, DeployTypeOK, Chosen, Undoing, Started, Written, Loaded, Flipped
<1>4. RollbackInv'
    BY UnitStateNames DEF RollbackInv, SlotsInv, Types, DeployTypeOK, Chosen, Undoing
<1>5. UpInv'
    BY UnitStateNames DEF UpInv, SlotsInv, MovedInv, Types, DeployTypeOK, Chosen, Undoing, Started, Written, Loaded
<1> QED BY <1>1, <1>2, <1>3, <1>4, <1>5

LEMMA StopNewKeeps ==
    ASSUME DeployInv, StopNew, UNCHANGED ctlVars
    PROVE  DeployInv'
<1> USE PcNames DEF DeployInv, StopNew, Step, hostVars, fileVars, ctlVars
<1>1. Types'
    BY StopGives DEF Types, DeployTypeOK, SlotsInv, Chosen, Undoing
<1>2. SlotsInv'
    BY StopGives DEF SlotsInv, Types, DeployTypeOK, Chosen, Undoing
<1>3. MovedInv'
    BY StopGives DEF MovedInv, SlotsInv, Types, DeployTypeOK, Chosen, Undoing, Started, Written, Loaded, Flipped
<1>4. RollbackInv'
    BY StopGives DEF RollbackInv, SlotsInv, Types, DeployTypeOK, Chosen, Undoing
<1>5. UpInv'
    BY StopGives DEF UpInv, SlotsInv, MovedInv, Types, DeployTypeOK, Chosen, Undoing, Started, Written, Loaded
<1> QED BY <1>1, <1>2, <1>3, <1>4, <1>5

LEMMA RestartOldKeeps ==
    ASSUME DeployInv, RestartOld, UNCHANGED ctlVars
    PROVE  DeployInv'
<1> USE PcNames DEF DeployInv, RestartOld, Step, hostVars, fileVars, ctlVars
<1>1. Types'
    BY RestartGives DEF Types, DeployTypeOK, SlotsInv, Chosen, Undoing
<1>2. SlotsInv'
    BY RestartGives DEF SlotsInv, Types, DeployTypeOK, Chosen, Undoing
<1>3. MovedInv'
    BY RestartGives DEF MovedInv, SlotsInv, Types, DeployTypeOK, Chosen, Undoing, Started, Written, Loaded, Flipped
<1>4. RollbackInv'
    BY RestartGives DEF RollbackInv, SlotsInv, Types, DeployTypeOK, Chosen, Undoing
<1>5. UpInv'
    BY RestartGives DEF UpInv, SlotsInv, MovedInv, Types, DeployTypeOK, Chosen, Undoing, Started, Written, Loaded
<1> QED BY <1>1, <1>2, <1>3, <1>4, <1>5

LEMMA StartDeployKeeps ==
    ASSUME DeployInv, StartDeploy
    PROVE  DeployInv'
<1> USE PcNames DEF DeployInv, StartDeploy, hostVars, fileVars
<1>1. Types'
    BY DeploymentConstants DEF Types, DeployTypeOK
<1>2. SlotsInv' /\ MovedInv' /\ RollbackInv'
    BY DEF SlotsInv, MovedInv, RollbackInv, Chosen, Undoing, Started, Written, Loaded, Flipped
<1>3. UpInv'
    BY DEF UpInv, Undoing, Resting
<1> QED BY <1>1, <1>2, <1>3

LEMMA LoseSshKeeps ==
    ASSUME DeployInv, LoseSsh, UNCHANGED ctlVars
    PROVE  DeployInv'
<1> USE DEF DeployInv, LoseSsh, hostVars, fileVars, ctlVars
<1>0. pc' \in {"rollback", "failed"} /\ (pc' = "rollback" => pc \in {"reload", "verify"})
    OBVIOUS
<1>1. Types'
    BY <1>0, PcNames DEF Types, DeployTypeOK
<1>2. SlotsInv' /\ MovedInv' /\ RollbackInv'
    BY <1>0 DEF SlotsInv, MovedInv, RollbackInv, Chosen, Undoing, Started, Written, Loaded, Flipped
<1>3. UpInv'
    BY DEF UpInv
<1> QED BY <1>1, <1>2, <1>3

\* A process that crashes, or the slot in service that is started again, was
\* not stopped: neither comes to "off", and a restart takes the installed files.
LEMMA CrashKeeps ==
    ASSUME DeployInv, NEW s \in Slots, Crash(s),
           UNCHANGED <<old, new, faults, deploys>>, troubles' \in 0..MaxTroubles
    PROVE  DeployInv'
<1> USE DEF DeployInv, Crash, fileVars
<1>0. /\ unit' \in [Slots -> UnitStates]
      /\ \A x \in Slots : unit'[x] = "off" <=> unit[x] = "off"
  <2>1. unit[s] # "off" /\ unit \in [Slots -> UnitStates]
    BY DEF Active, Types, DeployTypeOK
  <2> QED BY <2>1, BecomesGives, UnitStateNames
<1>1. Types'
    BY <1>0 DEF Types, DeployTypeOK
<1>2. SlotsInv' /\ RollbackInv'
    BY <1>0 DEF SlotsInv, RollbackInv, Chosen, Undoing
<1>3. MovedInv'
    BY <1>0 DEF MovedInv, Types, DeployTypeOK
<1>4. UpInv'
    BY DEF UpInv
<1> QED BY <1>1, <1>2, <1>3, <1>4

LEMMA SyncKeeps ==
    ASSUME DeployInv, SyncRemoteAuth,
           UNCHANGED <<old, new, faults, deploys>>, troubles' \in 0..MaxTroubles
    PROVE  DeployInv'
<1> USE DEF DeployInv, SyncRemoteAuth, fileVars
<1>0. DeployTypeOK /\ activeSlot \in Slots /\ SystemctlRestart(activeSlot)
    BY ActiveSlotIsSlot DEF Types
<1>1. Types'
    BY <1>0, RestartGives DEF Types, DeployTypeOK
<1>2. SlotsInv' /\ RollbackInv'
    BY <1>0, RestartGives DEF SlotsInv, RollbackInv, Chosen, Undoing
<1>3. MovedInv'
    BY <1>0, RestartGives DEF MovedInv, DeployTypeOK
<1>4. UpInv'
    BY DEF UpInv
<1> QED BY <1>1, <1>2, <1>3, <1>4

\* A reboot ends a deploy that is on its way, and starts the enabled units.
LEMMA RebootKeeps ==
    ASSUME DeployInv, Reboot,
           UNCHANGED <<old, new, faults, deploys>>, troubles' \in 0..MaxTroubles
    PROVE  DeployInv'
<1> USE DEF DeployInv, Reboot
<1>0. /\ unit' \in [Slots -> UnitStates] /\ runs' \in [Slots -> 0..MaxDeploys]
      /\ \A x \in enabled : unit'[x] = "starting" /\ runs'[x] = installed
    BY UnitStateNames DEF Types, DeployTypeOK
<1>1. pc' \in Resting /\ (pc' # "failed" => pc' = pc)
    BY PcNames DEF Types, DeployTypeOK, Resting, Deploying, Undoing
<1>2. Types'
    BY <1>0, <1>1, PcNames DEF Types, DeployTypeOK, Resting
<1>3. SlotsInv' /\ RollbackInv'
    BY <1>1 DEF SlotsInv, RollbackInv, Chosen, Undoing, Resting
<1>4. MovedInv'
    BY <1>0, <1>1 DEF MovedInv, Started, Written, Loaded, Flipped, Resting
<1>5. UpInv'
    BY DEF UpInv
<1> QED BY <1>2, <1>3, <1>4, <1>5

LEMMA UnitStepKeeps ==
    ASSUME DeployInv, NEW s \in Slots, UnitStep(s)
    PROVE  DeployInv'
<1> USE DEF DeployInv
<1>0. /\ unit' \in [Slots -> UnitStates]
      /\ \A x \in Slots : /\ unit[x] = "up" => unit'[x] = "up"
                          /\ unit'[x] = "off" <=> unit[x] = "off"
      /\ runs' \in [Slots -> 0..MaxDeploys]
      /\ \A x \in Slots : runs'[x] = runs[x] \/ runs'[x] = installed
      /\ socket' \in Slots \cup {NoSlot}
    BY UnitStepGives DEF Types
<1>1. UNCHANGED <<fileVars, pc, old, new, ctlVars>>
    BY DEF UnitStep
<1> HIDE DEF UnitStep
<1>2. Types'
    BY <1>0, <1>1 DEF Types, DeployTypeOK, fileVars, ctlVars
<1>3. SlotsInv' /\ RollbackInv'
    BY <1>0, <1>1 DEF SlotsInv, RollbackInv, Chosen, Undoing, fileVars, ctlVars
<1>4. MovedInv'
    BY <1>0, <1>1 DEF MovedInv, Types, DeployTypeOK, fileVars, ctlVars
<1>5. UpInv'
    BY <1>0, <1>1 DEF UpInv, SlotsInv, Types, DeployTypeOK, Chosen, fileVars, ctlVars
<1> QED BY <1>2, <1>3, <1>4, <1>5

LEMMA ExecuteKeeps ==
    ASSUME DeployInv, Execute
    PROVE  DeployInv'
  BY InstallKeeps, DetectKeeps, KeepOldKeeps, ReclaimKeeps, StartNewKeeps, AwaitReadyKeeps,
     WriteUpstreamKeeps, ReloadCaddyKeeps, VerifyProxyKeeps, FlipKeeps, RetireKeeps, ConfirmKeeps,
     RestoreUpstreamKeeps, ReloadOldKeeps, StopNewKeeps, RestartOldKeeps
     DEF Execute

LEMMA NextDeploy == DeployInv /\ [Next]_vars => DeployInv'
<1> SUFFICES ASSUME DeployInv, [Next]_vars PROVE DeployInv'
    OBVIOUS
<1>1. CASE StartDeploy
    BY <1>1, StartDeployKeeps
<1>2. CASE Execute
    BY <1>2, ExecuteKeeps
<1>3. CASE LoseSsh /\ UNCHANGED ctlVars
    BY <1>3, LoseSshKeeps
<1>4. CASE Trouble
  <2>1. troubles' \in 0..MaxTroubles
    BY <1>4, DeploymentConstants DEF Trouble, DeployInv, Types, DeployTypeOK
  <2> QED BY <1>4, <2>1, RebootKeeps, SyncKeeps, CrashKeeps DEF Trouble
<1>5. CASE \E s \in Slots : UnitStep(s)
    BY <1>5, UnitStepKeeps
<1>6. CASE UNCHANGED vars
  <2> USE <1>6 DEF vars, hostVars, fileVars, ctlVars, DeployInv
  <2>1. Types' /\ SlotsInv' /\ RollbackInv'
    BY DEF Types, DeployTypeOK, SlotsInv, RollbackInv
  <2>2. MovedInv' /\ UpInv'
    BY DEF MovedInv, UpInv
  <2> QED BY <2>1, <2>2
<1> QED BY <1>1, <1>2, <1>3, <1>4, <1>5, <1>6 DEF Next

LEMMA DeployInvariant == FairSpec => []DeployInv
  BY InitDeploy, NextDeploy, PTL DEF FairSpec

-----------------------------------------------------------------------------
(* Theorems.                                                               *)

\* Every variable of the deploy and the host keeps its type, and no deploy and
\* no trouble is counted beyond its bound: Execute in internal/deploy/deploy.go
\* and the units it installs.
THEOREM DeployTypeCorrect == FairSpec => []DeployTypeOK
<1>1. DeployInv => DeployTypeOK
    BY DEF DeployInv, Types
<1> QED BY <1>1, DeployInvariant, PTL

\* A deploy that Execute reports as done has led Caddy, its upstream file, the
\* active slot's file and the new unit to the new version, whatever else
\* happened to the host on the way.
THEOREM DoneHasMoved == FairSpec => []DoneMeansMoved
<1>1. DeployInv => DoneMeansMoved
    BY DEF DeployInv, MovedInv, DoneMeansMoved, Started, Written, Loaded, Flipped
<1> QED BY <1>1, DeployInvariant, PTL

\* As long as at most the new version fails to get ready, the slot that Caddy
\* leads to serves at every step of every deploy: Execute touches the old slot
\* only after Caddy has left it.
THEOREM ApiHasNoGap == FairSpec => []ApiStaysUp
<1>1. DeployInv => ApiStaysUp
    BY DEF DeployInv, UpInv, ApiStaysUp
<1> QED BY <1>1, DeployInvariant, PTL

\* A rollback that comes to its end leaves the upstream file, the active slot
\* and a Caddy that runs where they were before the deploy, the old unit
\* started and the new one stopped: rollback in internal/deploy/deploy.go.
THEOREM RollbackLeadsBack == FairSpec => RollbackRestores
<1>1. DeployInv /\ [Next]_vars =>
        [pc # "rolledBack" /\ pc' = "rolledBack" =>
            /\ upstream = old /\ (caddy.up => caddy.to = old) /\ activeSlot # new
            /\ unit'[new] = "off" /\ unit'[old] # "off"]_vars
  <2> SUFFICES ASSUME DeployInv, Next, pc # "rolledBack", pc' = "rolledBack"
               PROVE  /\ upstream = old /\ (caddy.up => caddy.to = old) /\ activeSlot # new
                      /\ unit'[new] = "off" /\ unit'[old] # "off"
    BY DEF vars
  <2>1. RestartOld
    BY DEF Next, StartDeploy, Execute, Install, Detect, KeepOld, Reclaim, StartNew, AwaitReady,
           WriteUpstream, ReloadCaddy, VerifyProxy, Flip, Retire, Confirm, RestoreUpstream,
           ReloadOld, StopNew, Step, LoseSsh, Trouble, Reboot, SyncRemoteAuth, Crash, UnitStep
  <2>2. pc = "restartOld" /\ SystemctlRestart(old)
    BY <2>1 DEF RestartOld, Step
  <2>3. old \in Slots /\ new \in Slots /\ old # new /\ activeSlot \in {old, NoSlot}
    BY <2>2 DEF DeployInv, SlotsInv, Undoing
  <2>4. unit'[new] = unit[new] /\ unit'[old] = "starting"
    BY <2>2, <2>3, RestartGives DEF DeployInv, Types
  <2>5. new # NoSlot
    BY <2>3, DeploymentConstants
  <2> QED BY <2>2, <2>3, <2>4, <2>5 DEF DeployInv, RollbackInv
<1> QED BY <1>1, DeployInvariant, PTL DEF FairSpec, RollbackRestores
=============================================================================
