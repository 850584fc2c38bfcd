----------------------- MODULE CredentialLeaseProofs -----------------------
(***************************************************************************)
(* Proofs about CredentialLease, for any sets of credentials, runs and     *)
(* processes and whatever the bounds: its type invariant, that a run never *)
(* has two leases in force, that only a usable credential is leased, that  *)
(* a lease not released has a holder, and that a run is charged once.      *)
(***************************************************************************)
EXTENDS CredentialLease, FiniteSetTheorems, TLAPS

\* The strategies return one of the candidates, or nothing.
LEMMA SelectType ==
    ASSUME NEW user, NEW s \in StrategyNames, NEW cs,
           \A c \in cs : c.id \in Creds
    PROVE  Select(s, user, cs) \in Creds \cup {NoCred}
<1>1. ASSUME NEW S \in SUBSET cs
      PROVE  MinBy(S, FewerLeases) \in Creds \cup {NoCred}
  BY <1>1, Zenon DEF MinBy
<1>2. ASSUME NEW S \in SUBSET cs
      PROVE  MinBy(S, LowerScore) \in Creds \cup {NoCred}
  BY <1>2, Zenon DEF MinBy
<1>3. ASSUME NEW S \in SUBSET cs
      PROVE  MinBy(S, FewerLeasesThenShared) \in Creds \cup {NoCred}
  BY <1>3, Zenon DEF MinBy
<1>4. ASSUME NEW S \in SUBSET cs
      PROVE  FirstOf(S) \in Creds \cup {NoCred}
  BY <1>4, Zenon DEF FirstOf, MinBy
<1>5. Shared(cs) \in SUBSET cs /\ Own(cs, user) \in SUBSET cs
  BY DEF Shared, Own
<1>6. RequesterOwnThenShared(user, cs) \in Creds \cup {NoCred}
  BY <1>1, <1>5, Zenon DEF RequesterOwnThenShared
<1>7. HybridReservePlusPool(user, cs) \in Creds \cup {NoCred}
  <2> DEFINE own == Own(cs, user)
             idle == {c \in own : c.active = 0}
  <2>1. FirstOf(idle) \in Creds \cup {NoCred} /\ FirstOf(own) \in Creds \cup {NoCred}
    BY <1>4, <1>5
  <2>2. MinBy(Shared(cs), FewerLeases) \in Creds \cup {NoCred}
    BY <1>1, <1>5
  <2> QED BY <2>1, <2>2 DEF HybridReservePlusPool
<1>8. MinBy(cs, FewerLeasesThenShared) \in Creds \cup {NoCred}
  BY <1>3
<1>9. /\ MinBy(Shared(cs), FewerLeases) \in Creds \cup {NoCred}
      /\ MinBy(Shared(cs), LowerScore) \in Creds \cup {NoCred}
  BY <1>1, <1>2, <1>5
<1> QED BY <1>6, <1>7, <1>8, <1>9, Zenon DEF Select, StrategyNames

\* A count stays a number, whichever entry is raised.
LEMMA CountUpdate ==
    ASSUME NEW S, NEW f \in [S -> Nat], NEW a
    PROVE  [f EXCEPT ![a] = @ + 1] \in [S -> Nat]
<1>1. CASE a \in S
  BY <1>1
<1>2. CASE a \notin S
  <2>1. [f EXCEPT ![a] = @ + 1] = f
    BY <1>2
  <2> QED BY <2>1
<1> QED BY <1>1, <1>2

\* Only a credential that could not be opened is on its way to a cooldown.
CooldownBroken ==
    \A p \in Procs, r \in Runs : pc[p][r] = "cooldown" => chosen[p][r] \in Broken

LeaseInv ==
    /\ CredentialTypeOK
    /\ CooldownBroken
    /\ OneLeasePerRun

LEMMA InitLeaseInv == Init => LeaseInv
<1> SUFFICES ASSUME Init PROVE LeaseInv
  OBVIOUS
<1>1. CredentialsTyped /\ LeasesTyped /\ RunsTyped
  BY CredentialConstants DEF Init, CredentialsTyped, LeasesTyped, RunsTyped
<1>2. ProcessesTyped /\ LocalsTyped
  BY DEF Init, ProcessesTyped, LocalsTyped, Steps
<1>3. OperatorsTyped
  BY CredentialConstants DEF Init, OperatorsTyped
<1>4. LeasesLinked /\ CooldownBroken /\ OneLeasePerRun
  BY DEF Init, LeasesLinked, CooldownBroken, OneLeasePerRun, InForce
<1> QED BY <1>1, <1>2, <1>3, <1>4 DEF LeaseInv, CredentialTypeOK

\* A handle names a lease that is on record with its credential.
LEMMA HandleOnRecord ==
    ASSUME CredentialTypeOK, NEW p \in Procs, NEW r \in Runs, handle[p][r] # NoLease
    PROVE  /\ handle[p][r] \in Leases
           /\ with[handle[p][r]] \in Creds
<1>1. handle[p][r] \in Leases
  BY DEF CredentialTypeOK, LocalsTyped
<1>2. of[handle[p][r]] # NoRun
  BY CredentialConstants DEF CredentialTypeOK, LeasesLinked
<1> QED BY <1>1, <1>2 DEF CredentialTypeOK, LeasesLinked, LeasesTyped

\* A goroutine's steps keep the credentials' types.
LEMMA SuperviseCredentials ==
    ASSUME CredentialTypeOK, CooldownBroken, NEW p \in Procs, NEW r \in Runs,
           Supervise(p, r)
    PROVE  CredentialsTyped'
<1> USE DEF credVars
<1>0. CredentialsTyped
  BY DEF CredentialTypeOK
<1>1. CASE CoolBroken(p, r)
  <2>1. chosen[p][r] \in Creds
    BY <1>0, <1>1, CredentialConstants DEF CoolBroken, CooldownBroken, At
  <2> QED BY <1>0, <1>1, <2>1 DEF CoolBroken, SetCredentialStatus, CredentialsTyped
<1>2. CASE SettleRun(p, r)
  <2>1. handle[p][r] # NoLease => with[handle[p][r]] \in Creds
    BY HandleOnRecord
  <2> QED BY <1>0, <1>2, <2>1 DEF SettleRun, SetCredentialStatus, CredentialsTyped
<1>3. CASE CountUsage(p, r)
  <2>1. UNCHANGED <<status, cooling, owner>>
    BY <1>3 DEF CountUsage
  <2>2. usage' = [usage EXCEPT ![with[handle[p][r]]] = @ + 1]
    BY <1>3 DEF CountUsage, UpsertCredentialUsage
  <2>3. usage' \in [Creds -> Nat]
    BY <1>0, <2>2, CountUpdate DEF CredentialsTyped
  <2> QED BY <1>0, <2>1, <2>3 DEF CredentialsTyped
<1>4. UNCHANGED credVars => CredentialsTyped'
  BY <1>0 DEF CredentialsTyped
<1>5. CASE StartRun(p, r) \/ Reclaim(p, r) \/ SelectCredential(p, r)
           \/ CreateLease(p, r) \/ OpenCredential(p, r) \/ WriteAuthFile(p, r)
           \/ Refuse(p, r) \/ PrepareRun(p, r) \/ LaunchRun(p, r)
           \/ RenewLease(p, r) \/ LeaveRun(p, r) \/ MissRun(p, r)
           \/ CleanUpRun(p, r) \/ ReleaseLease(p, r)
  BY <1>4, <1>5
  DEF StartRun, Reclaim, SelectCredential, CreateLease, OpenCredential, WriteAuthFile, Refuse, PrepareRun, LaunchRun, RenewLease, LeaveRun, MissRun, CleanUpRun, ReleaseLease
<1> QED BY <1>1, <1>2, <1>3, <1>5 DEF Supervise

\* A goroutine's steps keep the leases' types.
LEMMA SuperviseLeases ==
    ASSUME CredentialTypeOK, CooldownBroken, NEW p \in Procs, NEW r \in Runs,
           Supervise(p, r)
    PROVE  LeasesTyped'
<1> USE DEF leaseVars
<1>0. LeasesTyped
  BY DEF CredentialTypeOK
<1>1. CASE Reclaim(p, r)
  BY <1>0, <1>1 DEF Reclaim, LeasesTyped, ReclaimExpiredCredentialLeases
<1>2. CASE CreateLease(p, r)
  <2>1. CASE UNCHANGED leaseVars
    BY <1>0, <2>1 DEF LeasesTyped
  <2>2. ASSUME NEW l \in Leases, CanLease(chosen[p][r], r),
               TryCreateCredentialLease(l, chosen[p][r], r)
        PROVE  LeasesTyped'
    BY <1>0, <2>2 DEF LeasesTyped, CanLease, TryCreateCredentialLease
  <2> QED BY <1>2, <2>1, <2>2 DEF CreateLease
<1>3. CASE OpenCredential(p, r)
  BY <1>0, <1>3 DEF OpenCredential, LeasesTyped, ReleaseCredentialLease
<1>4. CASE RenewLease(p, r)
  BY <1>0, <1>4 DEF RenewLease, LeasesTyped, RenewCredentialLease, Renewable, InForce
<1>5. CASE ReleaseLease(p, r)
  BY <1>0, <1>5 DEF ReleaseLease, LeasesTyped, ReleaseCredentialLease
<1>6. UNCHANGED leaseVars => LeasesTyped'
  BY <1>0 DEF LeasesTyped
<1>7. CASE StartRun(p, r) \/ SelectCredential(p, r) \/ CoolBroken(p, r)
           \/ WriteAuthFile(p, r) \/ Refuse(p, r) \/ PrepareRun(p, r)
           \/ LaunchRun(p, r) \/ LeaveRun(p, r) \/ SettleRun(p, r)
           \/ MissRun(p, r) \/ CleanUpRun(p, r) \/ CountUsage(p, r)
  BY <1>6, <1>7
  DEF StartRun, SelectCredential, CoolBroken, WriteAuthFile, Refuse, PrepareRun, LaunchRun, LeaveRun, SettleRun, MissRun, CleanUpRun, CountUsage
<1> QED BY <1>1, <1>2, <1>3, <1>4, <1>5, <1>7 DEF Supervise

\* A goroutine's steps keep the runs' types.
LEMMA SuperviseRuns ==
    ASSUME CredentialTypeOK, CooldownBroken, NEW p \in Procs, NEW r \in Runs,
           Supervise(p, r)
    PROVE  RunsTyped'
<1> USE DEF runVars
<1>0. RunsTyped
  BY DEF CredentialTypeOK
<1>1. CASE StartRun(p, r)
  BY <1>0, <1>1 DEF StartRun, RunsTyped
<1>2. CASE Refuse(p, r)
  BY <1>0, <1>2 DEF Refuse, RunsTyped
<1>3. CASE PrepareRun(p, r)
  BY <1>0, <1>3 DEF PrepareRun, RunsTyped
<1>4. CASE LaunchRun(p, r)
  BY <1>0, <1>4 DEF LaunchRun, RunsTyped
<1>5. CASE RenewLease(p, r)
  <2>1. container' \in {container, [container EXCEPT ![r] = IF @ = "running" THEN "exited" ELSE @]}
    BY <1>5 DEF RenewLease
  <2>2. container' \in [Runs -> {"absent", "named", "running", "exited"}]
    <3>1. CASE container' = container
      BY <1>0, <3>1 DEF RunsTyped
    <3>2. CASE container' = [container EXCEPT ![r] = IF @ = "running" THEN "exited" ELSE @]
      BY <1>0, <3>2 DEF RunsTyped
    <3> QED BY <2>1, <3>1, <3>2
  <2> QED BY <1>0, <1>5, <2>2 DEF RenewLease, RunsTyped
<1>6. CASE SettleRun(p, r)
  BY <1>0, <1>6 DEF SettleRun, RunsTyped
<1>7. CASE MissRun(p, r)
  BY <1>0, <1>7 DEF MissRun, RunsTyped
<1>8. CASE CleanUpRun(p, r)
  BY <1>0, <1>8 DEF CleanUpRun, RunsTyped
<1>9. UNCHANGED runVars => RunsTyped'
  BY <1>0 DEF RunsTyped
<1>10. CASE Reclaim(p, r) \/ SelectCredential(p, r) \/ CreateLease(p, r)
           \/ OpenCredential(p, r) \/ CoolBroken(p, r) \/ WriteAuthFile(p, r)
           \/ LeaveRun(p, r) \/ ReleaseLease(p, r) \/ CountUsage(p, r)
  BY <1>9, <1>10
  DEF Reclaim, SelectCredential, CreateLease, OpenCredential, CoolBroken, WriteAuthFile, LeaveRun, ReleaseLease, CountUsage
<1> QED BY <1>1, <1>2, <1>3, <1>4, <1>5, <1>6, <1>7, <1>8, <1>10 DEF Supervise

\* A goroutine's steps keep the locals' types.
LEMMA SuperviseLocals ==
    ASSUME CredentialTypeOK, CooldownBroken, NEW p \in Procs, NEW r \in Runs,
           Supervise(p, r)
    PROVE  LocalsTyped'
<1> USE DEF localVars
<1>0. LocalsTyped
  BY DEF CredentialTypeOK
<1>1. CASE SelectCredential(p, r)
  <2>1. PICK recent \in [Creds -> 0..MaxLeases] :
            chosen' = [chosen EXCEPT ![p][r] =
                Select(strategy, UserOf[r], ListCredentialCandidates(UserOf[r], recent))]
    BY <1>0, <1>1 DEF SelectCredential
  <2>2. \A c \in ListCredentialCandidates(UserOf[r], recent) : c.id \in Creds
    <3>1. TAKE c \in ListCredentialCandidates(UserOf[r], recent)
    <3>2. PICK d \in {d \in Creds : Usable(d, UserOf[r])} :
            c = [id |-> d, shared |-> owner[d] = Everyone, owner |-> owner[d],
                 weight |-> Weight[d], runs |-> recent[d],
                 active |-> Cardinality({l \in InForce : with[l] = d})]
      BY Zenon DEF ListCredentialCandidates
    <3> QED BY <3>2
  <2>3. Select(strategy, UserOf[r], ListCredentialCandidates(UserOf[r], recent))
            \in Creds \cup {NoCred}
    BY <2>2, SelectType DEF CredentialTypeOK, OperatorsTyped
  <2> QED BY <1>0, <1>1, <2>1, <2>3 DEF SelectCredential, LocalsTyped
<1>2. CASE CreateLease(p, r)
  <2>1. UNCHANGED chosen
    BY <1>2 DEF CreateLease
  <2>2. \/ UNCHANGED handle
        \/ \E l \in Leases : handle' = [handle EXCEPT ![p][r] = l]
    BY <1>2 DEF CreateLease
  <2>3. \/ UNCHANGED tries
        \/ tries' = [tries EXCEPT ![p][r] = @ + 1]
    BY <1>2 DEF CreateLease
  <2>4. handle' \in [Procs -> [Runs -> Leases \cup {NoLease}]]
    <3>1. CASE UNCHANGED handle
      BY <1>0, <3>1 DEF LocalsTyped
    <3>2. ASSUME NEW l \in Leases, handle' = [handle EXCEPT ![p][r] = l]
          PROVE  handle' \in [Procs -> [Runs -> Leases \cup {NoLease}]]
      BY <1>0, <3>2 DEF LocalsTyped
    <3> QED BY <2>2, <3>1, <3>2
  <2>5. tries' \in [Procs -> [Runs -> Nat]]
    <3>1. CASE UNCHANGED tries
      BY <1>0, <3>1 DEF LocalsTyped
    <3>2. CASE tries' = [tries EXCEPT ![p][r] = @ + 1]
      BY <1>0, <3>2 DEF LocalsTyped
    <3> QED BY <2>3, <3>1, <3>2
  <2> QED BY <1>0, <2>1, <2>4, <2>5 DEF LocalsTyped
<1>3. CASE OpenCredential(p, r)
  <2>1. UNCHANGED handle /\ (AcquireReturns(p, r) \/ UNCHANGED <<chosen, tries>>)
    BY <1>3 DEF OpenCredential
  <2>2. CASE AcquireReturns(p, r)
    BY <1>0, <2>1, <2>2 DEF LocalsTyped, AcquireReturns
  <2>3. CASE UNCHANGED <<chosen, tries>>
    BY <1>0, <2>1, <2>3 DEF LocalsTyped
  <2> QED BY <2>1, <2>2, <2>3
<1>4. CASE Refuse(p, r)
  BY <1>0, <1>4 DEF Refuse, LocalsTyped, AcquireReturns
<1>5. CASE CleanUpRun(p, r)
  <2>1. UNCHANGED handle \/ handle' = [handle EXCEPT ![p][r] = NoLease]
    BY <1>5 DEF CleanUpRun
  <2>2. UNCHANGED <<chosen, tries>>
    BY <1>5 DEF CleanUpRun
  <2>3. handle' \in [Procs -> [Runs -> Leases \cup {NoLease}]]
    <3>1. CASE UNCHANGED handle
      BY <1>0, <3>1 DEF LocalsTyped
    <3>2. CASE handle' = [handle EXCEPT ![p][r] = NoLease]
      BY <1>0, <3>2 DEF LocalsTyped
    <3> QED BY <2>1, <3>1, <3>2
  <2> QED BY <1>0, <2>2, <2>3 DEF LocalsTyped
<1>6. CASE ReleaseLease(p, r)
  BY <1>0, <1>6 DEF ReleaseLease, LocalsTyped, LetGo
<1>7. CASE CountUsage(p, r)
  BY <1>0, <1>7 DEF CountUsage, LocalsTyped, LetGo
<1>8. UNCHANGED localVars => LocalsTyped'
  BY <1>0 DEF LocalsTyped
<1>9. CASE StartRun(p, r) \/ Reclaim(p, r) \/ CoolBroken(p, r)
           \/ WriteAuthFile(p, r) \/ PrepareRun(p, r) \/ LaunchRun(p, r)
           \/ RenewLease(p, r) \/ LeaveRun(p, r) \/ SettleRun(p, r)
           \/ MissRun(p, r)
  BY <1>8, <1>9
  DEF StartRun, Reclaim, CoolBroken, WriteAuthFile, PrepareRun, LaunchRun, RenewLease, LeaveRun, SettleRun, MissRun
<1> QED BY <1>1, <1>2, <1>3, <1>4, <1>5, <1>6, <1>7, <1>9 DEF Supervise

\* What a goroutine's step does to the leases: it may acquire one; else it opens
\* none, and holds on to its handle or lets go of it.
Acquires(p, r) ==
    \E l \in Leases :
        /\ of[l] = NoRun
        /\ CanLease(chosen[p][r], r)
        /\ TryCreateCredentialLease(l, chosen[p][r], r)
        /\ handle' = [handle EXCEPT ![p][r] = l]

OpensNone == UNCHANGED <<with, of>> /\ open' \subseteq open /\ fresh' \subseteq fresh

LEMMA SuperviseAcquires ==
    ASSUME NEW p \in Procs, NEW r \in Runs, Supervise(p, r)
    PROVE  \/ Acquires(p, r)
           \/ /\ OpensNone
              /\ \/ UNCHANGED handle
                 \/ handle' = [handle EXCEPT ![p][r] = NoLease]
<1> USE DEF OpensNone, leaseVars, localVars
<1>1. CASE CreateLease(p, r)
  BY <1>1 DEF CreateLease, Acquires
<1>2. CASE Reclaim(p, r)
  BY <1>2 DEF Reclaim, ReclaimExpiredCredentialLeases
<1>3. CASE RenewLease(p, r)
  BY <1>3 DEF RenewLease, RenewCredentialLease, Renewable, InForce
<1>4. CASE OpenCredential(p, r)
  BY <1>4 DEF OpenCredential, ReleaseCredentialLease
<1>5. CASE ReleaseLease(p, r)
  BY <1>5 DEF ReleaseLease, ReleaseCredentialLease, LetGo
<1>6. CASE CleanUpRun(p, r) \/ Refuse(p, r) \/ CountUsage(p, r)
  BY <1>6 DEF CleanUpRun, Refuse, CountUsage, LetGo
<1>7. CASE StartRun(p, r) \/ SelectCredential(p, r) \/ CoolBroken(p, r)
           \/ WriteAuthFile(p, r) \/ PrepareRun(p, r) \/ LaunchRun(p, r)
           \/ LeaveRun(p, r) \/ SettleRun(p, r) \/ MissRun(p, r)
  BY <1>7
  DEF StartRun, SelectCredential, CoolBroken, WriteAuthFile, PrepareRun,
      LaunchRun, LeaveRun, SettleRun, MissRun
<1> QED BY <1>1, <1>2, <1>3, <1>4, <1>5, <1>6, <1>7 DEF Supervise

\* Where it goes: to a cooldown only with a credential that could not be opened.
LEMMA SuperviseMoves ==
    ASSUME NEW p \in Procs, NEW r \in Runs, Supervise(p, r)
    PROVE  \/ UNCHANGED <<pc, chosen>>
           \/ \E l \in Steps \ {"cooldown"} : Goto(p, r, l)
           \/ Goto(p, r, "cooldown") /\ chosen[p][r] \in Broken /\ UNCHANGED chosen
<1> USE DEF Steps, localVars
<1>1. CASE StartRun(p, r)
  BY <1>1 DEF StartRun
<1>2. CASE Reclaim(p, r)
  BY <1>2 DEF Reclaim
<1>3. CASE SelectCredential(p, r)
  BY <1>3 DEF SelectCredential
<1>4. CASE CreateLease(p, r)
  BY <1>4 DEF CreateLease
<1>5. CASE OpenCredential(p, r)
  BY <1>5 DEF OpenCredential
<1>6. CASE CoolBroken(p, r)
  BY <1>6 DEF CoolBroken
<1>7. CASE WriteAuthFile(p, r)
  BY <1>7 DEF WriteAuthFile
<1>8. CASE Refuse(p, r)
  BY <1>8 DEF Refuse
<1>9. CASE PrepareRun(p, r)
  BY <1>9 DEF PrepareRun
<1>10. CASE LaunchRun(p, r)
  BY <1>10 DEF LaunchRun
<1>11. CASE RenewLease(p, r)
  BY <1>11 DEF RenewLease
<1>12. CASE LeaveRun(p, r)
  BY <1>12 DEF LeaveRun
<1>13. CASE SettleRun(p, r)
  BY <1>13 DEF SettleRun
<1>14. CASE MissRun(p, r)
  BY <1>14 DEF MissRun
<1>15. CASE CleanUpRun(p, r)
  BY <1>15 DEF CleanUpRun
<1>16. CASE ReleaseLease(p, r)
  BY <1>16 DEF ReleaseLease, LetGo
<1>17. CASE CountUsage(p, r)
  BY <1>17 DEF CountUsage, LetGo
<1> QED BY <1>1, <1>2, <1>3, <1>4, <1>5, <1>6, <1>7, <1>8, <1>9, <1>10, <1>11, <1>12, <1>13, <1>14, <1>15, <1>16, <1>17
  DEF Supervise

LEMMA SuperviseChooses ==
    ASSUME NEW p \in Procs, NEW r \in Runs, Supervise(p, r)
    PROVE  UNCHANGED chosen \/ \E c : chosen' = [chosen EXCEPT ![p][r] = c]
<1> USE DEF localVars
<1>1. CASE SelectCredential(p, r) \/ OpenCredential(p, r) \/ Refuse(p, r)
  BY <1>1 DEF SelectCredential, OpenCredential, Refuse, AcquireReturns
<1>2. CASE StartRun(p, r) \/ Reclaim(p, r) \/ CreateLease(p, r)
           \/ CoolBroken(p, r) \/ WriteAuthFile(p, r) \/ PrepareRun(p, r)
           \/ LaunchRun(p, r) \/ RenewLease(p, r) \/ LeaveRun(p, r)
           \/ SettleRun(p, r) \/ MissRun(p, r) \/ CleanUpRun(p, r)
           \/ ReleaseLease(p, r) \/ CountUsage(p, r)
  BY <1>2
  DEF StartRun, Reclaim, CreateLease, CoolBroken, WriteAuthFile,
      PrepareRun, LaunchRun, RenewLease, LeaveRun, SettleRun, MissRun,
      CleanUpRun, ReleaseLease, CountUsage
<1> QED BY <1>1, <1>2 DEF Supervise

LEMMA SuperviseProcesses ==
    ASSUME LeaseInv, NEW p \in Procs, NEW r \in Runs, Supervise(p, r), UNCHANGED procVars
    PROVE  ProcessesTyped' /\ CooldownBroken'
<1>0. ProcessesTyped /\ LocalsTyped
  BY DEF LeaseInv, CredentialTypeOK
<1>1. pc' \in [Procs -> [Runs -> Steps]]
  <2>1. CASE UNCHANGED pc
    BY <1>0, <2>1 DEF ProcessesTyped
  <2>2. ASSUME NEW l \in Steps, Goto(p, r, l)
        PROVE  pc' \in [Procs -> [Runs -> Steps]]
    BY <1>0, <2>2 DEF ProcessesTyped, Goto
  <2>3. "cooldown" \in Steps
    BY DEF Steps
  <2> QED BY <2>1, <2>2, <2>3, SuperviseMoves
<1>2. ASSUME NEW q \in Procs, NEW s \in Runs, pc'[q][s] = "cooldown"
      PROVE  chosen'[q][s] \in Broken
  <2>1. CASE UNCHANGED <<pc, chosen>>
    BY <1>2, <2>1 DEF LeaseInv, CooldownBroken
  <2>2. ASSUME NEW l \in Steps \ {"cooldown"}, Goto(p, r, l)
        PROVE  chosen'[q][s] \in Broken
    <3>1. q # p \/ s # r
      BY <1>0, <1>2, <2>2 DEF ProcessesTyped, Goto
    <3>2. pc[q][s] = "cooldown"
      BY <1>0, <1>2, <2>2, <3>1 DEF ProcessesTyped, Goto
    <3>3. chosen'[q][s] = chosen[q][s]
      <4>1. CASE UNCHANGED chosen
        BY <4>1
      <4>2. ASSUME NEW c, chosen' = [chosen EXCEPT ![p][r] = c]
            PROVE  chosen'[q][s] = chosen[q][s]
        BY <1>0, <3>1, <4>2 DEF LocalsTyped
      <4> QED BY <4>1, <4>2, SuperviseChooses
    <3> QED BY <3>2, <3>3 DEF LeaseInv, CooldownBroken
  <2>3. CASE Goto(p, r, "cooldown") /\ chosen[p][r] \in Broken /\ UNCHANGED chosen
    <3>1. CASE q = p /\ s = r
      BY <2>3, <3>1
    <3>2. CASE q # p \/ s # r
      <4>1. pc[q][s] = "cooldown"
        BY <1>0, <1>2, <2>3, <3>2 DEF ProcessesTyped, Goto
      <4> QED BY <2>3, <4>1 DEF LeaseInv, CooldownBroken
    <3> QED BY <3>1, <3>2
  <2> QED BY <2>1, <2>2, <2>3, SuperviseMoves
<1> QED BY <1>0, <1>1, <1>2 DEF ProcessesTyped, CooldownBroken, procVars

\* A step that opens no lease and changes no handle, but to let go of it.
LEMMA OpensNoneLinked ==
    ASSUME LeaseInv, OpensNone,
           \A q \in Procs, s \in Runs : handle'[q][s] \in {handle[q][s], NoLease}
    PROVE  LeasesLinked' /\ OneLeasePerRun'
<1>1. LeasesLinked'
  BY DEF LeaseInv, CredentialTypeOK, LeasesLinked, OpensNone
<1>2. OneLeasePerRun'
  BY DEF LeaseInv, OneLeasePerRun, InForce, OpensNone
<1> QED BY <1>1, <1>2

\* A lease acquired is the only one of its run in force.
LEMMA AcquiresLinked ==
    ASSUME LeaseInv, NEW p \in Procs, NEW r \in Runs, Acquires(p, r)
    PROVE  LeasesLinked' /\ OneLeasePerRun'
<1> PICK l \in Leases :
        /\ of[l] = NoRun
        /\ CanLease(chosen[p][r], r)
        /\ TryCreateCredentialLease(l, chosen[p][r], r)
        /\ handle' = [handle EXCEPT ![p][r] = l]
  BY DEF Acquires
<1> DEFINE c == chosen[p][r]
<1>0. LeasesTyped /\ LocalsTyped /\ LeasesLinked
  BY DEF LeaseInv, CredentialTypeOK
<1>1. c \in Creds /\ c # NoCred /\ r # NoRun
  BY CredentialConstants DEF CanLease
<1>2. /\ with' = [with EXCEPT ![l] = c]
      /\ of' = [of EXCEPT ![l] = r]
      /\ open' = open \cup {l}
      /\ fresh' = fresh \cup {l}
  BY DEF TryCreateCredentialLease
<1>3. \A k \in Leases : k # l => with'[k] = with[k] /\ of'[k] = of[k]
  BY <1>0, <1>2 DEF LeasesTyped
<1>4. with'[l] = c /\ of'[l] = r
  BY <1>0, <1>2 DEF LeasesTyped
<1>5. \A k \in Leases : with'[k] = NoCred <=> of'[k] = NoRun
  BY <1>0, <1>1, <1>3, <1>4 DEF LeasesLinked
<1>6. \A k \in open' : of'[k] # NoRun
  BY <1>0, <1>1, <1>2, <1>3, <1>4 DEF LeasesLinked, LeasesTyped
<1>7. ASSUME NEW q \in Procs, NEW s \in Runs, handle'[q][s] # NoLease
      PROVE  of'[handle'[q][s]] = s
  <2>1. CASE q = p /\ s = r
    BY <1>0, <1>4, <2>1 DEF LocalsTyped
  <2>2. CASE q # p \/ s # r
    <3>1. handle'[q][s] = handle[q][s]
      BY <1>0, <2>2 DEF LocalsTyped
    <3>2. of[handle[q][s]] = s /\ handle[q][s] \in Leases
      BY <1>0, <1>7, <3>1 DEF LeasesLinked, LocalsTyped
    <3>3. handle[q][s] # l
      BY <3>2, CredentialConstants
    <3> QED BY <1>3, <3>1, <3>2, <3>3
  <2> QED BY <2>1, <2>2
<1>8. OneLeasePerRun'
  <2> SUFFICES ASSUME NEW j \in (open' \cap fresh'), NEW k \in (open' \cap fresh'), of'[j] = of'[k]
               PROVE  j = k
    BY DEF OneLeasePerRun, InForce
  <2>1. \A i \in InForce : of[i] # r
    BY DEF CanLease
  <2>2. \A i \in open' \cap fresh' : i = l \/ (i \in Leases /\ i # l /\ of'[i] = of[i])
    BY <1>0, <1>2, <1>3 DEF LeasesTyped
  <2>3. \A i \in open' \cap fresh' : i # l => i \in open /\ of'[i] = of[i]
    BY <1>2, <2>2
  <2>4. \A i \in open' \cap fresh' : i # l => i \in InForce
    BY <1>2 DEF InForce
  <2> QED BY <1>4, <2>1, <2>3, <2>4 DEF LeaseInv, OneLeasePerRun
<1> QED BY <1>5, <1>6, <1>7, <1>8 DEF LeasesLinked

LEMMA SuperviseLinked ==
    ASSUME LeaseInv, NEW p \in Procs, NEW r \in Runs, Supervise(p, r)
    PROVE  LeasesLinked' /\ OneLeasePerRun'
<1>1. CASE Acquires(p, r)
  BY <1>1, AcquiresLinked
<1>2. CASE OpensNone /\ UNCHANGED handle
  BY <1>2, OpensNoneLinked
<1>3. CASE OpensNone /\ handle' = [handle EXCEPT ![p][r] = NoLease]
  <2>1. \A q \in Procs, s \in Runs : handle'[q][s] \in {handle[q][s], NoLease}
    BY <1>3 DEF LeaseInv, CredentialTypeOK, LocalsTyped
  <2> QED BY <1>3, <2>1, OpensNoneLinked
<1> QED BY <1>1, <1>2, <1>3, SuperviseAcquires

LEMMA SuperviseInv ==
    ASSUME LeaseInv, NEW p \in Procs, NEW r \in Runs, Supervise(p, r),
           UNCHANGED <<strategy, procVars, operatorVars>>
    PROVE  LeaseInv'
<1>1. CredentialsTyped' /\ LeasesTyped' /\ RunsTyped' /\ LocalsTyped'
  BY SuperviseCredentials, SuperviseLeases, SuperviseRuns, SuperviseLocals DEF LeaseInv
<1>2. ProcessesTyped' /\ CooldownBroken'
  BY SuperviseProcesses
<1>3. OperatorsTyped'
  BY DEF LeaseInv, CredentialTypeOK, OperatorsTyped, operatorVars
<1>4. LeasesLinked' /\ OneLeasePerRun'
  BY SuperviseLinked
<1> QED BY <1>1, <1>2, <1>3, <1>4 DEF LeaseInv, CredentialTypeOK

\* A step that leaves leases and credentials alone keeps what is said of them.
LEMMA ProcessInv ==
    ASSUME LeaseInv, ProcessesTyped', LocalsTyped', RunsTyped', CooldownBroken',
           UNCHANGED <<credVars, leaseVars, strategy, operatorVars>>,
           \A p \in Procs, r \in Runs : handle'[p][r] # NoLease => of[handle'[p][r]] = r
    PROVE  LeaseInv'
<1>1. CredentialsTyped' /\ LeasesTyped' /\ OperatorsTyped'
  BY DEF LeaseInv, CredentialTypeOK, CredentialsTyped, LeasesTyped, OperatorsTyped,
         credVars, leaseVars, operatorVars
<1>2. LeasesLinked'
  BY DEF LeaseInv, CredentialTypeOK, LeasesLinked, leaseVars
<1>3. OneLeasePerRun'
  BY DEF LeaseInv, OneLeasePerRun, InForce, leaseVars
<1> QED BY <1>1, <1>2, <1>3 DEF LeaseInv, CredentialTypeOK

LEMMA BootOrStop ==
    ASSUME LeaseInv, NEW p \in Procs, Boot(p) \/ StopRunSupervisors(p),
           UNCHANGED <<strategy, operatorVars>>
    PROVE  LeaseInv'
<1> USE DEF runVars, localVars
<1>0. ProcessesTyped /\ LocalsTyped /\ RunsTyped /\ LeasesLinked /\ CooldownBroken
  BY DEF LeaseInv, CredentialTypeOK
<1>1. UNCHANGED <<credVars, leaseVars, runVars, pc, localVars>>
  BY DEF Boot, StopRunSupervisors
<1>2. ProcessesTyped'
  <2>1. CASE Boot(p)
    BY <1>0, <1>1, <2>1 DEF Boot, ProcessesTyped
  <2>2. CASE StopRunSupervisors(p)
    BY <1>0, <1>1, <2>2 DEF StopRunSupervisors, ProcessesTyped
  <2> QED BY <2>1, <2>2
<1>3. LocalsTyped' /\ RunsTyped' /\ CooldownBroken'
  BY <1>0, <1>1 DEF LocalsTyped, RunsTyped, CooldownBroken
<1>4. \A q \in Procs, s \in Runs : handle'[q][s] # NoLease => of[handle'[q][s]] = s
  BY <1>0, <1>1 DEF LeasesLinked
<1> QED BY <1>1, <1>2, <1>3, <1>4, ProcessInv

LEMMA DieInv ==
    ASSUME LeaseInv, NEW p \in Procs, Die(p), UNCHANGED <<strategy, operatorVars>>
    PROVE  LeaseInv'
<1>0. ProcessesTyped /\ LocalsTyped /\ RunsTyped /\ LeasesLinked /\ CooldownBroken
  BY DEF LeaseInv, CredentialTypeOK
<1>1. ProcessesTyped'
  BY <1>0 DEF Die, ProcessesTyped, Steps
<1>2. LocalsTyped'
  BY <1>0 DEF Die, LocalsTyped
<1>3. RunsTyped'
  BY <1>0 DEF Die, RunsTyped, runVars
<1>4. CooldownBroken'
  <2> SUFFICES ASSUME NEW q \in Procs, NEW s \in Runs, pc'[q][s] = "cooldown"
               PROVE  chosen'[q][s] \in Broken
    BY DEF CooldownBroken
  <2>1. q # p /\ pc[q][s] = "cooldown"
    BY <1>0 DEF Die, ProcessesTyped
  <2>2. chosen'[q][s] = chosen[q][s]
    BY <1>0, <2>1 DEF Die, LocalsTyped
  <2> QED BY <1>0, <2>1, <2>2 DEF CooldownBroken
<1>5. \A q \in Procs, s \in Runs : handle'[q][s] # NoLease => of[handle'[q][s]] = s
  BY <1>0 DEF Die, LeasesLinked
<1>6. UNCHANGED <<credVars, leaseVars>>
  BY DEF Die
<1> QED BY <1>1, <1>2, <1>3, <1>4, <1>5, <1>6, ProcessInv

\* The lease found for an adopted run is a lease of that run.
LEMMA AdoptedLease ==
    ASSUME LeasesTyped, NEW r \in Runs,
           GetActiveCredentialLeaseByRunID(r) # NoLease
    PROVE  /\ GetActiveCredentialLeaseByRunID(r) \in Leases
           /\ of[GetActiveCredentialLeaseByRunID(r)] = r
<1> DEFINE newest == {l \in open : of[l] = r /\ \A k \in open : of[k] = r => k <= l}
<1>1. newest # {} /\ GetActiveCredentialLeaseByRunID(r) \in newest
  BY DEF GetActiveCredentialLeaseByRunID
<1> QED BY <1>1 DEF LeasesTyped

LEMMA RecoverInv ==
    ASSUME LeaseInv, NEW p \in Procs, NEW r \in Runs, RecoverRun(p, r),
           UNCHANGED <<strategy, operatorVars>>
    PROVE  LeaseInv'
<1>0. ProcessesTyped /\ LocalsTyped /\ RunsTyped /\ LeasesTyped /\ LeasesLinked /\ CooldownBroken
  BY DEF LeaseInv, CredentialTypeOK
<1>1. UNCHANGED <<credVars, leaseVars, container, lost, proc, chosen, tries>>
      /\ todo' = [todo EXCEPT ![p] = @ \ {r}]
  BY DEF RecoverRun
<1>2. CASE /\ handle' = [handle EXCEPT ![p][r] = GetActiveCredentialLeaseByRunID(r)]
           /\ UNCHANGED leaseOwner \/ leaseOwner' = [leaseOwner EXCEPT ![r] = p]
           /\ Goto(p, r, "supervise") \/ Goto(p, r, "settle")
           /\ UNCHANGED phase
  <2>1. ProcessesTyped'
    <3>1. todo' \in [Procs -> SUBSET Runs] /\ proc' = proc
      BY <1>0, <1>1 DEF ProcessesTyped
    <3>2. CASE Goto(p, r, "supervise")
      BY <1>0, <3>1, <3>2 DEF ProcessesTyped, Goto, Steps
    <3>3. CASE Goto(p, r, "settle")
      BY <1>0, <3>1, <3>3 DEF ProcessesTyped, Goto, Steps
    <3> QED BY <1>2, <3>2, <3>3
  <2>2. GetActiveCredentialLeaseByRunID(r) \in Leases \cup {NoLease}
    BY <1>0, AdoptedLease
  <2>3. LocalsTyped'
    BY <1>0, <1>1, <1>2, <2>2 DEF LocalsTyped
  <2>4. RunsTyped'
    <3>1. CASE UNCHANGED leaseOwner
      BY <1>0, <1>1, <1>2, <3>1 DEF RunsTyped
    <3>2. CASE leaseOwner' = [leaseOwner EXCEPT ![r] = p]
      BY <1>0, <1>1, <1>2, <3>2 DEF RunsTyped
    <3> QED BY <1>2, <3>1, <3>2
  <2>5. CooldownBroken'
    BY <1>0, <1>1, <1>2 DEF CooldownBroken, Goto, ProcessesTyped
  <2>6. \A q \in Procs, s \in Runs : handle'[q][s] # NoLease => of[handle'[q][s]] = s
    <3> TAKE q \in Procs, s \in Runs
    <3>1. CASE q = p /\ s = r
      BY <1>0, <1>2, <3>1, AdoptedLease DEF LocalsTyped
    <3>2. CASE q # p \/ s # r
      BY <1>0, <1>2, <3>2 DEF LocalsTyped, LeasesLinked
    <3> QED BY <3>1, <3>2
  <2> QED BY <1>1, <2>1, <2>3, <2>4, <2>5, <2>6, ProcessInv
<1>3. CASE /\ phase' \in {phase, [phase EXCEPT ![r] = IF @ = "running" THEN "queued" ELSE @]}
           /\ UNCHANGED <<handle, leaseOwner, pc>>
  <2>1. ProcessesTyped' /\ LocalsTyped' /\ CooldownBroken'
    BY <1>0, <1>1, <1>3 DEF ProcessesTyped, LocalsTyped, CooldownBroken
  <2>2. RunsTyped'
    <3>1. phase' \in [Runs -> {"queued", "running", "done"}]
      <4>1. CASE phase' = phase
        BY <1>0, <4>1 DEF RunsTyped
      <4>2. CASE phase' = [phase EXCEPT ![r] = IF @ = "running" THEN "queued" ELSE @]
        BY <1>0, <4>2 DEF RunsTyped
      <4> QED BY <1>3, <4>1, <4>2
    <3> QED BY <1>0, <1>1, <1>3, <3>1 DEF RunsTyped
  <2>3. \A q \in Procs, s \in Runs : handle'[q][s] # NoLease => of[handle'[q][s]] = s
    BY <1>0, <1>3 DEF LeasesLinked
  <2> QED BY <1>1, <2>1, <2>2, <2>3, ProcessInv
<1> QED BY <1>2, <1>3 DEF RecoverRun


\* A request to change a credential keeps the column's types.
LEMMA PatchedTyped ==
    ASSUME CredentialsTyped, OperatorsTyped, patch # NoPatch, NEW row \in Patched
    PROVE  /\ patch.cred \in Creds
           /\ row.status \in {"active", "disabled", "cooldown"}
           /\ row.owner \in Users \cup {Everyone}
<1>1. row \in Patches /\ row.cred = patch.cred
  BY DEF Patched
<1> QED BY <1>1 DEF Patches

\* What is neither a goroutine nor a process opens no lease, and touches nothing
\* of theirs.
LEMMA WorldOpensNone ==
    ASSUME World
    PROVE  OpensNone
<1> USE DEF OpensNone, leaseVars
<1>1. CASE UNCHANGED leaseVars
  BY <1>1
<1>2. ASSUME NEW l \in Leases, LeaseExpires(l) PROVE OpensNone
  BY <1>2 DEF LeaseExpires
<1>3. ASSUME NEW r \in Runs, ContainerExits(r) PROVE OpensNone
  BY <1>3 DEF ContainerExits
<1> QED BY <1>1, <1>2, <1>3 DEF World

LEMMA WorldCredentials ==
    ASSUME LeaseInv, World
    PROVE  CredentialsTyped' /\ (patch' \in Patches \cup {NoPatch}) /\ requests' \in Nat
<1> USE DEF credVars, operatorVars
<1>0. CredentialsTyped /\ OperatorsTyped
  BY DEF LeaseInv, CredentialTypeOK
<1>1. CASE UNCHANGED <<credVars, operatorVars>>
  BY <1>0, <1>1 DEF CredentialsTyped, OperatorsTyped
<1>2. CASE UpdateCredential
  <2>1. PICK row \in Patched :
            /\ SetCredentialStatus(patch.cred, row.status, row.cool)
            /\ owner' = [owner EXCEPT ![patch.cred] = row.owner]
    BY <1>2 DEF UpdateCredential
  <2>2. patch # NoPatch /\ patch' = NoPatch /\ UNCHANGED <<usage, requests>>
    BY <1>2 DEF UpdateCredential
  <2>3. /\ patch.cred \in Creds
        /\ row.status \in {"active", "disabled", "cooldown"}
        /\ row.owner \in Users \cup {Everyone}
    BY <1>0, <2>2, PatchedTyped
  <2>4. status' \in [Creds -> {"absent", "active", "disabled", "cooldown"}] /\ cooling' \subseteq Creds
    BY <1>0, <2>1, <2>3 DEF SetCredentialStatus, CredentialsTyped
  <2>5. owner' \in [Creds -> Users \cup {Everyone}]
    BY <1>0, <2>1, <2>3 DEF CredentialsTyped
  <2> QED BY <1>0, <2>2, <2>4, <2>5 DEF CredentialsTyped, OperatorsTyped
<1>3. ASSUME NEW c \in Patchable, LoadCredential(c)
      PROVE  CredentialsTyped' /\ (patch' \in Patches \cup {NoPatch}) /\ requests' \in Nat
  <2>1. c \in Creds
    BY CredentialConstants
  <2>2. CredentialsTyped' /\ requests' \in Nat
    BY <1>0, <1>3 DEF LoadCredential, CredentialsTyped, OperatorsTyped
  <2>3. patch' \in Patches
    BY <1>0, <1>3, <2>1 DEF LoadCredential, CredentialsTyped, Patches
  <2> QED BY <2>2, <2>3
<1>4. ASSUME NEW c \in Patchable, DisableCredential(c)
      PROVE  CredentialsTyped' /\ (patch' \in Patches \cup {NoPatch}) /\ requests' \in Nat
  <2>1. c \in Creds
    BY CredentialConstants
  <2> QED BY <1>0, <1>4, <2>1
          DEF DisableCredential, SetCredentialStatus, CredentialsTyped, OperatorsTyped
<1>5. ASSUME NEW c \in Creds, CooldownEnds(c)
      PROVE  CredentialsTyped' /\ (patch' \in Patches \cup {NoPatch}) /\ requests' \in Nat
  BY <1>0, <1>5 DEF CooldownEnds, CredentialsTyped, OperatorsTyped
<1>6. ASSUME NEW c \in Creds, HandleCredentials(c)
      PROVE  CredentialsTyped' /\ (patch' \in Patches \cup {NoPatch}) /\ requests' \in Nat
  <2>1. Owner0[c] \in Users \cup {Everyone}
    BY CredentialConstants
  <2> QED BY <1>0, <1>6, <2>1
          DEF HandleCredentials, CreateCredential, CredentialsTyped, OperatorsTyped
<1> QED BY <1>1, <1>2, <1>3, <1>4, <1>5, <1>6 DEF World

LEMMA WorldRuns ==
    ASSUME RunsTyped, World
    PROVE  RunsTyped'
<1>1. CASE UNCHANGED runVars
  BY <1>1 DEF runVars, RunsTyped
<1>2. ASSUME NEW r \in Runs, ContainerExits(r) PROVE RunsTyped'
  BY <1>2 DEF ContainerExits, RunsTyped
<1>3. ASSUME NEW l \in Leases, LeaseExpires(l) PROVE RunsTyped'
  BY <1>3 DEF LeaseExpires, RunsTyped, runVars
<1> QED BY <1>1, <1>2, <1>3 DEF World

LEMMA WorldInv ==
    ASSUME LeaseInv, World, UNCHANGED <<strategy, procVars, pc, localVars>>
    PROVE  LeaseInv'
<1>0. LeasesTyped /\ RunsTyped /\ ProcessesTyped /\ LocalsTyped /\ OperatorsTyped /\ CooldownBroken
  BY DEF LeaseInv, CredentialTypeOK
<1>1. ProcessesTyped' /\ LocalsTyped' /\ CooldownBroken'
  BY <1>0 DEF ProcessesTyped, LocalsTyped, CooldownBroken, procVars, localVars
<1>2. LeasesTyped'
  BY <1>0, WorldOpensNone DEF OpensNone, LeasesTyped
<1>3. CredentialsTyped' /\ OperatorsTyped'
  BY <1>0, WorldCredentials DEF OperatorsTyped
<1>4. RunsTyped'
  BY <1>0, WorldRuns
<1>5. LeasesLinked' /\ OneLeasePerRun'
  BY WorldOpensNone, OpensNoneLinked DEF localVars
<1> QED BY <1>1, <1>2, <1>3, <1>4, <1>5 DEF LeaseInv, CredentialTypeOK

LEMMA NextLeaseInv == LeaseInv /\ [Next]_vars => LeaseInv'
<1> SUFFICES ASSUME LeaseInv, [Next]_vars PROVE LeaseInv'
  OBVIOUS
<1>1. ASSUME NEW p \in Procs, NEW r \in Runs, Supervise(p, r),
             UNCHANGED <<strategy, procVars, operatorVars>>
      PROVE  LeaseInv'
  BY <1>1, SuperviseInv
<1>2. ASSUME NEW p \in Procs, UNCHANGED <<strategy, operatorVars>>,
             \/ Boot(p) \/ StopRunSupervisors(p) \/ Die(p)
             \/ \E r \in Runs : RecoverRun(p, r)
      PROVE  LeaseInv'
  BY <1>2, BootOrStop, DieInv, RecoverInv
<1>3. CASE World /\ UNCHANGED <<strategy, procVars, pc, localVars>>
  BY <1>3, WorldInv
<1>4. CASE UNCHANGED vars
  <2>1. OpensNone /\ UNCHANGED <<credVars, strategy, runVars, procVars, pc, localVars, operatorVars>>
    BY <1>4 DEF vars, OpensNone, leaseVars
  <2>2. ProcessesTyped' /\ LocalsTyped' /\ RunsTyped' /\ CooldownBroken'
    BY <2>1 DEF LeaseInv, CredentialTypeOK, ProcessesTyped, LocalsTyped, RunsTyped,
                CooldownBroken, procVars, localVars, runVars
  <2>3. UNCHANGED <<credVars, leaseVars, strategy, operatorVars>>
    BY <1>4 DEF vars
  <2>4. \A p \in Procs, r \in Runs : handle'[p][r] # NoLease => of[handle'[p][r]] = r
    BY <2>1 DEF LeaseInv, CredentialTypeOK, LeasesLinked, localVars
  <2> QED BY <2>2, <2>3, <2>4, ProcessInv
<1> QED BY <1>1, <1>2, <1>3, <1>4 DEF Next

LEMMA LeaseInvHolds == Spec => []LeaseInv
  BY InitLeaseInv, NextLeaseInv, PTL DEF Spec

\* Whatever goroutines, restarts and operators do, every value is of its type,
\* and a handle names a lease of the run it is held for: broker.go never renews
\* or releases the lease of another run.
THEOREM CredentialTypesHold == Spec => []CredentialTypeOK
<1>1. LeaseInv => CredentialTypeOK
  BY DEF LeaseInv
<1> QED BY <1>1, LeaseInvHolds, PTL

\* A run never has two credential leases in force, however often it is executed
\* again and by whichever process: the statement that creates a lease looks for
\* one, and renewing never brings one back.
THEOREM OneLeaseHolds == Spec => []OneLeasePerRun
<1>1. LeaseInv => OneLeasePerRun
  BY DEF LeaseInv
<1> QED BY <1>1, LeaseInvHolds, PTL

-----------------------------------------------------------------------------
(* Who holds an open lease.  A goroutine has no handle before it acquires   *)
(* a lease or adopts a run, and what it still names once it is about to     *)
(* refuse or to count has been given back.  A goroutine that only settles a *)
(* run found ended forgets the lease without a release: it is never the     *)
(* last one to hold it.                                                     *)

EmptyHanded == {"idle", "reclaim", "select", "create"}
GaveBack    == {"refused", "cooldown", "count", "undoCount"}
Settling    == {"settle", "tidy"}
Counting    == {"count", "undoCount"}

\* A run still to recover has no goroutine, nor has a process that is not there.
RecoversFirst ==
    \A p \in Procs, r \in Runs :
        r \in todo[p] \/ proc[p] \in {"unborn", "dead"} => pc[p][r] = "idle"

NothingYet ==
    \A p \in Procs, r \in Runs :
        proc[p] # "dead" /\ pc[p][r] \in EmptyHanded => handle[p][r] = NoLease

GivenBack ==
    \A p \in Procs, r \in Runs : pc[p][r] \in GaveBack => handle[p][r] \notin open

\* NoOrphanLease, by a holder that will not just forget it.
HeldToRelease ==
    \A l \in open : \E p \in Procs :
        handle[p][of[l]] = l /\ pc[p][of[l]] \notin Settling

\* Each lease is counted by the goroutine whose release found it open.
CountedApart ==
    \A p, q \in Procs, r, s \in Runs :
        /\ pc[p][r] \in Counting => handle[p][r] # NoLease
        /\ (/\ pc[p][r] \in Counting /\ pc[q][s] \in Counting
            /\ handle[p][r] = handle[q][s]) => p = q /\ r = s

HoldInv ==
    /\ LeaseInv
    /\ RecoversFirst
    /\ NothingYet
    /\ GivenBack
    /\ HeldToRelease
    /\ CountedApart

LEMMA InitHoldInv == Init => HoldInv
<1> SUFFICES ASSUME Init PROVE HoldInv
  OBVIOUS
<1>1. RecoversFirst /\ NothingYet
  BY DEF Init, RecoversFirst, NothingYet
<1>2. GivenBack /\ HeldToRelease /\ CountedApart
  BY DEF Init, GivenBack, HeldToRelease, CountedApart, Counting
<1> QED BY <1>1, <1>2, InitLeaseInv DEF HoldInv

\* What a step of goroutine (p, r) does to what it holds: besides acquiring, it
\* holds on to its handle, or lets go of it.
HoldsOn(p, r) ==
    /\ OpensNone
    /\ handle'[p][r] = handle[p][r]
    /\ pc'[p][r] \in EmptyHanded => pc[p][r] \in EmptyHanded
    /\ pc'[p][r] \in Settling => pc[p][r] \in Settling
    /\ pc'[p][r] \in GaveBack =>
            pc[p][r] \in EmptyHanded \cup GaveBack \/ handle[p][r] \notin open'
    /\ pc'[p][r] \in Counting => handle[p][r] \in open

LetsGoOf(p, r) ==
    /\ OpensNone
    /\ handle'[p][r] = NoLease
    /\ pc'[p][r] \in {"idle", "refused"}
    /\ pc[p][r] \in GaveBack \cup Settling \/ handle[p][r] \notin open

LEMMA SuperviseHolds ==
    ASSUME LeaseInv, NEW p \in Procs, NEW r \in Runs, Supervise(p, r)
    PROVE  /\ Alive(p)
           /\ r \in todo[p] => pc[p][r] # "idle"
           /\ \A q \in Procs, s \in Runs : q # p \/ s # r =>
                    pc'[q][s] = pc[q][s] /\ handle'[q][s] = handle[q][s]
           /\ \/ Acquires(p, r) /\ pc[p][r] = "create" /\ pc'[p][r] = "open"
              \/ HoldsOn(p, r)
              \/ LetsGoOf(p, r)
<1>0. /\ pc \in [Procs -> [Runs -> Steps]]
      /\ handle \in [Procs -> [Runs -> Leases \cup {NoLease}]]
      /\ open \subseteq Leases /\ NoLease \notin Leases
  BY DEF LeaseInv, CredentialTypeOK, ProcessesTyped, LocalsTyped, LeasesTyped, Leases, NoLease
<1>1. \A l : Goto(p, r, l) =>
            /\ pc'[p][r] = l
            /\ \A q \in Procs, s \in Runs : q # p \/ s # r => pc'[q][s] = pc[q][s]
  BY <1>0 DEF Goto
<1>2. \A h : handle' = [handle EXCEPT ![p][r] = h] =>
            /\ handle'[p][r] = h
            /\ \A q \in Procs, s \in Runs : q # p \/ s # r => handle'[q][s] = handle[q][s]
  BY <1>0
<1>3. UNCHANGED leaseVars => OpensNone
  BY DEF OpensNone, leaseVars
<1> USE DEF At, EmptyHanded, GaveBack, Settling, Counting, HoldsOn, LetsGoOf
<1>4. CASE StartRun(p, r)
  BY <1>1, <1>3, <1>4 DEF StartRun, localVars, Alive
<1>5. CASE Reclaim(p, r)
  <2>1. OpensNone
    BY <1>5 DEF Reclaim, ReclaimExpiredCredentialLeases, OpensNone
  <2> QED BY <1>1, <1>5, <2>1 DEF Reclaim, localVars
<1>6. CASE SelectCredential(p, r)
  BY <1>1, <1>3, <1>6 DEF SelectCredential
<1>7. CASE CreateLease(p, r)
  <2>1. CASE Acquires(p, r) /\ Goto(p, r, "open")
    <3>1. PICK l \in Leases : handle' = [handle EXCEPT ![p][r] = l]
      BY <2>1 DEF Acquires
    <3>2. \A q \in Procs, s \in Runs : q # p \/ s # r => handle'[q][s] = handle[q][s]
      BY <1>2, <3>1
    <3> QED BY <1>1, <1>7, <2>1, <3>2 DEF CreateLease
  <2>2. CASE UNCHANGED <<leaseVars, handle>> /\ (Goto(p, r, "select") \/ Goto(p, r, "refused"))
    BY <1>1, <1>3, <1>7, <2>2 DEF CreateLease
  <2> QED BY <1>7, <2>1, <2>2 DEF CreateLease, Acquires
<1>8. CASE OpenCredential(p, r)
  <2>1. OpensNone
    BY <1>8 DEF OpenCredential, ReleaseCredentialLease, OpensNone
  <2>2. CASE Goto(p, r, "write")
    BY <1>1, <1>8, <2>1, <2>2 DEF OpenCredential
  <2>3. CASE /\ Goto(p, r, "cooldown") \/ Goto(p, r, "refused")
             /\ open' = open \ {handle[p][r]}
    BY <1>1, <1>8, <2>1, <2>3 DEF OpenCredential
  <2> QED BY <1>8, <2>2, <2>3 DEF OpenCredential, ReleaseCredentialLease
<1>9. CASE CoolBroken(p, r)
  BY <1>1, <1>3, <1>9 DEF CoolBroken, localVars
<1>10. CASE WriteAuthFile(p, r)
  BY <1>1, <1>3, <1>10 DEF WriteAuthFile, localVars
<1>11. CASE Refuse(p, r)
  <2>1. handle' = [handle EXCEPT ![p][r] = NoLease] /\ Goto(p, r, "idle") /\ OpensNone
    BY <1>3, <1>11 DEF Refuse
  <2>2. Alive(p) /\ pc[p][r] = "refused"
    BY <1>11 DEF Refuse
  <2>3. /\ handle'[p][r] = NoLease
        /\ \A q \in Procs, s \in Runs : q # p \/ s # r => handle'[q][s] = handle[q][s]
    BY <1>2, <2>1
  <2> QED BY <1>1, <2>1, <2>2, <2>3
<1>12. CASE PrepareRun(p, r)
  BY <1>1, <1>3, <1>12 DEF PrepareRun, localVars
<1>13. CASE LaunchRun(p, r)
  BY <1>1, <1>3, <1>13 DEF LaunchRun, localVars
<1>14. CASE RenewLease(p, r)
  <2>1. OpensNone
    BY <1>14 DEF RenewLease, RenewCredentialLease, Renewable, InForce, OpensNone
  <2> QED BY <1>14, <2>1 DEF RenewLease, localVars
<1>15. CASE LeaveRun(p, r)
  BY <1>1, <1>3, <1>15 DEF LeaveRun, localVars
<1>16. CASE SettleRun(p, r)
  BY <1>1, <1>3, <1>16 DEF SettleRun, localVars
<1>17. CASE MissRun(p, r)
  BY <1>1, <1>3, <1>17 DEF MissRun, localVars
<1>18. CASE CleanUpRun(p, r)
  BY <1>1, <1>2, <1>3, <1>18 DEF CleanUpRun
<1>19. CASE ReleaseLease(p, r)
  <2>1. OpensNone /\ open' = open \ {handle[p][r]}
    BY <1>19 DEF ReleaseLease, ReleaseCredentialLease, OpensNone, leaseVars
  <2>2. CASE handle[p][r] \in open
    BY <1>1, <1>19, <2>1, <2>2 DEF ReleaseLease
  <2>3. CASE handle[p][r] \notin open
    BY <1>1, <1>2, <1>19, <2>1, <2>3 DEF ReleaseLease, LetGo
  <2> QED BY <2>2, <2>3
<1>20. CASE CountUsage(p, r)
  <2>1. handle' = [handle EXCEPT ![p][r] = NoLease] /\ OpensNone
    BY <1>3, <1>20 DEF CountUsage, LetGo
  <2>2. Goto(p, r, "idle") \/ Goto(p, r, "refused")
    BY <1>20 DEF CountUsage, LetGo
  <2>3. Alive(p) /\ pc[p][r] \in {"count", "undoCount"}
    BY <1>20 DEF CountUsage
  <2>4. /\ handle'[p][r] = NoLease
        /\ \A q \in Procs, s \in Runs : q # p \/ s # r => handle'[q][s] = handle[q][s]
    BY <1>2, <2>1
  <2> QED BY <1>1, <2>1, <2>2, <2>3, <2>4
<1> QED BY <1>4, <1>5, <1>6, <1>7, <1>8, <1>9, <1>10, <1>11, <1>12, <1>13, <1>14,
           <1>15, <1>16, <1>17, <1>18, <1>19, <1>20 DEF Supervise

LEMMA SuperviseKeepsHold ==
    ASSUME HoldInv, NEW p \in Procs, NEW r \in Runs, Supervise(p, r),
           UNCHANGED <<strategy, procVars, operatorVars>>
    PROVE  HoldInv'
<1>0. /\ LeaseInv /\ RecoversFirst /\ NothingYet /\ GivenBack /\ HeldToRelease /\ CountedApart
      /\ open \subseteq Leases /\ LeasesLinked /\ LeasesTyped
      /\ \A q \in Procs, s \in Runs : handle[q][s] \in Leases \cup {NoLease}
      /\ \A l \in open : of[l] \in Runs
  BY CredentialConstants
  DEF HoldInv, LeaseInv, CredentialTypeOK, LeasesTyped, LocalsTyped, LeasesLinked
<1>1. /\ Alive(p)
      /\ r \in todo[p] => pc[p][r] # "idle"
      /\ \A q \in Procs, s \in Runs : q # p \/ s # r =>
            pc'[q][s] = pc[q][s] /\ handle'[q][s] = handle[q][s]
  BY <1>0, SuperviseHolds
<1>2. RecoversFirst'
  BY <1>0, <1>1 DEF RecoversFirst, Alive, procVars
<1> DEFINE Rest == NothingYet' /\ GivenBack' /\ HeldToRelease' /\ CountedApart'
<1> USE DEF EmptyHanded, GaveBack, Settling, Counting
<1>3. ASSUME Acquires(p, r), pc[p][r] = "create", pc'[p][r] = "open"
      PROVE  Rest
  <2>1. PICK l \in Leases :
            /\ of[l] = NoRun
            /\ TryCreateCredentialLease(l, chosen[p][r], r)
            /\ handle' = [handle EXCEPT ![p][r] = l]
    BY <1>3 DEF Acquires
  <2>2. handle'[p][r] = l /\ handle[p][r] = NoLease
    BY <1>0, <1>1, <1>3, <2>1
    DEF LeaseInv, CredentialTypeOK, LocalsTyped, NothingYet, Alive
  <2>3. /\ open' = open \cup {l}
        /\ of'[l] = r
        /\ \A k \in open : k # l /\ of'[k] = of[k]
    BY <1>0, <2>1, CredentialConstants DEF TryCreateCredentialLease, LeasesTyped, LeasesLinked
  <2>4. NothingYet'
    BY <1>0, <1>1, <1>3 DEF NothingYet, procVars
  <2>5. GivenBack'
    <3> SUFFICES ASSUME NEW q \in Procs, NEW s \in Runs, pc'[q][s] \in GaveBack
                 PROVE  handle'[q][s] \notin open'
      BY DEF GivenBack
    <3>1. q # p \/ s # r
      BY <1>3
    <3>2. handle'[q][s] = handle[q][s] /\ handle[q][s] \notin open
      BY <1>0, <1>1, <3>1 DEF GivenBack
    <3>3. handle[q][s] # l
      BY <1>0, <2>1, CredentialConstants DEF LeasesLinked, Leases, NoLease
    <3> QED BY <2>3, <3>2, <3>3
  <2>6. HeldToRelease'
    <3> SUFFICES ASSUME NEW k \in open'
                 PROVE  \E q \in Procs : handle'[q][of'[k]] = k /\ pc'[q][of'[k]] \notin Settling
      BY DEF HeldToRelease
    <3>1. CASE k = l
      BY <1>3, <2>2, <2>3, <3>1
    <3>2. CASE k \in open
      <4>1. PICK q \in Procs : handle[q][of[k]] = k /\ pc[q][of[k]] \notin Settling
        BY <1>0, <3>2 DEF HeldToRelease
      <4>2. q # p \/ of[k] # r
        BY <1>0, <2>2, <3>2, <4>1 DEF Leases, NoLease
      <4> QED BY <1>0, <1>1, <2>3, <3>2, <4>1, <4>2
    <3> QED BY <2>3, <3>1, <3>2
  <2>7. CountedApart'
    BY <1>0, <1>1, <1>3 DEF CountedApart
  <2> QED BY <2>4, <2>5, <2>6, <2>7
<1>4. ASSUME HoldsOn(p, r) PROVE Rest
  <2>1. /\ open' \subseteq open /\ of' = of
        /\ \A q \in Procs, s \in Runs : handle'[q][s] = handle[q][s]
    BY <1>1, <1>4 DEF HoldsOn, OpensNone
  <2>2. NothingYet'
    BY <1>0, <1>1, <1>4, <2>1 DEF NothingYet, HoldsOn, procVars
  <2>3. GivenBack'
    <3> SUFFICES ASSUME NEW q \in Procs, NEW s \in Runs, pc'[q][s] \in GaveBack
                 PROVE  handle[q][s] \notin open'
      BY <2>1 DEF GivenBack
    <3>1. CASE q # p \/ s # r
      BY <1>0, <1>1, <2>1, <3>1 DEF GivenBack
    <3>2. CASE q = p /\ s = r /\ pc[p][r] \in EmptyHanded
      <4>1. handle[p][r] = NoLease
        BY <1>0, <1>1, <3>2 DEF NothingYet, Alive
      <4> QED BY <1>0, <2>1, <3>2, <4>1 DEF Leases, NoLease
    <3>3. CASE q = p /\ s = r /\ pc[p][r] \in GaveBack
      BY <1>0, <2>1, <3>3 DEF GivenBack
    <3> QED BY <1>4, <3>1, <3>2, <3>3 DEF HoldsOn
  <2>4. HeldToRelease'
    <3> SUFFICES ASSUME NEW k \in open
                 PROVE  \E q \in Procs : handle'[q][of[k]] = k /\ pc'[q][of[k]] \notin Settling
      BY <2>1 DEF HeldToRelease
    <3>1. PICK q \in Procs : handle[q][of[k]] = k /\ pc[q][of[k]] \notin Settling
      BY <1>0 DEF HeldToRelease
    <3> QED BY <1>0, <1>1, <1>4, <2>1, <3>1 DEF HoldsOn
  <2>5. CountedApart'
    <3> SUFFICES ASSUME NEW q \in Procs, NEW q2 \in Procs, NEW s \in Runs, NEW s2 \in Runs,
                        pc'[q][s] \in Counting
                 PROVE  /\ handle[q][s] # NoLease
                        /\ (pc'[q2][s2] \in Counting /\ handle[q][s] = handle[q2][s2])
                                => q = q2 /\ s = s2
      BY <2>1 DEF CountedApart
    <3>1. CASE (q # p \/ s # r) /\ (q2 # p \/ s2 # r)
      BY <1>0, <1>1, <3>1 DEF CountedApart
    <3>2. CASE q = p /\ s = r /\ (q2 # p \/ s2 # r)
      BY <1>0, <1>1, <1>4, <3>2 DEF HoldsOn, GivenBack, Leases, NoLease
    <3>3. CASE (q # p \/ s # r) /\ q2 = p /\ s2 = r
      BY <1>0, <1>1, <1>4, <3>3 DEF HoldsOn, GivenBack, CountedApart
    <3>4. CASE q = p /\ s = r /\ q2 = p /\ s2 = r
      BY <1>0, <1>4, <3>4 DEF HoldsOn, Leases, NoLease
    <3> QED BY <3>1, <3>2, <3>3, <3>4
  <2> QED BY <2>2, <2>3, <2>4, <2>5
<1>5. ASSUME LetsGoOf(p, r) PROVE Rest
  <2>1. open' \subseteq open /\ of' = of /\ handle'[p][r] = NoLease
        /\ pc'[p][r] \in {"idle", "refused"}
    BY <1>5 DEF LetsGoOf, OpensNone
  <2>2. NothingYet'
    BY <1>0, <1>1, <2>1 DEF NothingYet, procVars
  <2>3. GivenBack'
    BY <1>0, <1>1, <2>1 DEF GivenBack, Leases, NoLease
  <2>4. HeldToRelease'
    <3> SUFFICES ASSUME NEW k \in open
                 PROVE  \E q \in Procs : handle'[q][of[k]] = k /\ pc'[q][of[k]] \notin Settling
      BY <2>1 DEF HeldToRelease
    <3>1. PICK q \in Procs : handle[q][of[k]] = k /\ pc[q][of[k]] \notin Settling
      BY <1>0 DEF HeldToRelease
    <3>2. q # p \/ of[k] # r
      BY <1>0, <1>5, <3>1 DEF LetsGoOf, GivenBack
    <3> QED BY <1>0, <1>1, <3>1, <3>2
  <2>5. CountedApart'
    BY <1>0, <1>1, <2>1 DEF CountedApart
  <2> QED BY <2>2, <2>3, <2>4, <2>5
<1>6. Rest
  BY <1>0, <1>3, <1>4, <1>5, SuperviseHolds
<1>7. LeaseInv'
  BY <1>0, SuperviseInv
<1> QED BY <1>2, <1>6, <1>7 DEF HoldInv

\* A step that acquires nothing and moves no handle; a process may end.
LEMMA StandsStillHold ==
    ASSUME HoldInv, LeaseInv', OpensNone, UNCHANGED handle, RecoversFirst',
           \A q \in Procs, s \in Runs :
                \/ pc'[q][s] = pc[q][s] /\ (proc[q] = "dead" => proc'[q] = "dead")
                \/ pc'[q][s] = "idle" /\ proc'[q] = "dead"
    PROVE  HoldInv'
<1> USE DEF EmptyHanded, GaveBack, Settling, Counting, OpensNone
<1>0. \A l \in open : of[l] \in Runs
  BY CredentialConstants
  DEF HoldInv, LeaseInv, CredentialTypeOK, LeasesTyped, LeasesLinked
<1>1. NothingYet'
  BY DEF HoldInv, NothingYet
<1>2. GivenBack'
  BY DEF HoldInv, GivenBack
<1>3. HeldToRelease'
  <2> SUFFICES ASSUME NEW l \in open
               PROVE  \E q \in Procs : handle[q][of[l]] = l /\ pc'[q][of[l]] \notin Settling
    BY DEF HeldToRelease
  <2>1. PICK q \in Procs : handle[q][of[l]] = l /\ pc[q][of[l]] \notin Settling
    BY DEF HoldInv, HeldToRelease
  <2> QED BY <1>0, <2>1
<1>4. CountedApart'
  BY DEF HoldInv, CountedApart
<1> QED BY <1>1, <1>2, <1>3, <1>4 DEF HoldInv

LEMMA BootOrStopHold ==
    ASSUME HoldInv, NEW p \in Procs, Boot(p) \/ StopRunSupervisors(p),
           UNCHANGED <<strategy, operatorVars>>
    PROVE  HoldInv'
<1>1. LeaseInv' /\ ProcessesTyped /\ RecoversFirst
  BY BootOrStop DEF HoldInv, LeaseInv, CredentialTypeOK
<1>2. UNCHANGED <<leaseVars, pc, localVars>>
  BY DEF Boot, StopRunSupervisors
<1>3. \A q \in Procs : q # p => proc'[q] = proc[q] /\ todo'[q] = todo[q]
  BY <1>1 DEF Boot, StopRunSupervisors, ProcessesTyped
<1>4. proc[p] # "dead" /\ proc'[p] \in {"up", "stopping"}
  BY <1>1 DEF Boot, StopRunSupervisors, ProcessesTyped
<1>5. RecoversFirst'
  <2>1. CASE Boot(p)
    BY <1>1, <1>2, <1>3, <1>4, <2>1 DEF Boot, RecoversFirst
  <2>2. CASE StopRunSupervisors(p)
    BY <1>1, <1>2, <1>3, <1>4, <2>2 DEF StopRunSupervisors, RecoversFirst
  <2> QED BY <2>1, <2>2
<1>6. OpensNone /\ UNCHANGED handle
  BY <1>2 DEF OpensNone, leaseVars, localVars
<1>7. \A q \in Procs, s \in Runs :
            pc'[q][s] = pc[q][s] /\ (proc[q] = "dead" => proc'[q] = "dead")
  BY <1>2, <1>3, <1>4
<1> QED BY <1>1, <1>5, <1>6, <1>7, StandsStillHold

LEMMA DieHold ==
    ASSUME HoldInv, NEW p \in Procs, Die(p), UNCHANGED <<strategy, operatorVars>>
    PROVE  HoldInv'
<1>1. LeaseInv' /\ ProcessesTyped /\ RecoversFirst
  BY DieInv DEF HoldInv, LeaseInv, CredentialTypeOK
<1>2. OpensNone /\ UNCHANGED handle
  BY DEF Die, OpensNone, leaseVars
<1>3. /\ proc'[p] = "dead" /\ todo'[p] = {}
      /\ \A s \in Runs : pc'[p][s] = "idle"
      /\ \A q \in Procs : q # p =>
            proc'[q] = proc[q] /\ todo'[q] = todo[q] /\ pc'[q] = pc[q]
  BY <1>1 DEF Die, ProcessesTyped
<1>4. RecoversFirst'
  BY <1>1, <1>3 DEF RecoversFirst
<1> QED BY <1>1, <1>2, <1>3, <1>4, StandsStillHold

\* An adopting goroutine had no handle of its own; the lease it finds open has
\* another holder.
LEMMA RecoverHold ==
    ASSUME HoldInv, NEW p \in Procs, NEW r \in Runs, RecoverRun(p, r),
           UNCHANGED <<strategy, operatorVars>>
    PROVE  HoldInv'
<1> USE DEF EmptyHanded, GaveBack, Settling, Counting
<1>0. /\ LeaseInv' /\ ProcessesTyped /\ LocalsTyped /\ LeasesTyped
      /\ RecoversFirst /\ NothingYet /\ GivenBack /\ HeldToRelease /\ CountedApart
  BY RecoverInv DEF HoldInv, LeaseInv, CredentialTypeOK
<1>1. \A l \in open : of[l] \in Runs
  BY CredentialConstants
  DEF HoldInv, LeaseInv, CredentialTypeOK, LeasesTyped, LeasesLinked
<1>2. /\ UNCHANGED <<open, of, with, fresh, proc>>
      /\ \A q \in Procs : todo'[q] \subseteq todo[q]
      /\ r \notin todo'[p]
      /\ proc[p] = "up" /\ r \in todo[p]
  BY <1>0 DEF RecoverRun, leaseVars, ProcessesTyped
<1>3. pc[p][r] = "idle" /\ handle[p][r] = NoLease
  BY <1>0, <1>2 DEF RecoversFirst, NothingYet
<1>4. CASE UNCHANGED <<handle, pc>>
  <2>1. RecoversFirst'
    BY <1>0, <1>2, <1>4 DEF RecoversFirst
  <2> QED BY <1>0, <1>2, <1>4, <2>1, StandsStillHold DEF OpensNone
<1>5. CASE /\ handle' = [handle EXCEPT ![p][r] = GetActiveCredentialLeaseByRunID(r)]
           /\ Goto(p, r, "supervise") \/ Goto(p, r, "settle")
  <2>1. /\ pc'[p][r] \in {"supervise", "settle"}
        /\ \A q \in Procs, s \in Runs : q # p \/ s # r =>
                pc'[q][s] = pc[q][s] /\ handle'[q][s] = handle[q][s]
    <3>1. CASE Goto(p, r, "supervise")
      BY <1>0, <1>5, <3>1 DEF Goto, ProcessesTyped, LocalsTyped
    <3>2. CASE Goto(p, r, "settle")
      BY <1>0, <1>5, <3>2 DEF Goto, ProcessesTyped, LocalsTyped
    <3> QED BY <1>5, <3>1, <3>2
  <2>2. RecoversFirst'
    BY <1>0, <1>2, <2>1 DEF RecoversFirst
  <2>3. NothingYet' /\ GivenBack' /\ CountedApart'
    BY <1>0, <1>2, <2>1 DEF NothingYet, GivenBack, CountedApart
  <2>4. HeldToRelease'
    <3> SUFFICES ASSUME NEW l \in open
                 PROVE  \E q \in Procs : handle'[q][of[l]] = l /\ pc'[q][of[l]] \notin Settling
      BY <1>2 DEF HeldToRelease
    <3>1. PICK q \in Procs : handle[q][of[l]] = l /\ pc[q][of[l]] \notin Settling
      BY <1>0 DEF HeldToRelease
    <3>2. q # p \/ of[l] # r
      BY <1>0, <1>3, <3>1 DEF LeasesTyped, Leases, NoLease
    <3> QED BY <1>1, <2>1, <3>1, <3>2
  <2> QED BY <1>0, <2>2, <2>3, <2>4 DEF HoldInv
<1> QED BY <1>4, <1>5 DEF RecoverRun

LEMMA NextHoldInv == HoldInv /\ [Next]_vars => HoldInv'
<1> SUFFICES ASSUME HoldInv, [Next]_vars PROVE HoldInv'
  OBVIOUS
<1>1. ASSUME NEW p \in Procs, NEW r \in Runs, Supervise(p, r),
             UNCHANGED <<strategy, procVars, operatorVars>>
      PROVE  HoldInv'
  BY <1>1, SuperviseKeepsHold
<1>2. ASSUME NEW p \in Procs, UNCHANGED <<strategy, operatorVars>>,
             \/ Boot(p) \/ StopRunSupervisors(p) \/ Die(p)
             \/ \E r \in Runs : RecoverRun(p, r)
      PROVE  HoldInv'
  BY <1>2, BootOrStopHold, DieHold, RecoverHold
<1>3. CASE \/ World /\ UNCHANGED <<strategy, procVars, pc, localVars>>
           \/ UNCHANGED vars
  <2>1. LeaseInv' /\ RecoversFirst
    BY NextLeaseInv DEF HoldInv
  <2>2. UNCHANGED <<procVars, pc, localVars>>
    BY <1>3 DEF vars
  <2>3. OpensNone
    BY <1>3, WorldOpensNone DEF OpensNone, vars, leaseVars
  <2>4. RecoversFirst'
    BY <2>1, <2>2 DEF RecoversFirst, procVars
  <2> QED BY <2>1, <2>2, <2>3, <2>4, StandsStillHold DEF procVars, localVars
<1> QED BY <1>1, <1>2, <1>3 DEF Next

LEMMA HoldInvHolds == Spec => []HoldInv
  BY InitHoldInv, NextHoldInv, PTL DEF Spec

\* A credential lease that is not released always has a holder: the goroutine
\* that will release it, or a process that ended with it, from which the next
\* one adopts it.  No error path between Acquire and the supervisor drops one.
THEOREM NoOrphanHolds == Spec => []NoOrphanLease
<1>1. HoldInv => NoOrphanLease
  BY DEF HoldInv, HeldToRelease, NoOrphanLease
<1> QED BY <1>1, HoldInvHolds, PTL

-----------------------------------------------------------------------------
(* What is charged.  For each credential, the goroutines about to count are *)
(* as many different leases of it, and none of them has been counted: each  *)
(* step that puts a goroutine there adds a lease to those given back.       *)

Charging(c) == {h \in Procs \X Runs :
                    /\ pc[h[1]][h[2]] \in {"count", "undoCount"}
                    /\ with[handle[h[1]][h[2]]] = c}

Returned(c) == {l \in Leases \ open : with[l] = c}

LEMMA LeasesFinite == IsFiniteSet(Leases)
  BY CredentialConstants, FS_Interval DEF Leases

\* A goroutine about to count names a lease on record of its own.
LEMMA ChargingFinite ==
    ASSUME HoldInv, NEW c \in Creds
    PROVE  IsFiniteSet(Charging(c)) /\ IsFiniteSet(Returned(c))
<1>1. IsFiniteSet(Returned(c))
  BY LeasesFinite, FS_Subset DEF Returned
<1> DEFINE f == [h \in Charging(c) |-> handle[h[1]][h[2]]]
<1>2. \A h \in Charging(c) : h[1] \in Procs /\ h[2] \in Runs /\ h = <<h[1], h[2]>>
                             /\ pc[h[1]][h[2]] \in Counting
  BY DEF Charging, Counting
<1>3. \A h \in Charging(c) : handle[h[1]][h[2]] \in Leases
  <2>1. \A p \in Procs, r \in Runs : pc[p][r] \in Counting => handle[p][r] # NoLease
    BY DEF HoldInv, CountedApart
  <2>2. \A p \in Procs, r \in Runs : handle[p][r] \in Leases \cup {NoLease}
    BY DEF HoldInv, LeaseInv, CredentialTypeOK, LocalsTyped
  <2> QED BY <1>2, <2>1, <2>2
<1>4. ASSUME NEW g \in Charging(c), NEW h \in Charging(c),
             handle[g[1]][g[2]] = handle[h[1]][h[2]]
      PROVE  g = h
  <2>1. g[1] = h[1] /\ g[2] = h[2]
    BY <1>2, <1>4 DEF HoldInv, CountedApart
  <2> QED BY <1>2, <2>1
<1>5. f \in Injection(Charging(c), Leases)
  BY <1>3, <1>4 DEF Injection, IsInjective
<1>6. IsFiniteSet(Charging(c))
  BY <1>5, LeasesFinite, FS_Injection
<1> QED BY <1>1, <1>6

\* The arithmetic of one step: A counts are on their way of the leases in B.
LEMMA ChargeStep ==
    ASSUME NEW A, NEW B, NEW A2, NEW B2, NEW n \in Nat, NEW n2 \in Nat,
           IsFiniteSet(A), IsFiniteSet(B), IsFiniteSet(B2), B \subseteq B2,
           n + Cardinality(A) <= Cardinality(B),
           \/ A2 \subseteq A /\ n2 = n
           \/ \E h, l : /\ A2 = A \cup {h} /\ l \in B2 \ B /\ n2 = n
           \/ \E h \in A : A2 \subseteq A \ {h} /\ n2 = n + 1
    PROVE  n2 + Cardinality(A2) <= Cardinality(B2)
<1>1. /\ Cardinality(A) \in Nat /\ Cardinality(B) \in Nat /\ Cardinality(B2) \in Nat
      /\ Cardinality(B) <= Cardinality(B2)
  BY FS_CardinalityType, FS_Subset
<1>2. CASE A2 \subseteq A /\ n2 = n
  <2>1. IsFiniteSet(A2) /\ Cardinality(A2) <= Cardinality(A)
    BY <1>2, FS_Subset
  <2>2. Cardinality(A2) \in Nat
    BY <2>1, FS_CardinalityType
  <2> QED BY <1>1, <1>2, <2>1, <2>2
<1>3. ASSUME NEW h, NEW l, A2 = A \cup {h}, l \in B2 \ B, n2 = n
      PROVE  n2 + Cardinality(A2) <= Cardinality(B2)
  <2>1. /\ IsFiniteSet(A2) /\ Cardinality(A2) <= Cardinality(A) + 1
        /\ Cardinality(A2) \in Nat
    <3>1. CASE h \in A
      BY <1>1, <1>3, <3>1
    <3>2. CASE h \notin A
      BY <1>1, <1>3, <3>2, FS_AddElement
    <3> QED BY <3>1, <3>2
  <2>2. /\ IsFiniteSet(B \cup {l}) /\ Cardinality(B \cup {l}) = Cardinality(B) + 1
        /\ B \cup {l} \in SUBSET B2
    BY <1>3, FS_AddElement
  <2>3. Cardinality(B) + 1 <= Cardinality(B2)
    BY <2>2, FS_Subset
  <2> QED BY <1>1, <1>3, <2>1, <2>3
<1>4. ASSUME NEW h \in A, A2 \subseteq A \ {h}, n2 = n + 1
      PROVE  n2 + Cardinality(A2) <= Cardinality(B2)
  <2>1. /\ IsFiniteSet(A \ {h}) /\ Cardinality(A \ {h}) = Cardinality(A) - 1
    BY <1>4, FS_RemoveElement
  <2>2. IsFiniteSet(A2) /\ Cardinality(A2) <= Cardinality(A \ {h})
    BY <1>4, <2>1, FS_Subset
  <2>3. Cardinality(A2) \in Nat
    BY <2>2, FS_CardinalityType
  <2> QED BY <1>1, <1>4, <2>1, <2>2, <2>3
<1> QED BY <1>2, <1>3, <1>4

\* What may be charged to credential c in a step, and what is given back of it.
ChargeMoves(c) ==
    \/ Charging(c)' \subseteq Charging(c) /\ usage'[c] = usage[c]
    \/ \E h, l : /\ Charging(c)' = Charging(c) \cup {h}
                 /\ l \in Returned(c)' \ Returned(c)
                 /\ usage'[c] = usage[c]
    \/ \E h \in Charging(c) : /\ Charging(c)' \subseteq Charging(c) \ {h}
                              /\ usage'[c] = usage[c] + 1

\* A lease on record keeps its credential, and is never opened again.
LEMMA LeasesStay ==
    ASSUME HoldInv, OpensNone \/ \E p \in Procs, r \in Runs : Acquires(p, r)
    PROVE  /\ \A l \in Leases : with[l] \in Creds => with'[l] = with[l]
           /\ \A c \in Creds : Returned(c) \subseteq Returned(c)'
<1>0. LeasesTyped /\ LeasesLinked /\ NoCred \notin Creds
  BY CredentialConstants DEF HoldInv, LeaseInv, CredentialTypeOK
<1>1. CASE OpensNone
  BY <1>1 DEF OpensNone, Returned
<1>2. ASSUME NEW p \in Procs, NEW r \in Runs, Acquires(p, r)
      PROVE  /\ \A l \in Leases : with[l] \in Creds => with'[l] = with[l]
             /\ \A c \in Creds : Returned(c) \subseteq Returned(c)'
  <2>1. PICK l \in Leases : of[l] = NoRun /\ TryCreateCredentialLease(l, chosen[p][r], r)
    BY <1>2 DEF Acquires
  <2>2. with[l] = NoCred
    BY <1>0, <2>1 DEF LeasesLinked
  <2>3. \A k \in Leases : k # l => with'[k] = with[k]
    BY <1>0, <2>1 DEF TryCreateCredentialLease, LeasesTyped
  <2>4. open' = open \cup {l}
    BY <2>1 DEF TryCreateCredentialLease
  <2> QED BY <1>0, <2>2, <2>3, <2>4 DEF Returned
<1> QED BY <1>1, <1>2

\* A goroutine that counts and goes on counting is charging what it charged.
LEMMA StillCharging ==
    ASSUME HoldInv, OpensNone \/ \E p \in Procs, r \in Runs : Acquires(p, r),
           NEW q \in Procs, NEW s \in Runs,
           pc[q][s] \in Counting, handle'[q][s] = handle[q][s]
    PROVE  with'[handle'[q][s]] = with[handle[q][s]]
<1>1. handle[q][s] # NoLease
  BY DEF HoldInv, CountedApart
<1>2. handle[q][s] \in Leases /\ with[handle[q][s]] \in Creds
  BY <1>1, HandleOnRecord DEF HoldInv, LeaseInv
<1> QED BY <1>2, LeasesStay

LEMMA SuperviseUsage ==
    ASSUME NEW p \in Procs, NEW r \in Runs, Supervise(p, r)
    PROVE  UNCHANGED usage \/ CountUsage(p, r)
<1> USE DEF credVars
<1>1. CASE StartRun(p, r) \/ Reclaim(p, r) \/ SelectCredential(p, r)
           \/ CreateLease(p, r) \/ OpenCredential(p, r) \/ CoolBroken(p, r)
           \/ WriteAuthFile(p, r) \/ Refuse(p, r)
  BY <1>1 DEF StartRun, Reclaim, SelectCredential, CreateLease, OpenCredential,
              CoolBroken, WriteAuthFile, Refuse
<1>2. CASE PrepareRun(p, r) \/ LaunchRun(p, r) \/ RenewLease(p, r) \/ LeaveRun(p, r)
           \/ SettleRun(p, r) \/ MissRun(p, r) \/ CleanUpRun(p, r) \/ ReleaseLease(p, r)
  BY <1>2 DEF PrepareRun, LaunchRun, RenewLease, LeaveRun, SettleRun, MissRun,
              CleanUpRun, ReleaseLease
<1> QED BY <1>1, <1>2 DEF Supervise

LEMMA SuperviseCharges ==
    ASSUME HoldInv, HoldInv', NEW p \in Procs, NEW r \in Runs, Supervise(p, r),
           NEW c \in Creds
    PROVE  ChargeMoves(c)
<1> DEFINE h == <<p, r>>
           l == handle[p][r]
<1> USE DEF Counting, GaveBack
<1>0. LeaseInv /\ GivenBack /\ GivenBack' /\ CredentialsTyped /\ NoLease \notin Leases
      /\ open \subseteq Leases
  BY DEF HoldInv, LeaseInv, CredentialTypeOK, LeasesTyped, Leases, NoLease
<1>1. OpensNone \/ \E q \in Procs, s \in Runs : Acquires(q, s)
  BY <1>0, SuperviseHolds DEF HoldsOn, LetsGoOf
<1>2. \A q \in Procs, s \in Runs : q # p \/ s # r =>
            pc'[q][s] = pc[q][s] /\ handle'[q][s] = handle[q][s]
  BY <1>0, SuperviseHolds
<1>3. \A q \in Procs, s \in Runs : (q # p \/ s # r) /\ pc[q][s] \in Counting =>
            with'[handle'[q][s]] = with[handle[q][s]]
  BY <1>1, <1>2, StillCharging
<1>4. Charging(c)' \subseteq Charging(c) \cup {h}
  BY <1>2, <1>3 DEF Charging
<1>5. Charging(c) \subseteq Charging(c)' \cup {h}
  BY <1>2, <1>3 DEF Charging
<1>6. CASE CountUsage(p, r)
  <2>1. pc'[p][r] \notin Counting /\ pc[p][r] \in Counting
    BY <1>0, <1>6 DEF CountUsage, LetGo, Goto, At, Undoing, LeaseInv, CredentialTypeOK,
                      ProcessesTyped
  <2>2. usage'[c] = IF with[l] = c THEN usage[c] + 1 ELSE usage[c]
    BY <1>0, <1>6 DEF CountUsage, UpsertCredentialUsage, CredentialsTyped
  <2>3. Charging(c)' \subseteq Charging(c) \ {h}
    BY <1>4, <2>1 DEF Charging
  <2>4. with[l] = c => h \in Charging(c)
    BY <2>1 DEF Charging
  <2> QED BY <2>2, <2>3, <2>4 DEF ChargeMoves
<1>7. CASE UNCHANGED usage /\ pc'[p][r] \in Counting
  <2>1. HoldsOn(p, r)
    BY <1>0, <1>7, SuperviseHolds DEF LetsGoOf
  <2>2. l \in open /\ l \notin open' /\ handle'[p][r] = l /\ UNCHANGED with
    BY <1>0, <1>7, <2>1 DEF HoldsOn, GivenBack, OpensNone
  <2>3. CASE with[l] = c
    <3>1. l \in Returned(c)' \ Returned(c)
      BY <1>0, <2>2, <2>3 DEF Returned
    <3>2. h \in Charging(c)'
      BY <1>7, <2>2, <2>3 DEF Charging
    <3>3. Charging(c)' = Charging(c) \cup {h}
      BY <1>4, <1>5, <3>2
    <3> QED BY <1>7, <3>1, <3>3 DEF ChargeMoves
  <2>4. CASE with[l] # c
    <3>1. h \notin Charging(c)'
      BY <2>2, <2>4 DEF Charging
    <3> QED BY <1>4, <1>7, <3>1 DEF ChargeMoves
  <2> QED BY <2>3, <2>4
<1>8. CASE UNCHANGED usage /\ pc'[p][r] \notin Counting
  <2>1. h \notin Charging(c)'
    BY <1>8 DEF Charging
  <2> QED BY <1>4, <1>8, <2>1 DEF ChargeMoves
<1> QED BY <1>6, <1>7, <1>8, SuperviseUsage

\* The other steps acquire no lease, put no goroutine to counting, and count none.
LEMMA OthersCharge ==
    ASSUME HoldInv, OpensNone, UNCHANGED usage, NEW c \in Creds,
           \A q \in Procs, s \in Runs : pc'[q][s] \in Counting =>
                pc[q][s] \in Counting /\ handle'[q][s] = handle[q][s]
    PROVE  ChargeMoves(c)
<1>1. \A q \in Procs, s \in Runs : pc'[q][s] \in Counting =>
            with'[handle'[q][s]] = with[handle[q][s]]
  BY StillCharging
<1>2. Charging(c)' \subseteq Charging(c)
  BY <1>1 DEF Charging, Counting
<1> QED BY <1>2 DEF ChargeMoves

LEMMA ProcessCharges ==
    ASSUME HoldInv, NEW p \in Procs, NEW c \in Creds,
           \/ Boot(p) \/ StopRunSupervisors(p) \/ Die(p)
           \/ \E r \in Runs : RecoverRun(p, r)
    PROVE  ChargeMoves(c)
<1> USE DEF Counting
<1>0. ProcessesTyped /\ LocalsTyped /\ RecoversFirst
  BY DEF HoldInv, LeaseInv, CredentialTypeOK
<1>1. OpensNone /\ UNCHANGED usage
  BY DEF Boot, StopRunSupervisors, Die, RecoverRun, leaseVars, credVars, OpensNone
<1>2. CASE Boot(p) \/ StopRunSupervisors(p)
  BY <1>1, <1>2, OthersCharge DEF Boot, StopRunSupervisors, localVars
<1>3. CASE Die(p)
  <2>1. \A q \in Procs, s \in Runs : pc'[q][s] \in {pc[q][s], "idle"} /\ UNCHANGED handle
    BY <1>0, <1>3 DEF Die, ProcessesTyped
  <2> QED BY <1>1, <2>1, OthersCharge
<1>4. ASSUME NEW r \in Runs, RecoverRun(p, r)
      PROVE  ChargeMoves(c)
  <2>1. \A q \in Procs, s \in Runs : q # p \/ s # r =>
            pc'[q][s] = pc[q][s] /\ handle'[q][s] = handle[q][s]
    BY <1>0, <1>4 DEF RecoverRun, Goto, ProcessesTyped, LocalsTyped
  <2>2. pc'[p][r] \in {"idle", "supervise", "settle"}
    BY <1>0, <1>4 DEF RecoverRun, Goto, ProcessesTyped, RecoversFirst
  <2> QED BY <1>1, <2>1, <2>2, OthersCharge
<1> QED BY <1>2, <1>3, <1>4

LEMMA NextCharges ==
    ASSUME HoldInv, HoldInv', [Next]_vars, NEW c \in Creds
    PROVE  ChargeMoves(c) /\ Returned(c) \subseteq Returned(c)'
<1>1. ASSUME NEW p \in Procs, NEW r \in Runs, Supervise(p, r)
      PROVE  ChargeMoves(c) /\ Returned(c) \subseteq Returned(c)'
  <2>1. OpensNone \/ \E q \in Procs, s \in Runs : Acquires(q, s)
    BY <1>1, SuperviseHolds DEF HoldInv, HoldsOn, LetsGoOf
  <2> QED BY <1>1, <2>1, SuperviseCharges, LeasesStay
<1>2. ASSUME NEW p \in Procs,
             \/ Boot(p) \/ StopRunSupervisors(p) \/ Die(p)
             \/ \E r \in Runs : RecoverRun(p, r)
      PROVE  ChargeMoves(c) /\ Returned(c) \subseteq Returned(c)'
  <2>1. OpensNone
    BY <1>2 DEF Boot, StopRunSupervisors, Die, RecoverRun, leaseVars, OpensNone
  <2> QED BY <1>2, <2>1, ProcessCharges, LeasesStay
<1>3. CASE \/ World /\ UNCHANGED <<strategy, procVars, pc, localVars>>
           \/ UNCHANGED vars
  <2>1. OpensNone /\ UNCHANGED <<pc, handle>>
    BY <1>3, WorldOpensNone DEF OpensNone, vars, leaseVars, localVars
  <2>2. UNCHANGED usage
    BY <1>3 DEF World, vars, credVars, UpdateCredential, LoadCredential, DisableCredential,
                HandleCredentials, CooldownEnds
  <2> QED BY <2>1, <2>2, OthersCharge, LeasesStay
<1> QED BY <1>1, <1>2, <1>3 DEF Next

\* However many processes release the lease of a run, its credential is charged
\* for it at most once: what was counted and what is about to be are fewer than
\* the leases given back, and a release that finds its lease released counts
\* nothing.
THEOREM ChargedOnceHolds == Spec => []ChargedOnce
<1>1. ChargedOnce <=> \A c \in Creds :
            usage[c] + Cardinality(Charging(c)) <= Cardinality(Returned(c))
  BY DEF ChargedOnce, Charging, Returned
<1>2. Init => ChargedOnce
  <2> SUFFICES ASSUME Init, NEW c \in Creds
               PROVE  usage[c] + Cardinality(Charging(c)) <= Cardinality(Returned(c))
    BY <1>1
  <2>1. usage[c] = 0 /\ Charging(c) = {}
    BY DEF Init, Charging
  <2>2. Cardinality(Charging(c)) = 0
    BY <2>1, FS_EmptySet
  <2>3. Cardinality(Returned(c)) \in Nat
    BY LeasesFinite, FS_Subset, FS_CardinalityType DEF Returned
  <2> QED BY <2>1, <2>2, <2>3
<1>3. HoldInv /\ HoldInv' /\ ChargedOnce /\ [Next]_vars => ChargedOnce'
  <2> SUFFICES ASSUME HoldInv, HoldInv', ChargedOnce, [Next]_vars, NEW c \in Creds
               PROVE  usage'[c] + Cardinality(Charging(c)') <= Cardinality(Returned(c)')
    BY DEF ChargedOnce, Charging, Returned
  <2>1. /\ IsFiniteSet(Charging(c)) /\ IsFiniteSet(Returned(c))
        /\ IsFiniteSet(Returned(c)')
    BY ChargingFinite, LeasesFinite, FS_Subset DEF Returned
  <2>2. usage[c] \in Nat /\ usage'[c] \in Nat
    BY DEF HoldInv, LeaseInv, CredentialTypeOK, CredentialsTyped
  <2>3. usage[c] + Cardinality(Charging(c)) <= Cardinality(Returned(c))
    BY <1>1
  <2>4. ChargeMoves(c) /\ Returned(c) \subseteq Returned(c)'
    BY NextCharges
  <2> QED BY <2>1, <2>2, <2>3, <2>4, ChargeStep DEF ChargeMoves
<1> QED BY <1>2, <1>3, HoldInvHolds, PTL DEF Spec
=============================================================================
