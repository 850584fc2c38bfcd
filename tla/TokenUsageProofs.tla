-------------------------- MODULE TokenUsageProofs --------------------------
(***************************************************************************)
(* Proofs about TokenUsage and the AgentSessions it extends, for any       *)
(* number of runs and executions, any runtimes and faults.                 *)
(***************************************************************************)
EXTENDS TokenUsage, TLAPS

USE DEF Phases

-----------------------------------------------------------------------------
(* Session directories.                                                    *)

Sessions == [by : AllRuntimes, id : 1..Name, latest : BOOLEAN]
Codex(sessions) == listCodexSessionFiles(sessions)

\* A directory of sessions up to the n-th execution: an id is there once, codex's
\* tell the execution that began them, and one of those is the latest.
FilesOK(sessions, n) ==
    /\ sessions \subseteq Sessions
    /\ \A s, x \in sessions : s.id = x.id => s = x
    /\ \A s \in sessions : IF s.by = "codex" THEN s.id \in 1..n ELSE s.id = Name
    /\ \A s, x \in Codex(sessions) : s.latest /\ x.latest => s = x
    /\ Codex(sessions) # {} => \E s \in Codex(sessions) : s.latest

LEMMA NoFiles ==
    ASSUME NEW n
    PROVE  FilesOK({}, n) /\ Codex({}) = {} /\ Newest({}) = NoId
  BY DEF FilesOK, Codex, listCodexSessionFiles, Newest

LEMMA MoreTurns ==
    ASSUME NEW n \in Nat, NEW S, FilesOK(S, n)
    PROVE  FilesOK(S, n + 1)
  BY DEF FilesOK

LEMMA LatestIsNewest ==
    ASSUME NEW n \in Nat, NEW S, FilesOK(S, n), NEW s \in Codex(S), s.latest
    PROVE  Newest(Codex(S)) = s.id
  BY DEF FilesOK, Newest

LEMMA NewestIsThere ==
    ASSUME NEW n \in Nat, NEW S, FilesOK(S, n), Codex(S) # {}
    PROVE  Newest(Codex(S)) \in Ids(Codex(S)) /\ Newest(Codex(S)) \in 1..n
<1>1. PICK s \in Codex(S) : s.latest
    BY DEF FilesOK
<1>2. s \in S /\ s.by = "codex"
    BY DEF Codex, listCodexSessionFiles
<1>3. Newest(Codex(S)) = s.id
    BY <1>1, LatestIsNewest
<1> QED BY <1>2, <1>3 DEF FilesOK, Ids

LEMMA CodexIds ==
    ASSUME NEW n \in Nat, n <= MaxTurns, NEW S, FilesOK(S, n), NEW id \in Ids(S), id # Name
    PROVE  id \in Ids(Codex(S)) /\ id \in 1..n
  BY DEF FilesOK, Ids, Codex, listCodexSessionFiles

\* A session that codex uses, an old or a new one, becomes the latest of it.
LEMMA UseOfCodex ==
    ASSUME NEW n \in Nat, n <= MaxTurns, NEW S, FilesOK(S, n), NEW id \in 1..n
    PROVE  /\ FilesOK(Use(S, Session("codex", id)), n)
           /\ Newest(Codex(Use(S, Session("codex", id)))) = id
           /\ Ids(Use(S, Session("codex", id))) = Ids(S) \cup {id}
<1> DEFINE new == Session("codex", id)
           Old(x) == [x EXCEPT !.latest = x.latest /\ x.by # "codex"]
           kept == {y \in S : y.id # id}
           U == {Old(x) : x \in kept} \cup {new}
<1>1. /\ new \in Sessions /\ new.by = "codex" /\ new.id = id /\ new.latest = TRUE
      /\ id # Name
    BY SessionConstants DEF Session, Sessions, Name, AllRuntimes
<1>2. ASSUME NEW x \in S
      PROVE  /\ Old(x) \in Sessions /\ Old(x).by = x.by /\ Old(x).id = x.id
             /\ x.by = "codex" => ~Old(x).latest
    BY DEF FilesOK, Sessions
<1>3. Use(S, new) = U
    BY <1>1 DEF Use
<1> HIDE DEF Old, new
<1>4. \A s \in U : s = new \/ \E x \in S : x.id # id /\ s = Old(x)
    OBVIOUS
<1>5. FilesOK(U, n) /\ new \in Codex(U)
  <2>1. U \subseteq Sessions
      BY <1>1, <1>2
  <2>2. ASSUME NEW s \in U, NEW x \in U, s.id = x.id
        PROVE  s = x
    <3>1. CASE s = new \/ x = new
        BY <1>1, <1>2, <1>4, <2>2, <3>1
    <3>2. CASE s # new /\ x # new
      <4>1. PICK y \in S : s = Old(y)
          BY <1>4, <3>2
      <4>2. PICK z \in S : x = Old(z)
          BY <1>4, <3>2
      <4>3. y.id = z.id
          BY <1>2, <2>2, <4>1, <4>2
      <4> QED BY <4>1, <4>2, <4>3 DEF FilesOK
    <3> QED BY <3>1, <3>2
  <2>3. ASSUME NEW s \in U PROVE IF s.by = "codex" THEN s.id \in 1..n ELSE s.id = Name
    <3>1. CASE s = new
        BY <1>1, <3>1
    <3>2. CASE s # new
      <4>1. PICK y \in S : s = Old(y)
          BY <1>4, <3>2
      <4> QED BY <1>2, <4>1 DEF FilesOK
    <3> QED BY <3>1, <3>2
  <2>4. \A s \in Codex(U) : s.latest => s = new
      BY <1>1, <1>2, <1>4 DEF Codex, listCodexSessionFiles
  <2>5. new \in Codex(U)
      BY <1>1 DEF Codex, listCodexSessionFiles
  <2> HIDE DEF U
  <2> QED BY <1>1, <2>1, <2>2, <2>3, <2>4, <2>5 DEF FilesOK
<1>6. Newest(Codex(U)) = id
  <2> HIDE DEF U
  <2> QED BY <1>1, <1>5, LatestIsNewest
<1>7. Ids(U) = Ids(S) \cup {id}
  <2>1. ASSUME NEW s \in U PROVE s.id \in Ids(S) \cup {id}
      BY <1>1, <1>2, <1>4 DEF Ids
  <2>2. ASSUME NEW x \in S PROVE x.id = id \/ \E s \in U : s.id = x.id
    <3>1. CASE x.id # id
      <4>1. Old(x) \in U
          BY <3>1
      <4> QED BY <1>2, <4>1
    <3> QED BY <3>1
  <2>3. new \in U
      OBVIOUS
  <2> HIDE DEF U
  <2> QED BY <1>1, <2>1, <2>2, <2>3 DEF Ids
<1> HIDE DEF U
<1> QED BY <1>3, <1>5, <1>6, <1>7 DEF new

\* goose's session is none of codex's.
LEMMA UseOfGoose ==
    ASSUME NEW n \in Nat, n <= MaxTurns, NEW S, FilesOK(S, n),
           NEW rt \in AllRuntimes \ {"codex"}
    PROVE  /\ FilesOK(Use(S, Session(rt, Name)), n)
           /\ Codex(Use(S, Session(rt, Name))) = Codex(S)
<1> DEFINE new == Session(rt, Name)
           Old(x) == [x EXCEPT !.latest = x.latest /\ x.by # rt]
           kept == {y \in S : y.id # Name}
           U == {Old(x) : x \in kept} \cup {new}
<1>1. /\ new \in Sessions /\ new.by # "codex" /\ new.id = Name
    BY SessionConstants DEF Session, Sessions, Name, AllRuntimes, GooseRuntimes
<1>2. ASSUME NEW x \in kept PROVE Old(x) = x /\ x.by = "codex"
  <2>1. x \in Sessions /\ x.by = "codex" /\ x.by # rt
      BY DEF FilesOK
  <2>2. (x.latest /\ x.by # rt) = x.latest
      BY <2>1 DEF Sessions
  <2>3. [x EXCEPT !.latest = x.latest] = x
      BY <2>1 DEF Sessions
  <2> QED BY <2>1, <2>2, <2>3
<1>3. U = kept \cup {new}
    BY <1>2
<1>4. Use(S, new) = U
    BY <1>1 DEF Use, Session
<1>5. \A s \in S : s.by = "codex" => s.id # Name
    BY SessionConstants DEF FilesOK, Name
<1>6. Codex(U) = Codex(S)
    BY <1>1, <1>3, <1>5 DEF Codex, listCodexSessionFiles
<1>7. FilesOK(U, n)
  <2>1. Codex(U) # {} => \E s \in Codex(U) : s.latest
      BY <1>6 DEF FilesOK
  <2>2. \A s, x \in Codex(U) : s.latest /\ x.latest => s = x
      BY <1>6 DEF FilesOK
  <2>3. U \subseteq Sessions /\ (\A s, x \in U : s.id = x.id => s = x)
      BY <1>1, <1>3 DEF FilesOK
  <2>4. \A s \in U : IF s.by = "codex" THEN s.id \in 1..n ELSE s.id = Name
      BY <1>1, <1>3 DEF FilesOK
  <2> HIDE DEF U
  <2> QED BY <2>1, <2>2, <2>3, <2>4 DEF FilesOK
<1> QED BY <1>4, <1>6, <1>7

-----------------------------------------------------------------------------
(* The sessions: what holds in every state of Spec.                        *)

Reported(rt) == {NoId} \cup RuntimeIds(rt)

\* Its worker is told of a session, and codex was not called yet.
Begins(r) == phase[r] \in {"told", "ready"}

\* The directories; before an agent ran, no session is this execution's.
Kept ==
    /\ FilesOK(dir, turns)
    /\ \A r \in Runs : FilesOK(own[r], turns)
    /\ (\E r \in Runs : Begins(r)) =>
           /\ FilesOK(dir, turns - 1)
           /\ \A r \in Runs : FilesOK(own[r], turns - 1)

\* The runs execute one by one, in order.
InOrder ==
    /\ \A r \in Runs : phase[r] # "absent" => runtime[r] \in Runtimes
    /\ \A r \in Runs : phase[r] = "absent" => own[r] = {}
    /\ \A q, r \in Runs : q < r /\ phase[q] \in {"absent", "created"} =>
           phase[r] \in {"absent", "created"}
    /\ \A q, r \in Runs : q < r /\ r \in Executing => phase[q] = "closed"
    /\ \A r \in Executing : turns > 0
    /\ \A r \in Runs : phase[r] = "goose" => IsGoose(r)
    /\ \A r \in Runs : phase[r] \in {"ready", "codex"} => runtime[r] = "codex"

\* A worker is told of a session only if it is to go on in the task's directory.
Asked ==
    /\ \A r \in Runs : ~told[r].resume => told[r].id = NoId
    /\ \A r \in Executing :
           /\ told[r].resume = SessionEnabled(r)
           /\ told[r].id \in Reported(runtime[r])
           /\ found[r] \in Reported(runtime[r])
    /\ \A r \in Runs : phase[r] = "goose" /\ args[r] # "none" => told[r].id = Name
    /\ \A r \in Runs : own[r] # {} => ~SessionEnabled(r)

SessionInv == SessionTypeOK /\ Kept /\ InOrder /\ Asked

LEMMA OneExecutes ==
    ASSUME InOrder, NEW r \in Executing, NEW q \in Executing
    PROVE  q = r
<1>1. r \in Nat /\ q \in Nat /\ r \in Runs /\ q \in Runs
    BY SessionConstants DEF Executing, Runs
<1>2. ~(q < r) /\ ~(r < q)
    BY <1>1 DEF InOrder, Executing
<1> QED BY <1>1, <1>2

LEMMA ReportedIds ==
    ASSUME Asked, NEW r \in Executing, NEW id, id = told[r].id \/ id = found[r]
    PROVE  /\ IsGoose(r) => id \in {NoId, Name}
           /\ runtime[r] = "codex" => id \in 0..MaxTurns
           /\ ~IsGoose(r) /\ runtime[r] # "codex" => id = NoId
<1>1. id \in Reported(runtime[r])
    BY DEF Asked
<1>2. runtime[r] = "codex" => NoId \in 0..MaxTurns /\ ~IsGoose(r)
    BY SessionConstants DEF NoId, IsGoose, GooseRuntimes
<1> QED BY <1>1, <1>2 DEF Reported, RuntimeIds, IsGoose

LEMMA InitSessions == Init => SessionInv
<1> SUFFICES ASSUME Init PROVE SessionInv
    OBVIOUS
<1>1. SessionTypeOK
    BY SessionConstants DEF Init, SessionTypeOK, Forgotten, NoId, Name
<1>2. Kept
    BY NoFiles DEF Init, Kept
<1>3. InOrder /\ Asked
    BY DEF Init, InOrder, Asked, Executing, Forgotten
<1> QED BY <1>1, <1>2, <1>3 DEF SessionInv

LEMMA CreateSessions ==
    ASSUME SessionInv, NEW r \in Runs, NEW rt \in Runtimes, NEW f \in BOOLEAN,
           CreateRun(r, rt, f)
    PROVE  SessionInv'
<1> USE DEF SessionInv
<1>1. SessionTypeOK'
    BY SessionConstants DEF SessionTypeOK, CreateRun, GoTo, DeleteTaskSession, NoId
<1>2. Kept'
    BY DEF Kept, CreateRun, GoTo, SessionTypeOK, Begins
<1>3. InOrder'
    BY SessionConstants, SMTT(30) DEF InOrder, CreateRun, GoTo, SessionTypeOK, Executing, IsGoose, Runs
<1>4. Asked'
    BY SMTT(30) DEF Asked, InOrder, CreateRun, GoTo, SessionTypeOK, Executing, SessionEnabled
<1> QED BY <1>1, <1>2, <1>3, <1>4

LEMMA AddSessions ==
    ASSUME SessionInv, NEW r \in Runs, AddRun(r)
    PROVE  SessionInv'
<1> USE DEF SessionInv
<1>1. SessionTypeOK'
    BY DEF SessionTypeOK, AddRun, GoTo, InOrder
<1>2. Kept'
    BY DEF Kept, AddRun, GoTo, SessionTypeOK, Begins
<1>3. InOrder'
    BY SessionConstants, SMTT(30) DEF InOrder, AddRun, GoTo, SessionTypeOK, Executing, IsGoose, Runs
<1>4. Asked'
    BY SMTT(30) DEF Asked, InOrder, AddRun, GoTo, SessionTypeOK, Executing, SessionEnabled
<1> QED BY <1>1, <1>2, <1>3, <1>4

LEMMA CancelSessions ==
    ASSUME SessionInv, NEW r \in Runs, CancelRun(r)
    PROVE  SessionInv'
<1> USE DEF SessionInv
<1>1. SessionTypeOK'
    BY DEF SessionTypeOK, CancelRun, GoTo
<1>2. Kept'
    BY DEF Kept, CancelRun, GoTo, SessionTypeOK, Begins
<1>3. InOrder'
    BY DEF InOrder, CancelRun, GoTo, SessionTypeOK, Executing, IsGoose
<1>4. Asked'
    BY DEF Asked, CancelRun, GoTo, SessionTypeOK, Executing, SessionEnabled
<1> QED BY <1>1, <1>2, <1>3, <1>4

LEMMA LaunchSessions ==
    ASSUME SessionInv, NEW r \in Runs, Launch(r)
    PROVE  SessionInv'
<1> DEFINE id == DefaultId(r, GetTaskSession(r))
<1>1. /\ phase[r] = "queued" /\ Executing = {} /\ turns < MaxTurns
      /\ \A q \in Runs : q < r => phase[q] # "queued"
      /\ turns' = turns + 1
      /\ dir' = {} \/ dir' = dir
      /\ current' \in {current, NoId}
      /\ found' = [found EXCEPT ![r] = NoId]
      /\ told' = [told EXCEPT ![r] = ContainerEnv(r, id)]
      /\ UNCHANGED <<mode, taskRuntime, runtime, followsUp, own, args>>
    BY DEF Launch
<1>2. /\ phase' \in {[phase EXCEPT ![r] = "told"], [phase EXCEPT ![r] = "closed"]}
      /\ row' \in {row, NoRow, [runtime |-> runtime[r], id |-> id]}
      /\ lastRun' \in {lastRun, runtime[r]}
      /\ age' \in {"none", "new", "known", "old"} /\ (age' = "none" => dir' = {})
    BY DEF Launch, GoTo, UpsertTaskSession, DeleteTaskSession, Cleaned, Made, Stale,
           SessionInv, SessionTypeOK
<1>3. SessionTypeOK /\ Kept /\ InOrder /\ Asked /\ turns \in Nat /\ runtime[r] \in Runtimes
    BY <1>1, SessionConstants DEF SessionInv, SessionTypeOK, InOrder
<1>4. id \in RuntimeIds(runtime[r]) /\ id \in 0..Name
    BY <1>3, SessionConstants DEF DefaultId, GetTaskSession, RuntimeIds, IsGoose, SessionTypeOK,
           NoRow, NoId, Name, GooseRuntimes
<1>5. SessionEnabled(r) \in BOOLEAN /\ SessionEnabled(r)' = SessionEnabled(r)
    BY <1>1, <1>3 DEF SessionEnabled, SessionTypeOK
<1>6. /\ ContainerEnv(r, id) \in [resume : BOOLEAN, id : 0..Name]
      /\ ContainerEnv(r, id).resume = SessionEnabled(r)
      /\ ContainerEnv(r, id).id \in Reported(runtime[r])
      /\ ~SessionEnabled(r) => ContainerEnv(r, id).id = NoId
  <2> HIDE DEF id
  <2>1. 0 \in 0..Name
      BY SessionConstants DEF Name
  <2>2. CASE SessionEnabled(r)
      BY <1>4, <2>1, <2>2 DEF ContainerEnv, Reported, NoId
  <2>3. CASE ~SessionEnabled(r)
    <3>1. SessionEnabled(r) = FALSE
        BY <1>5, <2>3
    <3>2. ContainerEnv(r, id) = [resume |-> FALSE, id |-> NoId]
        BY <3>1 DEF ContainerEnv
    <3>3. ContainerEnv(r, id) \in [resume : BOOLEAN, id : 0..Name]
        BY <2>1, <3>2 DEF NoId
    <3>4. ContainerEnv(r, id).resume = FALSE /\ ContainerEnv(r, id).id = NoId
        BY <3>2
    <3>5. NoId \in Reported(runtime[r])
        BY DEF Reported
    <3> QED BY <3>1, <3>3, <3>4, <3>5, Zenon
  <2> QED BY <2>2, <2>3
<1> HIDE DEF id
<1>7. SessionTypeOK'
  <2>1. own' \in [Runs -> SUBSET [by : {"codex"}, id : 1..turns', latest : BOOLEAN]]
      BY <1>1, <1>3 DEF SessionTypeOK
  <2>2. \/ row' = NoRow
        \/ row'.runtime \in Runtimes /\ row'.id \in RuntimeIds(row'.runtime)
      BY <1>2, <1>3, <1>4 DEF SessionTypeOK
  <2>3. turns' \in 0..MaxTurns /\ found' \in [Runs -> 0..Name] /\ current' \in 0..MaxTurns
      BY <1>1, <1>3, SessionConstants DEF SessionTypeOK, NoId, Name
  <2> QED BY <1>1, <1>2, <1>3, <1>6, <2>1, <2>2, <2>3 DEF SessionTypeOK
<1>8. Kept'
  <2>1. turns' - 1 = turns
      BY <1>1, <1>3
  <2>2. FilesOK(dir', turns) /\ FilesOK(dir', turns + 1)
      BY <1>1, <1>3, NoFiles, MoreTurns DEF Kept
  <2>3. \A q \in Runs : FilesOK(own'[q], turns) /\ FilesOK(own'[q], turns + 1)
      BY <1>1, <1>3, MoreTurns DEF Kept
  <2> QED BY <1>1, <2>1, <2>2, <2>3 DEF Kept, Begins
<1>9. Executing' \subseteq {r}
    BY <1>1, <1>2, <1>3 DEF Executing, SessionTypeOK
<1>10. InOrder'
  <2>1. \A q \in Runs : q < r => phase[q] = "closed"
      BY <1>1, <1>3 DEF InOrder, Executing
  <2>2. \A q \in Runs : q < r => phase'[q] = "closed"
      BY <1>1, <1>2, <1>3, <2>1, SessionConstants DEF SessionTypeOK, Runs
  <2>3. \A q \in Runs : /\ phase'[q] = "absent" <=> phase[q] = "absent"
                        /\ phase'[q] = "created" <=> phase[q] = "created"
                        /\ phase'[q] \notin {"goose", "ready", "codex"}
      BY <1>1, <1>2, <1>3 DEF SessionTypeOK, Executing
  <2> QED BY <1>1, <1>3, <1>9, <2>2, <2>3 DEF InOrder
<1>11. Asked'
  <2>1. \A q \in Runs : ~told'[q].resume => told'[q].id = NoId
      BY <1>1, <1>3, <1>6 DEF Asked, SessionTypeOK
  <2>2. \A q \in Executing' : /\ told'[q].resume = SessionEnabled(q)'
                              /\ told'[q].id \in Reported(runtime'[q])
                              /\ found'[q] \in Reported(runtime'[q])
      BY <1>1, <1>3, <1>5, <1>6, <1>9 DEF SessionTypeOK, Reported
  <2>3. \A q \in Runs : phase'[q] # "goose"
      BY <1>1, <1>2, <1>3 DEF SessionTypeOK, Executing
  <2>4. \A q \in Runs : own'[q] # {} => ~SessionEnabled(q)'
      BY <1>1, <1>3 DEF Asked, SessionEnabled
  <2> QED BY <2>1, <2>2, <2>3, <2>4 DEF Asked
<1> QED BY <1>7, <1>8, <1>10, <1>11 DEF SessionInv

LEMMA AgeSessions ==
    ASSUME SessionInv, GrowOld \/ CleanupAgentSessions
    PROVE  SessionInv'
<1>1. /\ UNCHANGED <<mode, taskRuntime, runtime, followsUp, phase, turns, row, own, told, args,
                     found, lastRun>>
      /\ dir' \in {dir, {}} /\ current' \in {current, NoId}
      /\ (age' = "old" /\ age = "known" /\ dir' = dir) \/ (age' = "none" /\ dir' = {})
    BY DEF GrowOld, CleanupAgentSessions
<1>2. SessionTypeOK'
    BY <1>1, SessionConstants DEF SessionInv, SessionTypeOK, NoId
<1>3. Kept'
    BY <1>1, NoFiles DEF SessionInv, Kept, Begins
<1>4. InOrder' /\ Asked'
    BY <1>1 DEF SessionInv, InOrder, Asked, Executing, IsGoose, SessionEnabled
<1> QED BY <1>2, <1>3, <1>4 DEF SessionInv

LEMMA GooseSessions ==
    ASSUME SessionInv, NEW r \in Runs, RunAgent(r), RunGoose(r) \/ RunGooseOnce(r) \/ FallBack(r)
    PROVE  SessionInv'
<1>1. /\ SessionTypeOK /\ Kept /\ InOrder /\ Asked /\ turns \in Nat /\ turns <= MaxTurns
      /\ UNCHANGED <<mode, taskRuntime, runtime, followsUp, turns, row, told, lastRun, own, current>>
  <2>1. SessionTypeOK /\ turns \in Nat /\ turns <= MaxTurns
      BY SessionConstants DEF SessionInv, SessionTypeOK
  <2>2. UNCHANGED <<own, current>>
      BY DEF RunGoose, RunGooseOnce, FallBack
  <2> QED BY <2>1, <2>2 DEF SessionInv, RunAgent
<1>2. r \in Executing /\ IsGoose(r) /\ (phase[r] \in {"told", "goose"}) /\ phase'[r] \notin {"told", "ready"}
      /\ \E p \in {"goose", "ended"} : phase' = [phase EXCEPT ![r] = p]
  <2>1. phase[r] = "goose" => IsGoose(r)
      BY <1>1 DEF InOrder
  <2>2. CASE RunGoose(r)
      BY <1>1, <2>2 DEF RunGoose, GoTo, Executing, SessionTypeOK
  <2>3. CASE RunGooseOnce(r)
      BY <1>1, <2>1, <2>3 DEF RunGooseOnce, Ends, GoTo, Executing, SessionTypeOK
  <2>4. CASE FallBack(r)
    <3>1. phase' = [phase EXCEPT ![r] = "goose"]
        BY <1>1, <2>4 DEF FallBack, SessionTypeOK
    <3> QED BY <1>1, <2>1, <2>4, <3>1 DEF FallBack, Executing, SessionTypeOK
  <2> QED BY <2>2, <2>3, <2>4
<1>3. \A q \in Runs : ~Begins(q)'
  <2>1. ASSUME NEW q \in Runs, phase'[q] \in {"told", "ready"} PROVE q = r
    <3>1. q # r => phase[q] \in {"told", "ready"}
        BY <1>1, <1>2, <2>1 DEF SessionTypeOK
    <3>2. q # r => q \in Executing
        BY <3>1 DEF Executing
    <3> QED BY <1>1, <1>2, <3>2, OneExecutes
  <2> QED BY <1>2, <2>1 DEF Begins
<1>4. /\ age' \in {age, "new"} /\ (age' = "none" <=> age = "none")
      /\ FilesOK(dir', turns) /\ (age = "none" => dir' = {})
  <2>1. FilesOK(dir, turns) /\ (age = "none" => dir = {})
      BY <1>1 DEF Kept, SessionTypeOK
  <2>2. CASE RunGoose(r)
      BY <2>1, <2>2 DEF RunGoose
  <2>3. CASE RunGooseOnce(r)
    <3>1. CASE UNCHANGED dir
        BY <2>1, <2>3, <3>1 DEF RunGooseOnce
    <3>2. ASSUME NEW s \in dir, s.id = told[r].id, KeepInDir(Use(dir, Session(s.by, s.id)))
          PROVE  FilesOK(dir', turns) /\ (age = "none" => dir' = {})
      <4>1. told[r].id \in {NoId, Name}
          BY <1>1, <1>2, ReportedIds
      <4>2. s.id # NoId /\ (s.by = "codex" => s.id # Name) /\ s.by \in AllRuntimes
          BY <1>1, <2>1, SessionConstants DEF FilesOK, Sessions, Name, NoId
      <4>3. FilesOK(Use(dir, Session(s.by, s.id)), turns)
          BY <1>1, <2>1, <3>2, <4>1, <4>2, UseOfGoose
      <4> QED BY <3>2, <4>3, NoFiles DEF KeepInDir
    <3>3. ASSUME args[r] = "fresh", KeepInDir(Use(dir, Session(runtime[r], told[r].id)))
          PROVE  FilesOK(dir', turns) /\ (age = "none" => dir' = {})
      <4>1. told[r].id = Name
          BY <1>1, <2>3, <3>3 DEF Asked, RunGooseOnce
      <4>2. runtime[r] \in AllRuntimes \ {"codex"}
          BY <1>2 DEF IsGoose, AllRuntimes, GooseRuntimes
      <4>3. FilesOK(Use(dir, Session(runtime[r], Name)), turns)
          BY <1>1, <2>1, <4>2, UseOfGoose
      <4> QED BY <3>3, <4>1, <4>3, NoFiles DEF KeepInDir
    <3> QED BY <2>3, <3>1, <3>2, <3>3 DEF RunGooseOnce
  <2>4. CASE FallBack(r)
      BY <2>1, <2>4, NoFiles DEF FallBack, ResetGooseSessionRoot
  <2> QED BY <1>2, <2>2, <2>3, <2>4
<1>5. /\ args' \in [Runs -> {"resume", "fresh", "none"}]
      /\ \A q \in Runs : args'[q] = args[q] \/ q = r
      /\ phase'[r] = "goose" /\ args'[r] # "none" => told[r].id # NoId
  <2>1. CASE RunGoose(r)
      BY <1>1, <2>1 DEF RunGoose, GooseRunArgs, SessionTypeOK
  <2>2. CASE RunGooseOnce(r)
      BY <1>1, <1>2, <2>2 DEF RunGooseOnce, Ends, GoTo, SessionTypeOK
  <2>3. CASE FallBack(r)
      BY <1>1, <2>3 DEF FallBack, GooseRunArgs, SessionTypeOK
  <2> QED BY <1>2, <2>1, <2>2, <2>3
<1>6. found' = found \/ found' = [found EXCEPT ![r] = told[r].id]
    BY <1>2 DEF RunGoose, RunGooseOnce, FallBack, Ends
<1>7. SessionTypeOK'
  <2>1. dir' \subseteq [by : AllRuntimes, id : 1..Name, latest : BOOLEAN]
      BY <1>4 DEF FilesOK, Sessions
  <2>2. found' \in [Runs -> 0..Name]
      BY <1>1, <1>6 DEF SessionTypeOK
  <2>3. phase' \in [Runs -> Phases]
      BY <1>1, <1>2 DEF SessionTypeOK
  <2>4. age' \in {"none", "new", "known", "old"} /\ (age' = "none" => dir' = {})
      BY <1>1, <1>4 DEF SessionTypeOK
  <2> QED BY <1>1, <1>5, <2>1, <2>2, <2>3, <2>4 DEF SessionTypeOK
<1>8. Kept'
    BY <1>1, <1>3, <1>4 DEF Kept
<1>9. Executing' = Executing
    BY <1>1, <1>2 DEF Executing, SessionTypeOK
<1>10. InOrder'
  <2>1. \A q \in Runs : /\ phase'[q] = phase[q] \/ q = r
                        /\ q = r => phase'[q] \in {"goose", "ended"}
      BY <1>1, <1>2 DEF SessionTypeOK
  <2>2. phase[r] \notin {"absent", "closed"}
      BY <1>2
  <2> QED BY <1>1, <1>2, <1>9, <2>1, <2>2 DEF InOrder, IsGoose
<1>11. Asked'
  <2>1. \A q \in Executing' : found'[q] \in Reported(runtime[q])
      BY <1>1, <1>6, <1>9 DEF Asked, SessionTypeOK, Executing
  <2>2. ASSUME NEW q \in Runs, phase'[q] = "goose", args'[q] # "none" PROVE told[q].id = Name
    <3>1. CASE q = r
        BY <1>1, <1>2, <1>5, <2>2, <3>1, ReportedIds
    <3>2. CASE q # r
        BY <1>1, <1>2, <1>5, <2>2, <3>2 DEF Asked, SessionTypeOK
    <3> QED BY <3>1, <3>2
  <2>3. \A q \in Runs : SessionEnabled(q)' = SessionEnabled(q)
      BY <1>1 DEF SessionEnabled
  <2>4. \A q \in Executing' : told'[q].resume = SessionEnabled(q)'
      BY <1>1, <1>9, <2>3 DEF Asked, Executing
  <2>5. /\ \A q \in Runs : ~told[q].resume => told[q].id = NoId
        /\ \A q \in Runs : own[q] # {} => ~SessionEnabled(q)'
        /\ \A q \in Executing' : told[q].id \in Reported(runtime[q])
      BY <1>1, <1>9, <2>3 DEF Asked
  <2> QED BY <1>1, <2>1, <2>2, <2>4, <2>5 DEF Asked
<1> QED BY <1>7, <1>8, <1>10, <1>11 DEF SessionInv

LEMMA NewestOf ==
    ASSUME NEW n \in Nat, n <= MaxTurns, NEW S, FilesOK(S, n)
    PROVE  Newest(listCodexSessionFiles(S)) \in 0..MaxTurns
<1>1. CASE Codex(S) = {}
    BY <1>1, SessionConstants DEF Newest, NoId, Codex
<1>2. CASE Codex(S) # {}
    BY <1>2, NewestIsThere, SessionConstants DEF Codex
<1> QED BY <1>1, <1>2

LEMMA PrepareSessions ==
    ASSUME SessionInv, NEW r \in Runs, RunAgent(r), PrepareCodex(r)
    PROVE  SessionInv'
<1>1. /\ phase' = [phase EXCEPT ![r] = "ready"] /\ phase[r] = "told" /\ runtime[r] = "codex"
      /\ UNCHANGED <<mode, taskRuntime, runtime, followsUp, turns, row, dir, age, own, told,
                     args, found, current, lastRun>>
    BY DEF PrepareCodex, RunAgent, GoTo
<1>2. SessionTypeOK'
    BY <1>1 DEF SessionInv, SessionTypeOK
<1>3. Kept'
    BY <1>1 DEF SessionInv, SessionTypeOK, Kept, Begins
<1>4. Executing' = Executing
    BY <1>1 DEF SessionInv, SessionTypeOK, Executing
<1>5. InOrder'
    BY <1>1, <1>4 DEF SessionInv, SessionTypeOK, InOrder, IsGoose, Executing
<1>6. Asked'
    BY <1>1, <1>4 DEF SessionInv, SessionTypeOK, Asked, SessionEnabled
<1> QED BY <1>2, <1>3, <1>5, <1>6 DEF SessionInv

LEMMA CodexSessions ==
    ASSUME SessionInv, NEW r \in Runs, RunAgent(r),
           RunCodex(r) \/ discoverLatestCodexSessionID(r) \/ RunClaude(r)
    PROVE  SessionInv'
<1>1. /\ SessionTypeOK /\ Kept /\ InOrder /\ Asked /\ turns \in Nat /\ turns <= MaxTurns
      /\ UNCHANGED <<mode, taskRuntime, runtime, followsUp, turns, row, told, lastRun, age, args>>
  <2>1. SessionTypeOK /\ turns \in Nat /\ turns <= MaxTurns
      BY SessionConstants DEF SessionInv, SessionTypeOK
  <2>2. UNCHANGED <<age, args>>
      BY DEF RunCodex, discoverLatestCodexSessionID, RunClaude
  <2> QED BY <2>1, <2>2 DEF SessionInv, RunAgent
<1>2. /\ r \in Executing /\ phase'[r] \notin {"told", "ready"}
      /\ phase' = [phase EXCEPT ![r] = "codex"] \/ phase' = [phase EXCEPT ![r] = "ended"]
      /\ phase'[r] = "codex" => runtime[r] = "codex"
  <2>1. CASE RunCodex(r)
      BY <1>1, <2>1 DEF RunCodex, GoTo, Executing, SessionTypeOK, InOrder
  <2>2. CASE discoverLatestCodexSessionID(r) \/ RunClaude(r)
      BY <1>1, <2>2 DEF discoverLatestCodexSessionID, RunClaude, Ends, GoTo, Executing,
         SessionTypeOK
  <2> QED BY <2>1, <2>2
<1>3. \A q \in Runs : ~Begins(q)'
  <2>1. ASSUME NEW q \in Runs, phase'[q] \in {"told", "ready"} PROVE q = r
    <3>1. q # r => phase[q] \in {"told", "ready"}
        BY <1>1, <1>2, <2>1 DEF SessionTypeOK
    <3>2. q # r => q \in Executing
        BY <3>1 DEF Executing
    <3> QED BY <1>1, <1>2, <3>2, OneExecutes
  <2> QED BY <1>2, <2>1 DEF Begins
<1>4. /\ FilesOK(dir', turns) /\ (age = "none" => dir' = {})
      /\ \A q \in Runs : FilesOK(own'[q], turns) /\ (own'[q] = own[q] \/ q = r)
      /\ own'[r] # {} => ~told[r].resume \/ own[r] # {}
      /\ own' \in [Runs -> SUBSET [by : {"codex"}, id : 1..turns, latest : BOOLEAN]]
      /\ current' \in 0..MaxTurns
  <2>1. /\ FilesOK(dir, turns) /\ (age = "none" => dir = {})
        /\ \A q \in Runs : FilesOK(own[q], turns)
        /\ own \in [Runs -> SUBSET [by : {"codex"}, id : 1..turns, latest : BOOLEAN]]
        /\ current \in 0..MaxTurns
      BY <1>1 DEF Kept, SessionTypeOK
  <2>2. CASE UNCHANGED <<dir, own, current>>
      BY <2>1, <2>2
  <2>3. turns \in 1..turns /\ turns \in 0..MaxTurns /\ NoId \in 0..MaxTurns
      BY <1>1, <1>2, SessionConstants DEF InOrder, NoId
  <2>4. ASSUME CodexRunArgs(r), told[r].id \in Ids(dir), runtime[r] = "codex",
               KeepInDir(Use(dir, Session("codex", told[r].id))),
               current' = told[r].id, UNCHANGED own
        PROVE  /\ FilesOK(dir', turns) /\ (age = "none" => dir' = {})
               /\ current' \in 0..MaxTurns
    <3>1. told[r].id \in 0..MaxTurns
        BY <1>1, <1>2, <2>4, ReportedIds
    <3>2. told[r].id \in 1..turns
        BY <1>1, <2>1, <2>4, <3>1, CodexIds, SessionConstants DEF Name
    <3>3. FilesOK(Use(dir, Session("codex", told[r].id)), turns)
        BY <1>1, <2>1, <3>2, UseOfCodex
    <3> QED BY <2>4, <3>1, <3>3, NoFiles DEF KeepInDir
  <2>5. ASSUME KeepInDir(Use(dir, Session("codex", turns))), UNCHANGED own
        PROVE  FilesOK(dir', turns) /\ (age = "none" => dir' = {})
    <3>1. FilesOK(Use(dir, Session("codex", turns)), turns)
        BY <1>1, <2>1, <2>3, UseOfCodex
    <3> QED BY <2>5, <3>1, NoFiles DEF KeepInDir
  <2>6. ASSUME own' = [own EXCEPT ![r] = Use(@, Session("codex", turns))], UNCHANGED dir,
               ~told[r].resume
        PROVE  /\ \A q \in Runs : FilesOK(own'[q], turns) /\ (own'[q] = own[q] \/ q = r)
               /\ own' \in [Runs -> SUBSET [by : {"codex"}, id : 1..turns, latest : BOOLEAN]]
    <3> DEFINE U == Use(own[r], Session("codex", turns))
    <3>1. FilesOK(U, turns)
        BY <1>1, <2>1, <2>3, UseOfCodex
    <3>2. U \subseteq [by : {"codex"}, id : 1..turns, latest : BOOLEAN]
      <4>1. \A s \in own[r] : s \in [by : {"codex"}, id : 1..turns, latest : BOOLEAN]
          BY <2>1
      <4>2. Session("codex", turns) \in [by : {"codex"}, id : 1..turns, latest : BOOLEAN]
          BY <2>3 DEF Session
      <4> QED BY <4>1, <4>2, ZenonT(40) DEF Use
    <3> HIDE DEF U
    <3>3. own' = [own EXCEPT ![r] = U]
        BY <2>6 DEF U
    <3> QED BY <2>1, <3>1, <3>2, <3>3
  <2>7. CASE RunCodex(r)
    <3>0. runtime[r] = "codex"
        BY <1>1, <2>7 DEF RunCodex, InOrder
    <3>1. CASE UNCHANGED own /\ CodexRunArgs(r) /\ told[r].id \in Ids(dir)
               /\ KeepInDir(Use(dir, Session("codex", told[r].id)))
               /\ current' = told[r].id
        BY <2>1, <2>4, <2>7, <3>0, <3>1 DEF RunCodex
    <3>2. CASE told[r].resume /\ KeepInDir(Use(dir, Session("codex", turns))) /\ UNCHANGED own
               /\ current' \in {turns, NoId}
        BY <2>1, <2>3, <2>5, <3>2
    <3>3. CASE /\ ~told[r].resume /\ UNCHANGED dir /\ current' \in {turns, NoId}
               /\ own' = [own EXCEPT ![r] = Use(@, Session("codex", turns))]
        BY <2>1, <2>3, <2>6, <3>3
    <3> QED BY <2>2, <2>7, <3>1, <3>2, <3>3 DEF RunCodex
  <2> QED BY <2>2, <2>7 DEF discoverLatestCodexSessionID, RunClaude
<1>5. /\ found' = found \/ \E id \in Reported(runtime[r]) \cap (0..Name) :
                               found' = [found EXCEPT ![r] = id]
  <2>1. CASE RunCodex(r)
      BY <2>1 DEF RunCodex
  <2>2. CASE discoverLatestCodexSessionID(r)
    <3>1. FilesOK(Home(r), turns)
        BY <1>1 DEF Home, Kept
    <3>2. Newest(listCodexSessionFiles(Home(r))) \in 0..MaxTurns
        BY <1>1, <3>1, NewestOf
    <3>3. runtime[r] = "codex"
        BY <1>1, <2>2 DEF discoverLatestCodexSessionID, InOrder
    <3>4. Newest(listCodexSessionFiles(Home(r))) \in Reported(runtime[r]) \cap (0..Name)
        BY <3>2, <3>3, SessionConstants DEF Reported, RuntimeIds, GooseRuntimes, Name
    <3> QED BY <2>2, <3>4 DEF discoverLatestCodexSessionID, Ends
  <2>3. CASE RunClaude(r)
    <3>1. told[r].id \in Reported(runtime[r]) \cap (0..Name)
        BY <1>1, <1>2 DEF Asked, SessionTypeOK
    <3> QED BY <2>3, <3>1 DEF RunClaude, Ends
  <2> QED BY <2>1, <2>2, <2>3
<1>6. /\ found' \in [Runs -> 0..Name]
      /\ \A q \in Executing : found'[q] \in Reported(runtime[q])
    BY <1>1, <1>5 DEF SessionTypeOK, Asked, Executing
<1>7. SessionTypeOK'
  <2>1. dir' \subseteq [by : AllRuntimes, id : 1..Name, latest : BOOLEAN]
      BY <1>4 DEF FilesOK, Sessions
  <2>2. phase' \in [Runs -> Phases]
      BY <1>1, <1>2 DEF SessionTypeOK
  <2> QED BY <1>1, <1>4, <1>6, <2>1, <2>2 DEF SessionTypeOK
<1>8. Kept'
    BY <1>1, <1>3, <1>4 DEF Kept
<1>9. Executing' = Executing
    BY <1>1, <1>2 DEF Executing, SessionTypeOK
<1>10. InOrder'
  <2>1. \A q \in Runs : /\ phase'[q] = phase[q] \/ q = r
                        /\ q = r => phase'[q] \in {"codex", "ended"}
      BY <1>1, <1>2 DEF SessionTypeOK
  <2>2. phase[r] \notin {"absent", "closed"}
      BY <1>2 DEF Executing
  <2> QED BY <1>1, <1>2, <1>4, <1>9, <2>1, <2>2 DEF InOrder, IsGoose
<1>11. Asked'
  <2>1. \A q \in Runs : SessionEnabled(q)' = SessionEnabled(q)
      BY <1>1 DEF SessionEnabled
  <2>2. \A q \in Runs : phase'[q] = "goose" => phase[q] = "goose"
      BY <1>1, <1>2 DEF SessionTypeOK
  <2>3. \A q \in Executing' : told'[q].resume = SessionEnabled(q)'
      BY <1>1, <1>9, <2>1 DEF Asked, Executing
  <2>4. \A q \in Executing' : told[q].id \in Reported(runtime[q])
      BY <1>1, <1>9 DEF Asked
  <2>5. \A q \in Runs : phase'[q] = "goose" /\ args'[q] # "none" => told[q].id = Name
      BY <1>1, <2>2 DEF Asked
  <2>6. told[r].resume = SessionEnabled(r)
      BY <1>1, <1>2 DEF Asked
  <2>7. \A q \in Runs : own'[q] # {} => ~SessionEnabled(q)
      BY <1>1, <1>4, <2>6 DEF Asked
  <2>8. \A q \in Runs : ~told[q].resume => told[q].id = NoId
      BY <1>1 DEF Asked
  <2> QED BY <1>1, <1>6, <1>9, <2>1, <2>3, <2>4, <2>5, <2>7, <2>8 DEF Asked
<1> QED BY <1>7, <1>8, <1>10, <1>11 DEF SessionInv

LEMMA FinalizeSessions ==
    ASSUME SessionInv, NEW r \in Runs, Finalize(r)
    PROVE  SessionInv'
<1>1. /\ SessionTypeOK /\ Kept /\ InOrder /\ Asked
      /\ UNCHANGED <<mode, taskRuntime, runtime, followsUp, turns, dir, own, lastRun>>
    BY DEF SessionInv, Finalize
<1>2. /\ phase[r] \in {"ended", "persisted"}
      /\ \E p \in {"persisted", "ended", "closed", "queued"} : phase' = [phase EXCEPT ![r] = p]
    BY DEF Finalize, PersistSession, FinishRun, RecoverRun, GoTo
<1>3. /\ row' = row \/ (found[r] # NoId /\ row' = [runtime |-> runtime[r], id |-> found[r]])
      /\ age' \in {age, "known"} /\ (age' = "none" <=> age = "none")
      /\ current' \in {current, NoId}
    BY DEF Finalize, PersistSession, FinishRun, RecoverRun, UpsertTaskSession
<1>4. \/ UNCHANGED <<told, args, found>>
      \/ /\ told' = [told EXCEPT ![r] = Forgotten]
         /\ args' = [args EXCEPT ![r] = "none"]
         /\ found' = [found EXCEPT ![r] = NoId]
         /\ phase'[r] \in {"closed", "queued"}
    BY <1>1 DEF Finalize, PersistSession, FinishRun, RecoverRun, GoTo, SessionTypeOK
<1>5. r \in Executing
    BY <1>2 DEF Executing
<1>6. row' = NoRow \/ (row'.runtime \in Runtimes /\ row'.id \in RuntimeIds(row'.runtime))
    BY <1>1, <1>3, <1>5 DEF SessionTypeOK, Asked, Reported, InOrder, Executing
<1>7. SessionTypeOK'
  <2>1. /\ told' \in [Runs -> [resume : BOOLEAN, id : 0..Name]]
        /\ args' \in [Runs -> {"resume", "fresh", "none"}]
        /\ found' \in [Runs -> 0..Name]
    <3>1. Forgotten \in [resume : BOOLEAN, id : 0..Name] /\ NoId \in 0..Name
        BY SessionConstants DEF Forgotten, NoId, Name
    <3>2. /\ told \in [Runs -> [resume : BOOLEAN, id : 0..Name]]
          /\ args \in [Runs -> {"resume", "fresh", "none"}]
          /\ found \in [Runs -> 0..Name]
        BY <1>1 DEF SessionTypeOK
    <3> QED BY <1>4, <3>1, <3>2, SMTT(30)
  <2>2. phase' \in [Runs -> Phases]
      BY <1>1, <1>2 DEF SessionTypeOK
  <2>3. current' \in 0..MaxTurns
      BY <1>1, <1>3, SessionConstants DEF SessionTypeOK, NoId
  <2> QED BY <1>1, <1>3, <1>6, <2>1, <2>2, <2>3 DEF SessionTypeOK
<1>8. \A q \in Runs : /\ phase'[q] = phase[q] \/ q = r
                      /\ q = r => phase'[q] \in {"persisted", "ended", "closed", "queued"}
    BY <1>1, <1>2 DEF SessionTypeOK
<1>9. Kept'
    BY <1>1, <1>8 DEF Kept, Begins
<1>10. Executing' \subseteq Executing
    BY <1>5, <1>8 DEF Executing
<1>11. InOrder'
    BY <1>1, <1>2, <1>8, <1>10 DEF InOrder, IsGoose
<1>12. Asked'
  <2>1. \A q \in Runs : SessionEnabled(q)' = SessionEnabled(q)
      BY <1>1 DEF SessionEnabled
  <2>2. \A q \in Runs : q \in Executing' => told'[q] = told[q] /\ found'[q] = found[q]
      BY <1>1, <1>4 DEF SessionTypeOK, Executing
  <2>3. \A q \in Executing' : told'[q].resume = SessionEnabled(q)'
      BY <1>1, <1>10, <2>1, <2>2 DEF Asked, Executing
  <2>4. \A q \in Executing' : /\ told'[q].id \in Reported(runtime'[q])
                              /\ found'[q] \in Reported(runtime'[q])
      BY <1>1, <1>10, <2>2 DEF Asked, Executing
  <2>5. \A q \in Runs : ~told'[q].resume => told'[q].id = NoId
      BY <1>1, <1>4 DEF Asked, SessionTypeOK, Forgotten
  <2>6. \A q \in Runs : phase'[q] = "goose" /\ args'[q] # "none" => told'[q].id = Name
      BY <1>1, <1>4, <1>8 DEF Asked, SessionTypeOK
  <2>7. \A q \in Runs : own'[q] # {} => ~SessionEnabled(q)'
      BY <1>1, <2>1 DEF Asked
  <2> QED BY <2>3, <2>4, <2>5, <2>6, <2>7 DEF Asked
<1> QED BY <1>7, <1>9, <1>11, <1>12 DEF SessionInv

LEMMA StepOfSessions == SessionInv /\ [Next]_vars => SessionInv'
<1> SUFFICES ASSUME SessionInv, [Next]_vars PROVE SessionInv'
    OBVIOUS
<1>1. CASE UNCHANGED vars
  <2>1. SessionTypeOK' /\ Kept'
      BY <1>1 DEF SessionInv, SessionTypeOK, Kept, Begins, vars
  <2>2. InOrder' /\ Asked'
      BY <1>1 DEF SessionInv, InOrder, Asked, Executing, IsGoose, SessionEnabled, vars
  <2> QED BY <2>1, <2>2 DEF SessionInv
<1>2. CASE Next
  <2>1. ASSUME NEW r \in Runs, NEW rt \in Runtimes,
               NEW f \in (IF mode = "pr-only" THEN BOOLEAN ELSE {TRUE}), CreateRun(r, rt, f)
        PROVE  SessionInv'
    <3>1. f \in BOOLEAN
        OBVIOUS
    <3> QED BY <2>1, <3>1, CreateSessions
  <2>2. ASSUME NEW r \in Runs, RunAgent(r) PROVE SessionInv'
      BY <2>2, GooseSessions, PrepareSessions, CodexSessions DEF RunAgent
  <2> QED BY <1>2, <2>1, <2>2, AddSessions, CancelSessions, LaunchSessions, FinalizeSessions, AgeSessions
          DEF Next
<1> QED BY <1>1, <1>2

\* In every state of a task's sessions: ids are what their runtime made of them,
\* and the directories hold every session once.
LEMMA SessionsAreKept == Spec => []SessionInv
  BY InitSessions, StepOfSessions, PTL DEF Spec

-----------------------------------------------------------------------------
(* The session that a task is in.                                          *)

\* While it is known, it is the newest of the task's directory, and kept in the
\* row or about to be found again by a run of codex.
CurrentInv ==
    /\ \A q, r \in Runs : q < r /\ own[r] # {} => phase[q] = "closed"
    /\ current # NoId =>
        /\ Newest(Codex(dir)) = current
        /\ \A r \in Executing : runtime[r] = "codex"
        /\ \A r \in Runs : own[r] # {} => phase[r] = "closed"
        /\ \/ row.runtime = "codex" /\ row.id = current
           \/ \E r \in Runs : phase[r] \in {"codex", "ended"} /\ told[r].resume
        /\ \A r \in Runs : phase[r] \in {"ended", "persisted"} =>
               found[r] = IF told[r].resume THEN current ELSE NoId

LEMMA OtherCurrent ==
    ASSUME SessionInv, CurrentInv,
           \/ \E r \in Runs :
                 \/ \E rt \in Runtimes : \E f \in BOOLEAN : CreateRun(r, rt, f)
                 \/ AddRun(r) \/ CancelRun(r)
           \/ GrowOld \/ CleanupAgentSessions
    PROVE  CurrentInv'
<1>1. /\ current' = NoId \/ (current' = current /\ row' = row /\ dir' = dir)
      /\ UNCHANGED <<own, found, told>>
      /\ \A r \in Runs : /\ phase'[r] # phase[r] => phase'[r] \in {"created", "queued", "closed"}
                         /\ phase[r] = "closed" => phase'[r] = "closed"
                         /\ runtime'[r] # runtime[r] => phase'[r] = "created"
    BY DEF CreateRun, AddRun, CancelRun, GrowOld, CleanupAgentSessions, GoTo, SessionInv, SessionTypeOK
<1>2. \A r \in Executing' : r \in Executing /\ runtime'[r] = runtime[r]
    BY <1>1 DEF Executing
<1>3. \A r \in Runs : phase[r] \in {"codex", "ended"} => phase'[r] = phase[r]
    BY DEF CreateRun, AddRun, CancelRun, GrowOld, CleanupAgentSessions, GoTo, SessionInv, SessionTypeOK
<1> QED BY <1>1, <1>2, <1>3 DEF CurrentInv

LEMMA LaunchCurrent ==
    ASSUME SessionInv, CurrentInv, NEW r \in Runs, Launch(r)
    PROVE  CurrentInv'
<1>1. /\ \A q \in Runs : q < r => phase[q] = "closed"
      /\ Executing = {} /\ phase[r] = "queued"
      /\ \A q \in Runs : (phase'[q] = phase[q] \/ q = r) /\ (q = r => phase'[q] \in {"told", "closed"})
      /\ own' = own /\ runtime' = runtime
      /\ \A q \in Runs : q # r => told'[q] = told[q] /\ found'[q] = found[q]
    BY DEF Launch, GoTo, SessionInv, SessionTypeOK, InOrder, Executing
<1>2. \A q, p \in Runs : q < p /\ own'[p] # {} => phase'[q] = "closed"
    BY <1>1 DEF CurrentInv
<1>3. CASE current' = NoId
    BY <1>2, <1>3 DEF CurrentInv
<1>4. CASE current' # NoId
  <2>1. current' = current /\ runtime[r] = "codex" /\ dir' = dir
      BY <1>4 DEF Launch
  <2>2. row.runtime = "codex" /\ row.id = current
      BY <1>1, <1>4, <2>1 DEF CurrentInv, Executing
  <2>3. row'.runtime = "codex" /\ row'.id = current
      BY <1>4, <2>1, <2>2 DEF Launch, UpsertTaskSession, DefaultId, GetTaskSession
  <2>4. \A q \in Executing' : q = r
      BY <1>1 DEF Executing
  <2>5. \A q \in Runs : own[q] # {} => phase'[q] = "closed"
      BY <1>1, <1>4, <2>1 DEF CurrentInv
  <2>6. \A q \in Runs : phase'[q] \notin {"ended", "persisted"}
      BY <1>1 DEF Executing
  <2>7. Newest(Codex(dir)) = current
      BY <1>4, <2>1 DEF CurrentInv
  <2> QED BY <1>1, <1>2, <2>1, <2>3, <2>4, <2>5, <2>6, <2>7 DEF CurrentInv
<1> QED BY <1>3, <1>4

LEMMA AgentPhases ==
    ASSUME SessionInv, NEW r \in Runs, RunAgent(r)
    PROVE  /\ r \in Executing
           /\ \E p \in {"goose", "ready", "codex", "ended"} : phase' = [phase EXCEPT ![r] = p]
<1>1. ASSUME NEW p \in {"goose", "ready", "codex", "ended"}, GoTo(r, p)
      PROVE  \E x \in {"goose", "ready", "codex", "ended"} : phase' = [phase EXCEPT ![r] = x]
    BY <1>1 DEF GoTo
<1>2. CASE RunGoose(r) \/ RunGooseOnce(r) \/ RunClaude(r)
    BY <1>1, <1>2 DEF RunGoose, RunGooseOnce, RunClaude, Ends, Executing
<1>3. CASE PrepareCodex(r) \/ RunCodex(r) \/ discoverLatestCodexSessionID(r)
    BY <1>1, <1>3 DEF PrepareCodex, RunCodex, discoverLatestCodexSessionID, Ends, Executing
<1>4. CASE FallBack(r)
    BY <1>4 DEF FallBack, SessionInv, SessionTypeOK, Executing
<1> QED BY <1>2, <1>3, <1>4 DEF RunAgent

LEMMA OthersWait ==
    ASSUME SessionInv, NEW r \in Runs, RunAgent(r)
    PROVE  /\ phase'[r] \in {"goose", "ready", "codex", "ended"}
           /\ \A q \in Runs : q # r => phase'[q] = phase[q]
<1>1. PICK p \in {"goose", "ready", "codex", "ended"} : phase' = [phase EXCEPT ![r] = p]
    BY AgentPhases
<1>2. phase \in [Runs -> Phases]
    BY DEF SessionInv, SessionTypeOK
<1> QED BY <1>1, <1>2

LEMMA AgentCurrent ==
    ASSUME SessionInv, CurrentInv, NEW r \in Runs, RunAgent(r)
    PROVE  CurrentInv'
<1>1. UNCHANGED <<mode, taskRuntime, runtime, followsUp, turns, row, told>>
    BY DEF RunAgent
<1>2. /\ r \in Executing
      /\ \E p \in {"goose", "ready", "codex", "ended"} : phase' = [phase EXCEPT ![r] = p]
    BY AgentPhases
<1>3. \A q \in Runs : (phase'[q] = phase[q] \/ q = r) /\ (phase[q] = "closed" => phase'[q] = "closed")
    BY <1>2 DEF SessionInv, SessionTypeOK, Executing
<1>4. \A q \in Executing : q = r
    BY <1>2, OneExecutes DEF SessionInv
<1>5. \A q \in Executing' : q = r
    BY <1>3, <1>4 DEF Executing
<1>6. \A q \in Runs : own'[q] = own[q] \/ q = r
    BY DEF RunAgent, RunGoose, RunGooseOnce, FallBack, PrepareCodex, RunCodex, discoverLatestCodexSessionID,
       RunClaude, SessionInv, SessionTypeOK
<1>7. ASSUME NEW q \in Runs, NEW p \in Runs, q < p, own'[p] # {} PROVE phase'[q] = "closed"
  <2>1. CASE p = r
      BY <1>2, <1>3, <1>7, <2>1 DEF SessionInv, InOrder
  <2>2. CASE p # r
    <3>1. own[p] # {}
        BY <1>6, <1>7, <2>2
    <3> QED BY <1>3, <1>7, <3>1 DEF CurrentInv
  <2> QED BY <2>1, <2>2
<1>8. CASE current' = NoId
    BY <1>7, <1>8 DEF CurrentInv
<1>9. CASE current' # NoId /\ current' = current /\ UNCHANGED <<dir, own>>
           /\ (discoverLatestCodexSessionID(r) \/ RunCodex(r))
  <2>1. /\ runtime[r] = "codex" /\ Newest(Codex(dir)) = current
        /\ \A q \in Runs : own[q] # {} => phase[q] = "closed"
      BY <1>2, <1>9 DEF CurrentInv
  <2>2. \A q \in Runs : own'[q] # {} => phase'[q] = "closed"
      BY <1>3, <1>9, <2>1
  <2>3. CASE RunCodex(r)
    <3>1. phase[r] = "ready" /\ phase'[r] = "codex"
        BY <2>3 DEF RunCodex, GoTo, SessionInv, SessionTypeOK
    <3>2. row.runtime = "codex" /\ row.id = current
      <4>1. \A q \in Runs : phase[q] \notin {"codex", "ended"}
          BY <1>4, <3>1 DEF Executing
      <4> QED BY <1>9, <4>1 DEF CurrentInv
    <3>3. \A q \in Runs : phase'[q] \notin {"ended", "persisted"}
        BY <1>5, <3>1 DEF Executing
    <3> QED BY <1>1, <1>5, <1>7, <1>9, <2>1, <2>2, <3>2, <3>3 DEF CurrentInv
  <2>4. CASE discoverLatestCodexSessionID(r)
    <3>1. phase[r] = "codex" /\ phase'[r] = "ended"
          /\ found'[r] = Newest(Codex(Home(r)))
        BY <2>4 DEF discoverLatestCodexSessionID, Ends, GoTo, SessionInv, SessionTypeOK, Codex
    <3>2. own[r] = {}
        BY <2>1, <3>1
    <3>3. found'[r] = IF told[r].resume THEN current ELSE NoId
        BY <2>1, <3>1, <3>2, NoFiles DEF Home
    <3>4. \A q \in Runs : phase'[q] \in {"ended", "persisted"} => q = r
        BY <1>5 DEF Executing
    <3>5. \/ row.runtime = "codex" /\ row.id = current
          \/ phase'[r] \in {"codex", "ended"} /\ told[r].resume
        BY <1>4, <1>9, <3>1 DEF CurrentInv, Executing
    <3> QED BY <1>1, <1>5, <1>7, <1>9, <2>1, <2>2, <3>3, <3>4, <3>5 DEF CurrentInv
  <2> QED BY <1>9, <2>3, <2>4
<1>10. CASE current' # NoId /\ RunCodex(r) /\ ~UNCHANGED <<dir, own, current>>
  <2>1. /\ runtime[r] = "codex" /\ phase[r] = "ready" /\ phase'[r] = "codex"
        /\ told[r].resume /\ own' = own
        /\ \/ current' = turns /\ age # "none" /\ KeepInDir(Use(dir, Session("codex", turns)))
           \/ /\ current' = told[r].id /\ told[r].id \in Ids(dir)
              /\ KeepInDir(Use(dir, Session("codex", told[r].id)))
      BY <1>10 DEF RunCodex, GoTo, CodexRunArgs, SessionInv, SessionTypeOK, InOrder
  <2>2. /\ FilesOK(dir, turns) /\ turns \in 1..turns /\ turns \in Nat /\ turns <= MaxTurns
        /\ (age = "none" => dir = {})
      BY <1>2, SessionConstants DEF SessionInv, SessionTypeOK, Kept, InOrder
  <2>3. current' \in 1..turns /\ KeepInDir(Use(dir, Session("codex", current'))) /\ age # "none"
    <3>1. ASSUME told[r].id \in Ids(dir) PROVE told[r].id \in 1..turns /\ age # "none"
      <4>1. told[r].id \in 0..MaxTurns
          BY <1>2, <2>1, ReportedIds DEF SessionInv
      <4>2. told[r].id \in 1..turns
          BY <2>2, <3>1, <4>1, CodexIds, SessionConstants DEF Name
      <4> QED BY <2>2, <3>1, <4>2 DEF Ids
    <3> QED BY <2>1, <2>2, <3>1
  <2>4. Newest(Codex(dir')) = current'
    <3>1. dir' = Use(dir, Session("codex", current'))
        BY <2>3 DEF KeepInDir
    <3> QED BY <2>2, <2>3, <3>1, UseOfCodex
  <2>5. \A q \in Runs : own'[q] # {} => phase'[q] = "closed"
    <3>1. SUFFICES ASSUME NEW q \in Runs, own[q] # {} PROVE phase[q] = "closed"
        BY <1>3, <2>1
    <3>2. q # r
        BY <1>2, <2>1, <3>1 DEF SessionInv, Asked
    <3>3. ~(r < q)
        BY <2>1, <3>1 DEF CurrentInv
    <3>4. q < r
        BY <3>2, <3>3, SessionConstants DEF Runs
    <3> QED BY <1>2, <3>4 DEF SessionInv, InOrder
  <2>6. \A q \in Runs : phase'[q] \notin {"ended", "persisted"}
      BY <1>5, <2>1 DEF Executing
  <2>7. phase'[r] \in {"codex", "ended"} /\ told'[r].resume
      BY <1>1, <2>1
  <2>8. \A q \in Executing' : runtime'[q] = "codex"
      BY <1>1, <1>5, <2>1
  <2> QED BY <1>7, <2>4, <2>5, <2>6, <2>7, <2>8 DEF CurrentInv
<1>11. CASE current' # NoId /\ (RunGoose(r) \/ RunGooseOnce(r) \/ FallBack(r) \/ RunClaude(r))
  <2>1. current' = current /\ runtime[r] # "codex"
      BY <1>11 DEF RunGoose, RunGooseOnce, FallBack, RunClaude, SessionInv, InOrder, IsGoose,
         GooseRuntimes
  <2> QED BY <1>2, <1>11, <2>1 DEF CurrentInv
<1>12. CASE current' # NoId /\ PrepareCodex(r)
  <2>1. /\ phase[r] = "told" /\ phase'[r] = "ready"
        /\ UNCHANGED <<dir, own, found, current>>
      BY <1>12 DEF PrepareCodex, GoTo, SessionInv, SessionTypeOK
  <2>2. row.runtime = "codex" /\ row.id = current
    <3>1. \A q \in Runs : phase[q] \notin {"codex", "ended"}
        BY <1>4, <2>1 DEF Executing
    <3> QED BY <1>12, <2>1, <3>1 DEF CurrentInv
  <2>3. \A q \in Runs : phase'[q] \notin {"ended", "persisted"}
      BY <1>5, <2>1 DEF Executing
  <2>4. runtime[r] = "codex" /\ Newest(Codex(dir)) = current
        /\ \A q \in Runs : own[q] # {} => phase'[q] = "closed"
      BY <1>2, <1>3, <1>12, <2>1 DEF CurrentInv
  <2> QED BY <1>1, <1>5, <1>7, <2>1, <2>2, <2>3, <2>4 DEF CurrentInv
<1>13. discoverLatestCodexSessionID(r) => UNCHANGED <<dir, own, current>>
    BY DEF discoverLatestCodexSessionID
<1> QED BY <1>8, <1>9, <1>10, <1>11, <1>12, <1>13 DEF RunAgent

LEMMA FinalizeCurrent ==
    ASSUME SessionInv, CurrentInv, NEW r \in Runs, Finalize(r)
    PROVE  CurrentInv'
<1>1. /\ UNCHANGED <<mode, taskRuntime, runtime, followsUp, turns, dir, own>>
      /\ phase[r] \in {"ended", "persisted"} /\ current' \in {current, NoId}
      /\ \E p \in {"persisted", "ended", "closed", "queued"} : phase' = [phase EXCEPT ![r] = p]
    BY DEF Finalize, PersistSession, FinishRun, RecoverRun, GoTo
<1>2. r \in Executing
    BY <1>1 DEF Executing
<1>3. \A q \in Runs : (phase'[q] = phase[q] \/ q = r) /\ (phase[q] = "closed" => phase'[q] = "closed")
    BY <1>1 DEF SessionInv, SessionTypeOK
<1>4. \A q \in Executing' : q = r
    BY <1>2, <1>3, OneExecutes DEF SessionInv, Executing
<1>5. \A q, p \in Runs : q < p /\ own'[p] # {} => phase'[q] = "closed"
    BY <1>1, <1>3 DEF CurrentInv
<1>6. CASE current' = NoId
    BY <1>5, <1>6 DEF CurrentInv
<1>7. CASE current' # NoId
  <2>1. /\ current' = current /\ runtime[r] = "codex" /\ Newest(Codex(dir)) = current
        /\ \A q \in Runs : own'[q] # {} => phase'[q] = "closed"
        /\ found[r] = IF told[r].resume THEN current ELSE NoId
      BY <1>1, <1>2, <1>3, <1>7 DEF CurrentInv
  <2>2. \/ row.runtime = "codex" /\ row.id = current
        \/ phase[r] = "ended" /\ told[r].resume
    <3>1. \A q \in Runs : phase[q] \in {"codex", "ended"} => q = r
        BY <1>2, OneExecutes DEF SessionInv, Executing
    <3> QED BY <1>1, <1>7, <2>1, <3>1 DEF CurrentInv
  <2>3. \/ row'.runtime = "codex" /\ row'.id = current
        \/ phase'[r] = "ended" /\ told'[r].resume
    <3>1. CASE PersistSession(r)
        BY <1>7, <2>1, <2>2, <3>1 DEF PersistSession, UpsertTaskSession
    <3>2. CASE FinishRun(r)
        BY <2>2, <3>2 DEF FinishRun
    <3>3. CASE RecoverRun(r)
        BY <2>2, <3>3 DEF RecoverRun
    <3> QED BY <3>1, <3>2, <3>3 DEF Finalize
  <2>4. \A q \in Runs : phase'[q] \in {"ended", "persisted"} =>
            q = r /\ found'[q] = IF told'[q].resume THEN current ELSE NoId
    <3>1. \A q \in Runs : phase'[q] \in {"ended", "persisted"} => q = r
        BY <1>4 DEF Executing
    <3>2. phase'[r] \in {"ended", "persisted"} => UNCHANGED <<found, told>>
        BY DEF Finalize, PersistSession, FinishRun, RecoverRun, GoTo, SessionInv, SessionTypeOK
    <3> QED BY <2>1, <3>1, <3>2
  <2> QED BY <1>1, <1>4, <1>5, <2>1, <2>3, <2>4 DEF CurrentInv
<1> QED BY <1>1, <1>6, <1>7

LEMMA StepOfCurrent == SessionInv /\ CurrentInv /\ [Next]_vars => CurrentInv'
<1> SUFFICES ASSUME SessionInv, CurrentInv, [Next]_vars PROVE CurrentInv'
    OBVIOUS
<1>1. CASE UNCHANGED vars
    BY <1>1 DEF CurrentInv, Executing, vars
<1>2. CASE Next
  <2>1. ASSUME NEW r \in Runs, NEW rt \in Runtimes,
               NEW f \in (IF mode = "pr-only" THEN BOOLEAN ELSE {TRUE}), CreateRun(r, rt, f)
        PROVE  CurrentInv'
    <3>1. f \in BOOLEAN
        OBVIOUS
    <3> QED BY <2>1, <3>1, OtherCurrent
  <2> QED BY <1>2, <2>1, LaunchCurrent, AgentCurrent, FinalizeCurrent, OtherCurrent DEF Next
<1> QED BY <1>1, <1>2

LEMMA CurrentIsKept == Spec => [](SessionInv /\ CurrentInv)
<1>1. Init => CurrentInv
    BY DEF Init, CurrentInv, NoId
<1> QED BY <1>1, InitSessions, StepOfSessions, StepOfCurrent, PTL DEF Spec

\* Only the launch of a run tells its worker of a session.
LEMMA Launched ==
    ASSUME SessionInv, [Next]_vars, NEW r \in Runs, phase[r] = "queued", phase'[r] = "told"
    PROVE  Launch(r)
<1>1. phase # phase'
    OBVIOUS
<1>2. ASSUME NEW q \in Runs, RunAgent(q)
      PROVE  phase'[r] \in {phase[r], "goose", "ready", "codex", "ended"}
    BY <1>2, AgentPhases DEF SessionInv, SessionTypeOK
<1>3. ASSUME NEW q \in Runs, Finalize(q) PROVE phase'[r] # "told"
    BY <1>3 DEF Finalize, PersistSession, FinishRun, RecoverRun, GoTo, SessionInv, SessionTypeOK
<1>4. ASSUME NEW q \in Runs, Launch(q) PROVE q = r
    BY <1>4 DEF Launch, GoTo, SessionInv, SessionTypeOK
<1>5. ASSUME NEW q \in Runs,
             \/ AddRun(q) \/ CancelRun(q)
             \/ \E rt \in Runtimes : \E f \in BOOLEAN : CreateRun(q, rt, f)
      PROVE  phase'[r] # "told"
    BY <1>5 DEF AddRun, CancelRun, CreateRun, GoTo, SessionInv, SessionTypeOK
<1>6. GrowOld \/ CleanupAgentSessions => phase' = phase
    BY DEF GrowOld, CleanupAgentSessions
<1> QED BY <1>1, <1>2, <1>3, <1>4, <1>5, <1>6 DEF Next, vars

\* A run of codex goes on in the session that its task is in, in every mode.
THEOREM ContinuationHolds == Spec => ContinuesItsSession
<1>1. ASSUME SessionInv, CurrentInv, [Next]_vars, NEW r \in Runs, phase[r] = "queued",
             phase'[r] = "told", runtime[r] = "codex", SessionEnabled(r), current # NoId
      PROVE  told'[r].id = current
  <2>1. Launch(r)
      BY <1>1, Launched
  <2>2. row.runtime = "codex" /\ row.id = current
      BY <1>1, <2>1 DEF CurrentInv, Launch, Executing
  <2>3. DefaultId(r, GetTaskSession(r)) = current
      BY <1>1, <2>2 DEF DefaultId, GetTaskSession
  <2>4. told' = [told EXCEPT ![r] = ContainerEnv(r, current)]
      BY <2>1, <2>3 DEF Launch
  <2> QED BY <1>1, <2>4 DEF ContainerEnv, SessionInv, SessionTypeOK
<1>2. SessionInv /\ CurrentInv /\ [Next]_vars =>
          [\A r \in Runs :
              phase[r] = "queued" /\ phase'[r] = "told" /\ runtime[r] = "codex"
                /\ SessionEnabled(r) /\ current # NoId
              => told'[r].id = current]_vars
    BY <1>1
<1> QED BY <1>2, CurrentIsKept, PTL DEF Spec, ContinuesItsSession

-----------------------------------------------------------------------------
(* A switch.                                                               *)

\* Where sessions follow a whole task, its row is of the runtime that ran last,
\* and the run at work is of that one.
RowOfLast ==
    /\ \A r \in Executing : runtime[r] = lastRun
    /\ mode = "all" /\ lastRun # "none" => row.runtime \in {lastRun, "none"}

LEMMA StepOfRow == SessionInv /\ RowOfLast /\ [Next]_vars => RowOfLast'
<1> SUFFICES ASSUME SessionInv, RowOfLast, [Next]_vars PROVE RowOfLast'
    OBVIOUS
<1>1. CASE UNCHANGED vars
    BY <1>1 DEF RowOfLast, Executing, vars
<1>2. ASSUME NEW r \in Runs, \/ AddRun(r) \/ CancelRun(r)
                             \/ \E rt \in Runtimes : \E f \in BOOLEAN : CreateRun(r, rt, f)
      PROVE  RowOfLast'
  <2>1. /\ mode' = mode /\ lastRun' = lastRun /\ row' \in {row, NoRow}
        /\ \A q \in Executing' : q \in Executing /\ runtime'[q] = runtime[q]
      BY <1>2 DEF AddRun, CancelRun, CreateRun, DeleteTaskSession, GoTo, Executing, SessionInv,
         SessionTypeOK
  <2> QED BY <2>1 DEF RowOfLast, NoRow
<1>3. ASSUME NEW r \in Runs, Launch(r) PROVE RowOfLast'
  <2>1. /\ mode' = mode /\ runtime' = runtime /\ Executing = {}
        /\ \A q \in Executing' : q = r /\ phase'[r] # "closed"
      BY <1>3 DEF Launch, Executing, GoTo, SessionInv, SessionTypeOK
  <2>2. mode = "all" => SessionEnabled(r)
      BY DEF SessionEnabled
  <2>3. CASE phase'[r] = "closed"
    <3>1. lastRun' = lastRun /\ row' \in {row, NoRow}
        BY <1>3, <2>3 DEF Launch, GoTo, DeleteTaskSession, SessionInv, SessionTypeOK
    <3> QED BY <2>1, <2>3, <3>1 DEF RowOfLast, NoRow
  <2>4. CASE phase'[r] # "closed"
    <3>1. lastRun' = runtime[r] /\ (SessionEnabled(r) => row'.runtime = runtime[r])
        BY <1>3, <2>4 DEF Launch, GoTo, UpsertTaskSession, SessionInv, SessionTypeOK
    <3> QED BY <2>1, <2>2, <3>1 DEF RowOfLast
  <2> QED BY <2>3, <2>4
<1>4. ASSUME NEW r \in Runs, RunAgent(r) PROVE RowOfLast'
  <2>1. UNCHANGED <<mode, runtime, row, lastRun>> /\ Executing' = Executing
      BY <1>4, AgentPhases DEF RunAgent, Executing, SessionInv, SessionTypeOK
  <2> QED BY <2>1 DEF RowOfLast
<1>5. ASSUME NEW r \in Runs, Finalize(r) PROVE RowOfLast'
  <2>1. /\ UNCHANGED <<mode, runtime, lastRun>> /\ r \in Executing
        /\ row' = row \/ row'.runtime = runtime[r]
      BY <1>5 DEF Finalize, PersistSession, FinishRun, RecoverRun, UpsertTaskSession, Executing
  <2>2. Executing' \subseteq Executing
      BY <1>5 DEF Finalize, PersistSession, FinishRun, RecoverRun, GoTo, Executing, SessionInv,
         SessionTypeOK
  <2> QED BY <2>1, <2>2 DEF RowOfLast
<1>6. CASE GrowOld \/ CleanupAgentSessions
    BY <1>6 DEF GrowOld, CleanupAgentSessions, RowOfLast, Executing
<1> QED BY <1>1, <1>2, <1>3, <1>4, <1>5, <1>6 DEF Next

\* Where sessions follow a whole task, or none at all, codex starts afresh after
\* another agent, whoever wrote, deleted or read the row in between.
THEOREM SwitchHolds == Spec => SwitchForgets
<1>1. Init => RowOfLast
    BY DEF Init, RowOfLast, Executing
<1>2. SessionInv /\ RowOfLast /\ [Next]_vars =>
          [mode # "pr-only" => \A r \in Runs : StartsFresh(r)]_vars
  <2> SUFFICES ASSUME SessionInv, RowOfLast, [Next]_vars, mode # "pr-only", NEW r \in Runs,
                      phase[r] = "queued", phase'[r] = "told", runtime[r] = "codex",
                      lastRun \notin {"none", "codex"}
               PROVE  told'[r].id = NoId
      BY DEF StartsFresh
  <2>1. Launch(r) /\ mode \in {"off", "all"}
      BY Launched, SessionConstants DEF SessionInv, SessionTypeOK
  <2>2. told' = [told EXCEPT ![r] = ContainerEnv(r, DefaultId(r, GetTaskSession(r)))]
      BY <2>1 DEF Launch
  <2>3. told'[r] = ContainerEnv(r, DefaultId(r, GetTaskSession(r)))
      BY <2>2 DEF SessionInv, SessionTypeOK
  <2>4. mode = "all" => DefaultId(r, GetTaskSession(r)) = NoId
      BY DEF RowOfLast, GetTaskSession, DefaultId, IsGoose, GooseRuntimes
  <2>5. mode = "off" => ~SessionEnabled(r)
      BY DEF SessionEnabled
  <2> QED BY <2>1, <2>3, <2>4, <2>5 DEF ContainerEnv
<1> QED BY <1>1, <1>2, InitSessions, StepOfSessions, StepOfRow, PTL DEF Spec, SwitchForgets

-----------------------------------------------------------------------------
(* Counting: each step is one of the sessions, and what it counts.         *)

LEMMA StepOfCounting ==
    ASSUME [UsageNext]_<<vars, usageVars>>
    PROVE  [Next]_vars
<1>1. CASE UsageNext
    BY <1>1 DEF UsageNext, CountedNext, OtherStep, Next
<1>2. CASE UNCHANGED <<vars, usageVars>>
    BY <1>2
<1> QED BY <1>1, <1>2

\* Counting changes nothing of what the sessions do.
THEOREM CountingIsOfSessions == UsageSpec => Spec
  BY StepOfCounting, PTL DEF UsageSpec, UsageInit, Spec

Usages == Nat \cup {NoUsage}
File   == [total : Usages, turns : Nat, lasts : Nat]

Typed ==
    /\ counting \in BOOLEAN
    /\ counts \in [1..MaxTurns -> File]
    /\ baseline \in [Runs -> [session : 0..MaxTurns, past : File]]
    /\ recorded \in [Runs -> Usages] /\ charged \in [tokens : Usages, spent : Nat]
    /\ spent \in [Runs -> Nat]

\* What codex wrote before it was called is part of what the session comes to,
\* and what was measured is still so when it is called, or was removed.
Measured ==
    counting =>
        /\ \A r \in Runs : baseline[r].session = NoId => baseline[r].past = NoEvents
        /\ \A r \in Runs : \A s \in Ids(Home(r)) :
               phase[r] = "codex" /\ s = baseline[r].session =>
                   counts[s].lasts >= baseline[r].past.lasts
        /\ \A r \in Runs : phase[r] = "ready" =>
               \/ baseline[r] = captureCodexUsageBaseline(r)
               \/ told[r].resume /\ age = "none"

LEMMA NoEventsType == NoEvents \in File /\ NoBaseline \in [session : 0..MaxTurns, past : File]
                      /\ NoUsage \in Usages /\ NoCharge \in [tokens : Usages, spent : Nat]
  BY SessionConstants DEF NoEvents, NoBaseline, NoCharge, File, Usages, NoUsage, NoId

LEMMA Alone ==
    ASSUME SessionInv, NEW r \in Executing, NEW q \in Runs, q # r
    PROVE  phase[q] \in {"absent", "created", "queued", "closed"}
  BY OneExecutes DEF SessionInv, Executing

\* While codex runs, nobody else's steps bring anything new.
LEMMA OtherKeepsCodex ==
    ASSUME SessionInv, OtherStep, NEW r \in Runs, phase'[r] \in {"ready", "codex", "ended", "persisted"}
    PROVE  /\ phase[r] = phase'[r] /\ told'[r] = told[r] /\ runtime'[r] = runtime[r]
           /\ UNCHANGED <<own, turns, found>> /\ dir' \in {dir, {}}
           /\ dir' = dir \/ age' = "none"
           /\ age = "none" => age' = "none"
<1>1. ASSUME NEW q \in Runs, NEW rt, NEW f, CreateRun(q, rt, f) PROVE phase'[q] = "created"
      /\ (q # r => phase'[r] = phase[r] /\ runtime'[r] = runtime[r])
      /\ UNCHANGED <<own, turns, told, dir, found, age>>
    BY <1>1 DEF CreateRun, GoTo, SessionInv, SessionTypeOK
<1>2. ASSUME NEW q \in Runs, AddRun(q) \/ CancelRun(q)
      PROVE  phase'[q] \in {"queued", "closed"}
      /\ (q # r => phase'[r] = phase[r])
      /\ UNCHANGED <<own, turns, told, dir, runtime, found, age>>
    BY <1>2 DEF AddRun, CancelRun, GoTo, SessionInv, SessionTypeOK
<1>3. ASSUME NEW q \in Runs, Launch(q) PROVE FALSE
  <2>1. phase'[q] \in {"told", "closed"} /\ (q # r => phase'[r] = phase[r]) /\ Executing = {}
      BY <1>3 DEF Launch, GoTo, SessionInv, SessionTypeOK
  <2> QED BY <2>1 DEF Executing
<1>4. CASE GrowOld \/ CleanupAgentSessions
    BY <1>4 DEF GrowOld, CleanupAgentSessions
<1> QED BY <1>1, <1>2, <1>3, <1>4 DEF OtherStep

LEMMA KeptCounts ==
    ASSUME counts \in [1..MaxTurns -> File], KeepReadable
    PROVE  /\ counts' \in [1..MaxTurns -> File]
           /\ \A s \in 1..MaxTurns : /\ counts'[s] \in {counts[s], NoEvents}
                                     /\ s \in Readable' => counts'[s] = counts[s]
  BY NoEventsType DEF KeepReadable

LEMMA CountedTokens ==
    ASSUME counts \in [1..MaxTurns -> File], NEW s \in 1..MaxTurns, NEW n \in Nat,
           CountTokens(s, n)
    PROVE  /\ counts' \in [1..MaxTurns -> File]
           /\ \A x \in 1..MaxTurns : x # s => counts'[x] = counts[x]
           /\ counts'[s].total = n + IF counts[s].total = NoUsage THEN 0 ELSE counts[s].total
           /\ counts'[s].lasts >= counts[s].lasts /\ counts'[s].lasts <= counts[s].lasts + n
<1>1. PICK known : counts' = [counts EXCEPT ![s] =
            [total |-> n + IF @.total = NoUsage THEN 0 ELSE @.total,
             turns |-> @.turns + IF known THEN 1 ELSE 0,
             lasts |-> @.lasts + IF known THEN n ELSE 0]]
    BY DEF CountTokens
<1> DEFINE new == [total |-> n + IF counts[s].total = NoUsage THEN 0 ELSE counts[s].total,
                   turns |-> counts[s].turns + IF known THEN 1 ELSE 0,
                   lasts |-> counts[s].lasts + IF known THEN n ELSE 0]
<1>2. counts' = [counts EXCEPT ![s] = new]
    BY <1>1
<1>3. counts[s].total \in Usages /\ counts[s].turns \in Nat /\ counts[s].lasts \in Nat
    BY DEF File
<1>4. new \in File
    BY <1>3 DEF File, Usages, NoUsage
<1>5. /\ new.total = n + IF counts[s].total = NoUsage THEN 0 ELSE counts[s].total
      /\ new.lasts >= counts[s].lasts /\ new.lasts <= counts[s].lasts + n
    BY <1>3
<1> HIDE DEF new
<1> QED BY <1>2, <1>4, <1>5

LEMMA ResolvedPath ==
    ASSUME NEW n \in Nat, n <= MaxTurns, NEW S, FilesOK(S, n), NEW id
    PROVE  /\ resolveCodexSessionPath(S, id) \in 0..MaxTurns
           /\ resolveCodexSessionPath(S, id) # NoId => resolveCodexSessionPath(S, id) \in Ids(Codex(S))
<1>1. CASE id = NoId
  <2>1. Newest(Codex(S)) # NoId => Newest(Codex(S)) \in Ids(Codex(S))
      BY NewestIsThere DEF Newest
  <2> QED BY <1>1, <2>1, NewestOf DEF resolveCodexSessionPath, Codex
<1>2. CASE id # NoId /\ id \in Ids(Codex(S))
  <2>1. PICK s \in S : s.by = "codex" /\ s.id = id
      BY <1>2 DEF Ids, Codex, listCodexSessionFiles
  <2>2. id \in 0..MaxTurns
      BY <2>1, SessionConstants DEF FilesOK
  <2> QED BY <1>2, <2>2 DEF resolveCodexSessionPath, Codex
<1>3. CASE id # NoId /\ id \notin Ids(Codex(S))
    BY <1>3, SessionConstants DEF resolveCodexSessionPath, Codex, NoId
<1> QED BY <1>1, <1>2, <1>3

LEMMA HomeFiles ==
    ASSUME SessionInv, NEW r \in Runs
    PROVE  FilesOK(Home(r), turns) /\ turns \in Nat /\ turns <= MaxTurns
  BY SessionConstants DEF SessionInv, SessionTypeOK, Kept, Home

LEMMA OtherTyped ==
    ASSUME SessionInv, Typed, Measured, counting, OtherStep,
           NothingCharged, KeepReadable, UNCHANGED <<counting, baseline, recorded, spent>>
    PROVE  Typed' /\ Measured'
<1>1. Typed'
    BY KeptCounts, NoEventsType DEF Typed, NothingCharged
<1>2. ASSUME NEW r \in Runs, NEW s \in Ids(Home(r))', phase'[r] = "codex", s = baseline[r].session
      PROVE  counts'[s].lasts >= baseline[r].past.lasts
  <2>1. /\ phase[r] = "codex" /\ told'[r] = told[r] /\ own' = own /\ dir' \in {dir, {}}
      BY <1>2, OtherKeepsCodex
  <2>2. s \in Ids(Home(r))
      BY <1>2, <2>1 DEF Home, Ids
  <2>3. s \in Readable'
      BY <1>2, <2>1 DEF Home, Readable
  <2>4. s \in 1..MaxTurns
    <3>1. baseline[r].session \in 0..MaxTurns
        BY DEF Typed
    <3>2. s # 0
        BY <2>2, HomeFiles DEF FilesOK, Sessions, Ids
    <3> QED BY <1>2, <3>1, <3>2, SessionConstants
  <2>5. counts'[s] = counts[s]
      BY <2>3, <2>4, KeptCounts DEF Typed
  <2> QED BY <1>2, <2>1, <2>2, <2>5 DEF Measured
<1>3. ASSUME NEW r \in Runs, phase'[r] = "ready", ~(told'[r].resume /\ age' = "none")
      PROVE  baseline'[r] = captureCodexUsageBaseline(r)'
  <2>1. /\ phase[r] = "ready" /\ told'[r] = told[r] /\ own' = own
        /\ dir' = dir \/ age' = "none"
        /\ age = "none" => age' = "none"
      BY <1>3, OtherKeepsCodex
  <2>2. Home(r)' = Home(r)
      BY <1>3, <2>1 DEF Home
  <2>3. baseline[r] = captureCodexUsageBaseline(r)
      BY <1>3, <2>1 DEF Measured
  <2> DEFINE s == resolveCodexSessionPath(Home(r), told[r].id)
  <2>4. resolveCodexSessionPath(Home(r), told[r].id)' = s
      BY <2>1, <2>2 DEF resolveCodexSessionPath
  <2>5. s \in 0..MaxTurns /\ (s # NoId => s \in Ids(Codex(Home(r))))
      BY HomeFiles, ResolvedPath
  <2>6. s # NoId => s \in Readable' /\ s \in 1..MaxTurns
    <3>1. s # NoId => s \in Ids(Home(r))'
        BY <2>2, <2>5 DEF Ids, Codex, listCodexSessionFiles
    <3> QED BY <1>3, <2>5, <3>1, SessionConstants DEF Readable, Home, NoId
  <2>7. s # NoId => counts'[s] = counts[s]
      BY <2>6, KeptCounts DEF Typed
  <2> HIDE DEF s
  <2>8. captureCodexUsageBaseline(r)' = IF s = NoId THEN NoBaseline ELSE [session |-> s, past |-> counts'[s]]
      BY <2>4 DEF captureCodexUsageBaseline
  <2>9. captureCodexUsageBaseline(r) = IF s = NoId THEN NoBaseline ELSE [session |-> s, past |-> counts[s]]
      BY DEF captureCodexUsageBaseline, s
  <2> QED BY <2>3, <2>7, <2>8, <2>9
<1> QED BY <1>1, <1>2, <1>3 DEF Measured

LEMMA MeasureTyped ==
    ASSUME SessionInv, Typed, Measured, counting, NEW r \in Runs, RunAgent(r), MeasureCodex(r),
           UNCHANGED counting
    PROVE  Typed' /\ Measured'
<1> DEFINE s0 == resolveCodexSessionPath(Home(r), told[r].id)
<1>1. /\ PrepareCodex(r) /\ r \in Executing
      /\ UNCHANGED <<dir, own, told, counts, spent, recorded>> /\ charged' = NoCharge
      /\ phase'[r] = "ready" /\ \A q \in Runs : q # r => phase'[q] \notin {"ready", "codex"}
  <2>1. PrepareCodex(r) /\ r \in Executing
      BY Zenon DEF MeasureCodex, RunAgent, RunGoose, RunGooseOnce, FallBack, RunCodex, RunClaude,
         discoverLatestCodexSessionID, IsGoose, GooseRuntimes, Executing
  <2>2. phase'[r] = "ready" /\ \A q \in Runs : q # r => phase'[q] = phase[q]
      BY <2>1 DEF PrepareCodex, GoTo, SessionInv, SessionTypeOK
  <2> QED BY <2>1, <2>2, Alone DEF MeasureCodex, PrepareCodex, RunAgent, NothingCharged
<1>2. s0 \in 0..MaxTurns
    BY HomeFiles, ResolvedPath
<1>3. /\ baseline' = [baseline EXCEPT ![r] = captureCodexUsageBaseline(r)]
      /\ captureCodexUsageBaseline(r) =
             IF s0 = NoId THEN NoBaseline ELSE [session |-> s0, past |-> counts[s0]]
      /\ captureCodexUsageBaseline(r)' = captureCodexUsageBaseline(r)
    BY <1>1 DEF MeasureCodex, captureCodexUsageBaseline, resolveCodexSessionPath, Home
<1>4. captureCodexUsageBaseline(r) \in [session : 0..MaxTurns, past : File]
    BY <1>2, <1>3, NoEventsType DEF Typed, NoId
<1>5. Typed'
    BY <1>1, <1>3, <1>4, NoEventsType DEF Typed
<1>6. \A q \in Runs : baseline'[q].session = NoId => baseline'[q].past = NoEvents
    BY <1>3 DEF Typed, Measured, NoBaseline
<1>7. baseline'[r] = captureCodexUsageBaseline(r)'
    BY <1>3 DEF Typed
<1> QED BY <1>1, <1>5, <1>6, <1>7 DEF Measured

LEMMA CallTyped ==
    ASSUME SessionInv, Typed, Measured, counting, NEW r \in Runs, RunAgent(r), CallCodex(r),
           UNCHANGED counting
    PROVE  Typed' /\ Measured'
<1>1. /\ RunCodex(r) /\ r \in Executing /\ told' = told /\ age' = age /\ phase'[r] = "codex"
      /\ UNCHANGED <<baseline, recorded>> /\ charged' = NoCharge
      /\ \A q \in Runs : q # r => phase'[q] \notin {"ready", "codex"}
  <2>1. RunCodex(r) /\ r \in Executing
      BY Zenon DEF CallCodex, RunAgent, RunGoose, RunGooseOnce, FallBack, PrepareCodex, RunClaude,
         discoverLatestCodexSessionID, Executing
  <2>2. phase'[r] = "codex" /\ \A q \in Runs : q # r => phase'[q] = phase[q]
      BY <2>1 DEF RunCodex, GoTo, SessionInv, SessionTypeOK
  <2> QED BY <2>1, <2>2, Alone DEF CallCodex, RunCodex, RunAgent, NothingCharged
<1>2. /\ counts' \in [1..MaxTurns -> File] /\ spent' \in [Runs -> Nat]
      /\ \A s \in 1..MaxTurns : counts'[s].lasts >= counts[s].lasts
  <2>0. /\ counts \in [1..MaxTurns -> File]
        /\ \A s \in 1..MaxTurns : counts[s].lasts \in Nat
      BY DEF Typed, File
  <2>1. CASE UNCHANGED <<counts, spent>>
      BY <2>0, <2>1 DEF Typed
  <2>2. ASSUME NEW n \in 1..MaxTokens, Spend(r, n), NEW s,
               \/ s \in {turns, told[r].id} \ {NoId} /\ CountTokens(s, n)
               \/ UNCHANGED counts
        PROVE  /\ counts' \in [1..MaxTurns -> File] /\ spent' \in [Runs -> Nat]
               /\ \A x \in 1..MaxTurns : counts'[x].lasts >= counts[x].lasts
    <3>1. n \in Nat
        BY UsageConstants
    <3>2. spent' \in [Runs -> Nat]
        BY <2>2, <3>1 DEF Spend, Typed
    <3>3. s \in {turns, told[r].id} \ {NoId} => s \in 1..MaxTurns
      <4>1. told[r].id \in 0..MaxTurns /\ turns \in 0..MaxTurns
          BY <1>1, ReportedIds DEF SessionInv, SessionTypeOK, CallCodex
      <4> QED BY <4>1, SessionConstants DEF NoId
    <3>4. CASE UNCHANGED counts
        BY <2>0, <3>2, <3>4
    <3>5. CASE s \in {turns, told[r].id} \ {NoId} /\ CountTokens(s, n)
      <4>1. /\ counts' \in [1..MaxTurns -> File] /\ s \in 1..MaxTurns
            /\ \A x \in 1..MaxTurns : x # s => counts'[x] = counts[x]
            /\ counts'[s].lasts >= counts[s].lasts
          BY <2>0, <3>1, <3>3, <3>5, CountedTokens
      <4>2. ASSUME NEW x \in 1..MaxTurns PROVE counts'[x].lasts >= counts[x].lasts
          BY <2>0, <4>1
      <4> QED BY <3>2, <4>1, <4>2
    <3> QED BY <2>2, <3>4, <3>5
  <2> QED BY <2>1, <2>2 DEF CallCodex
<1>3. Typed'
    BY <1>1, <1>2, NoEventsType DEF Typed
<1>4. ASSUME NEW s \in Ids(Home(r))', s = baseline[r].session
      PROVE  counts'[s].lasts >= baseline[r].past.lasts
  <2>1. s # NoId
    <3>1. FilesOK(Home(r)', turns')
      <4>1. SessionInv'
          BY StepOfSessions DEF Next
      <4> QED BY <4>1 DEF SessionInv, Kept, Home
    <3> QED BY <1>4, <3>1 DEF FilesOK, Sessions, Ids, NoId
  <2>2. ~(told[r].resume /\ age = "none")
    <3>1. SUFFICES ASSUME told[r].resume, age = "none" PROVE Home(r)' = {}
        BY <1>4 DEF Ids
    <3>2. dir' = {}
        BY <1>1, <3>1 DEF RunCodex, KeepInDir, SessionInv, SessionTypeOK
    <3> QED BY <1>1, <3>1, <3>2 DEF Home
  <2>3. baseline[r] = captureCodexUsageBaseline(r)
      BY <1>1, <2>2 DEF Measured, CallCodex
  <2>4. baseline[r].past = counts[s] /\ s \in 1..MaxTurns
    <3> DEFINE s0 == resolveCodexSessionPath(Home(r), told[r].id)
    <3>1. s0 \in 0..MaxTurns
        BY HomeFiles, ResolvedPath
    <3>2. captureCodexUsageBaseline(r) =
              IF s0 = NoId THEN NoBaseline ELSE [session |-> s0, past |-> counts[s0]]
        BY DEF captureCodexUsageBaseline
    <3> HIDE DEF s0
    <3> QED BY <1>4, <2>1, <2>3, <3>1, <3>2, SessionConstants DEF NoBaseline, NoId
  <2> QED BY <1>2, <2>4
<1> QED BY <1>1, <1>3, <1>4 DEF Measured

\* What is found after codex is the growth of its session, or that of none.
LEMMA LoadedUsage ==
    ASSUME SessionInv, Typed, Measured, counting, NEW r \in Runs, phase[r] = "codex", NEW id
    PROVE  loadCodexRunTokenUsage(r, id) \subseteq Usages
<1> DEFINE s == resolveCodexSessionPath(Home(r), id)
           base == baseline[r]
           total == counts[s].total
           usage == base.past.total
           delta == IF base.session \in {s, NoId}
                    THEN ExtractCodexSessionUsageDelta(counts[s], base.past) ELSE NoUsage
           sub == IF NoUsage \in {total, usage} THEN {total} ELSE SubtractTokenUsage(total, usage)
<1>1. loadCodexRunTokenUsage(r, id) =
        CASE s = NoId -> {NoUsage}
          [] s # NoId /\ delta # NoUsage -> {delta}
          [] s # NoId /\ delta = NoUsage -> sub
    BY DEF loadCodexRunTokenUsage, ExtractCodexSessionUsage
<1>2. s \in 0..MaxTurns /\ (s # NoId => s \in Ids(Codex(Home(r))))
    BY HomeFiles, ResolvedPath
<1>3. CASE s = NoId
    BY <1>1, <1>3, NoEventsType
<1>4. CASE s # NoId
  <2>1. s \in Ids(Home(r)) /\ s \in 1..MaxTurns
      BY <1>2, <1>4, SessionConstants DEF Ids, Codex, listCodexSessionFiles, NoId
  <2>2. counts[s] \in File /\ base.past \in File
      BY <2>1 DEF Typed
  <2>3. /\ counts[s].lasts \in Nat /\ base.past.lasts \in Nat
        /\ total \in Nat \cup {NoUsage} /\ usage \in Nat \cup {NoUsage}
      BY <2>2 DEF File, Usages
  <2>4. base.session \in {s, NoId} => counts[s].lasts >= base.past.lasts
      BY <2>1, <2>3 DEF Measured, NoEvents
  <2>5. delta \in Usages
      BY <2>3, <2>4 DEF ExtractCodexSessionUsageDelta, Usages
  <2>6. sub \subseteq Usages
    <3> HIDE DEF total, usage
    <3> QED BY <2>3 DEF Usages, SubtractTokenUsage, NoUsage
  <2> HIDE DEF s, delta, sub
  <2> QED BY <1>1, <1>4, <2>5, <2>6
<1> QED BY <1>3, <1>4

LEMMA RecordTyped ==
    ASSUME SessionInv, Typed, Measured, counting, NEW r \in Runs, RunAgent(r),
           recordCodexRunTokenUsage(r), UNCHANGED counting
    PROVE  Typed' /\ Measured'
<1>1. phase[r] = "codex" /\ r \in Executing
    BY DEF recordCodexRunTokenUsage, Executing
<1>2. recorded' \in [Runs -> Usages]
  <2>1. loadCodexRunTokenUsage(r, found'[r]) \subseteq Usages
      BY <1>1, LoadedUsage
  <2> QED BY <2>1 DEF recordCodexRunTokenUsage, Typed
<1>3. Typed'
    BY <1>2, NoEventsType DEF Typed, recordCodexRunTokenUsage, NothingCharged
<1>4. \A q \in Runs : phase'[q] \notin {"ready", "codex"}
  <2>1. discoverLatestCodexSessionID(r)
      BY <1>1, Zenon DEF RunAgent, RunGoose, RunGooseOnce, FallBack, PrepareCodex, RunCodex, RunClaude
  <2>2. phase'[r] = "ended" /\ \A q \in Runs : q # r => phase'[q] = phase[q]
      BY <2>1 DEF discoverLatestCodexSessionID, Ends, GoTo, SessionInv, SessionTypeOK
  <2> QED BY <1>1, <2>2, Alone
<1>5. \A q \in Runs : baseline'[q].session = NoId => baseline'[q].past = NoEvents
    BY DEF recordCodexRunTokenUsage, Typed, Measured, NoBaseline
<1> QED BY <1>3, <1>4, <1>5 DEF Measured

LEMMA LogTyped ==
    ASSUME SessionInv, SessionInv', Typed, Measured, counting, NEW r \in Runs, RunAgent(r),
           LogUsage(r), UNCHANGED counting
    PROVE  Typed' /\ Measured'
<1>1. r \in Executing /\ runtime[r] # "codex"
    BY AgentPhases DEF LogUsage
<1>2. recorded' \in [Runs -> Usages] /\ spent' \in [Runs -> Nat]
  <2>1. recorded \in [Runs -> Usages] /\ spent \in [Runs -> Nat]
      BY DEF Typed
  <2>2. CASE UNCHANGED <<recorded, spent>>
      BY <2>1, <2>2
  <2>3. ASSUME NEW n \in 1..MaxTokens, Spend(r, n), recorded' = [recorded EXCEPT ![r] = n]
        PROVE  recorded' \in [Runs -> Usages] /\ spent' \in [Runs -> Nat]
    <3>1. n \in Nat /\ n \in Usages
        BY UsageConstants DEF Usages
    <3>2. spent' = [spent EXCEPT ![r] = spent[r] + n] /\ spent[r] + n \in Nat
        BY <2>1, <2>3, <3>1 DEF Spend
    <3> QED BY <2>1, <2>3, <3>1, <3>2
  <2> QED BY <2>2, <2>3 DEF LogUsage
<1>3. Typed'
    BY <1>2, KeptCounts, NoEventsType DEF Typed, LogUsage, NothingCharged
<1>4. \A q \in Runs : phase'[q] \notin {"ready", "codex"}
  <2>1. \A q \in Runs : q # r => phase'[q] = phase[q]
      BY OthersWait
  <2>2. phase'[r] \notin {"ready", "codex"}
    <3>1. InOrder' /\ runtime' = runtime
        BY DEF SessionInv, RunAgent
    <3> QED BY <1>1, <3>1 DEF InOrder
  <2> QED BY <1>1, <2>1, <2>2, Alone
<1> QED BY <1>3, <1>4 DEF Measured, LogUsage

LEMMA FinalizePhases ==
    ASSUME SessionInv, NEW r \in Runs, Finalize(r)
    PROVE  /\ r \in Executing /\ phase[r] \in {"ended", "persisted"}
           /\ \E p \in {"persisted", "ended", "closed", "queued"} : phase' = [phase EXCEPT ![r] = p]
           /\ \A q \in Runs : phase'[q] \notin {"told", "ready", "codex"}
<1>1. /\ r \in Executing /\ phase[r] \in {"ended", "persisted"}
      /\ \E p \in {"persisted", "ended", "closed", "queued"} : phase' = [phase EXCEPT ![r] = p]
    BY DEF Finalize, PersistSession, FinishRun, RecoverRun, GoTo, Executing
<1>2. \A q \in Runs : /\ q # r => phase'[q] = phase[q]
                      /\ phase'[r] \in {"persisted", "ended", "closed", "queued"}
    BY <1>1 DEF SessionInv, SessionTypeOK
<1> QED BY <1>1, <1>2, Alone

LEMMA SettleTyped ==
    ASSUME SessionInv, Typed, Measured, counting, NEW r \in Runs, Finalize(r),
           SettleUsage(r), UNCHANGED counting
    PROVE  Typed' /\ Measured'
<1>1. recorded' \in [Runs -> Usages] /\ spent' \in [Runs -> Nat]
  <2>1. recorded \in [Runs -> Usages] /\ spent \in [Runs -> Nat] /\ NoUsage \in Usages
      BY NoEventsType DEF Typed
  <2>2. \/ UNCHANGED <<recorded, spent>>
        \/ recorded' = [recorded EXCEPT ![r] = NoUsage] /\ spent' = [spent EXCEPT ![r] = 0]
      BY DEF SettleUsage, ChargeRun
  <2> QED BY <2>1, <2>2
<1>2. charged' \in [tokens : Usages, spent : Nat]
    BY NoEventsType DEF SettleUsage, ChargeRun, UpsertRunTokenUsage, NothingCharged, Typed
<1>3. Typed'
    BY <1>1, <1>2, KeptCounts DEF Typed, SettleUsage
<1>4. \A q \in Runs : phase'[q] \notin {"ready", "codex"}
    BY FinalizePhases
<1> QED BY <1>3, <1>4 DEF Measured, SettleUsage

LEMMA StepOfTypes ==
    ASSUME SessionInv, SessionInv', Typed, Measured, [UsageNext]_<<vars, usageVars>>
    PROVE  Typed' /\ Measured'
<1>1. CASE UNCHANGED <<vars, usageVars>>
  <2>1. \A r \in Runs : captureCodexUsageBaseline(r)' = captureCodexUsageBaseline(r)
      BY <1>1 DEF captureCodexUsageBaseline, resolveCodexSessionPath, Home, vars, usageVars
  <2> QED BY <1>1, <2>1 DEF Typed, Measured, Home, vars, usageVars
<1>2. CASE ~counting /\ Next /\ UNCHANGED usageVars
    BY <1>2 DEF Typed, Measured, usageVars
<1>3. CASE counting /\ CountedNext
  <2>1. ASSUME NEW r \in Runs, Finalize(r), StopCounting PROVE Typed' /\ Measured'
      BY <2>1, NoEventsType DEF StopCounting, Typed, Measured, NothingCharged
  <2> QED BY <1>3, <2>1, OtherTyped, MeasureTyped, CallTyped, RecordTyped, LogTyped, SettleTyped
          DEF CountedNext
<1> QED BY <1>1, <1>2, <1>3 DEF UsageNext

LEMMA UsageIsTyped == UsageSpec => [](SessionInv /\ Typed /\ Measured)
<1>1. UsageInit => SessionInv /\ Typed /\ Measured
    BY InitSessions, NoEventsType DEF UsageInit, Typed, Measured, Init, NoBaseline
<1>2. SessionInv /\ Typed /\ Measured /\ [UsageNext]_<<vars, usageVars>>
          => (SessionInv /\ Typed /\ Measured)'
    BY StepOfCounting, StepOfSessions, StepOfTypes
<1> QED BY <1>1, <1>2, PTL DEF UsageSpec

\* Sessions, files and counts keep their types, whatever codex does or loses:
\* no charge is negative, even of a session that was measured at another time.
THEOREM UsageTypeCorrect == UsageSpec => []UsageTypeOK
<1>1. SessionInv /\ Typed => UsageTypeOK
    BY DEF SessionInv, Typed, UsageTypeOK, Usages, File
<1> QED BY <1>1, UsageIsTyped, PTL

-----------------------------------------------------------------------------
(* Charges.                                                                *)

\* As long as no id was lost, the row, what a worker is told and what it found
\* are the newest session of the task's directory, or that was removed.
Agreed ==
    mode = "all" =>
        /\ row.runtime = "codex" /\ row.id # NoId =>
               \/ Codex(dir) = {} \/ row.id = Newest(Codex(dir))
               \/ \E r \in Runs : runtime[r] = "codex" /\ phase[r] \in {"codex", "ended"}
        /\ \A r \in Runs : runtime[r] = "codex" /\ Begins(r) /\ told[r].id # NoId =>
               Codex(dir) = {} \/ told[r].id = Newest(Codex(dir))
        /\ \A r \in Runs : runtime[r] = "codex" /\ phase[r] \in {"ended", "persisted"} =>
               Codex(dir) = {} \/ found[r] = Newest(Codex(dir))

\* No session of a later execution is counted, nor of one that did not begin.
Unused ==
    /\ \A s \in 1..MaxTurns : s > turns => counts[s] = NoEvents
    /\ (\E r \in Runs : Begins(r)) => counts[turns] = NoEvents

\* While codex runs, its session grew, or was begun, by what the run took.
Grown(r, s) ==
    IF baseline[r].session = s
    THEN /\ counts[s].lasts - baseline[r].past.lasts <= spent[r]
         /\ counts[s].total # NoUsage =>
                counts[s].total - (IF baseline[r].past.total = NoUsage THEN 0
                                   ELSE baseline[r].past.total) <= spent[r]
    ELSE counts[s].lasts <= spent[r] /\ counts[s].total <= spent[r]

Covered ==
    /\ \A r \in Runs : recorded[r] <= spent[r]
    /\ \A r \in Runs : phase[r] = "codex" /\ Codex(Home(r)) # {} =>
           Grown(r, Newest(Codex(Home(r))))

UsageInv == SessionInv /\ Typed /\ Measured

LEMMA OtherCharges ==
    ASSUME UsageInv, Agreed, Unused, Covered,
           \/ \E r \in Runs :
                 \/ \E rt \in Runtimes : \E f \in BOOLEAN : CreateRun(r, rt, f)
                 \/ AddRun(r) \/ CancelRun(r)
           \/ GrowOld \/ CleanupAgentSessions
    PROVE  Agreed'
<1>1. /\ UNCHANGED <<found, told, mode, turns>> /\ dir' \in {dir, {}} /\ row' \in {row, NoRow}
      /\ \A r \in Runs : /\ phase'[r] # phase[r] => phase'[r] \in {"created", "queued", "closed"}
                         /\ phase[r] \in {"codex", "ended"} =>
                                phase'[r] = phase[r] /\ runtime'[r] = runtime[r]
                         /\ runtime'[r] # runtime[r] => phase'[r] = "created"
    BY DEF CreateRun, AddRun, CancelRun, GrowOld, CleanupAgentSessions, GoTo, DeleteTaskSession,
       UsageInv, SessionInv, SessionTypeOK
<1>2. Codex(dir') = Codex(dir) \/ Codex(dir') = {}
    BY <1>1, NoFiles
<1>3. ASSUME mode' = "all", row'.runtime = "codex", row'.id # NoId
      PROVE  \/ Codex(dir') = {} \/ row'.id = Newest(Codex(dir'))
             \/ \E r \in Runs : runtime'[r] = "codex" /\ phase'[r] \in {"codex", "ended"}
  <2>1. row' = row
      BY <1>1, <1>3 DEF NoRow
  <2> QED BY <1>1, <1>2, <1>3, <2>1 DEF Agreed
<1>4. ASSUME mode' = "all", NEW r \in Runs, runtime'[r] = "codex", Begins(r)',
             told'[r].id # NoId
      PROVE  Codex(dir') = {} \/ told'[r].id = Newest(Codex(dir'))
  <2>1. Begins(r) /\ runtime[r] = "codex"
      BY <1>1, <1>4 DEF Begins
  <2> QED BY <1>1, <1>2, <1>4, <2>1 DEF Agreed
<1>5. ASSUME mode' = "all", NEW r \in Runs, runtime'[r] = "codex",
             phase'[r] \in {"ended", "persisted"}
      PROVE  Codex(dir') = {} \/ found'[r] = Newest(Codex(dir'))
  <2>1. phase[r] = phase'[r] /\ runtime[r] = "codex"
      BY <1>1, <1>5
  <2> QED BY <1>1, <1>2, <1>5, <2>1 DEF Agreed
<1> QED BY <1>3, <1>4, <1>5 DEF Agreed

LEMMA LaunchCharges ==
    ASSUME UsageInv, Agreed, NEW r \in Runs, Launch(r)
    PROVE  Agreed'
<1> DEFINE id == DefaultId(r, GetTaskSession(r))
<1>1. /\ Executing = {} /\ mode' = mode /\ runtime' = runtime /\ dir' \in {dir, {}}
      /\ row' \in {row, NoRow, [runtime |-> runtime[r], id |-> id]}
      /\ \A q \in Runs : phase'[q] \in {"told", "ready", "ended", "persisted", "codex"} =>
             q = r /\ phase'[q] = "told"
      /\ told'[r] = ContainerEnv(r, id)
    BY DEF Launch, GoTo, UpsertTaskSession, DeleteTaskSession, UsageInv, SessionInv,
       SessionTypeOK, Executing
<1>2. Codex(dir') = Codex(dir) \/ Codex(dir') = {}
    BY <1>1, NoFiles
<1>3. ASSUME mode = "all", row.runtime = "codex", row.id # NoId
      PROVE  Codex(dir') = {} \/ row.id = Newest(Codex(dir'))
    BY <1>1, <1>2, <1>3 DEF Agreed, Executing
<1>4. ASSUME runtime[r] = "codex", id # NoId
      PROVE  row.runtime = "codex" /\ row.id = id
    BY <1>4 DEF DefaultId, GetTaskSession, IsGoose, GooseRuntimes
<1>5. told'[r].id # NoId => told'[r].id = id
    BY <1>1 DEF ContainerEnv
<1> HIDE DEF id
<1>6. ASSUME mode = "all", row'.runtime = "codex", row'.id # NoId
      PROVE  Codex(dir') = {} \/ row'.id = Newest(Codex(dir'))
  <2>1. row.runtime = "codex" /\ row.id = row'.id
      BY <1>1, <1>4, <1>6 DEF NoRow
  <2> QED BY <1>3, <1>6, <2>1
<1>7. ASSUME mode = "all", runtime[r] = "codex", told'[r].id # NoId
      PROVE  Codex(dir') = {} \/ told'[r].id = Newest(Codex(dir'))
    BY <1>3, <1>4, <1>5, <1>7
<1> QED BY <1>1, <1>6, <1>7 DEF Agreed, Begins

\* goose's sessions leave codex's alone, or go with them.
LEMMA GooseKeepsCodex ==
    ASSUME SessionInv, NEW r \in Runs, RunGoose(r) \/ RunGooseOnce(r) \/ FallBack(r)
    PROVE  Codex(dir') \in {Codex(dir), {}} /\ runtime[r] # "codex"
<1>1. FilesOK(dir, turns) /\ turns \in Nat /\ turns <= MaxTurns
    BY SessionConstants DEF SessionInv, SessionTypeOK, Kept
<1>2. r \in Executing /\ IsGoose(r) /\ runtime[r] \in AllRuntimes \ {"codex"}
    BY DEF RunGoose, RunGooseOnce, FallBack, SessionInv, InOrder, Executing, IsGoose,
       AllRuntimes, GooseRuntimes
<1>3. UNCHANGED dir \/ dir' = {} => Codex(dir') \in {Codex(dir), {}}
    BY NoFiles
<1>4. ASSUME NEW rt \in AllRuntimes \ {"codex"}, KeepInDir(Use(dir, Session(rt, Name)))
      PROVE  Codex(dir') \in {Codex(dir), {}}
    BY <1>1, <1>4, UseOfGoose, NoFiles DEF KeepInDir
<1>5. ASSUME NEW s \in dir, s.id = told[r].id, KeepInDir(Use(dir, Session(s.by, s.id)))
      PROVE  s.by \in AllRuntimes \ {"codex"} /\ s.id = Name
  <2>1. told[r].id \in {NoId, Name}
      BY <1>2, ReportedIds DEF SessionInv
  <2> QED BY <1>1, <1>5, <2>1, SessionConstants DEF FilesOK, Sessions, Name, NoId
<1>6. CASE RunGooseOnce(r)
  <2>1. args[r] = "fresh" => told[r].id = Name
      BY <1>6 DEF RunGooseOnce, SessionInv, Asked
  <2> QED BY <1>2, <1>3, <1>4, <1>5, <1>6, <2>1 DEF RunGooseOnce
<1>7. CASE RunGoose(r) \/ FallBack(r)
    BY <1>2, <1>3, <1>7 DEF RunGoose, FallBack, ResetGooseSessionRoot
<1> QED BY <1>2, <1>6, <1>7

LEMMA AgentCharges ==
    ASSUME UsageInv, Agreed, NEW r \in Runs, RunAgent(r)
    PROVE  Agreed'
<1> USE DEF UsageInv
<1>1. UNCHANGED <<mode, runtime, row, told>>
    BY DEF RunAgent
<1>2. /\ r \in Executing
      /\ \A q \in Runs : q # r => phase'[q] \in {"absent", "created", "queued", "closed"}
      /\ \A q \in Runs : q # r => phase[q] \in {"absent", "created", "queued", "closed"}
  <2>1. \A q \in Runs : q # r => phase'[q] = phase[q]
      BY AgentPhases DEF SessionInv, SessionTypeOK
  <2> QED BY <2>1, AgentPhases, Alone
<1>3. CASE RunGoose(r) \/ RunGooseOnce(r) \/ FallBack(r) \/ RunClaude(r)
  <2>1. runtime[r] # "codex" /\ Codex(dir') \in {Codex(dir), {}}
      BY <1>3, GooseKeepsCodex DEF RunClaude
  <2> QED BY <1>1, <1>2, <2>1 DEF Agreed, Begins
<1>4. CASE RunCodex(r)
  <2>1. runtime[r] = "codex" /\ phase'[r] = "codex"
      BY <1>4 DEF RunCodex, GoTo, SessionInv, SessionTypeOK, InOrder
  <2> QED BY <1>1, <1>2, <2>1 DEF Agreed, Begins
<1>5. CASE PrepareCodex(r)
  <2>1. UNCHANGED <<dir, found>> /\ phase[r] = "told" /\ phase'[r] = "ready"
      BY <1>5 DEF PrepareCodex, GoTo, SessionInv, SessionTypeOK
  <2> QED BY <1>1, <1>2, <2>1 DEF Agreed, Begins
<1>6. CASE discoverLatestCodexSessionID(r)
  <2>1. /\ phase[r] = "codex" /\ phase'[r] = "ended" /\ dir' = dir /\ runtime[r] = "codex"
        /\ found'[r] = Newest(Codex(Home(r)))
      BY <1>6 DEF discoverLatestCodexSessionID, Ends, GoTo, SessionInv, SessionTypeOK, Codex,
         InOrder
  <2>2. mode = "all" => Home(r) = dir
    <3>1. mode = "all" => SessionEnabled(r)
        BY DEF SessionEnabled
    <3> QED BY <1>2, <3>1 DEF SessionInv, Asked, Home
  <2> QED BY <1>1, <1>2, <2>1, <2>2 DEF Agreed, Begins
<1> QED BY <1>3, <1>4, <1>5, <1>6 DEF RunAgent

LEMMA FinalizeCharges ==
    ASSUME UsageInv, Agreed, NEW r \in Runs, Finalize(r), ~Lost(r)
    PROVE  Agreed'
<1> USE DEF UsageInv
<1>1. UNCHANGED <<mode, runtime, dir>> /\ r \in Executing /\ phase[r] \in {"ended", "persisted"}
    BY FinalizePhases DEF Finalize
<1>2. /\ \A q \in Runs : q # r => phase'[q] \in {"absent", "created", "queued", "closed"}
      /\ \A q \in Runs : q # r => phase[q] \in {"absent", "created", "queued", "closed"}
      /\ phase'[r] \in {"persisted", "ended", "closed", "queued"}
  <2>1. \A q \in Runs : q # r => phase'[q] = phase[q]
      BY FinalizePhases DEF SessionInv, SessionTypeOK
  <2>2. phase'[r] \in {"persisted", "ended", "closed", "queued"}
      BY FinalizePhases DEF SessionInv, SessionTypeOK
  <2> QED BY <1>1, <2>1, <2>2, Alone
<1>3. ASSUME mode = "all", runtime[r] = "codex", phase'[r] \in {"ended", "persisted"}
      PROVE  Codex(dir) = {} \/ found'[r] = Newest(Codex(dir))
  <2>1. found' = found
      BY <1>3 DEF Finalize, PersistSession, FinishRun, RecoverRun, GoTo, SessionInv,
         SessionTypeOK
  <2> QED BY <1>1, <1>3, <2>1 DEF Agreed
<1>4. ASSUME mode = "all", row'.runtime = "codex", row'.id # NoId
      PROVE  Codex(dir) = {} \/ row'.id = Newest(Codex(dir))
  <2>1. CASE phase[r] = "persisted"
    <3>1. row' = row
        BY <2>1 DEF Finalize, PersistSession, FinishRun, RecoverRun
    <3> QED BY <1>2, <1>4, <2>1, <3>1 DEF Agreed
  <2>2. CASE phase[r] = "ended"
    <3>1. PersistSession(r) /\ phase'[r] = "persisted"
        BY <2>2 DEF Finalize, PersistSession, FinishRun, RecoverRun, GoTo, SessionInv,
           SessionTypeOK
    <3>2. found[r] # NoId => row' = [runtime |-> runtime[r], id |-> found[r]]
        BY <2>2, <3>1 DEF Lost
    <3>3. found[r] = NoId => row' = row
        BY <3>1 DEF PersistSession
    <3>4. CASE runtime[r] = "codex"
      <4>1. Codex(dir) = {} \/ found[r] = Newest(Codex(dir))
          BY <1>4, <2>2, <3>4 DEF Agreed
      <4>2. Codex(dir) # {} => Newest(Codex(dir)) # NoId
          BY NewestIsThere, SessionConstants DEF SessionInv, SessionTypeOK, Kept, NoId
      <4> QED BY <1>4, <3>2, <4>1, <4>2
    <3>5. CASE runtime[r] # "codex"
      <4>1. row' = row
          BY <1>4, <3>2, <3>3, <3>5
      <4> QED BY <1>2, <1>4, <3>5, <4>1 DEF Agreed
    <3> QED BY <3>4, <3>5
  <2> QED BY <1>1, <2>1, <2>2
<1> QED BY <1>1, <1>2, <1>3, <1>4 DEF Agreed, Begins

LEMMA OtherCounts ==
    ASSUME UsageInv, Unused, Covered, OtherStep, KeepReadable,
           UNCHANGED <<baseline, recorded, spent>>
    PROVE  Unused' /\ Covered'
<1> USE DEF UsageInv
<1>1. \A s \in 1..MaxTurns : /\ counts'[s] \in {counts[s], NoEvents}
                             /\ s \in Readable' => counts'[s] = counts[s]
    BY KeptCounts DEF Typed
<1>2. Unused'
  <2>1. ASSUME NEW r \in Runs, Launch(r) PROVE turns' = turns + 1 /\ turns' \in 1..MaxTurns
      BY <2>1, SessionConstants DEF Launch, SessionInv, SessionTypeOK
  <2>2. CASE \E r \in Runs : Launch(r)
    <3>1. turns' = turns + 1 /\ turns' \in 1..MaxTurns /\ turns \in Nat
        BY <2>1, <2>2, SessionConstants DEF SessionInv, SessionTypeOK
    <3>2. \A s \in 1..MaxTurns : s > turns => counts'[s] = NoEvents
        BY <1>1 DEF Unused
    <3>3. \A s \in 1..MaxTurns : s > turns' => s > turns
        BY <3>1
    <3>4. turns' > turns
        BY <3>1
    <3> QED BY <3>1, <3>2, <3>3, <3>4 DEF Unused
  <2>3. CASE ~ \E r \in Runs : Launch(r)
    <3>1. turns' = turns /\ \A r \in Runs : Begins(r)' => Begins(r)
      <4>1. ASSUME NEW q \in Runs, NEW rt, NEW f, CreateRun(q, rt, f) \/ AddRun(q) \/ CancelRun(q)
            PROVE  turns' = turns /\ \A r \in Runs : Begins(r)' => Begins(r)
          BY <4>1 DEF CreateRun, AddRun, CancelRun, GoTo, Begins, SessionInv, SessionTypeOK
      <4>2. CASE GrowOld \/ CleanupAgentSessions
          BY <4>2 DEF GrowOld, CleanupAgentSessions, Begins
      <4> QED BY <2>3, <4>1, <4>2 DEF OtherStep
    <3>2. (\E r \in Runs : Begins(r)) => turns \in 1..MaxTurns
        BY SessionConstants DEF Begins, SessionInv, SessionTypeOK, InOrder, Executing
    <3> QED BY <1>1, <3>1, <3>2 DEF Unused
  <2> QED BY <2>2, <2>3
<1>3. ASSUME NEW r \in Runs, phase'[r] = "codex", Codex(Home(r))' # {}
      PROVE  /\ phase[r] = "codex" /\ Codex(Home(r))' = Codex(Home(r))
             /\ counts'[Newest(Codex(Home(r)))] = counts[Newest(Codex(Home(r)))]
  <2>1. phase[r] = "codex" /\ told'[r] = told[r] /\ own' = own /\ dir' \in {dir, {}}
      BY <1>3, OtherKeepsCodex
  <2>2. Home(r)' = Home(r)
      BY <1>3, <2>1, NoFiles DEF Home
  <2>3. Newest(Codex(Home(r))) \in Ids(Codex(Home(r))) /\ Newest(Codex(Home(r))) \in 1..MaxTurns
      BY <1>3, <2>2, HomeFiles, NewestIsThere, SessionConstants
  <2>4. Newest(Codex(Home(r))) \in Ids(Home(r))'
      BY <2>2, <2>3 DEF Ids, Codex, listCodexSessionFiles
  <2>5. Newest(Codex(Home(r))) \in Readable'
      BY <1>3, <2>4 DEF Readable, Home
  <2> QED BY <1>1, <2>1, <2>2, <2>3, <2>5
<1>4. Covered'
    BY <1>3 DEF Covered, Grown
<1> QED BY <1>2, <1>4

\* No other step leaves a worker about to begin, or codex at work.
LEMMA UnusedKept ==
    ASSUME UsageInv, Unused, KeepReadable \/ UNCHANGED counts, turns' = turns,
           \A r \in Runs : ~Begins(r)'
    PROVE  Unused'
  BY KeptCounts DEF Unused, UsageInv, Typed

LEMMA LogCounts ==
    ASSUME UsageInv, SessionInv', Unused, Covered, counting, NEW r \in Runs, RunAgent(r),
           LogUsage(r)
    PROVE  Unused' /\ Covered'
<1> USE DEF UsageInv
<1>1. /\ r \in Executing /\ runtime[r] # "codex" /\ turns' = turns
      /\ \A q \in Runs : q # r => phase'[q] \in {"absent", "created", "queued", "closed"}
      /\ phase'[r] \in {"goose", "ended"}
  <2>1. \A q \in Runs : q # r => phase'[q] = phase[q]
      BY OthersWait
  <2>2. runtime[r] # "codex" /\ turns' = turns
      BY DEF LogUsage, RunAgent
  <2>3. phase'[r] \in {"goose", "ready", "codex", "ended"}
      BY AgentPhases DEF SessionInv, SessionTypeOK
  <2>4. phase'[r] \notin {"ready", "codex"}
    <3>1. InOrder' /\ runtime' = runtime
        BY DEF SessionInv, RunAgent
    <3> QED BY <2>2, <3>1 DEF InOrder
  <2> QED BY <2>1, <2>2, <2>3, <2>4, AgentPhases, Alone
<1>2. Unused'
    BY <1>1, UnusedKept DEF LogUsage, Begins
<1>3. \A q \in Runs : recorded'[q] <= spent'[q]
  <2>1. /\ recorded \in [Runs -> Usages] /\ spent \in [Runs -> Nat]
        /\ \A q \in Runs : recorded[q] <= spent[q]
      BY DEF Typed, Covered
  <2>2. ASSUME NEW n \in 1..MaxTokens, Spend(r, n), recorded' = [recorded EXCEPT ![r] = n]
        PROVE  \A q \in Runs : recorded'[q] <= spent'[q]
    <3>1. n \in Nat /\ spent[r] \in Nat
        BY <2>1, UsageConstants
    <3>2. spent' = [spent EXCEPT ![r] = spent[r] + n] /\ n <= spent[r] + n
        BY <2>2, <3>1 DEF Spend
    <3> QED BY <2>1, <2>2, <3>1, <3>2
  <2> QED BY <2>1, <2>2 DEF LogUsage
<1>4. Covered'
    BY <1>1, <1>3 DEF Covered
<1> QED BY <1>2, <1>4

LEMMA SettleCounts ==
    ASSUME UsageInv, Unused, Covered, counting, NEW r \in Runs, Finalize(r), SettleUsage(r)
    PROVE  Unused' /\ Covered' /\ charged'.tokens <= charged'.spent
<1> USE DEF UsageInv
<1>1. turns' = turns /\ \A q \in Runs : phase'[q] \notin {"told", "ready", "codex"}
    BY FinalizePhases DEF Finalize
<1>2. Unused'
    BY <1>1, UnusedKept DEF SettleUsage, Begins
<1>3. /\ recorded \in [Runs -> Usages] /\ spent \in [Runs -> Nat]
      /\ \A q \in Runs : recorded[q] <= spent[q]
    BY DEF Typed, Covered
<1>4. \A q \in Runs : recorded'[q] <= spent'[q]
  <2>1. \/ UNCHANGED <<recorded, spent>>
        \/ recorded' = [recorded EXCEPT ![r] = NoUsage] /\ spent' = [spent EXCEPT ![r] = 0]
      BY DEF SettleUsage, ChargeRun
  <2> QED BY <1>3, <2>1 DEF NoUsage
<1>5. charged'.tokens <= charged'.spent
  <2>1. charged' \in {NoCharge, [tokens |-> recorded[r], spent |-> spent[r]]}
      BY DEF SettleUsage, ChargeRun, UpsertRunTokenUsage, NothingCharged
  <2> QED BY <1>3, <2>1 DEF NoCharge, NoUsage
<1> QED BY <1>1, <1>2, <1>4, <1>5 DEF Covered

LEMMA RecordCounts ==
    ASSUME UsageInv, Unused, Covered, counting, NEW r \in Runs, RunAgent(r),
           recordCodexRunTokenUsage(r)
    PROVE  Unused' /\ Covered'
<1> USE DEF UsageInv
<1> DEFINE H == Codex(Home(r))
<1>1. /\ phase[r] = "codex" /\ r \in Executing /\ turns' = turns
      /\ UNCHANGED <<counts, spent>>
    BY DEF recordCodexRunTokenUsage, Executing, RunAgent
<1>2. discoverLatestCodexSessionID(r)
    BY <1>1, Zenon DEF RunAgent, RunGoose, RunGooseOnce, FallBack, PrepareCodex, RunCodex, RunClaude
<1>3. found'[r] = Newest(H) /\ \A q \in Runs : phase'[q] \notin {"told", "ready", "codex"}
  <2>1. /\ phase'[r] = "ended" /\ found'[r] = Newest(H)
        /\ \A q \in Runs : q # r => phase'[q] = phase[q]
      BY <1>2 DEF discoverLatestCodexSessionID, Ends, GoTo, SessionInv, SessionTypeOK, Codex
  <2> QED BY <1>1, <2>1, Alone
<1>4. Unused'
    BY <1>1, <1>3, UnusedKept DEF Begins
<1>5. /\ recorded \in [Runs -> Usages] /\ spent \in [Runs -> Nat] /\ counts \in [1..MaxTurns -> File]
      /\ baseline \in [Runs -> [session : 0..MaxTurns, past : File]]
      /\ \A q \in Runs : recorded[q] <= spent[q]
    BY DEF Typed, Covered
<1>6. ASSUME NEW usage \in loadCodexRunTokenUsage(r, found'[r]) PROVE usage <= spent[r]
  <2> DEFINE s == Newest(H)
             base == baseline[r]
             delta == IF base.session \in {s, NoId}
                      THEN ExtractCodexSessionUsageDelta(counts[s], base.past) ELSE NoUsage
             sub == IF NoUsage \in {counts[s].total, base.past.total} THEN {counts[s].total}
                    ELSE SubtractTokenUsage(counts[s].total, base.past.total)
  <2>1. spent[r] \in Nat
      BY <1>5
  <2>2. CASE H = {}
    <3>1. resolveCodexSessionPath(Home(r), found'[r]) = NoId
        BY <1>3, <2>2 DEF resolveCodexSessionPath, Newest, Codex
    <3>2. usage = NoUsage
        BY <1>6, <3>1 DEF loadCodexRunTokenUsage
    <3> QED BY <2>1, <3>2 DEF NoUsage
  <2>3. CASE H # {}
    <3>1. s \in Ids(H) /\ s \in 1..MaxTurns /\ s # NoId
        BY <2>3, HomeFiles, NewestIsThere, SessionConstants DEF NoId
    <3>2. resolveCodexSessionPath(Home(r), found'[r]) = s
        BY <1>3, <3>1 DEF resolveCodexSessionPath, Codex
    <3>3. usage \in IF delta # NoUsage THEN {delta} ELSE sub
        BY <1>6, <3>1, <3>2 DEF loadCodexRunTokenUsage, ExtractCodexSessionUsage
    <3>4. /\ counts[s].lasts \in Nat /\ base.past.lasts \in Nat
          /\ counts[s].total \in Nat \cup {-1} /\ base.past.total \in Nat \cup {-1}
        BY <1>5, <3>1 DEF File, Usages, NoUsage
    <3>5. Grown(r, s)
        BY <1>1, <2>3 DEF Covered
    <3>6. base.session = NoId => base.past.lasts = 0 /\ base.past.total = -1
        BY DEF Measured, NoEvents, NoUsage
    <3>7. delta <= spent[r]
      <4>1. CASE base.session = s
          BY <2>1, <3>4, <3>5, <4>1 DEF Grown, ExtractCodexSessionUsageDelta, NoUsage
      <4>2. CASE base.session # s
          BY <2>1, <3>4, <3>5, <3>6, <4>2 DEF Grown, ExtractCodexSessionUsageDelta, NoUsage
      <4> QED BY <4>1, <4>2
    <3>8. ASSUME NEW n \in sub PROVE n <= spent[r]
      <4>1. CASE base.session = s
          BY <2>1, <3>4, <3>5, <4>1 DEF Grown, SubtractTokenUsage, NoUsage
      <4>2. CASE base.session # s
          BY <2>1, <3>4, <3>5, <4>2 DEF Grown, SubtractTokenUsage, NoUsage
      <4> QED BY <4>1, <4>2
    <3> HIDE DEF delta, sub
    <3> QED BY <3>3, <3>7, <3>8
  <2> QED BY <2>2, <2>3
<1>7. \A q \in Runs : recorded'[q] <= spent'[q]
  <2>1. \/ recorded' = recorded
        \/ \E usage : usage <= spent[r] /\ recorded' = [recorded EXCEPT ![r] = usage]
      BY <1>5, <1>6 DEF recordCodexRunTokenUsage
  <2> QED BY <1>1, <1>5, <2>1
<1>8. Covered'
    BY <1>3, <1>7 DEF Covered
<1> QED BY <1>4, <1>8

\* Where codex is, after it ran, compared with what was measured: the same
\* session, or one that began with this execution.
LEMMA MeasuredSession ==
    ASSUME UsageInv, Agreed, Unused, mode \in {"off", "all"}, NEW r \in Runs,
           phase[r] = "ready", runtime[r] = "codex", RunAgent(r),
           NEW F, F = Codex(Home(r))', F # {}, NEW s, s = Newest(F),
           NEW s0, s0 = resolveCodexSessionPath(Home(r), told[r].id)
    PROVE  s \in 1..turns /\ (s0 = s \/ (s0 # s /\ counts[s] = NoEvents))
<1> USE DEF UsageInv
<1> DEFINE H == Home(r)
<1>1. /\ RunCodex(r) /\ r \in Executing /\ told' = told
      /\ FilesOK(H, turns) /\ FilesOK(H, turns - 1)
      /\ turns \in Nat /\ turns <= MaxTurns /\ turns \in 1..turns /\ turns # Name
  <2>1. RunCodex(r)
      BY Zenon DEF RunAgent, RunGoose, RunGooseOnce, FallBack, PrepareCodex,
         discoverLatestCodexSessionID, RunClaude
  <2>2. r \in Executing /\ told' = told
      BY DEF Executing, RunAgent
  <2>3. FilesOK(H, turns) /\ FilesOK(H, turns - 1)
      BY DEF SessionInv, Kept, Home, Begins
  <2>4. turns \in Nat /\ turns <= MaxTurns /\ turns > 0
      BY <2>2, HomeFiles DEF SessionInv, InOrder
  <2> QED BY <2>1, <2>2, <2>3, <2>4, SessionConstants DEF Name
<1>2. turns \notin Ids(Codex(H))
  <2>1. \A x \in Codex(H) : x.id \in 1..(turns - 1)
      BY <1>1 DEF FilesOK, Codex, listCodexSessionFiles
  <2> QED BY <1>1, <2>1 DEF Ids
<1>3. s0 # NoId => s0 \in Ids(Codex(H))
    BY <1>1, ResolvedPath
<1>4. CASE \/ told[r].resume /\ KeepInDir(Use(dir, Session("codex", turns)))
           \/ ~told[r].resume /\ own' = [own EXCEPT ![r] = Use(@, Session("codex", turns))]
  <2>1. Home(r)' = Use(H, Session("codex", turns)) \/ Codex(Home(r))' = {}
      BY <1>1, <1>4, NoFiles DEF KeepInDir, Home, SessionInv, SessionTypeOK
  <2>2. s = turns
      BY <1>1, <2>1, UseOfCodex
  <2>3. counts[turns] = NoEvents
      BY DEF Unused, Begins
  <2>4. s0 # turns
      BY <1>1, <1>2, <1>3 DEF NoId
  <2> QED BY <1>1, <2>2, <2>3, <2>4
<1>5. CASE told[r].resume /\ told[r].id # NoId /\ told[r].id \in Ids(dir)
           /\ KeepInDir(Use(dir, Session("codex", told[r].id)))
  <2>1. told[r].id \in 0..MaxTurns
      BY <1>1, ReportedIds DEF SessionInv
  <2>2. told[r].id \in Ids(Codex(dir)) /\ told[r].id \in 1..turns
      BY <1>1, <1>5, <2>1, CodexIds, SessionConstants DEF Name, Home
  <2>3. s0 = told[r].id
      BY <1>5, <2>2 DEF resolveCodexSessionPath, Codex, Home
  <2>4. Home(r)' = Use(H, Session("codex", told[r].id)) \/ Codex(Home(r))' = {}
      BY <1>1, <1>5, NoFiles DEF KeepInDir, Home
  <2>5. s = told[r].id
      BY <1>1, <1>5, <2>2, <2>4, UseOfCodex DEF Home
  <2> QED BY <2>2, <2>3, <2>5
<1>6. CASE UNCHANGED <<dir, own>>
  <2>1. Home(r)' = H
      BY <1>1, <1>6 DEF Home
  <2>2. s = Newest(Codex(H)) /\ Codex(H) # {} /\ s \in Ids(Codex(H)) /\ s \in 1..turns
      BY <1>1, <2>1, NewestIsThere
  <2>3. CASE told[r].id = NoId
      BY <2>2, <2>3 DEF resolveCodexSessionPath, Codex
  <2>4. CASE told[r].id # NoId
    <3>1. told[r].resume /\ mode = "all"
        BY <1>1, <2>4 DEF SessionInv, Asked, SessionEnabled
    <3>2. H = dir /\ told[r].id = s
        BY <2>2, <2>4, <3>1 DEF Agreed, Home, Begins
    <3> QED BY <2>2, <2>4, <3>2 DEF resolveCodexSessionPath, Codex
  <2> QED BY <2>2, <2>3, <2>4
<1> QED BY <1>1, <1>4, <1>5, <1>6 DEF RunCodex, CodexRunArgs

LEMMA MeasureCounts ==
    ASSUME UsageInv, Unused, Covered, NEW r \in Runs, RunAgent(r), MeasureCodex(r)
    PROVE  Unused' /\ Covered'
<1>1. /\ phase[r] = "told" /\ UNCHANGED <<counts, recorded, spent, turns>>
      /\ PrepareCodex(r) /\ r \in Executing
    BY Zenon DEF MeasureCodex, RunAgent, RunGoose, RunGooseOnce, FallBack, RunCodex, RunClaude,
       discoverLatestCodexSessionID, IsGoose, GooseRuntimes, Executing
<1>2. phase' = [phase EXCEPT ![r] = "ready"] /\ phase \in [Runs -> Phases]
    BY <1>1 DEF PrepareCodex, GoTo, UsageInv, SessionInv, SessionTypeOK
<1>3. \A q \in Runs : phase'[q] # "codex"
    BY <1>1, <1>2, Alone DEF UsageInv
<1>4. Begins(r)
    BY <1>1 DEF Begins
<1> QED BY <1>1, <1>3, <1>4 DEF Unused, Covered

LEMMA CallCounts ==
    ASSUME UsageInv, Agreed, Unused, Covered, counting, mode \in {"off", "all"},
           NEW r \in Runs, RunAgent(r), CallCodex(r)
    PROVE  Unused' /\ Covered'
<1> USE DEF UsageInv
<1>0. PICK H, s, s0 : /\ H = Codex(Home(r))' /\ s = Newest(H)
                      /\ s0 = resolveCodexSessionPath(Home(r), told[r].id)
    OBVIOUS
<1>1. /\ runtime[r] = "codex" /\ phase[r] = "ready" /\ r \in Executing /\ turns' = turns
      /\ turns \in Nat /\ turns <= MaxTurns /\ SessionInv' /\ RunCodex(r)
      /\ UNCHANGED <<recorded, baseline, told, age>>
  <2>1. RunCodex(r)
      BY Zenon DEF CallCodex, RunAgent, RunGoose, RunGooseOnce, FallBack, PrepareCodex, RunClaude,
         discoverLatestCodexSessionID
  <2>2. SessionInv'
      BY StepOfSessions DEF Next
  <2> QED BY <2>1, <2>2, HomeFiles DEF CallCodex, Executing, RunAgent, RunCodex
<1>2. \A q \in Runs : ~Begins(q)' /\ (phase'[q] = "codex" => q = r)
  <2>1. /\ \A q \in Runs : q # r => phase'[q] = phase[q]
        /\ phase'[r] = "codex"
      BY <1>1 DEF RunCodex, GoTo, SessionInv, SessionTypeOK
  <2> QED BY <1>1, <2>1, Alone DEF Begins
<1>3. /\ counts \in [1..MaxTurns -> File] /\ spent \in [Runs -> Nat]
      /\ \A x \in 1..MaxTurns : counts[x].lasts \in Nat /\ counts[x].total \in Nat \cup {-1}
      /\ baseline \in [Runs -> [session : 0..MaxTurns, past : File]]
      /\ \A q \in Runs : recorded[q] <= spent[q] /\ recorded[q] \in Nat \cup {-1}
    BY DEF Typed, File, Covered, Usages, NoUsage
<1>4. ASSUME told[r].resume, age = "none" PROVE H = {}
  <2>1. dir' = {}
      BY <1>1, <1>4 DEF SessionInv, SessionTypeOK
  <2> QED BY <1>0, <1>1, <1>4, <2>1, NoFiles DEF Home
<1>5. ASSUME H # {}
      PROVE  baseline[r] = IF s0 = NoId THEN NoBaseline ELSE [session |-> s0, past |-> counts[s0]]
    BY <1>0, <1>1, <1>5, <1>4 DEF Measured, captureCodexUsageBaseline
\* Nothing is counted, or what was taken is, in the session where codex is.
<1>6. \/ UNCHANGED <<counts, spent>>
      \/ \E n \in Nat : Spend(r, n) /\ \/ s \in 1..turns /\ CountTokens(s, n)
                                       \/ H = {} /\ UNCHANGED counts
  <2>1. ASSUME NEW n \in 1..MaxTokens, s \in {turns, told[r].id} \ {NoId} PROVE s \in 1..turns
    <3>1. H # {}
        BY <1>0, <2>1 DEF Newest
    <3>2. FilesOK(Home(r)', turns)
        BY <1>1 DEF SessionInv, Kept, Home
    <3> QED BY <1>0, <1>1, <3>1, <3>2, NewestIsThere
  <2>3. \A n \in 1..MaxTokens : n \in Nat
      BY UsageConstants
  <2> QED BY <1>0, <1>4, <2>1, <2>3 DEF CallCodex, Codex
<1>7. /\ spent' \in [Runs -> Nat] /\ \A q \in Runs : spent'[q] >= spent[q]
      /\ \A x \in 1..MaxTurns : x > turns => counts'[x] = counts[x]
      /\ counts' \in [1..MaxTurns -> File]
  <2>1. CASE UNCHANGED <<counts, spent>>
      BY <1>3, <2>1
  <2>2. ASSUME NEW n \in Nat, Spend(r, n)
        PROVE  spent' \in [Runs -> Nat] /\ \A q \in Runs : spent'[q] >= spent[q]
    <3>1. spent' = [spent EXCEPT ![r] = spent[r] + n] /\ spent[r] + n \in Nat
        BY <1>3, <2>2 DEF Spend
    <3> QED BY <1>3, <3>1
  <2>3. ASSUME NEW n \in Nat, s \in 1..turns, CountTokens(s, n)
        PROVE  /\ \A x \in 1..MaxTurns : x > turns => counts'[x] = counts[x]
               /\ counts' \in [1..MaxTurns -> File]
    <3>1. s \in 1..MaxTurns /\ \A x \in 1..MaxTurns : x > turns => x # s
        BY <1>1, <2>3, SessionConstants
    <3> QED BY <1>3, <2>3, <3>1, CountedTokens
  <2> QED BY <1>3, <1>6, <2>1, <2>2, <2>3
<1>8. Unused'
    BY <1>1, <1>2, <1>7 DEF Unused
<1>9. ASSUME H # {} PROVE Grown(r, s)'
  <2>1. s \in 1..turns /\ (s0 = s \/ (s0 # s /\ counts[s] = NoEvents))
      BY <1>0, <1>1, <1>9, MeasuredSession
  <2>2. s \in 1..MaxTurns /\ s # NoId
      BY <1>1, <2>1, SessionConstants DEF NoId
  <2> DEFINE was == counts[s]
             is  == counts'[s]
  <2>3. /\ was.lasts \in Nat /\ was.total \in Nat \cup {-1}
        /\ is.lasts \in Nat /\ is.total \in Nat \cup {-1}
      BY <1>3, <1>7, <2>2 DEF File, Usages, NoUsage
  <2>4. /\ spent[r] \in Nat /\ spent'[r] \in Nat
        /\ is.lasts - was.lasts <= spent'[r]
        /\ is.total # -1 => is.total - (IF was.total = -1 THEN 0 ELSE was.total) <= spent'[r]
    <3>1. spent[r] \in Nat /\ spent'[r] \in Nat
        BY <1>3, <1>7
    <3>2. CASE UNCHANGED <<counts, spent>>
      <4>1. is = was
          BY <3>2
      <4> HIDE DEF is, was
      <4> QED BY <2>3, <3>1, <4>1
    <3>3. ASSUME NEW n \in Nat, Spend(r, n), CountTokens(s, n)
          PROVE  /\ is.lasts - was.lasts <= spent'[r]
                 /\ is.total # -1 => is.total - (IF was.total = -1 THEN 0 ELSE was.total) <= spent'[r]
      <4>1. spent'[r] = spent[r] + n
          BY <1>3, <3>3 DEF Spend
      <4>2. /\ is.lasts <= was.lasts + n
            /\ is.total = n + IF was.total = -1 THEN 0 ELSE was.total
          BY <1>3, <2>2, <3>3, CountedTokens DEF NoUsage
      <4> HIDE DEF is, was
      <4> QED BY <2>3, <3>1, <4>1, <4>2
    <3> QED BY <1>6, <1>9, <3>1, <3>2, <3>3
  <2>5. CASE s0 = s
    <3>1. baseline'[r].session = s /\ baseline'[r].past = was
        BY <1>1, <1>5, <1>9, <2>2, <2>5
    <3> HIDE DEF was, is
    <3> QED BY <2>4, <3>1 DEF Grown, NoUsage, is
  <2>6. CASE s0 # s /\ counts[s] = NoEvents
    <3>1. baseline'[r].session # s
        BY <1>1, <1>5, <1>9, <2>2, <2>6 DEF NoBaseline
    <3>2. was.lasts = 0 /\ was.total = -1
        BY <2>6 DEF NoEvents, NoUsage
    <3>3. is.lasts <= spent'[r] /\ is.total <= spent'[r]
      <4> HIDE DEF is, was
      <4> QED BY <2>3, <2>4, <3>2
    <3> HIDE DEF was
    <3> QED BY <3>1, <3>3 DEF Grown
  <2> QED BY <2>1, <2>5, <2>6
<1>10. \A q \in Runs : recorded'[q] <= spent'[q]
  <2>1. ASSUME NEW q \in Runs
        PROVE  /\ spent[q] \in Nat /\ spent'[q] \in Nat /\ recorded[q] \in Nat \cup {-1}
               /\ recorded[q] <= spent[q] /\ spent'[q] >= spent[q] /\ recorded'[q] = recorded[q]
      BY <1>1, <1>3, <1>7
  <2> QED BY <2>1
<1>11. Covered'
    BY <1>0, <1>2, <1>9, <1>10 DEF Covered
<1> QED BY <1>8, <1>11

ChargeInv ==
    /\ UsageInv /\ charged.tokens <= charged.spent
    /\ counting => Agreed /\ Unused /\ Covered

LEMMA NothingIsFree == NoCharge.tokens <= NoCharge.spent
  BY DEF NoCharge, NoUsage

LEMMA InitCharges == UsageInit => ChargeInv
<1> SUFFICES ASSUME UsageInit PROVE ChargeInv
    OBVIOUS
<1>1. UsageInv
    BY InitSessions, NoEventsType DEF UsageInv, UsageInit, Typed, Measured, Init, NoBaseline
<1>2. Agreed /\ Unused
    BY SessionConstants DEF UsageInit, Init, Agreed, Unused, NoRow, Begins
<1>3. Covered
    BY DEF UsageInit, Init, Covered, NoUsage
<1> QED BY <1>1, <1>2, <1>3, NothingIsFree DEF ChargeInv, UsageInit

LEMMA StepOfCharges ==
    ASSUME Modes \subseteq {"off", "all"}, ~AfterLoss, ChargeInv,
           [UsageNext]_<<vars, usageVars>>
    PROVE  ChargeInv'
<1>1. /\ SessionInv /\ Typed /\ Measured /\ mode \in {"off", "all"}
      /\ charged.tokens <= charged.spent
    BY DEF ChargeInv, UsageInv, SessionInv, SessionTypeOK
<1>2. SessionInv'
    BY <1>1, StepOfCounting, StepOfSessions
<1>3. UsageInv'
    BY <1>1, <1>2, StepOfTypes DEF UsageInv
<1>4. CASE UNCHANGED <<vars, usageVars>>
  <2>1. counting => (Agreed /\ Unused /\ Covered)'
      BY <1>4 DEF ChargeInv, Agreed, Begins, Unused, Covered, Grown, Home, vars, usageVars
  <2> QED BY <1>1, <1>3, <1>4, <2>1 DEF ChargeInv, usageVars
<1>5. CASE ~counting /\ Next /\ UNCHANGED usageVars
    BY <1>1, <1>3, <1>5 DEF ChargeInv, usageVars
<1>6. CASE counting /\ CountedNext
  <2>1. UsageInv /\ Agreed /\ Unused /\ Covered
      BY <1>6 DEF ChargeInv
  <2>2. ASSUME NEW r \in Runs, RunAgent(r),
               MeasureCodex(r) \/ CallCodex(r) \/ recordCodexRunTokenUsage(r) \/ LogUsage(r)
        PROVE  (Agreed /\ Unused /\ Covered)' /\ charged' = NoCharge
    <3>1. charged' = NoCharge
        BY <2>2 DEF MeasureCodex, CallCodex, recordCodexRunTokenUsage, LogUsage, NothingCharged
    <3> QED BY <1>1, <1>2, <1>6, <2>1, <2>2, <3>1, AgentCharges, MeasureCounts, CallCounts,
               RecordCounts, LogCounts
  <2>3. ASSUME NEW r \in Runs, Finalize(r), ~Lost(r), SettleUsage(r)
        PROVE  (Agreed /\ Unused /\ Covered)' /\ charged'.tokens <= charged'.spent
      BY <1>6, <2>1, <2>3, FinalizeCharges, SettleCounts
  <2>4. ASSUME StopCounting
        PROVE  ~counting' /\ charged' = NoCharge
      BY <2>4 DEF StopCounting, NothingCharged
  <2>5. ASSUME OtherStep, NothingCharged, KeepReadable, UNCHANGED <<baseline, recorded, spent>>
        PROVE  (Agreed /\ Unused /\ Covered)' /\ charged' = NoCharge
    <3>1. Agreed'
        BY <2>1, <2>5, OtherCharges, LaunchCharges DEF OtherStep
    <3> QED BY <2>1, <2>5, <3>1, OtherCounts DEF NothingCharged
  <2>6. \/ (counting => (Agreed /\ Unused /\ Covered))' /\ charged' = NoCharge
        \/ (counting => (Agreed /\ Unused /\ Covered))' /\ charged'.tokens <= charged'.spent
      BY <1>6, <2>2, <2>3, <2>4, <2>5 DEF CountedNext
  <2> QED BY <1>3, <2>6, NothingIsFree DEF ChargeInv
<1> QED BY <1>4, <1>5, <1>6 DEF UsageNext

\* Where sessions follow a whole task, or none at all, and no id of a session is
\* lost, no run is charged for what another took: of any number of runs, of codex
\* and others, that share a session, resume it, or find another than they measured.
THEOREM ChargedHolds ==
    ASSUME Modes \subseteq {"off", "all"}, ~AfterLoss
    PROVE  UsageSpec => []ChargedOnlyItsOwn
<1>1. ChargeInv => ChargedOnlyItsOwn
    BY DEF ChargeInv, ChargedOnlyItsOwn
<1>2. ChargeInv /\ [UsageNext]_<<vars, usageVars>> => ChargeInv'
    BY StepOfCharges
<1> QED BY <1>1, <1>2, InitCharges, PTL DEF UsageSpec
=============================================================================
