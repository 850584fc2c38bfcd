----------------------------- MODULE TokenUsage -----------------------------
(***************************************************************************)
(* What a run is charged for.  codex counts tokens per session, and the    *)
(* runs of a task share one: so the worker measures the session before it  *)
(* calls codex and again after it, and leaves the difference in the run's  *)
(* directory, from where the orchestrator puts it into run_token_usage     *)
(* when it settles the run.  The session measured afterwards is the one    *)
(* that was found, which need not be the one that was measured before.     *)
(*                                                                         *)
(* This module adds the counting to AgentSessions: each of its steps is a  *)
(* step there.                                                             *)
(***************************************************************************)
EXTENDS AgentSessions, Integers

CONSTANTS
    MaxTokens,  \* bound on what one execution takes
    MaxCounted, \* bound on the executions of a behaviour that is counted
    LastUsages, \* whether codex tells what the last turn took: subset of BOOLEAN
    AfterLoss   \* whether to count on when the id of a session was lost

ASSUME UsageConstants ==
    /\ MaxTokens \in Nat /\ MaxCounted \in Nat
    /\ LastUsages \subseteq BOOLEAN /\ AfterLoss \in BOOLEAN

VARIABLES
    counting,  \* whether usage is followed
    counts,    \* what the token_count events of each codex session come to
    baseline,  \* what the worker of each run measured before it called codex
    recorded,  \* the usage found in each run's directory, until the run is closed
    charged,   \* what the last step wrote to run_token_usage
    spent      \* history: what the executions of each run took, until then

usageVars == <<counting, counts, baseline, recorded, charged, spent>>

NoUsage    == -1
NoCharge   == [tokens |-> NoUsage, spent |-> 0]
NoEvents   == [total |-> NoUsage, turns |-> 0, lasts |-> 0]
NoBaseline == [session |-> NoId, past |-> NoEvents]

UsageInit ==
    /\ Init
    /\ counting \in BOOLEAN
    /\ counts = [s \in 1..MaxTurns |-> NoEvents]
    /\ baseline = [r \in Runs |-> NoBaseline]
    /\ recorded = [r \in Runs |-> NoUsage]
    /\ charged = NoCharge
    /\ spent = [r \in Runs |-> 0]

-----------------------------------------------------------------------------
(* Reading a session.  An event tells the session's total, and perhaps     *)
(* what the last turn took; one that cannot be decoded counts as none.     *)
(* Files only grow: a file is the newest total it tells (total), and the   *)
(* number (turns) and the sum (lasts) of the turns it tells of; what lies  *)
(* past an offset is the difference to what the file was before (past).    *)

ExtractCodexSessionUsage(file) == file.total

ExtractCodexSessionUsageDelta(file, past) ==
    IF file.turns = past.turns THEN NoUsage ELSE file.lasts - past.lasts

\* No difference is one of zero tokens if the totals tell their parts.
SubtractTokenUsage(total, before) ==
    {n \in {total - before} : n >= 0} \cup {n \in {NoUsage} : total <= before}

resolveCodexSessionPath(home, id) ==
    LET files == listCodexSessionFiles(home)
    IN  IF id = NoId THEN Newest(files) ELSE IF id \in Ids(files) THEN id ELSE NoId

\* The defect of measuring nothing beforehand, for the check of the property.
NoMeasure(r) == NoBaseline

captureCodexUsageBaseline(r) ==
    LET s == resolveCodexSessionPath(Home(r), told[r].id)
    IN  IF s = NoId THEN NoBaseline
        ELSE [session |-> s, past |-> counts[s]]

\* The events past the baseline count, in its session or where there was none.
\* Failing them, so does the difference of the totals, even of two sessions:
\* what may be found.
loadCodexRunTokenUsage(r, id) ==
    LET s     == resolveCodexSessionPath(Home(r), id)
        base  == baseline[r]
        total == ExtractCodexSessionUsage(counts[s])
        usage == ExtractCodexSessionUsage(base.past)
        delta == IF base.session \in {s, NoId}
                 THEN ExtractCodexSessionUsageDelta(counts[s], base.past)
                 ELSE NoUsage
    IN  CASE s = NoId -> {NoUsage}
          [] s # NoId /\ delta # NoUsage -> {delta}
          [] s # NoId /\ delta = NoUsage ->
                 IF NoUsage \in {total, usage} THEN {total} ELSE SubtractTokenUsage(total, usage)

-----------------------------------------------------------------------------
(* The steps.                                                              *)

\* A session whose directory was removed, or whose run is closed, is not read again.
Readable == Ids(dir) \cup UNION {Ids(own[r]) : r \in {q \in Runs : phase[q] # "closed"}}

KeepReadable == counts' = [s \in 1..MaxTurns |-> IF s \in Readable' THEN counts[s] ELSE NoEvents]

Spend(r, n) == spent' = [spent EXCEPT ![r] = @ + n]

NothingCharged == charged' = NoCharge

\* codex writes what it took to the session it is in, unless that was removed.
CountTokens(s, n) ==
    \E known \in LastUsages :
        counts' = [counts EXCEPT ![s] =
            [total |-> n + IF @.total = NoUsage THEN 0 ELSE @.total,
             turns |-> @.turns + IF known THEN 1 ELSE 0,
             lasts |-> @.lasts + IF known THEN n ELSE 0]]

MeasureCodex(r) ==
    /\ runtime[r] = "codex" /\ phase[r] = "told"
    /\ baseline' = [baseline EXCEPT ![r] = captureCodexUsageBaseline(r)]
    /\ NothingCharged /\ UNCHANGED <<counts, recorded, spent>>

CallCodex(r) ==
    /\ runtime[r] = "codex" /\ phase[r] = "ready"
    /\ \/ UNCHANGED <<counts, spent>>
       \/ \E n \in 1..MaxTokens :
             LET s == Newest(listCodexSessionFiles(Home(r)'))
             IN  /\ Spend(r, n)
                 /\ \/ s \in {turns, told[r].id} \ {NoId} /\ CountTokens(s, n)
                    \/ told[r].resume /\ age = "none" /\ UNCHANGED counts
    /\ NothingCharged /\ UNCHANGED <<baseline, recorded>>

\* The usage of an earlier execution of the run stays if there is none to record.
recordCodexRunTokenUsage(r) ==
    /\ runtime[r] = "codex" /\ phase[r] = "codex"
    /\ \/ \E usage \in loadCodexRunTokenUsage(r, found'[r]) :
             recorded' = [recorded EXCEPT ![r] = IF usage = NoUsage THEN @ ELSE usage]
       \/ "lost" \in Faults /\ UNCHANGED recorded
    /\ baseline' = [baseline EXCEPT ![r] = NoBaseline]
    /\ NothingCharged /\ UNCHANGED <<counts, spent>>

\* The other agents' usage is read from the log of their last attempt, which
\* tells it as soon as the attempt took any.
LogUsage(r) ==
    /\ runtime[r] # "codex"
    /\ IF phase'[r] # "ended" THEN UNCHANGED <<recorded, spent>>
       ELSE \E n \in 1..MaxTokens : Spend(r, n) /\ recorded' = [recorded EXCEPT ![r] = n]
    /\ NothingCharged /\ KeepReadable /\ UNCHANGED baseline

\* The row, and what the run had taken by then.
UpsertRunTokenUsage(r) == charged' = [tokens |-> recorded[r], spent |-> spent[r]]

\* loadRunTokenUsage and the write after it: a run that is handed back is not
\* charged, and a process may end between the status and the charge.
ChargeRun(r) ==
    /\ \/ recorded[r] # NoUsage /\ UpsertRunTokenUsage(r)
       \/ (recorded[r] = NoUsage \/ "crash" \in Faults) /\ NothingCharged
    /\ recorded' = [recorded EXCEPT ![r] = NoUsage]
    /\ spent' = [spent EXCEPT ![r] = 0]

SettleUsage(r) ==
    /\ IF phase[r] = "persisted" /\ phase'[r] = "closed"
       THEN ChargeRun(r) ELSE NothingCharged /\ UNCHANGED <<recorded, spent>>
    /\ KeepReadable /\ UNCHANGED baseline

Lost(r) ==
    /\ phase[r] = "ended" /\ phase'[r] = "persisted" /\ found[r] # NoId
    /\ row' # [runtime |-> runtime[r], id |-> found[r]]

StopCounting ==
    /\ counting' = FALSE
    /\ counts' = [s \in 1..MaxTurns |-> NoEvents]
    /\ baseline' = [r \in Runs |-> NoBaseline]
    /\ recorded' = [r \in Runs |-> NoUsage]
    /\ NothingCharged
    /\ spent' = [r \in Runs |-> 0]

\* The steps that use no tokens and settle no run.
OtherStep ==
    \/ \E r \in Runs :
          \/ \E rt \in Runtimes : \E f \in (IF mode = "pr-only" THEN BOOLEAN ELSE {TRUE}) :
                 CreateRun(r, rt, f)
          \/ AddRun(r) \/ CancelRun(r)
          \/ turns < MaxCounted /\ Launch(r)
    \/ GrowOld \/ CleanupAgentSessions

CountedNext ==
    \/ \E r \in Runs :
          \/ /\ RunAgent(r)
             /\ MeasureCodex(r) \/ CallCodex(r) \/ recordCodexRunTokenUsage(r) \/ LogUsage(r)
             /\ UNCHANGED counting
          \/ /\ Finalize(r)
             /\ IF Lost(r) /\ ~AfterLoss THEN StopCounting
                ELSE SettleUsage(r) /\ UNCHANGED counting
    \/ /\ OtherStep
       /\ NothingCharged /\ KeepReadable /\ UNCHANGED <<counting, baseline, recorded, spent>>

UsageNext ==
    \/ counting /\ CountedNext
    \/ ~counting /\ Next /\ UNCHANGED usageVars

UsageSpec == UsageInit /\ [][UsageNext]_<<vars, usageVars>>

-----------------------------------------------------------------------------
(* Properties.                                                             *)

\* Type invariant, with that of the sessions.
UsageTypeOK ==
    LET Usages == Nat \cup {NoUsage}
        File   == [total : Usages, turns : Nat, lasts : Nat]
    IN  /\ SessionTypeOK
        /\ counting \in BOOLEAN
        /\ counts \in [1..MaxTurns -> File]
        /\ baseline \in [Runs -> [session : 0..MaxTurns, past : File]]
        /\ recorded \in [Runs -> Usages] /\ charged \in [tokens : Usages, spent : Nat]
        /\ spent \in [Runs -> Nat]

\* The runs of a task share a session and its counters, and still no run is
\* charged for tokens that another run took.
ChargedOnlyItsOwn == charged.tokens <= charged.spent
=============================================================================
