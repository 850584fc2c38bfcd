------------------------ MODULE AllocationStrategies ------------------------
(***************************************************************************)
(* The strategies by which the credential broker chooses among the         *)
(* credentials a run may use (internal/credentials/strategies).            *)
(*                                                                         *)
(* A candidate is a record: its id, a number that orders like the string;  *)
(* whether it is shared; its owner; its weight; the leases on it that are  *)
(* in force; and the runs it served within the usage window.  Tokens are   *)
(* left out of the weighted score: the broker never records any.           *)
(***************************************************************************)
EXTENDS Integers

CONSTANT NoCred     \* ErrNoCredentialMatch

\* minBy over candidates sorted by id: the first that no other is less than;
\* none when there is no candidate.
MinBy(candidates, Less(_, _)) ==
    LET best == {c \in candidates :
                    \A d \in candidates : ~Less(d, c) /\ (~Less(c, d) => c.id <= d.id)}
    IN  IF best = {} THEN NoCred ELSE (CHOOSE c \in best : TRUE).id

FewerLeases(a, b) == a.active < b.active

\* Scores are compared as fractions: the code's floats only lose precision.
LowerScore(a, b) ==
    LET weight(c) == IF c.weight > 1 THEN c.weight ELSE 1
    IN  (a.active + a.runs) * weight(b) < (b.active + b.runs) * weight(a)

FewerLeasesThenShared(a, b) ==
    \/ a.active < b.active
    \/ a.active = b.active /\ a.shared /\ ~b.shared

Shared(candidates)       == {c \in candidates : c.shared}
Own(candidates, user)    == {c \in candidates : ~c.shared /\ c.owner = user}
FirstOf(candidates)      == MinBy(candidates, LAMBDA a, b : FALSE)

StrategyNames == {"requester_own_then_shared", "shared_least_active_leases",
                  "shared_weighted_usage", "priority_burst", "hybrid_reserve_plus_pool"}

RequesterOwnThenShared(user, candidates) ==
    IF Own(candidates, user) # {} THEN MinBy(Own(candidates, user), FewerLeases)
    ELSE MinBy(Shared(candidates), FewerLeases)

\* An own credential that is idle, then the pool, then an own one that is busy.
HybridReservePlusPool(user, candidates) ==
    LET own  == Own(candidates, user)
        idle == {c \in own : c.active = 0}
    IN  IF idle # {} THEN FirstOf(idle)
        ELSE IF Shared(candidates) # {} THEN MinBy(Shared(candidates), FewerLeases)
        ELSE FirstOf(own)

Select(strategy, user, candidates) ==
    CASE strategy = "requester_own_then_shared"  -> RequesterOwnThenShared(user, candidates)
      [] strategy = "shared_least_active_leases" -> MinBy(Shared(candidates), FewerLeases)
      [] strategy = "shared_weighted_usage"      -> MinBy(Shared(candidates), LowerScore)
      [] strategy = "priority_burst"             -> MinBy(candidates, FewerLeasesThenShared)
      [] strategy = "hybrid_reserve_plus_pool"   -> HybridReservePlusPool(user, candidates)
=============================================================================
