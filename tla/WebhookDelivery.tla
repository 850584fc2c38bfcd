-------------------------- MODULE WebhookDelivery --------------------------
(***************************************************************************)
(* How HandleWebhook keeps GitHub's deliveries apart: the deliveries table *)
(* (internal/state/store.go, sql/queries.sql) and the handlers that claim  *)
(* a delivery, process its event, and complete or release the claim.       *)
(*                                                                         *)
(* GitHub may send a delivery any number of times, to either slot, while   *)
(* an earlier handler of it is still at work or after that one died.  A    *)
(* handler is one request, so that it can also stand for the random token  *)
(* of its claim.                                                           *)
(*                                                                         *)
(* Time: a claim is stale after ten minutes.  No handler takes that long   *)
(* (its GitHub calls and container stops time out within seconds), so only *)
(* the claim of a handler that is gone gets stale.                         *)
(***************************************************************************)
EXTENDS Integers, FiniteSets

CONSTANTS
    Deliveries,     \* X-GitHub-Delivery values
    Handlers,       \* requests
    NoHandler,      \* the empty claim token
    MaxDeliveries   \* maxDeliveries, 1000 in the code

ASSUME DeliveryConstants ==
    /\ IsFiniteSet(Deliveries)
    /\ NoHandler \notin Handlers
    /\ MaxDeliveries \in Nat \ {0}

VARIABLES
    row,        \* deliveries.status; "none" without a row
    token,      \* deliveries.claim_token
    seenAt,     \* deliveries.seen_at
    now,        \* a clock: the number of times seen_at was written
    fresh,      \* claims younger than ten minutes
    pc,         \* where each handler is
    of,         \* the delivery each handler was called with
    claimed,    \* handlers whose ClaimDelivery took the claim
    excess,     \* rows a handler found to be too many
    applied,    \* handlers that processed their event to the end
    evicted     \* history: handlers whose claim was trimmed while they held it

vars == <<row, token, seenAt, now, fresh, pc, of, claimed, excess, applied, evicted>>
rowVars == <<row, token, seenAt, now, fresh>>

Rows == {d \in Deliveries : row[d] # "none"}

Ended   == {"accepted", "failed", "duplicate", "lost"}
Live(h) == pc[h] \notin {"idle"} \cup Ended

Init ==
    /\ row = [d \in Deliveries |-> "none"]
    /\ token = [d \in Deliveries |-> NoHandler]
    /\ seenAt = [d \in Deliveries |-> 0]
    /\ now = 0
    /\ fresh = {}
    /\ pc = [h \in Handlers |-> "idle"]
    /\ of \in [Handlers -> Deliveries]
    /\ claimed = {}
    /\ excess = [h \in Handlers |-> 0]
    /\ applied = {}
    /\ evicted = {}

\* Defects someone could write into the definitions below: they show what the
\* properties notice, and are no part of the specification.
ClaimOnlyUnknown(d)  == row[d] = "none"
ClaimUnprocessed(d)  == row[d] # "processed"
ReleaseDuplicate(h)  == IF h \in claimed THEN "process" ELSE "release"
IgnoreErrors(h) ==
    /\ pc[h] = "process"
    /\ \E done \in BOOLEAN : applied' = IF done THEN applied \cup {h} ELSE applied
    /\ pc' = [pc EXCEPT ![h] = "complete"]
    /\ UNCHANGED <<rowVars, of, claimed, excess, evicted>>

-----------------------------------------------------------------------------
(* The statements.                                                         *)

\* The claim is granted when there is no row, or a stale claim.
CanClaim(d) ==
    \/ row[d] = "none"
    \/ row[d] = "processing" /\ d \notin fresh

\* seen_at is written by the insert and not by the update of a stale claim.
ClaimDelivery(h) ==
    LET d == of[h] IN
    /\ pc[h] = "idle"
    /\ \/ /\ CanClaim(d)
          /\ row' = [row EXCEPT ![d] = "processing"]
          /\ token' = [token EXCEPT ![d] = h]
          /\ fresh' = fresh \cup {d}
          /\ claimed' = claimed \cup {h}
          /\ IF row[d] = "none"
             THEN now' = now + 1 /\ seenAt' = [seenAt EXCEPT ![d] = now + 1]
             ELSE UNCHANGED <<now, seenAt>>
       \/ /\ ~CanClaim(d)
          /\ UNCHANGED <<rowVars, claimed>>
    /\ pc' = [pc EXCEPT ![h] = "count"]
    /\ UNCHANGED <<of, excess, applied, evicted>>

\* ClaimDelivery goes on to trim the table, for a duplicate as well.
AfterClaim(h) == IF h \in claimed THEN "process" ELSE "duplicate"

CountDeliveries(h) ==
    /\ pc[h] = "count"
    /\ IF Cardinality(Rows) > MaxDeliveries
       THEN /\ excess' = [excess EXCEPT ![h] = Cardinality(Rows) - MaxDeliveries]
            /\ pc' = [pc EXCEPT ![h] = "trim"]
       ELSE /\ pc' = [pc EXCEPT ![h] = AfterClaim(h)]
            /\ UNCHANGED excess
    /\ UNCHANGED <<rowVars, of, claimed, applied, evicted>>

Oldest(n) == {d \in Rows : Cardinality({e \in Rows : seenAt[e] < seenAt[d]}) < n}

DeleteOldestDeliveries(h) ==
    LET gone == Oldest(excess[h]) IN
    /\ pc[h] = "trim"
    /\ row' = [d \in Deliveries |-> IF d \in gone THEN "none" ELSE row[d]]
    /\ token' = [d \in Deliveries |-> IF d \in gone THEN NoHandler ELSE token[d]]
    /\ fresh' = fresh \ gone
    /\ evicted' = evicted \cup {g \in Handlers : \E d \in gone : token[d] = g}
    /\ pc' = [pc EXCEPT ![h] = AfterClaim(h)]
    /\ UNCHANGED <<seenAt, now, of, claimed, excess, applied>>

\* The event's actions run one after the other; the first error ends them.
ProcessEvent(h) ==
    /\ pc[h] = "process"
    /\ \/ /\ applied' = applied \cup {h}
          /\ pc' = [pc EXCEPT ![h] = "complete"]
       \/ /\ pc' = [pc EXCEPT ![h] = "release"]
          /\ UNCHANGED applied
    /\ UNCHANGED <<rowVars, of, claimed, excess, evicted>>

Owns(h) == token[of[h]] = h

CompleteDeliveryClaim(h) ==
    LET d == of[h] IN
    /\ pc[h] = "complete"
    /\ IF Owns(h)
       THEN /\ row' = [row EXCEPT ![d] = "processed"]
            /\ token' = [token EXCEPT ![d] = NoHandler]
            /\ now' = now + 1
            /\ seenAt' = [seenAt EXCEPT ![d] = now + 1]
            /\ fresh' = fresh \ {d}
            /\ pc' = [pc EXCEPT ![h] = "accepted"]
       ELSE /\ pc' = [pc EXCEPT ![h] = "failed"]
            /\ UNCHANGED rowVars
    /\ UNCHANGED <<of, claimed, excess, applied, evicted>>

ReleaseDeliveryClaim(h) ==
    LET d == of[h] IN
    /\ pc[h] = "release"
    /\ IF Owns(h)
       THEN /\ row' = [row EXCEPT ![d] = "none"]
            /\ token' = [token EXCEPT ![d] = NoHandler]
            /\ fresh' = fresh \ {d}
            /\ UNCHANGED <<seenAt, now>>
       ELSE UNCHANGED rowVars
    /\ pc' = [pc EXCEPT ![h] = "failed"]
    /\ UNCHANGED <<of, claimed, excess, applied, evicted>>

\* The process dies, the handler panics, or the store refuses a statement:
\* whatever row the handler had stays as it is.
Abandon(h) ==
    /\ Live(h)
    /\ pc' = [pc EXCEPT ![h] = "lost"]
    /\ UNCHANGED <<rowVars, of, claimed, excess, applied, evicted>>

\* Ten minutes after the claim of a handler that is gone.
ClaimGetsStale(d) ==
    /\ d \in fresh
    /\ ~\E h \in Handlers : Live(h) /\ token[d] = h
    /\ fresh' = fresh \ {d}
    /\ UNCHANGED <<row, token, seenAt, now, pc, of, claimed, excess, applied, evicted>>

Handle(h) ==
    \/ CountDeliveries(h) \/ DeleteOldestDeliveries(h) \/ ProcessEvent(h)
    \/ CompleteDeliveryClaim(h) \/ ReleaseDeliveryClaim(h)

Next ==
    \/ \E h \in Handlers : ClaimDelivery(h) \/ Handle(h) \/ Abandon(h)
    \/ \E d \in Deliveries : ClaimGetsStale(d)

Spec == Init /\ [][Next]_vars

\* A handler that began goes on, and time passes.  Nothing makes GitHub send.
FairSpec ==
    /\ Spec
    /\ \A h \in Handlers : WF_vars(Handle(h))
    /\ \A d \in Deliveries : WF_vars(ClaimGetsStale(d))

-----------------------------------------------------------------------------
(* Properties.                                                             *)

\* Type invariant.  A row is claimed exactly while it is in status processing,
\* and only a handler that was granted the claim gets past ClaimDelivery.
WebhookTypeOK ==
    /\ row \in [Deliveries -> {"none", "processing", "processed"}]
    /\ token \in [Deliveries -> Handlers \cup {NoHandler}]
    /\ seenAt \in [Deliveries -> Nat]
    /\ now \in Nat
    /\ of \in [Handlers -> Deliveries]
    /\ excess \in [Handlers -> Nat]
    /\ claimed \subseteq Handlers
    /\ applied \subseteq Handlers
    /\ evicted \subseteq Handlers
    /\ pc \in [Handlers -> {"idle", "count", "trim", "process", "complete", "release"}
                           \cup Ended]
    /\ \A d \in Deliveries : token[d] # NoHandler <=> row[d] = "processing"
    /\ fresh \subseteq {d \in Deliveries : row[d] = "processing"}
    /\ \A h \in Handlers : pc[h] \in {"process", "complete", "release"} => h \in claimed

\* Two handlers never process the same delivery at the same time, although
\* stale claims are taken over and every handler may complete or release:
\* unless trimming the table took the claim of one of them away.
OneProcessor ==
    \A g, h \in Handlers :
        /\ pc[g] = "process" /\ g \notin evicted
        /\ pc[h] = "process" /\ h \notin evicted
        /\ of[g] = of[h]
        => g = h

\* A delivery on record as processed was processed to the end by somebody:
\* a redelivery answered "duplicate" for it loses no event.
ProcessedMeansApplied ==
    \A d \in Deliveries : row[d] = "processed" =>
        \E h \in applied : of[h] = d

\* Whatever happens to the handlers, a delivery does not stay claimed: it is
\* processed, forgotten, or open to a new claim.
ClaimsEnd ==
    \A d \in Deliveries : row[d] = "processing" ~> row[d] = "processed" \/ CanClaim(d)
=============================================================================
