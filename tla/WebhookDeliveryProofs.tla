----------------------- MODULE WebhookDeliveryProofs -----------------------
(***************************************************************************)
(* Proofs about WebhookDelivery, for any set of requests and any finite    *)
(* set of deliveries: its type invariant, that two requests never process  *)
(* the same delivery at the same time, and that a delivery recorded as     *)
(* processed was.                                                          *)
(***************************************************************************)
EXTENDS WebhookDelivery, FiniteSetTheorems, TLAPS

\* The lifetime of a claim.  OneProcessor is not inductive: what keeps a second
\* handler out is that the first one's claim carries its token and stays fresh
\* as long as it lives.
TokensAreClaims ==
    \A d \in Deliveries : token[d] # NoHandler =>
        token[d] \in claimed /\ of[token[d]] = d

IdleUnclaimed == \A h \in Handlers : pc[h] = "idle" => h \notin claimed

ClaimInForce ==
    \A h \in claimed : Live(h) /\ h \notin evicted =>
        token[of[h]] = h

LiveIsFresh ==
    \A d \in Deliveries : token[d] # NoHandler /\ Live(token[d]) => d \in fresh

CompleteIsApplied == \A h \in Handlers : pc[h] = "complete" => h \in applied

ClaimInv ==
    /\ WebhookTypeOK
    /\ TokensAreClaims
    /\ IdleUnclaimed
    /\ ClaimInForce
    /\ LiveIsFresh
    /\ CompleteIsApplied
    /\ ProcessedMeansApplied

\* The rows are finitely many, so that counting them gives a number.
LEMMA RowsCounted == Cardinality(Rows) \in Nat
<1>1. Rows \subseteq Deliveries
  BY DEF Rows
<1>2. IsFiniteSet(Rows)
  BY <1>1, DeliveryConstants, FS_Subset
<1> QED BY <1>2, FS_CardinalityType

LEMMA InitClaimInv == Init => ClaimInv
  BY DeliveryConstants
  DEF Init, ClaimInv, WebhookTypeOK, TokensAreClaims, IdleUnclaimed, ClaimInForce,
      LiveIsFresh, CompleteIsApplied, ProcessedMeansApplied, Ended, Live

\* Every step keeps the types.
LEMMA TypeStep == ASSUME WebhookTypeOK, [Next]_vars PROVE WebhookTypeOK'
<1> USE DEF WebhookTypeOK, Ended
<1>1. CASE UNCHANGED vars
  BY <1>1 DEF vars
<1>2. ASSUME NEW h \in Handlers, ClaimDelivery(h) PROVE WebhookTypeOK'
  BY <1>2, DeliveryConstants DEF ClaimDelivery, CanClaim, rowVars
<1>3. ASSUME NEW h \in Handlers, CountDeliveries(h) PROVE WebhookTypeOK'
  <2>1. Cardinality(Rows) > MaxDeliveries => Cardinality(Rows) - MaxDeliveries \in Nat
    BY RowsCounted, DeliveryConstants
  <2> QED BY <1>3, <2>1 DEF CountDeliveries, AfterClaim, rowVars
<1>4. ASSUME NEW h \in Handlers, DeleteOldestDeliveries(h) PROVE WebhookTypeOK'
  BY <1>4, DeliveryConstants DEF DeleteOldestDeliveries, AfterClaim
<1>5. ASSUME NEW h \in Handlers, ProcessEvent(h) PROVE WebhookTypeOK'
  BY <1>5 DEF ProcessEvent, rowVars
<1>6. ASSUME NEW h \in Handlers, CompleteDeliveryClaim(h) PROVE WebhookTypeOK'
  BY <1>6, DeliveryConstants DEF CompleteDeliveryClaim, Owns, rowVars
<1>7. ASSUME NEW h \in Handlers, ReleaseDeliveryClaim(h) PROVE WebhookTypeOK'
  BY <1>7, DeliveryConstants DEF ReleaseDeliveryClaim, Owns, rowVars
<1>8. ASSUME NEW h \in Handlers, Abandon(h) PROVE WebhookTypeOK'
  BY <1>8 DEF Abandon, rowVars
<1>9. ASSUME NEW d \in Deliveries, ClaimGetsStale(d) PROVE WebhookTypeOK'
  BY <1>9 DEF ClaimGetsStale
<1> QED BY <1>1, <1>2, <1>3, <1>4, <1>5, <1>6, <1>7, <1>8, <1>9 DEF Next, Handle

\* The type invariant of the deliveries table and its handlers.
THEOREM WebhookTypeCorrect == Spec => []WebhookTypeOK
<1>1. Init => WebhookTypeOK
  BY InitClaimInv DEF ClaimInv
<1> QED BY <1>1, TypeStep, PTL DEF Spec

-----------------------------------------------------------------------------
(* The lifetime of a claim, one lemma per action that touches claims.      *)

\* A stale or unknown delivery is claimed: whoever held its claim is gone.
LEMMA ClaimDeliveryStep ==
    ASSUME ClaimInv, WebhookTypeOK', NEW h \in Handlers, ClaimDelivery(h)
    PROVE  ClaimInv'
<1> USE DEF ClaimInv, WebhookTypeOK
<1>1. ~Live(h) /\ h \notin claimed /\ pc'[h] = "count"
  BY DEF ClaimDelivery, Live, IdleUnclaimed
<1>2. CanClaim(of[h]) => \A g \in Handlers : token[of[h]] = g => ~Live(g)
  BY DeliveryConstants DEF CanClaim, LiveIsFresh
<1>3. TokensAreClaims'
  BY DeliveryConstants DEF ClaimDelivery, TokensAreClaims, rowVars
<1>4. IdleUnclaimed'
  BY DEF ClaimDelivery, IdleUnclaimed
<1>5. ClaimInForce'
  <2> SUFFICES ASSUME NEW g \in claimed', Live(g)', g \notin evicted'
               PROVE  token'[of[g]] = g
    BY DEF ClaimInForce, ClaimDelivery
  <2>1. CASE g = h
    BY <1>1, <2>1 DEF ClaimDelivery
  <2>2. CASE g # h
    <3>1. g \in claimed /\ Live(g) /\ g \notin evicted
      BY <2>2 DEF ClaimDelivery, Live
    <3>2. token[of[g]] = g
      BY <3>1 DEF ClaimInForce
    <3>3. CanClaim(of[h]) => of[g] # of[h]
      BY <1>2, <3>1, <3>2
    <3> QED BY <3>2, <3>3 DEF ClaimDelivery, rowVars
  <2> QED BY <2>1, <2>2
<1>6. LiveIsFresh'
  <2> SUFFICES ASSUME NEW d \in Deliveries, token'[d] # NoHandler, Live(token[d])'
               PROVE  d \in fresh'
    BY DEF LiveIsFresh
  <2>1. CASE token'[d] = h /\ CanClaim(of[h])
    <3>1. d = of[h] \/ token[d] = h
      BY <2>1 DEF ClaimDelivery
    <3>2. token[d] # h
      BY <1>1, DeliveryConstants DEF TokensAreClaims
    <3> QED BY <2>1, <3>1, <3>2 DEF ClaimDelivery
  <2>2. CASE token'[d] # h
    <3>1. token[d] = token'[d] /\ fresh \subseteq fresh'
      BY <2>2 DEF ClaimDelivery, rowVars
    <3>2. Live(token[d])
      BY <2>2, <3>1 DEF ClaimDelivery, Live
    <3> QED BY <3>1, <3>2 DEF LiveIsFresh
  <2>3. CASE token'[d] = h /\ ~CanClaim(of[h])
    BY <1>1, <2>3, DeliveryConstants DEF ClaimDelivery, rowVars, TokensAreClaims
  <2> QED BY <2>1, <2>2, <2>3
<1>7. CompleteIsApplied'
  BY DEF ClaimDelivery, CompleteIsApplied
<1>8. ProcessedMeansApplied'
  BY DEF ClaimDelivery, ProcessedMeansApplied, rowVars
<1> QED BY <1>3, <1>4, <1>5, <1>6, <1>7, <1>8

\* A step of a handler that leaves the rows alone and wakes nobody.
LEMMA RowsUntouchedStep ==
    ASSUME ClaimInv, WebhookTypeOK', NEW h \in Handlers,
           UNCHANGED <<rowVars, of, claimed, evicted>>,
           applied \subseteq applied',
           pc[h] # "idle", pc'[h] # "idle",
           \A g \in Handlers \ {h} : pc'[g] = pc[g],
           pc'[h] = "complete" => h \in applied',
           Live(h)' => Live(h)
    PROVE  ClaimInv'
<1> USE DEF ClaimInv, WebhookTypeOK, rowVars
<1>1. TokensAreClaims' /\ IdleUnclaimed'
  BY DEF TokensAreClaims, IdleUnclaimed
<1>2. \A g \in Handlers : Live(g)' => Live(g)
  BY DEF Live
<1>3. ClaimInForce' /\ LiveIsFresh'
  BY <1>2, DeliveryConstants DEF ClaimInForce, LiveIsFresh
<1>4. CompleteIsApplied' /\ ProcessedMeansApplied'
  BY DEF CompleteIsApplied, ProcessedMeansApplied
<1> QED BY <1>1, <1>3, <1>4

\* Trimming takes claims away, and records whose.
LEMMA TrimStep ==
    ASSUME ClaimInv, WebhookTypeOK', NEW h \in Handlers, DeleteOldestDeliveries(h)
    PROVE  ClaimInv'
<1> USE DEF ClaimInv, WebhookTypeOK
<1>1. \A g \in Handlers : Live(g)' => Live(g)
  BY DEF DeleteOldestDeliveries, AfterClaim, Live, Ended
<1>2. TokensAreClaims' /\ IdleUnclaimed'
  BY DEF DeleteOldestDeliveries, AfterClaim, TokensAreClaims, IdleUnclaimed
<1>3. ClaimInForce'
  <2> SUFFICES ASSUME NEW g \in claimed', Live(g)', g \notin evicted'
               PROVE  token'[of[g]] = g
    BY DEF ClaimInForce, DeleteOldestDeliveries
  <2>1. g \in claimed /\ g \notin evicted /\ of[g] \in Deliveries
    BY DEF DeleteOldestDeliveries
  <2>2. token[of[g]] = g
    BY <1>1, <2>1 DEF ClaimInForce
  <2>3. of[g] \notin Oldest(excess[h])
    BY <2>1, <2>2 DEF DeleteOldestDeliveries
  <2> QED BY <2>1, <2>2, <2>3 DEF DeleteOldestDeliveries
<1>4. LiveIsFresh'
  BY <1>1, DeliveryConstants DEF DeleteOldestDeliveries, LiveIsFresh
<1>5. CompleteIsApplied' /\ ProcessedMeansApplied'
  BY DEF DeleteOldestDeliveries, AfterClaim, CompleteIsApplied, ProcessedMeansApplied
<1> QED BY <1>2, <1>3, <1>4, <1>5

\* A claim is given up by its holder only.
LEMMA EndOfClaimStep ==
    ASSUME ClaimInv, WebhookTypeOK', NEW h \in Handlers,
           CompleteDeliveryClaim(h) \/ ReleaseDeliveryClaim(h)
    PROVE  ClaimInv'
<1> USE DEF ClaimInv, WebhookTypeOK
<1>0. UNCHANGED <<of, claimed, applied, evicted>> /\ ~Live(h)'
      /\ \A g \in Handlers \ {h} : pc'[g] = pc[g]
  BY DEF CompleteDeliveryClaim, ReleaseDeliveryClaim, Live, Ended
<1>1. \A g \in Handlers : Live(g)' => Live(g) /\ g # h
  BY <1>0 DEF Live
<1>2. \A d \in Deliveries :
        \/ token'[d] = token[d] /\ (d \in fresh' <=> d \in fresh)
        \/ token[d] = h /\ token'[d] = NoHandler
  BY DEF CompleteDeliveryClaim, ReleaseDeliveryClaim, Owns, rowVars
<1>3. TokensAreClaims' /\ IdleUnclaimed'
  BY <1>0, <1>2
  DEF TokensAreClaims, IdleUnclaimed, CompleteDeliveryClaim, ReleaseDeliveryClaim
<1>4. ClaimInForce'
  <2> SUFFICES ASSUME NEW g \in claimed', Live(g)', g \notin evicted'
               PROVE  token'[of[g]] = g
    BY <1>0 DEF ClaimInForce
  <2>1. token[of[g]] = g /\ g # h /\ of[g] \in Deliveries
    BY <1>0, <1>1 DEF ClaimInForce
  <2> QED BY <1>2, <2>1
<1>5. LiveIsFresh'
  BY <1>1, <1>2, DeliveryConstants DEF LiveIsFresh
<1>6. CompleteIsApplied'
  BY <1>0 DEF CompleteIsApplied, CompleteDeliveryClaim, ReleaseDeliveryClaim
<1>7. ProcessedMeansApplied'
  <2> SUFFICES ASSUME NEW d \in Deliveries, row'[d] = "processed"
               PROVE  \E g \in applied : of[g] = d
    BY <1>0 DEF ProcessedMeansApplied
  <2>1. CASE row[d] = "processed"
    BY <2>1 DEF ProcessedMeansApplied
  <2>2. CASE row[d] # "processed"
    <3>1. d = of[h] /\ pc[h] = "complete"
      BY <2>2 DEF CompleteDeliveryClaim, ReleaseDeliveryClaim, Owns, rowVars
    <3> QED BY <3>1 DEF CompleteIsApplied
  <2> QED BY <2>1, <2>2
<1> QED BY <1>3, <1>4, <1>5, <1>6, <1>7

\* Only the claim of a handler that is gone gets stale.
LEMMA StaleStep ==
    ASSUME ClaimInv, WebhookTypeOK', NEW d \in Deliveries, ClaimGetsStale(d)
    PROVE  ClaimInv'
<1> USE DEF ClaimInv, WebhookTypeOK
<1>1. TokensAreClaims' /\ IdleUnclaimed' /\ CompleteIsApplied' /\ ProcessedMeansApplied'
  BY DEF ClaimGetsStale, TokensAreClaims, IdleUnclaimed, CompleteIsApplied,
         ProcessedMeansApplied
<1>2. ClaimInForce'
  BY DEF ClaimGetsStale, ClaimInForce, Live
<1>3. LiveIsFresh'
  BY DeliveryConstants DEF ClaimGetsStale, LiveIsFresh, Live
<1> QED BY <1>1, <1>2, <1>3

LEMMA ClaimInvStep == ClaimInv /\ [Next]_vars => ClaimInv'
<1> SUFFICES ASSUME ClaimInv, [Next]_vars PROVE ClaimInv'
  OBVIOUS
<1>0. WebhookTypeOK /\ WebhookTypeOK'
  BY TypeStep DEF ClaimInv
<1>1. CASE UNCHANGED vars
  BY <1>0, <1>1 DEF vars, ClaimInv, TokensAreClaims, IdleUnclaimed, ClaimInForce,
     LiveIsFresh, CompleteIsApplied, ProcessedMeansApplied, Live
<1>2. ASSUME NEW h \in Handlers, ClaimDelivery(h) PROVE ClaimInv'
  BY <1>0, <1>2, ClaimDeliveryStep
<1>3. ASSUME NEW h \in Handlers, CountDeliveries(h) \/ ProcessEvent(h) \/ Abandon(h)
      PROVE  ClaimInv'
  <2>1. UNCHANGED <<rowVars, of, claimed, evicted>> /\ applied \subseteq applied'
    BY <1>3 DEF CountDeliveries, ProcessEvent, Abandon
  <2>2. \A g \in Handlers \ {h} : pc'[g] = pc[g]
    BY <1>0, <1>3 DEF CountDeliveries, ProcessEvent, Abandon, WebhookTypeOK
  <2>3. /\ pc[h] # "idle" /\ pc'[h] # "idle"
        /\ pc'[h] = "complete" => h \in applied'
        /\ Live(h)' => Live(h)
    BY <1>0, <1>3
    DEF CountDeliveries, ProcessEvent, Abandon, AfterClaim, Live, Ended, WebhookTypeOK
  <2> QED BY <1>0, <2>1, <2>2, <2>3, RowsUntouchedStep
<1>4. ASSUME NEW h \in Handlers, DeleteOldestDeliveries(h) PROVE ClaimInv'
  BY <1>0, <1>4, TrimStep
<1>5. ASSUME NEW h \in Handlers, CompleteDeliveryClaim(h) \/ ReleaseDeliveryClaim(h)
      PROVE  ClaimInv'
  BY <1>0, <1>5, EndOfClaimStep
<1>6. ASSUME NEW d \in Deliveries, ClaimGetsStale(d) PROVE ClaimInv'
  BY <1>0, <1>6, StaleStep
<1> QED BY <1>1, <1>2, <1>3, <1>4, <1>5, <1>6 DEF Next, Handle

\* Two handlers never process the same delivery at the same time, unless the
\* claim of one of them was trimmed away.
THEOREM OneProcessorHolds == Spec => []OneProcessor
<1>1. ClaimInv => OneProcessor
  BY DEF ClaimInv, ClaimInForce, OneProcessor, Live, Ended, WebhookTypeOK
<1> QED BY <1>1, InitClaimInv, ClaimInvStep, PTL DEF Spec

\* What is recorded as processed was processed to the end.
THEOREM ProcessedMeansAppliedHolds == Spec => []ProcessedMeansApplied
<1>1. ClaimInv => ProcessedMeansApplied
  BY DEF ClaimInv
<1> QED BY <1>1, InitClaimInv, ClaimInvStep, PTL DEF Spec
=============================================================================
