--------------------------- MODULE MCWebhookTasks ---------------------------
(* WebhookTasks for TLC: the runs of one task, the others being             *)
(* independent of it: one made for its issue, the others for its pull       *)
(* request.                                                                *)
EXTENDS WebhookTasks, TLC

CONSTANTS r1, r2, r3, t1, h1, h2, th1, s1, s2

MCTaskOf == [r \in Runs |-> t1]
Peers    == Permutations(Handlers)
=============================================================================
