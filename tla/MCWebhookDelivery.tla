------------------------- MODULE MCWebhookDelivery -------------------------
(* WebhookDelivery for TLC: two deliveries, room for one row, three requests. *)
EXTENDS WebhookDelivery

CONSTANTS d1, d2, h1, h2, h3
=============================================================================
