-------------------------- MODULE MCWebhookDelivery --------------------------
(* Instances of WebhookDelivery for TLC: one webhook. *)
EXTENDS WebhookDelivery, TLC

CONSTANT hook
MCWebhook == {hook}
MCWebhookOf == [d \in Delivery |-> hook]
MCSymmetry == Permutations(Lane) \cup Permutations(Delivery)
=============================================================================
