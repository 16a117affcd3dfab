------------------------- MODULE SubscriptionWebhookMC -------------------------
(* The tenant TLC checks SubscriptionWebhook on: the ids Stripe gives out and *)
(* the webhook requests are interchangeable.                                  *)
EXTENDS SubscriptionWebhook, TLC

MCSymmetry == Permutations(Subs) \cup Permutations(Handlers)
=============================================================================
