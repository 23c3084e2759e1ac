------------------------------ MODULE MCPayments ------------------------------
(* Instances of Payments for TLC.                                            *)
EXTENDS Payments

AnyKind == {"create", "verify", "webhook", "wallet", "cleanup", "reconcile"}
WebhookOnly == {"webhook"}
AnyOutcome == {"success", "short", "failed"}
FullOrNothing == {"success", "failed"}
=============================================================================
