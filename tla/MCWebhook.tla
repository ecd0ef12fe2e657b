------------------------------ MODULE MCWebhook ------------------------------
(***************************************************************************)
(* Small instances of Webhook.                                             *)
(***************************************************************************)
EXTENDS Webhook

MCPermits == [h \in Hook |-> 2]

=============================================================================
