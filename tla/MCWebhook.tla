------------------------------ MODULE MCWebhook ------------------------------
(* Model-checking instances of Webhook. *)
EXTENDS Webhook, TLC

\* Requests run the same code.
RequestSymmetry == Permutations(Requests)

=============================================================================
