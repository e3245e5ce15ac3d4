----------------------------- MODULE MCWebhooks -----------------------------
(* An instance of Webhooks for TLC. *)
EXTENDS Webhooks, TLC

RequestSymmetry == Permutations(Requests)
=============================================================================
