------------------------------ MODULE MCAlerts ------------------------------
(* An instance of Alerts for TLC. *)
EXTENDS Alerts, TLC

RequestSymmetry == Permutations(Requests)
=============================================================================
