------------------------------- MODULE MCRoles -------------------------------
(* An instance of Roles, over Startup, for TLC. *)
EXTENDS Roles
=============================================================================
