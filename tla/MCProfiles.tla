----------------------------- MODULE MCProfiles -----------------------------
(* Instances of Profiles for TLC. *)
EXTENDS Profiles

CONSTANTS alice, bob, v1, v2, v3

\* A free email for two accounts to race for; a phone number that stays.
MCValues ==
    [fullname |-> {v1, v2}, email |-> {v1, v2, v3}, phoneNumber |-> {v1}]

\* Two accounts that differ in their email only.
MCFirstRows ==
    [a \in Accounts |->
        [f \in Fields |-> IF f = "email" /\ a = bob THEN v2 ELSE v1]]
=============================================================================
