----------------------------- MODULE MCAccounts -----------------------------
(* The instance of Accounts for TLC. *)
EXTENDS Accounts

CONSTANTS alice, bob, mailA, mailB

\* One account from before the subscriptions table.
OldAccount == [id |-> 1, username |-> alice, email |-> mailA]

MCLegacy == {OldAccount}
MCUsernames == {alice, bob}
MCEmails == {mailA, mailB}
=============================================================================
