-------------------------- MODULE AccountRegistry ---------------------------
(***************************************************************************)
(* What internal/logic/account promises its callers, without requests,     *)
(* transactions or failures: a set of accounts, each registered whole in   *)
(* one step and removed whole in one step.  Accounts implements it.        *)
(***************************************************************************)
CONSTANT Legacy   \* the accounts there are at the start, without a plan

VARIABLES
    registered,  \* the accounts: their row, and whether they have a password and a plan
    retired      \* the rows of the accounts that were removed

vars == <<registered, retired>>

Rows == {entry.row : entry \in registered}

Init ==
    /\ registered = {[row |-> a, password |-> TRUE, plan |-> FALSE] : a \in Legacy}
    /\ retired = {}

\* A new id, a new username and a new email, with a password and a plan.
Register(entry) ==
    /\ entry.password /\ entry.plan
    /\ \A a \in Rows :
         /\ a.id # entry.row.id
         /\ a.username # entry.row.username
         /\ a.email # entry.row.email
    /\ \A a \in retired : a.id # entry.row.id
    /\ registered' = registered \cup {entry}
    /\ UNCHANGED retired

\* Only an account without a plan can be removed.
Remove(entry) ==
    /\ ~entry.plan
    /\ registered' = registered \ {entry}
    /\ retired' = retired \cup {entry.row}

\* The entry that a registration adds is any that is not there yet: it is
\* read off the next state, so that the ids need no bound.
Next ==
    \/ \E entry \in registered' \ registered : Register(entry)
    \/ \E entry \in registered : Remove(entry)

Spec == Init /\ [][Next]_vars
=============================================================================
