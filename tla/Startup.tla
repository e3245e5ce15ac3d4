------------------------------- MODULE Startup -------------------------------
(***************************************************************************)
(* How the server comes up and goes down: it migrates the database         *)
(* (internal/dao/database/database.go, migrator.go and the two migrations  *)
(* in migrations/mysql), joins the consumer group                          *)
(* (internal/handler/consumer/consumer.go) and starts its three servers    *)
(* (internal/handler/module.go).  An error on the way ends the process.    *)
(* docker starts it again after it failed or was killed                    *)
(* ("restart: always"), and whoever stopped it does after a stop.          *)
(***************************************************************************)
EXTENDS Integers, Sequences, SequencesExt

CONSTANT MaxFaults     \* bound: how often the process ends otherwise than by itself

ASSUME FaultAssumption == MaxFaults \in Nat

\* Each statement of a migration is named for what it creates: a table, or a
\* row of account_role.
RoleRows == <<"none", "admin", "member">>
Migrations ==
    <<<<"account_role", "accounts", "account_passwords", "chatbot_webhooks">> \o RoleRows,
      <<"account_subscriptions">>>>
Schema == UNION {ToSet(Migrations[m]) : m \in 1 .. Len(Migrations)}

VARIABLES
    schema,    \* the tables and role rows there are
    applied,   \* table gorp_migrations: the migrations that were recorded
    phase,     \* of the process
    step,      \* the next statement of the migration it runs
    faults

startVars == <<schema, applied, phase, step, faults>>

StartTypeOK ==
    /\ schema \subseteq Schema
    /\ applied \subseteq 1 .. Len(Migrations)
    /\ phase \in {"down", "migrate", "serving", "stopping"}
    /\ step \in 1 .. Len(Migrations[1]) + 1
    /\ faults \in 0 .. MaxFaults

StartInit ==
    /\ schema = {} /\ applied = {}
    /\ phase = "down" /\ step = 1 /\ faults = 0

-----------------------------------------------------------------------------

\* The process is started; opening the database connects to nothing yet.
Start ==
    /\ phase = "down"
    /\ phase' = "migrate" /\ step' = 1
    /\ UNCHANGED <<schema, applied, faults>>

\* What Migrator.Up has still to do, in the order of the files.
Unapplied == {m \in 1 .. Len(Migrations) : m \notin applied}
Current == CHOOSE m \in Unapplied : \A n \in Unapplied : m <= n
Statement == Migrations[Current][step]

\* Fault: the tables are created without IF NOT EXISTS.
ExecuteStrictly ==
    /\ phase = "migrate" /\ Unapplied # {} /\ step <= Len(Migrations[Current])
    /\ IF Statement \in schema
       THEN phase' = "down" /\ UNCHANGED <<schema, step>>
       ELSE schema' = schema \cup {Statement} /\ step' = step + 1 /\ UNCHANGED phase
    /\ UNCHANGED <<applied, faults>>

\* Fault: an error of Migrator.Up does not keep the server from starting.
ExecuteRegardless ==
    /\ phase = "migrate" /\ Unapplied # {} /\ step <= Len(Migrations[Current])
    /\ IF Statement \in ToSet(RoleRows) \cap schema
       THEN phase' = "serving" /\ UNCHANGED <<schema, step>>
       ELSE schema' = schema \cup {Statement} /\ step' = step + 1 /\ UNCHANGED phase
    /\ UNCHANGED <<applied, faults>>

\* MySQL commits at every CREATE TABLE, and so out of the transaction that
\* sql-migrate opened: each statement lasts.  CREATE TABLE IF NOT EXISTS may be
\* repeated; an INSERT of a role that is there fails, and so does the start.
Execute ==
    /\ phase = "migrate" /\ Unapplied # {} /\ step <= Len(Migrations[Current])
    /\ IF Statement \in ToSet(RoleRows) \cap schema
       THEN phase' = "down" /\ UNCHANGED <<schema, step>>
       ELSE schema' = schema \cup {Statement} /\ step' = step + 1 /\ UNCHANGED phase
    /\ UNCHANGED <<applied, faults>>

Record ==
    /\ phase = "migrate" /\ Unapplied # {} /\ step > Len(Migrations[Current])
    /\ applied' = applied \cup {Current}
    /\ step' = 1
    /\ UNCHANGED <<schema, phase, faults>>

\* NewConsumer reaches a broker, and OnStart starts the servers.
Serve ==
    /\ phase = "migrate" /\ Unapplied = {}
    /\ phase' = "serving"
    /\ UNCHANGED <<schema, applied, step, faults>>

\* SIGTERM: OnStop cancels the servers and closes the database, without waiting
\* for requests.
Stop ==
    /\ phase = "serving" /\ faults < MaxFaults
    /\ phase' = "stopping" /\ faults' = faults + 1
    /\ UNCHANGED <<schema, applied, step>>

Exit ==
    /\ phase = "stopping"
    /\ phase' = "down"
    /\ UNCHANGED <<schema, applied, step, faults>>

\* The process is killed, or a statement or the broker fails while it starts.
Die ==
    /\ phase # "down" /\ faults < MaxFaults
    /\ phase' = "down" /\ faults' = faults + 1
    /\ UNCHANGED <<schema, applied, step>>

StartStep == Start \/ Execute \/ Record \/ Serve \/ Exit

-----------------------------------------------------------------------------
(* Properties *)

\* Requests are served only over a database that has every table and role,
\* however often a start was interrupted before.
ServesWholeSchema ==
    phase \in {"serving", "stopping"} =>
        schema = Schema /\ applied = 1 .. Len(Migrations)

\* A start was cut off between the first role and the record of the migration.
Torn == 1 \notin applied /\ \E row \in ToSet(RoleRows) : row \in schema

\* Once the process is not killed any more it comes up, except over a torn
\* migration: over that one it never does, and docker restarts it for ever.
StartsUnlessTorn == []<>(phase = "serving" \/ (phase = "down" /\ Torn))
=============================================================================
