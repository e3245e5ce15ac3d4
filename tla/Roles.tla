-------------------------------- MODULE Roles --------------------------------
(***************************************************************************)
(* The look-up of roles in internal/dao/database/account_role.go, in the   *)
(* server that Startup brings up.  The table is read once, by whichever    *)
(* request comes first, into a package variable without a lock: a slice    *)
(* that every request of the process shares, and that is emptied, and      *)
(* appended to row by row, while others look into it.                      *)
(*                                                                         *)
(* A request stands for a goroutine that serves one request after another. *)
(***************************************************************************)
EXTENDS Startup

CONSTANT Requests

Roles == ToSet(RoleRows)

VARIABLES
    cache,      \* accountRoleCache: the roles in the slice
    filled,     \* it is not nil
    pc,         \* "notFound" when it was answered so, "idle" otherwise
    wanted,     \* the role each request looks for, and by what
    next,       \* the row its fetch reads next
    seen,       \* the slice it read to append that row to
    cut,        \* history: the requests that took part of the rows for all
    damaged     \* history: fetches of this process overlapped, or one broke off
                \* after the slice had been filled

roleVars == <<cache, filled, pc, wanted, next, seen, cut, damaged>>
vars == <<startVars, roleVars>>

Wanted == [by : {"id", "name"}, role : Roles]
Fetching == {"reset", "query", "row", "store"}

TypeOK ==
    /\ StartTypeOK
    /\ cache \subseteq Roles
    /\ filled \in BOOLEAN
    /\ pc \in [Requests -> {"idle", "check", "look", "notFound"} \cup Fetching]
    /\ wanted \in [Requests -> Wanted]
    /\ next \in [Requests -> 1 .. Len(RoleRows) + 1]
    /\ seen \in [Requests -> SUBSET Roles]
    /\ cut \subseteq Requests
    /\ damaged \in BOOLEAN

AnyWanted == [by |-> "id", role |-> "none"]

\* A new process.
Fresh ==
    /\ cache' = {} /\ filled' = FALSE
    /\ pc' = [r \in Requests |-> "idle"]
    /\ wanted' = [r \in Requests |-> AnyWanted]
    /\ next' = [r \in Requests |-> 1]
    /\ seen' = [r \in Requests |-> {}]
    /\ cut' = {} /\ damaged' = FALSE

Init ==
    /\ StartInit
    /\ cache = {} /\ filled = FALSE
    /\ pc = [r \in Requests |-> "idle"]
    /\ wanted = [r \in Requests |-> AnyWanted]
    /\ next = [r \in Requests |-> 1]
    /\ seen = [r \in Requests |-> {}]
    /\ cut = {} /\ damaged = FALSE

Goto(r, there) == pc' = [pc EXCEPT ![r] = there]

\* A handler that needs the role of an account for its answer.
Receive(r) ==
    /\ pc[r] \in {"idle", "notFound"}
    /\ \E w \in Wanted : wanted' = [wanted EXCEPT ![r] = w]
    /\ Goto(r, "check")
    /\ UNCHANGED <<cache, filled, next, seen, cut, damaged>>

Check(r) ==
    /\ pc[r] = "check"
    /\ Goto(r, IF filled THEN "look" ELSE "reset")
    /\ UNCHANGED <<cache, filled, wanted, next, seen, cut, damaged>>

-----------------------------------------------------------------------------
(* fetchAccountRoles *)

\* (*c)[:0] of a slice that is nil is nil; of another it is empty and not nil.
Reset(r) ==
    /\ pc[r] = "reset"
    /\ cache' = {}
    /\ damaged' = (damaged \/ \E q \in Requests \ {r} : pc[q] \in {"query", "row", "store"})
    /\ Goto(r, "query")
    /\ UNCHANGED <<filled, wanted, next, seen, cut>>

\* While the server stops, the database is closed.
Query(r) ==
    /\ pc[r] = "query" /\ phase = "serving"
    /\ Goto(r, "row")
    /\ UNCHANGED <<cache, filled, wanted, next, seen, cut, damaged>>

\* rows.Next: the next row, to append to the slice as it is now; or the end.
ReadRow(r) ==
    /\ pc[r] = "row"
    /\ IF next[r] <= Len(RoleRows) /\ RoleRows[next[r]] \in schema
       THEN seen' = [seen EXCEPT ![r] = cache] /\ Goto(r, "store")
       ELSE UNCHANGED seen /\ Goto(r, "look")
    /\ UNCHANGED <<cache, filled, wanted, next, cut, damaged>>

\* Fault: the row becomes the whole slice.
StoreAlone(r) ==
    /\ pc[r] = "store"
    /\ cache' = {RoleRows[next[r]]}
    /\ filled' = TRUE
    /\ next' = [next EXCEPT ![r] = @ + 1]
    /\ seen' = [seen EXCEPT ![r] = {}]
    /\ Goto(r, "row")
    /\ UNCHANGED <<wanted, cut, damaged>>

\* The slice that append made is assigned, whatever others did to the variable
\* meanwhile.
Store(r) ==
    /\ pc[r] = "store"
    /\ cache' = seen[r] \cup {RoleRows[next[r]]}
    /\ filled' = TRUE
    /\ next' = [next EXCEPT ![r] = @ + 1]
    /\ seen' = [seen EXCEPT ![r] = {}]
    /\ Goto(r, "row")
    /\ UNCHANGED <<wanted, cut, damaged>>

\* The request is over: what it had for itself is gone.
Answer(r, there) ==
    /\ Goto(r, there)
    /\ wanted' = [wanted EXCEPT ![r] = AnyWanted]
    /\ next' = [next EXCEPT ![r] = 1]
    /\ cut' = cut \ {r}

\* The query or a Scan fails: the error is passed on, and the slice stays as it
\* is.
FailFetch(r) ==
    /\ pc[r] \in {"query", "row"}
    /\ Answer(r, "idle")
    /\ damaged' = (damaged \/ filled)
    /\ UNCHANGED <<cache, filled, seen>>

\* The connection breaks and rows.Next returns false: nobody looks at rows.Err,
\* and the rows read so far are taken for all.
BreakOff(r) ==
    /\ pc[r] = "row"
    /\ Goto(r, "look")
    /\ cut' = cut \cup {r}
    /\ damaged' = (damaged \/ filled)
    /\ UNCHANGED <<cache, filled, wanted, next, seen>>

-----------------------------------------------------------------------------
(* GetRoleById, GetRoleByName *)

\* Id 0, that of "none", counts as a missing argument.
Findable(r) == ~(wanted[r].by = "id" /\ wanted[r].role = "none")

\* Another request is assigning the slice: this one may see its old array with
\* its new length.
Racing(r) == \E q \in Requests \ {r} : pc[q] = "store"

Look(r) ==
    /\ pc[r] = "look"
    /\ \/ Answer(r, IF Findable(r) /\ wanted[r].role \in cache THEN "idle" ELSE "notFound")
       \/ Racing(r) /\ Findable(r) /\ (Answer(r, "idle") \/ Answer(r, "notFound"))
    /\ UNCHANGED <<cache, filled, seen, damaged>>

Serving(r) ==
    \/ Receive(r) \/ Check(r) \/ Reset(r) \/ Query(r) \/ ReadRow(r) \/ Store(r)
    \/ FailFetch(r) \/ BreakOff(r) \/ Look(r)

Next ==
    \/ StartStep /\ (IF phase' = "down" THEN Fresh ELSE UNCHANGED roleVars)
    \/ Stop /\ UNCHANGED roleVars
    \/ Die /\ Fresh
    \/ \E r \in Requests :
         phase \in {"serving", "stopping"} /\ Serving(r) /\ UNCHANGED startVars

Spec == Init /\ [][Next]_vars

\* The process goes on starting, or ending, and is started again: by docker after
\* it failed or was killed, by whoever stopped it after a stop.
FairSpec == Spec /\ WF_vars(StartStep /\ (IF phase' = "down" THEN Fresh ELSE UNCHANGED roleVars))

-----------------------------------------------------------------------------
(* Properties *)

\* A role that exists is refused only to a request that looked while another
\* one was reading the table, or whose own reading broke off, or after readings
\* had overlapped or broken off in this process: reading the table once is
\* enough for ever as long as readings do not meet.
RefusedOnlyWhenDisturbed ==
    [][\A r \in Requests :
         pc[r] = "look" /\ pc'[r] = "notFound" /\ Findable(r) =>
             \/ damaged \/ r \in cut
             \/ \E q \in Requests \ {r} : pc[q] \in Fetching]_vars
=============================================================================
