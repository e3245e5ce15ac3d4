------------------------------ MODULE Profiles ------------------------------
(***************************************************************************)
(* The account's own data: UpdateProfileMe and UpdateProfilePassword of    *)
(* internal/logic/http/profile.go, the credential check of SignIn, and the *)
(* calls they make of internal/logic/account/account.go and of the tables  *)
(* accounts and account_passwords.  UpdateProfileMe reads the row outside  *)
(* of the transaction that writes all of it back; UpdateProfilePassword    *)
(* checks the old password and stores the new one in separate statements.  *)
(***************************************************************************)
EXTENDS Integers, FiniteSets

CONSTANTS
    Accounts,      \* the rows of accounts, by username
    Requests,      \* each is served once
    Kinds,         \* what requests ask for: a subset of AllKinds
    Values,        \* of each field of a row
    Passwords,
    FirstRows,     \* the rows at the start
    FirstPassword  \* everybody's password at the start

\* The columns that UpdateProfileMe may change; email has a unique index.
Fields == {"fullname", "email", "phoneNumber"}
AnyValue == UNION {Values[f] : f \in Fields}
Rows == {row \in [Fields -> AnyValue] : \A f \in Fields : row[f] \in Values[f]}
AllKinds == {"info", "password", "signIn"}

ASSUME ProfileAssumption ==
    /\ Kinds \subseteq AllKinds
    /\ Accounts # {}
    /\ FirstRows \in [Accounts -> Rows]
    /\ \A a, b \in Accounts : FirstRows[a]["email"] = FirstRows[b]["email"] => a = b
    /\ FirstPassword \in Passwords

\* A partial update names some of the fields, with their new values.
Changes ==
    UNION {{c \in [S -> AnyValue] : \A f \in S : c[f] \in Values[f]} : S \in SUBSET Fields}
NoChange == [f \in {} |-> f]

Forms ==
    [kind : {"info"} \cap Kinds, account : Accounts, change : Changes,
     old : {FirstPassword}, new : {FirstPassword}]
    \cup [kind : {"password"} \cap Kinds, account : Accounts, change : {NoChange},
          old : Passwords, new : Passwords]
    \cup [kind : {"signIn"} \cap Kinds, account : Accounts, change : {NoChange},
          old : Passwords, new : {FirstPassword}]

VARIABLES
    rows,        \* the committed rows of accounts
    password,    \* the password whose hash account_passwords holds
    pc,          \* where each request is
    form,        \* what it asks for
    seen,        \* the row it read
    pending,     \* the rows it updated and has not committed: at most one
    overtaken,   \* history: the fields that others committed since it read its row
    held         \* history: the passwords of its account since it arrived

vars == <<rows, password, pc, form, seen, pending, overtaken, held>>

Running == {"read", "check", "update", "commit", "role", "store"}
Answered == {"200", "204", "401", "403", "500", "gone"}

TypeOK ==
    /\ rows \in [Accounts -> Rows]
    /\ password \in [Accounts -> Passwords]
    /\ pc \in [Requests -> {"idle"} \cup Running \cup Answered]
    /\ \A r \in Requests : pc[r] # "idle" => form[r] \in Forms
    /\ seen \in [Requests -> Rows]
    /\ \A r \in Requests : pending[r] \subseteq Rows /\ Cardinality(pending[r]) <= 1
    /\ overtaken \in [Requests -> SUBSET Fields]
    /\ held \in [Requests -> SUBSET Passwords]

AnyForm == CHOOSE f \in Forms : TRUE

Init ==
    /\ rows = FirstRows
    /\ password = [a \in Accounts |-> FirstPassword]
    /\ pc = [r \in Requests |-> "idle"]
    /\ form = [r \in Requests |-> AnyForm]
    /\ seen = [r \in Requests |-> CHOOSE row \in Rows : TRUE]
    /\ pending = [r \in Requests |-> {}]
    /\ overtaken = [r \in Requests |-> {}]
    /\ held = [r \in Requests |-> {}]

Goto(r, there) == pc' = [pc EXCEPT ![r] = there]

\* The verified access token names the account; the body was bound.
Receive(r) ==
    /\ pc[r] = "idle"
    /\ \E f \in Forms :
         /\ form' = [form EXCEPT ![r] = f]
         /\ held' = [held EXCEPT ![r] = {password[f.account]}]
         /\ Goto(r, IF f.kind = "signIn" THEN "check" ELSE "read")
    /\ UNCHANGED <<rows, password, seen, pending, overtaken>>

\* Fault: the merge starts from a blank row.
ReadNothing(r) ==
    /\ pc[r] = "read"
    /\ overtaken' = [overtaken EXCEPT ![r] = {}]
    /\ Goto(r, IF form[r].kind = "info" THEN "update" ELSE "check")
    /\ UNCHANGED <<rows, password, form, seen, pending, held>>

\* GetAccount.  Usernames never change, so UpdateProfilePassword learns
\* nothing else from it than what the token said.
Read(r) ==
    /\ pc[r] = "read"
    /\ seen' = [seen EXCEPT ![r] = rows[form[r].account]]
    /\ overtaken' = [overtaken EXCEPT ![r] = {}]
    /\ Goto(r, IF form[r].kind = "info" THEN "update" ELSE "check")
    /\ UNCHANGED <<rows, password, form, pending, held>>

-----------------------------------------------------------------------------
(* UpdateProfileMe *)

\* Fault: of the fields that were not sent only the email is kept.
MergedNarrow(r) ==
    [f \in DOMAIN form[r].change \cup {"email"} |->
        IF f \in DOMAIN form[r].change THEN form[r].change[f] ELSE seen[r][f]]

\* The row it read with the fields of the request merged in.
Merged(r) ==
    [f \in Fields |-> IF f \in DOMAIN form[r].change THEN form[r].change[f] ELSE seen[r][f]]

\* The requests whose uncommitted update holds a lock this UPDATE needs: that
\* of the row, or that of an entry of the email index.
Blocking(r) ==
    {q \in Requests \ {r} : \E row \in pending[q] :
        \/ form[q].account = form[r].account
        \/ LET old == rows[form[q].account] IN
           old["email"] # row["email"] /\ Merged(r)["email"] \in {old["email"], row["email"]}}

EmailElsewhere(r) ==
    \E a \in Accounts \ {form[r].account} : rows[a]["email"] = Merged(r)["email"]

\* Fault: the email is looked up without waiting for other updates.
UpdateWithoutWait(r) ==
    /\ pc[r] = "update"
    /\ IF EmailElsewhere(r) \/ Merged(r) = rows[form[r].account]
       THEN Goto(r, "500") /\ UNCHANGED pending
       ELSE Goto(r, "commit") /\ pending' = [pending EXCEPT ![r] = {Merged(r)}]
    /\ UNCHANGED <<rows, password, form, seen, overtaken, held>>

\* Fault: an update waits for the email it wants to become free.
UpdateWaitsForEmail(r) ==
    /\ pc[r] = "update"
    /\ Blocking(r) = {} /\ ~EmailElsewhere(r)
    /\ IF Merged(r) = rows[form[r].account]
       THEN Goto(r, "500") /\ UNCHANGED pending
       ELSE Goto(r, "commit") /\ pending' = [pending EXCEPT ![r] = {Merged(r)}]
    /\ UNCHANGED <<rows, password, form, seen, overtaken, held>>

\* UpdateAccountInfo up to its UPDATE: the row it SELECTs in the transaction
\* only gives the username.  The UPDATE waits for locks, fails on a duplicate
\* email, and counts as failed when it changed nothing.
Update(r) ==
    /\ pc[r] = "update"
    /\ Blocking(r) = {}
    /\ IF EmailElsewhere(r) \/ Merged(r) = rows[form[r].account]
       THEN Goto(r, "500") /\ UNCHANGED pending
       ELSE Goto(r, "commit") /\ pending' = [pending EXCEPT ![r] = {Merged(r)}]
    /\ UNCHANGED <<rows, password, form, seen, overtaken, held>>

\* Applied, whether or not its acknowledgement arrives.
Commit(r) ==
    LET a == form[r].account IN
    /\ pc[r] = "commit"
    /\ \E row \in pending[r] :
         /\ rows' = [rows EXCEPT ![a] = row]
         /\ overtaken' = [q \in Requests |->
              IF q # r /\ form[q].account = a
              THEN overtaken[q] \cup {f \in Fields : row[f] # rows[a][f]}
              ELSE overtaken[q]]
    /\ pending' = [pending EXCEPT ![r] = {}]
    /\ Goto(r, "role") \/ Goto(r, "500")
    /\ UNCHANGED <<password, form, seen, held>>

\* GetRoleById, for the answer.
Role(r) ==
    /\ pc[r] = "role"
    /\ Goto(r, "200")
    /\ UNCHANGED <<rows, password, form, seen, pending, overtaken, held>>

-----------------------------------------------------------------------------
(* UpdateProfilePassword, and what SignIn checks *)

Refusal(r) == IF form[r].kind = "signIn" THEN "401" ELSE "403"
Admission(r) == IF form[r].kind = "signIn" THEN "200" ELSE "store"

\* GetAccountByUsername, then GetAccountPassword: neither the username nor the
\* id of an account ever changes.
HashOf(a) == password[a]

\* Fault: the hash is cached for good.
CheckFirstPassword(r) ==
    /\ pc[r] = "check"
    /\ Goto(r, IF form[r].old = FirstPassword THEN Admission(r) ELSE Refusal(r))
    /\ UNCHANGED <<rows, password, form, seen, pending, overtaken, held>>

\* CheckAccountValid: one SELECT reads the hash, which only its own password
\* is equal to (bcrypt).
Check(r) ==
    /\ pc[r] = "check"
    /\ Goto(r, IF form[r].old = HashOf(form[r].account) THEN Admission(r) ELSE Refusal(r))
    /\ UNCHANGED <<rows, password, form, seen, pending, overtaken, held>>

\* UpdateAccountPassword: a new hash differs from the old one even when the
\* passwords are equal, so that the UPDATE always changes its row.
Store(r) ==
    LET a == form[r].account IN
    /\ pc[r] = "store"
    /\ password' = [password EXCEPT ![a] = form[r].new]
    /\ held' = [q \in Requests |->
                  IF pc[q] \in Running /\ form[q].account = a
                  THEN held[q] \cup {form[r].new} ELSE held[q]]
    /\ Goto(r, "204") \/ Goto(r, "500")
    /\ UNCHANGED <<rows, form, seen, pending, overtaken>>

-----------------------------------------------------------------------------

\* A statement, the COMMIT or the hashing fails; the transaction is rolled back.
Fail(r) ==
    /\ pc[r] \in Running
    /\ pending' = [pending EXCEPT ![r] = {}]
    /\ Goto(r, "500")
    /\ UNCHANGED <<rows, password, form, seen, overtaken, held>>

\* The server is killed: its transactions are rolled back, its requests get
\* no answer.
Crash ==
    /\ pc' = [r \in Requests |-> IF pc[r] \in Running THEN "gone" ELSE pc[r]]
    /\ pending' = [r \in Requests |-> {}]
    /\ UNCHANGED <<rows, password, form, seen, overtaken, held>>

Serve(r) == Read(r) \/ Update(r) \/ Commit(r) \/ Role(r) \/ Check(r) \/ Store(r)

Next ==
    \/ \E r \in Requests : Receive(r) \/ Serve(r) \/ Fail(r)
    \/ Crash

Spec == Init /\ [][Next]_vars

\* Each request has a goroutine of its own, and the database lets a waiting
\* UPDATE go on when the locks are free.
FairSpec == Spec /\ \A r \in Requests : WF_vars(Serve(r))

-----------------------------------------------------------------------------
(* Properties *)

\* No two accounts have one email, whatever updates of several accounts are
\* under way: neither among the committed rows nor with one pending.
EmailsUnique ==
    \A a, b \in Accounts : a # b =>
        /\ rows[a]["email"] # rows[b]["email"]
        /\ \A r \in Requests : form[r].account = a =>
             \A row \in pending[r] : row["email"] # rows[b]["email"]

\* UpdateProfileMe overwrites a field its request does not name only with a
\* value that was the current one after the request arrived: the loser of a
\* lost update had committed while the winner was running.
LostOnlyToOverlap ==
    [][\A r \in Requests : Commit(r) =>
         \A f \in Fields \ DOMAIN form[r].change :
             rows'[form[r].account][f] = rows[form[r].account][f] \/ f \in overtaken[r]]_vars

\* The verdict on a password is right at some moment between the arrival of
\* the request and its answer: one that is accepted was the password of the
\* account then, and one is refused only if the account then had another.  So
\* once a change of the password is answered, the old one opens nothing.
ChecksAreLinearizable ==
    \A r \in Requests :
        /\ pc[r] \in {"store", "204"} \/ (pc[r] = "200" /\ form[r].kind = "signIn")
             => form[r].old \in held[r]
        /\ pc[r] \in {"401", "403"} => held[r] # {form[r].old}

\* No request waits for ever, not even behind the lock of another one's row.
EveryRequestEnds == \A r \in Requests : pc[r] \in Running ~> pc[r] \in Answered

\* profile.go: "Fetch the current account to merge partial updates".  An
\* update leaves the fields alone that its request does not name.
PartialUpdatesMerge ==
    [][\A r \in Requests : Commit(r) =>
         \A f \in Fields \ DOMAIN form[r].change :
             rows'[form[r].account][f] = rows[form[r].account][f]]_vars
=============================================================================
