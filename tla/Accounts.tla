------------------------------ MODULE Accounts ------------------------------
(***************************************************************************)
(* Registration and removal of accounts: the sign-up handler               *)
(* (internal/logic/http/auth.go), the account logic it calls               *)
(* (internal/logic/account/account.go), the tables they write              *)
(* (internal/dao/database) and the cache of taken usernames                *)
(* (internal/dao/cache/usernames_taken.go).                                *)
(*                                                                         *)
(* A request is a process: between two of its calls to the database or to  *)
(* the cache any other request may run, any call may fail, and the server  *)
(* may be killed.  The database is modelled from how the code uses it:     *)
(* a transaction's rows are private until it commits, a unique index makes *)
(* an INSERT wait for an uncommitted rival and fail on a committed one, a  *)
(* foreign key refuses the DELETE of a row another table still refers to.  *)
(***************************************************************************)
EXTENDS Integers, FiniteSets

CONSTANTS
    Requests,      \* the sign-up requests, each served once
    Deleters,      \* the calls of DeleteAccount and DeleteAccountByUsername
    Usernames,
    Emails,
    Legacy,        \* the accounts that existed before account_subscriptions did
    FirstId        \* the AUTO_INCREMENT counter of table accounts at the start

Row == [id : Nat \ {0}, username : Usernames, email : Emails]

\* The UNIQUE constraints udx_accounts_username and udx_accounts_email.
Clash(a, b) == a.username = b.username \/ a.email = b.email

ASSUME FirstIdAssumption == FirstId \in Nat \ {0}

ASSUME LegacyAssumption ==
    /\ Legacy \subseteq Row
    /\ \A a \in Legacy : a.id < FirstId
    /\ \A a, b \in Legacy : a # b => a.id # b.id /\ ~Clash(a, b)

VARIABLES
    accounts,        \* the committed rows of table accounts
    passwords,       \* the ids with a row in account_passwords
    subscriptions,   \* the ids with a row in account_subscriptions
    webhooks,        \* the ids with a row in chatbot_webhooks
    nextId,          \* the AUTO_INCREMENT counter
    usernamesTaken,  \* the cache set "usernames_taken"
    sessions,        \* the account ids that refresh tokens of sign-ups are stored for
    pc,              \* where each request is, or the status it was answered with
    form,            \* what each request asks for
    tx,              \* the rows each request's transaction has inserted
    dpc, target,     \* where each deletion is, and the id it deletes
    accountId,       \* the id each request's INSERT was given, 0 before it
    ackLost,         \* history: the requests whose commit was applied but reported failed
    retired          \* history: the rows that were deleted

tables == <<accounts, passwords, subscriptions, webhooks>>
request == <<pc, form, tx, accountId, ackLost>>
deletion == <<dpc, target, retired>>
cache == <<usernamesTaken, sessions>>
vars == <<tables, nextId, cache, request, deletion>>

Ids(rows) == {a.id : a \in rows}
Names(rows) == {a.username : a \in rows}

EmptyTx == [accounts |-> {}, passwords |-> {}, subscriptions |-> {}]

\* The statuses a request ends with; "panic" is the 500 of the recovery
\* middleware, "gone" is no answer at all.
Answered == {"200", "400", "500", "panic", "gone"}
InTx == {"insert", "password", "subscription", "commit"}
Running == {"has", "isTaken", "add", "recheck", "tokens", "save", "role"} \cup InTx

Form == [username : Usernames, email : Emails, phone : BOOLEAN]

TypeOK ==
    /\ accounts \subseteq Row
    /\ passwords \subseteq Nat
    /\ subscriptions \subseteq Nat
    /\ webhooks \subseteq Nat
    /\ nextId \in Nat \ {0}
    /\ usernamesTaken \subseteq Usernames
    /\ sessions \subseteq Nat
    /\ pc \in [Requests -> {"idle"} \cup Running \cup Answered]
    /\ form \in [Requests -> Form]
    /\ tx \in [Requests -> [accounts : SUBSET Row, passwords : SUBSET Nat,
                            subscriptions : SUBSET Nat]]
    /\ dpc \in [Deleters -> {"idle", "password", "account", "commit", "done", "failed"}]
    /\ target \in [Deleters -> Nat]
    /\ accountId \in [Requests -> Nat]
    /\ ackLost \subseteq Requests
    /\ retired \subseteq Row

Init ==
    /\ accounts = Legacy
    /\ passwords = Ids(Legacy)
    /\ subscriptions = {}
    /\ webhooks = {}
    /\ nextId = FirstId
    /\ usernamesTaken = {}
    /\ sessions = {}
    /\ pc = [r \in Requests |-> "idle"]
    /\ form \in [Requests -> Form]
    /\ tx = [r \in Requests |-> EmptyTx]
    /\ dpc = [d \in Deleters |-> "idle"]
    /\ target = [d \in Deleters |-> 0]
    /\ accountId = [r \in Requests |-> 0]
    /\ ackLost = {}
    /\ retired = {}

-----------------------------------------------------------------------------
(* SignUp *)

Goto(r, there) == pc' = [pc EXCEPT ![r] = there]

Receive(r) ==
    /\ pc[r] = "idle"
    /\ Goto(r, "has")
    /\ UNCHANGED <<tables, nextId, cache, form, tx, accountId, ackLost, deletion>>

\* Fault: a miss stores the name at once.
HasThenAdd(r) ==
    /\ pc[r] = "has"
    /\ \/ /\ form[r].username \in usernamesTaken
          /\ Goto(r, "400") /\ UNCHANGED usernamesTaken
       \/ /\ Goto(r, "isTaken")
          /\ usernamesTaken' = usernamesTaken \cup {form[r].username}
    /\ UNCHANGED <<tables, nextId, sessions, form, tx, accountId, ackLost, deletion>>

\* A hit refuses the request; a miss, or an error (which is dropped), goes on.
Has(r) ==
    /\ pc[r] = "has"
    /\ \/ form[r].username \in usernamesTaken /\ Goto(r, "400")
       \/ Goto(r, "isTaken")
    /\ UNCHANGED <<tables, nextId, cache, form, tx, accountId, ackLost, deletion>>

Taken(u) == u \in Names(accounts)

\* GetAccountByUsername.
Named(u) == {a \in accounts : a.username = u}

\* The handler's own query.  Building the arguments of CreateAccount
\* dereferences the phone number: without one the handler panics.
IsUsernameTaken(r) ==
    /\ pc[r] = "isTaken"
    /\ \/ Taken(form[r].username) /\ Goto(r, "add")
       \/ ~Taken(form[r].username) /\ form[r].phone /\ Goto(r, "recheck")
       \/ ~Taken(form[r].username) /\ ~form[r].phone /\ Goto(r, "panic")
       \/ Goto(r, "500")    \* the query fails
    /\ UNCHANGED <<tables, nextId, cache, form, tx, accountId, ackLost, deletion>>

\* The cache may fail to store the name: the error is only logged.
AddTaken(r) ==
    /\ pc[r] = "add"
    /\ Goto(r, "400")
    /\ \/ usernamesTaken' = usernamesTaken \cup {form[r].username}
       \/ UNCHANGED usernamesTaken
    /\ UNCHANGED <<tables, nextId, sessions, form, tx, accountId, ackLost, deletion>>

-----------------------------------------------------------------------------
(* CreateAccount *)

\* CreateAccount asks again, still outside its transaction, then begins it.
Recheck(r) ==
    /\ pc[r] = "recheck"
    /\ \/ ~Taken(form[r].username) /\ Goto(r, "insert")
       \/ Goto(r, "400")    \* taken by now, or the query or BEGIN fails
    /\ UNCHANGED <<tables, nextId, cache, form, tx, accountId, ackLost, deletion>>

\* Committed rows that a deletion has removed in its open transaction.
BeingDeleted == {a \in accounts : \E d \in Deleters : dpc[d] = "commit" /\ target[d] = a.id}

Uncommitted == UNION {tx[q].accounts : q \in Requests}

\* Rows whose index entries an open transaction holds.
Pending == Uncommitted \cup BeingDeleted

NewRow(r) ==
    [id |-> nextId, username |-> form[r].username, email |-> form[r].email]

\* Fault: uniqueness is looked up among the committed rows only.
InsertAccountWithoutWait(r) ==
    /\ pc[r] = "insert"
    /\ \A b \in accounts : ~Clash(NewRow(r), b)
    /\ tx' = [tx EXCEPT ![r].accounts = {NewRow(r)}]
    /\ nextId' = nextId + 1
    /\ accountId' = [accountId EXCEPT ![r] = nextId]
    /\ Goto(r, "password")
    /\ UNCHANGED <<tables, cache, form, ackLost, deletion>>

\* The INSERT waits while an uncommitted row holds one of its keys.
InsertAccount(r) ==
    /\ pc[r] = "insert"
    /\ \A b \in accounts \cup Pending : ~Clash(NewRow(r), b)
    /\ tx' = [tx EXCEPT ![r].accounts = {NewRow(r)}]
    /\ nextId' = nextId + 1
    /\ accountId' = [accountId EXCEPT ![r] = nextId]
    /\ Goto(r, "password")
    /\ UNCHANGED <<tables, cache, form, ackLost, deletion>>

\* Fault: only a taken username ends the wait for the index.
InsertDuplicateName(r) ==
    /\ pc[r] = "insert"
    /\ \E b \in accounts \ BeingDeleted : NewRow(r).username = b.username
    /\ nextId' = nextId + 1
    /\ Goto(r, "400")
    /\ UNCHANGED <<tables, cache, form, tx, accountId, ackLost, deletion>>

\* A duplicate key fails the statement; it has used up a counter value.
InsertDuplicate(r) ==
    /\ pc[r] = "insert"
    /\ \E b \in accounts \ BeingDeleted : Clash(NewRow(r), b)
    /\ nextId' = nextId + 1
    /\ Goto(r, "400")
    /\ UNCHANGED <<tables, cache, form, tx, accountId, ackLost, deletion>>

InsertPassword(r) ==
    /\ pc[r] = "password"
    /\ tx' = [tx EXCEPT ![r].passwords = {accountId[r]}]
    /\ Goto(r, "subscription")
    /\ UNCHANGED <<tables, nextId, cache, form, accountId, ackLost, deletion>>

\* Fault: the accessor is used without WithExecutor(tx).
InsertSubscriptionOutsideTx(r) ==
    /\ pc[r] = "subscription"
    /\ subscriptions' = subscriptions \cup {accountId[r]}
    /\ Goto(r, "commit")
    /\ UNCHANGED <<accounts, passwords, webhooks, nextId, cache, form, tx, accountId, ackLost,
                   deletion>>

InsertSubscription(r) ==
    /\ pc[r] = "subscription"
    /\ tx' = [tx EXCEPT ![r].subscriptions = {accountId[r]}]
    /\ Goto(r, "commit")
    /\ UNCHANGED <<tables, nextId, cache, form, accountId, ackLost, deletion>>

\* Fault: the password is not part of the transaction.
CommitWithoutPassword(r) ==
    /\ pc[r] = "commit"
    /\ accounts' = accounts \cup tx[r].accounts
    /\ subscriptions' = subscriptions \cup tx[r].subscriptions
    /\ tx' = [tx EXCEPT ![r] = EmptyTx]
    /\ Goto(r, "tokens")
    /\ UNCHANGED <<passwords, webhooks, nextId, cache, form, accountId, ackLost, deletion>>

\* The server applies the commit.  When the acknowledgement is lost the code
\* sees ErrTxCommitFailed and answers 400 although the rows are there.
Commit(r) ==
    /\ pc[r] = "commit"
    /\ accounts' = accounts \cup tx[r].accounts
    /\ passwords' = passwords \cup tx[r].passwords
    /\ subscriptions' = subscriptions \cup tx[r].subscriptions
    /\ tx' = [tx EXCEPT ![r] = EmptyTx]
    /\ \/ Goto(r, "tokens") /\ UNCHANGED ackLost
       \/ Goto(r, "400") /\ ackLost' = ackLost \cup {r}
    /\ UNCHANGED <<webhooks, nextId, cache, form, accountId, deletion>>

\* Fault: the deferred call is Commit.
RollbackCommits(r) ==
    /\ pc[r] = "commit"
    /\ accounts' = accounts \cup tx[r].accounts
    /\ passwords' = passwords \cup tx[r].passwords
    /\ subscriptions' = subscriptions \cup tx[r].subscriptions
    /\ tx' = [tx EXCEPT ![r] = EmptyTx]
    /\ Goto(r, "400")
    /\ UNCHANGED <<webhooks, nextId, cache, form, accountId, ackLost, deletion>>

\* Any statement, the hashing or the commit fails: the deferred Rollback
\* drops the rows and the handler answers 400.
Rollback(r) ==
    /\ pc[r] \in InTx
    /\ tx' = [tx EXCEPT ![r] = EmptyTx]
    /\ Goto(r, "400")
    /\ UNCHANGED <<tables, nextId, cache, form, accountId, ackLost, deletion>>

-----------------------------------------------------------------------------
(* SignUp, after the account is committed *)

\* GenerateAccessToken and GenerateRefreshToken share no state.
IssueTokens(r) ==
    /\ pc[r] = "tokens"
    /\ \/ Goto(r, "save")
       \/ Goto(r, "500")
    /\ UNCHANGED <<tables, nextId, cache, form, tx, accountId, ackLost, deletion>>

\* The cache may also store the token and its answer be lost.
SaveRefreshToken(r) ==
    /\ pc[r] = "save"
    /\ \/ Goto(r, "role") /\ sessions' = sessions \cup {accountId[r]}
       \/ Goto(r, "500") /\ sessions' \in {sessions, sessions \cup {accountId[r]}}
    /\ UNCHANGED <<tables, nextId, usernamesTaken, form, tx, accountId, ackLost, deletion>>

GetRole(r) ==
    /\ pc[r] = "role"
    /\ \/ accountId[r] \in Ids(accounts) /\ Goto(r, "200")
       \/ Goto(r, "500")
    /\ UNCHANGED <<tables, nextId, cache, form, tx, accountId, ackLost, deletion>>

-----------------------------------------------------------------------------
(* DeleteAccount and DeleteAccountByUsername *)

StepTo(d, there) == dpc' = [dpc EXCEPT ![d] = there]

DeleteById(d) ==
    /\ dpc[d] = "idle"
    /\ \E id \in 0 .. nextId : target' = [target EXCEPT ![d] = id]
    /\ StepTo(d, "password")
    /\ UNCHANGED <<tables, nextId, cache, request, retired>>

\* The name is looked up before and again inside the transaction: it is the
\* second answer that counts, and no row fails the call at either.
DeleteByUsername(d) ==
    /\ dpc[d] = "idle"
    /\ \E u \in Usernames :
         \/ /\ ~Taken(u)
            /\ StepTo(d, "failed")
            /\ UNCHANGED target
         \/ /\ \E a \in Named(u) : target' = [target EXCEPT ![d] = a.id]
            /\ StepTo(d, "password")
    /\ UNCHANGED <<tables, nextId, cache, request, retired>>

\* The DELETE waits while another transaction holds the row.
LockedBy(d, id) == dpc[d] \in {"account", "commit"} /\ target[d] = id

DeletePassword(d) ==
    /\ dpc[d] = "password"
    /\ target[d] \in passwords
    /\ \A e \in Deleters : ~LockedBy(e, target[d])
    /\ StepTo(d, "account")
    /\ UNCHANGED <<tables, nextId, cache, request, target, retired>>

\* No row is affected, committed or held by a sign-up: the accessor turns
\* that into an error.
NoPassword(d) ==
    /\ dpc[d] = "password"
    /\ target[d] \notin passwords \cup UNION {tx[q].passwords : q \in Requests}
    /\ StepTo(d, "failed")
    /\ UNCHANGED <<tables, nextId, cache, request, target, retired>>

\* account_subscriptions and chatbot_webhooks refer to accounts and nothing
\* deletes their rows first: the foreign keys refuse such a row.
RefuseRow(d) ==
    /\ dpc[d] = "account"
    /\ target[d] \in subscriptions \cup webhooks
    /\ StepTo(d, "failed")
    /\ UNCHANGED <<tables, nextId, cache, request, target, retired>>

\* Fault: the subscription does not hold the account.
DeleteRowOfSubscriber(d) ==
    /\ dpc[d] = "account"
    /\ target[d] \in Ids(accounts)
    /\ target[d] \notin webhooks
    /\ StepTo(d, "commit")
    /\ UNCHANGED <<tables, nextId, cache, request, target, retired>>

DeleteRow(d) ==
    /\ dpc[d] = "account"
    /\ target[d] \in Ids(accounts)
    /\ target[d] \notin subscriptions \cup webhooks
    /\ StepTo(d, "commit")
    /\ UNCHANGED <<tables, nextId, cache, request, target, retired>>

\* Applied whether or not the acknowledgement arrives.
CommitDelete(d) ==
    /\ dpc[d] = "commit"
    /\ accounts' = {a \in accounts : a.id # target[d]}
    /\ retired' = retired \cup {a \in accounts : a.id = target[d]}
    /\ passwords' = passwords \ {target[d]}
    /\ \/ StepTo(d, "done")
       \/ StepTo(d, "failed")
    /\ UNCHANGED <<subscriptions, webhooks, nextId, cache, request, target>>

\* A statement fails: Rollback.
FailDelete(d) ==
    /\ dpc[d] \in {"password", "account", "commit"}
    /\ StepTo(d, "failed")
    /\ UNCHANGED <<tables, nextId, cache, request, target, retired>>

-----------------------------------------------------------------------------
(* The rest of the system *)

\* The first webhook of an account: the foreign key wants its row, and waits
\* for a deletion that holds it.
AddWebhook(id) ==
    /\ id \in Ids(accounts) \ Ids(BeingDeleted)
    /\ webhooks' = webhooks \cup {id}
    /\ UNCHANGED <<accounts, passwords, subscriptions, nextId, cache, request, deletion>>

\* Its last webhook.
DropWebhook(id) ==
    /\ id \in webhooks
    /\ webhooks' = webhooks \ {id}
    /\ UNCHANGED <<accounts, passwords, subscriptions, nextId, cache, request, deletion>>

\* The server is killed: open transactions are rolled back, requests get no
\* answer; an in-memory cache is lost with it, a Redis one is not.
Crash ==
    /\ pc' = [r \in Requests |-> IF pc[r] \in Running THEN "gone" ELSE pc[r]]
    /\ tx' = [r \in Requests |-> EmptyTx]
    /\ dpc' = [d \in Deleters |-> IF dpc[d] \in {"password", "account", "commit"}
                                  THEN "failed" ELSE dpc[d]]
    /\ \/ UNCHANGED cache
       \/ usernamesTaken' = {} /\ sessions' = {}
    /\ UNCHANGED <<tables, nextId, form, accountId, ackLost, target, retired>>

-----------------------------------------------------------------------------
\* The steps of a sign-up whose transaction meets no failure.
Serve(r) ==
    \/ Has(r) \/ IsUsernameTaken(r) \/ AddTaken(r)
    \/ Recheck(r) \/ InsertAccount(r) \/ InsertDuplicate(r)
    \/ InsertPassword(r) \/ InsertSubscription(r) \/ Commit(r)
    \/ IssueTokens(r) \/ SaveRefreshToken(r) \/ GetRole(r)

SignUp(r) == Receive(r) \/ Serve(r) \/ Rollback(r)

Remove(d) ==
    DeletePassword(d) \/ NoPassword(d) \/ DeleteRow(d) \/ RefuseRow(d) \/ CommitDelete(d)

Delete(d) == DeleteById(d) \/ DeleteByUsername(d) \/ Remove(d) \/ FailDelete(d)

Next ==
    \/ \E r \in Requests : SignUp(r)
    \/ \E d \in Deleters : Delete(d)
    \/ \E id \in Ids(accounts) : AddWebhook(id) \/ DropWebhook(id)
    \/ Crash

Spec == Init /\ [][Next]_vars

\* A goroutine that can take its next step takes it: the Go scheduler and the
\* database see to that.  Nothing is assumed of failures: a statement that
\* waits for a lock is not saved by a lock wait timeout.
FairSpec ==
    /\ Spec
    /\ \A r \in Requests : WF_vars(Serve(r))
    /\ \A d \in Deleters : WF_vars(Remove(d))

-----------------------------------------------------------------------------
(* Properties *)

\* Registration is all or nothing (the transaction of CreateAccount and of
\* DeleteAccount): an account always has its password row, every account
\* that CreateAccount made has its subscription row, and no row of the three
\* child tables outlives its account.
EveryAccountWhole ==
    /\ passwords = Ids(accounts)
    /\ subscriptions = Ids(accounts) \ Ids(Legacy)
    /\ webhooks \subseteq Ids(accounts)

\* However the check-then-insert of concurrent sign-ups interleaves, no id,
\* username or email is shared by two rows, committed or still in an open
\* transaction.
KeysUnique ==
    /\ \A a, b \in accounts \cup Uncommitted : a # b => a.id # b.id /\ ~Clash(a, b)
    /\ \A q, r \in Requests : q # r => tx[q].accounts \cap tx[r].accounts = {}

\* "failed to create account" is true: a sign-up answered 400 has left no
\* account behind, except when the acknowledgement of its commit was lost;
\* one that was answered 200 has created one.
AnswerIsTrue ==
    \A r \in Requests :
        /\ pc[r] = "400" /\ r \notin ackLost => accountId[r] \notin Ids(accounts \cup retired)
        /\ pc[r] = "200" => \E a \in accounts \cup retired :
                              /\ a.id = accountId[r]
                              /\ a.username = form[r].username
                              /\ a.email = form[r].email

\* The cache of taken usernames, read before the database, refuses a name
\* only if an account with that name was committed at some time: a sign-up
\* that was rolled back never blocks its name.
CacheHoldsRegisteredNames == usernamesTaken \subseteq Names(accounts \cup retired)

\* A refresh token is stored for an account that was committed, never for
\* the id of a transaction that may still roll back.
SessionsOfCommittedAccounts == sessions \subseteq Ids(accounts \cup retired)

\* Nothing outside of the database, neither the cache of taken usernames nor
\* the store of refresh tokens, runs ahead of its commits.
CachesHoldCommitted == CacheHoldsRegisteredNames /\ SessionsOfCommittedAccounts

\* DeleteAccount and DeleteAccountByUsername delete the password and the
\* account but not the subscription that CreateAccount inserts: whatever is
\* called, only an account older than the subscriptions table ever leaves.
SignedUpAccountsStay == [][accounts \ Legacy \subseteq accounts']_vars

\* Every sign-up that was received is answered, or lost with the server: no
\* transaction waits for ever for the index entries of another one.
EveryRequestEnds ==
    \A r \in Requests : pc[r] = "has" ~> pc[r] \in Answered

\* The accounts and what belongs to them, as AccountRegistry sees them.
Registered ==
    {[row |-> a, password |-> a.id \in passwords, plan |-> a.id \in subscriptions] :
        a \in accounts}

Registry == INSTANCE AccountRegistry WITH registered <- Registered

\* The concurrent sign-ups and deletions, with their transactions, failures
\* and crashes, look like registrations and removals of whole accounts.
ImplementsRegistry == Registry!Spec
=============================================================================
