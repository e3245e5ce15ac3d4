-------------------------- MODULE Accounts_proofs ---------------------------
(***************************************************************************)
(* Proofs about Accounts, for any sets of requests, deletions, usernames,  *)
(* emails and legacy accounts: the inductive invariant, the safety         *)
(* properties that follow from it, and the implementation of               *)
(* AccountRegistry.                                                        *)
(***************************************************************************)
EXTENDS Accounts, TLAPS

InsertedStates == {"password", "subscription", "commit"}

\* Ids grow: every row and every id a request was given is below the counter.
IdsBelowCounter ==
    /\ FirstId <= nextId
    /\ \A a \in accounts \cup retired : a.id < nextId
    /\ \A a \in accounts \ Legacy : FirstId <= a.id
    /\ \A r \in Requests : accountId[r] < nextId

\* No id was given to two requests.
IdsDistinct ==
    \A q, r \in Requests : q # r /\ accountId[q] = accountId[r] => accountId[q] = 0

\* What an open transaction holds, and that its id is nobody's yet.
TxShape ==
    \A r \in Requests :
        /\ pc[r] \notin InsertedStates => tx[r] = EmptyTx
        /\ pc[r] \in InsertedStates =>
             /\ accountId[r] >= FirstId
             /\ tx[r].accounts = {[id |-> accountId[r],
                                   username |-> form[r].username,
                                   email |-> form[r].email]}
             /\ tx[r].passwords = IF pc[r] = "password" THEN {} ELSE {accountId[r]}
             /\ tx[r].subscriptions = IF pc[r] = "commit" THEN {accountId[r]} ELSE {}

\* A request that has not committed has no row, one that has was given its own.
OwnRow ==
    \A r \in Requests :
        /\ pc[r] \in {"idle", "has", "isTaken", "add", "recheck"} \cup InTx
              => accountId[r] \notin Ids(accounts \cup retired)
        /\ pc[r] \in {"tokens", "save", "role"} =>
              \E a \in accounts \cup retired :
                 a.id = accountId[r] /\ a.username = form[r].username /\ a.email = form[r].email
        /\ pc[r] = "add" => form[r].username \in Names(accounts \cup retired)

RetiredApart == \A a \in accounts, b \in retired : a.id # b.id

\* What the locks of an open deletion guarantee about its row.
DeletionLocks ==
    \A d \in Deleters :
        /\ dpc[d] \in {"account", "commit"} => target[d] \in passwords
        /\ dpc[d] = "commit" => target[d] \notin subscriptions \cup webhooks
        /\ \A e \in Deleters : LockedBy(d, target[e]) /\ dpc[e] \in {"account", "commit"} => d = e

\* The parts of the invariant, by the variables they are about.
RowsInv ==
    /\ IdsBelowCounter
    /\ IdsDistinct
    /\ RetiredApart
    /\ EveryAccountWhole
    /\ KeysUnique

RequestsInv ==
    /\ TxShape
    /\ OwnRow
    /\ AnswerIsTrue

CacheInv ==
    /\ CacheHoldsRegisteredNames
    /\ SessionsOfCommittedAccounts

IInv == TypeOK /\ RowsInv /\ RequestsInv /\ CacheInv /\ DeletionLocks

-----------------------------------------------------------------------------

USE FirstIdAssumption

\* The types of the variables, before and after a request's own step.
LEMMA SignUpType ==
  ASSUME TypeOK, NEW r \in Requests, SignUp(r)
  PROVE  TypeOK'
<1> USE DEF TypeOK, Goto, tables, cache, request, deletion, Running, Answered, InTx
<1>1. CASE InsertAccount(r)
  <2>1. NewRow(r) \in Row BY DEF NewRow, Form, Row
  <2>2. tx' \in [Requests -> [accounts : SUBSET Row, passwords : SUBSET Nat,
                              subscriptions : SUBSET Nat]]
    BY <1>1, <2>1, Zenon DEF InsertAccount
  <2>3. /\ nextId' \in Nat \ {0}
        /\ accountId' \in [Requests -> Nat]
        /\ pc' \in [Requests -> {"idle"} \cup Running \cup Answered]
    BY <1>1 DEF InsertAccount
  <2>4. UNCHANGED <<tables, cache, form, ackLost, deletion>> BY <1>1 DEF InsertAccount
  <2>5. QED BY <2>2, <2>3, <2>4
<1>2. CASE InsertDuplicate(r) BY <1>2 DEF InsertDuplicate
<1>3. CASE InsertPassword(r) BY <1>3 DEF InsertPassword
<1>4. CASE InsertSubscription(r) BY <1>4 DEF InsertSubscription
<1>5. CASE Commit(r) \/ Rollback(r)
  <2>1. CASE Commit(r) BY <2>1 DEF Commit, EmptyTx
  <2>2. CASE Rollback(r) BY <2>2 DEF Rollback, EmptyTx
  <2>3. QED BY <1>5, <2>1, <2>2
<1>6. CASE Has(r) \/ IsUsernameTaken(r) BY <1>6 DEF Has, IsUsernameTaken
<1>7. CASE AddTaken(r) BY <1>7 DEF AddTaken, Form
<1>8. CASE Receive(r) \/ Recheck(r) BY <1>8 DEF Receive, Recheck
<1>9. CASE IssueTokens(r) \/ SaveRefreshToken(r) \/ GetRole(r)
  BY <1>9 DEF IssueTokens, SaveRefreshToken, GetRole
<1>10. QED
  BY <1>1, <1>2, <1>3, <1>4, <1>5, <1>6, <1>7, <1>8, <1>9 DEF SignUp, Serve

\* Before and after a step of a deletion.
LEMMA DeletionType ==
  ASSUME TypeOK, NEW d \in Deleters, Delete(d)
  PROVE  TypeOK'
<1> USE DEF TypeOK, StepTo, tables, cache, request, deletion
<1>1. CASE DeleteById(d) BY <1>1 DEF DeleteById
<1>2. CASE DeleteByUsername(d) BY <1>2 DEF DeleteByUsername, Named, Row
<1>3. CASE DeletePassword(d) \/ NoPassword(d) BY <1>3 DEF DeletePassword, NoPassword
<1>4. CASE DeleteRow(d) \/ RefuseRow(d) BY <1>4 DEF DeleteRow, RefuseRow
<1>5. CASE CommitDelete(d) BY <1>5 DEF CommitDelete
<1>6. CASE FailDelete(d) BY <1>6 DEF FailDelete
<1>7. QED BY <1>1, <1>2, <1>3, <1>4, <1>5, <1>6 DEF Delete, Remove

\* Before and after the steps of nobody in particular.
LEMMA SurroundingsType ==
  ASSUME TypeOK,
         \/ \E id \in Ids(accounts) : AddWebhook(id) \/ DropWebhook(id)
         \/ Crash
         \/ UNCHANGED vars
  PROVE  TypeOK'
<1> USE DEF TypeOK, tables, cache, request, deletion
<1>1. CASE \E id \in Ids(accounts) : AddWebhook(id) \/ DropWebhook(id)
  BY <1>1 DEF AddWebhook, DropWebhook, Ids, Row
<1>2. CASE Crash BY <1>2 DEF Crash, EmptyTx, Running, Answered, InTx
<1>3. QED BY <1>1, <1>2 DEF vars

\* Every variable keeps its type.
THEOREM TypeCorrect == Spec => []TypeOK
<1>1. ASSUME Init PROVE TypeOK
  BY <1>1, LegacyAssumption DEF Init, TypeOK, Ids, Row, EmptyTx, Running, InTx, Answered
<1>2. ASSUME TypeOK, [Next]_vars PROVE TypeOK'
  BY <1>2, SignUpType, DeletionType, SurroundingsType DEF Next
<1>3. QED BY <1>1, <1>2, PTL DEF Spec

-----------------------------------------------------------------------------

\* The inductive invariant holds at the start.
LEMMA InitIInv == Init => IInv
<1> SUFFICES ASSUME Init PROVE IInv
  OBVIOUS
<1>1. TypeOK
  BY LegacyAssumption DEF Init, TypeOK, Ids, Row, EmptyTx, Running, InTx, Answered
<1>2. \A r \in Requests : tx[r].accounts = {}
  BY DEF Init, EmptyTx
<1>3. RowsInv
  <2>1. IdsBelowCounter BY LegacyAssumption DEF Init, IdsBelowCounter, Row
  <2>2. IdsDistinct /\ RetiredApart BY DEF Init, IdsDistinct, RetiredApart
  <2>3. EveryAccountWhole BY DEF Init, EveryAccountWhole
  <2>4. KeysUnique
    <3>1. Uncommitted = {} BY <1>2 DEF Uncommitted
    <3>2. QED BY <1>2, <3>1, LegacyAssumption DEF Init, KeysUnique
  <2>5. QED BY <2>1, <2>2, <2>3, <2>4 DEF RowsInv
<1>4. RequestsInv
  BY LegacyAssumption
  DEF Init, RequestsInv, TxShape, InsertedStates, OwnRow, AnswerIsTrue, Ids, Row, InTx
<1>5. CacheInv /\ DeletionLocks
  BY DEF Init, CacheInv, CacheHoldsRegisteredNames, SessionsOfCommittedAccounts, DeletionLocks
<1>6. QED BY <1>1, <1>3, <1>4, <1>5 DEF IInv

\* Steps that leave the tables and the transactions alone.
LEMMA RowsUnchanged ==
  ASSUME RowsInv, UNCHANGED <<tables, retired, nextId, accountId, tx>>
  PROVE  RowsInv'
BY DEF RowsInv, tables, IdsBelowCounter, IdsDistinct, RetiredApart, EveryAccountWhole,
       KeysUnique, Uncommitted

\* Steps that leave the requests alone keep their part of the invariant.
LEMMA RequestsUnchanged ==
  ASSUME RequestsInv, UNCHANGED <<accounts, retired, request>>
  PROVE  RequestsInv'
BY DEF RequestsInv, request, TxShape, OwnRow, AnswerIsTrue

\* Steps that leave the caches alone keep theirs.
LEMMA CacheUnchanged ==
  ASSUME CacheInv, UNCHANGED <<accounts, retired, cache>>
  PROVE  CacheInv'
BY DEF CacheInv, cache, CacheHoldsRegisteredNames, SessionsOfCommittedAccounts

\* Steps that leave the deletions and the child tables alone keep the locks'.
LEMMA LocksUnchanged ==
  ASSUME DeletionLocks, UNCHANGED <<passwords, subscriptions, webhooks, dpc, target>>
  PROVE  DeletionLocks'
BY DEF DeletionLocks, LockedBy

\* A step of one request that moves only its program counter, outside the
\* part where its transaction holds rows.
LEMMA QuietRequestStep ==
  ASSUME IInv, NEW r \in Requests, NEW there,
         pc[r] \notin InsertedStates, there \notin InsertedStates,
         Goto(r, there), UNCHANGED <<accounts, retired, form, tx, accountId, ackLost>>,
         there \in {"has", "isTaken", "add", "recheck", "insert", "400"}
           => accountId[r] \notin Ids(accounts \cup retired),
         there \in {"tokens", "save", "role", "200"} =>
           \E a \in accounts \cup retired :
              a.id = accountId[r] /\ a.username = form[r].username /\ a.email = form[r].email,
         there = "add" => form[r].username \in Names(accounts \cup retired),
         there # "idle"
  PROVE  RequestsInv'
<1> USE DEF IInv, TypeOK, Goto
<1>1. TxShape' BY DEF RequestsInv, TxShape
<1>2. OwnRow' BY DEF RequestsInv, OwnRow, InTx, InsertedStates
<1>3. AnswerIsTrue' BY DEF RequestsInv, AnswerIsTrue
<1>4. QED BY <1>1, <1>2, <1>3 DEF RequestsInv

\* The steps of a sign-up before and after its transaction.
LEMMA OutsideTransaction ==
  ASSUME IInv, TypeOK', NEW r \in Requests,
         \/ Receive(r) \/ Has(r) \/ IsUsernameTaken(r) \/ AddTaken(r) \/ Recheck(r)
         \/ IssueTokens(r) \/ SaveRefreshToken(r) \/ GetRole(r)
  PROVE  IInv'
<1> USE DEF IInv
<1>1. UNCHANGED <<tables, retired, nextId, accountId, tx, form, ackLost, deletion>>
  BY DEF Receive, Has, IsUsernameTaken, AddTaken, Recheck, IssueTokens, SaveRefreshToken,
         GetRole, tables, deletion
<1>2. RowsInv'
  BY <1>1, RowsUnchanged
<1>3. DeletionLocks'
  BY <1>1, LocksUnchanged DEF deletion, tables
<1>4. RequestsInv'
  <2> USE DEF RequestsInv, OwnRow, InTx, InsertedStates, tables, deletion
  <2>1. CASE Receive(r) BY <1>1, <2>1, QuietRequestStep DEF Receive
  <2>2. CASE Has(r) BY <1>1, <2>2, QuietRequestStep DEF Has
  <2>3. CASE IsUsernameTaken(r)
    <3>1. pc[r] = "isTaken" /\ accountId[r] \notin Ids(accounts \cup retired)
      BY <2>3 DEF IsUsernameTaken
    <3>2. CASE Taken(form[r].username) /\ Goto(r, "add")
      <4>1. form[r].username \in Names(accounts \cup retired)
        BY <3>2 DEF Taken, Names
      <4>2. QED BY <1>1, <3>1, <3>2, <4>1, QuietRequestStep
    <3>3. CASE Goto(r, "recheck") BY <1>1, <3>1, <3>3, QuietRequestStep
    <3>4. CASE Goto(r, "panic") BY <1>1, <3>1, <3>4, QuietRequestStep
    <3>5. CASE Goto(r, "500") BY <1>1, <3>1, <3>5, QuietRequestStep
    <3>6. QED BY <2>3, <3>2, <3>3, <3>4, <3>5 DEF IsUsernameTaken
  <2>4. CASE AddTaken(r) BY <1>1, <2>4, QuietRequestStep DEF AddTaken
  <2>5. CASE Recheck(r) BY <1>1, <2>5, QuietRequestStep DEF Recheck
  <2>6. CASE IssueTokens(r) BY <1>1, <2>6, QuietRequestStep DEF IssueTokens
  <2>7. CASE SaveRefreshToken(r) BY <1>1, <2>7, QuietRequestStep DEF SaveRefreshToken
  <2>8. CASE GetRole(r) BY <1>1, <2>8, QuietRequestStep DEF GetRole
  <2>9. QED BY <2>1, <2>2, <2>3, <2>4, <2>5, <2>6, <2>7, <2>8
<1>5. CacheInv'
  <2>1. CASE AddTaken(r)
    BY <1>1, <2>1 DEF AddTaken, CacheInv, CacheHoldsRegisteredNames,
       SessionsOfCommittedAccounts, RequestsInv, OwnRow, tables, deletion
  <2>2. CASE SaveRefreshToken(r)
    <3>1. accountId[r] \in Ids(accounts \cup retired)
      BY <2>2 DEF SaveRefreshToken, RequestsInv, OwnRow, Ids
    <3>2. QED
      BY <1>1, <2>2, <3>1 DEF SaveRefreshToken, CacheInv, CacheHoldsRegisteredNames,
         SessionsOfCommittedAccounts, tables, deletion
  <2>3. CASE UNCHANGED cache BY <1>1, <2>3, CacheUnchanged DEF tables, deletion
  <2>4. QED
    BY <2>1, <2>2, <2>3
    DEF Receive, Has, IsUsernameTaken, Recheck, IssueTokens, GetRole
<1>6. QED BY <1>2, <1>3, <1>4, <1>5

-----------------------------------------------------------------------------
(* The transaction of CreateAccount *)

\* The rows of an open transaction carry the id that its INSERT was given.
LEMMA OpenRows ==
  ASSUME IInv
  PROVE  \A q \in Requests : \A a \in tx[q].accounts :
           /\ pc[q] \in InsertedStates
           /\ a.id = accountId[q]
           /\ FirstId <= a.id
           /\ a.id < nextId
<1> SUFFICES ASSUME NEW q \in Requests, NEW a \in tx[q].accounts
             PROVE  /\ pc[q] \in InsertedStates
                    /\ a.id = accountId[q]
                    /\ FirstId <= a.id
                    /\ a.id < nextId
  OBVIOUS
<1>1. pc[q] \in InsertedStates
  <2>1. pc[q] \notin InsertedStates => tx[q] = EmptyTx
    BY DEF IInv, RequestsInv, TxShape
  <2>2. tx[q] # EmptyTx BY DEF EmptyTx
  <2>3. QED BY <2>1, <2>2
<1>2. a = [id |-> accountId[q], username |-> form[q].username, email |-> form[q].email]
  BY <1>1 DEF IInv, RequestsInv, TxShape
<1>3. FirstId <= accountId[q] /\ accountId[q] < nextId
  <2>1. accountId[q] >= FirstId BY <1>1 DEF IInv, RequestsInv, TxShape
  <2>2. accountId[q] < nextId BY DEF IInv, RowsInv, IdsBelowCounter
  <2>3. accountId[q] \in Nat BY DEF IInv, TypeOK
  <2>4. QED BY <2>1, <2>2, <2>3
<1>4. a.id = accountId[q]
  BY <1>2
<1>5. QED BY <1>1, <1>3, <1>4

\* The INSERT of CreateAccount: the new row gets an id that is nobody's, and
\* keys that no committed row and no other open transaction has.
LEMMA InsertAccountStep ==
  ASSUME IInv, TypeOK', NEW r \in Requests, InsertAccount(r)
  PROVE  IInv'
<1> USE DEF IInv, InsertAccount
<1> DEFINE row == NewRow(r)
<1>1. /\ row.id = nextId /\ row.username = form[r].username /\ row.email = form[r].email
      /\ row \in Row
  BY DEF NewRow, TypeOK, Form, Row
<1> DEFINE txOf == [accounts : SUBSET Row, passwords : SUBSET Nat, subscriptions : SUBSET Nat]
<1>a. /\ tx \in [Requests -> txOf] /\ tx' = [tx EXCEPT ![r].accounts = {row}]
      /\ \A q \in Requests : q # r => tx'[q] = tx[q]
      /\ tx'[r].accounts = {row}
      /\ tx'[r].passwords = tx[r].passwords
      /\ tx'[r].subscriptions = tx[r].subscriptions
  <2>1. tx \in [Requests -> txOf] /\ tx' = [tx EXCEPT ![r].accounts = {row}]
    BY DEF TypeOK
  <2> HIDE DEF row, IInv, InsertAccount
  <2>2. QED BY <2>1
<1>2. tx[r] = EmptyTx
  BY DEF RequestsInv, TxShape, InsertedStates
<1>3. Uncommitted' = Uncommitted \cup {row}
  <2>1. \A q \in Requests : tx'[q].accounts = IF q = r THEN {row} ELSE tx[q].accounts
    BY <1>a
  <2>2. tx[r].accounts = {} BY <1>2 DEF EmptyTx
  <2>3. QED BY <2>1, <2>2 DEF Uncommitted
<1>4. \A a \in accounts \cup retired \cup Uncommitted : a.id < nextId
  <2>1. \A q \in Requests : \A a \in tx[q].accounts : a.id < nextId
    BY OpenRows
  <2>2. QED BY <2>1 DEF Uncommitted, RowsInv, IdsBelowCounter
<1>5. RowsInv'
  <2>1. IdsBelowCounter'
    BY DEF RowsInv, IdsBelowCounter, TypeOK, tables, deletion, Row
  <2>2. IdsDistinct'
    BY DEF RowsInv, IdsDistinct, IdsBelowCounter, TypeOK
  <2>3. RetiredApart' /\ EveryAccountWhole'
    BY DEF RowsInv, RetiredApart, EveryAccountWhole, tables, deletion
  <2>4. KeysUnique'
    <3>1. \A b \in accounts \cup Uncommitted : row.id # b.id /\ ~Clash(row, b) /\ ~Clash(b, row)
      <4>1. \A b \in accounts \cup Uncommitted : b.id < nextId /\ b \in Row
        BY <1>4 DEF Uncommitted, TypeOK
      <4>2. QED BY <1>1, <4>1 DEF Pending, Clash, TypeOK, Row
    <3>2. ASSUME NEW a \in accounts' \cup Uncommitted', NEW b \in accounts' \cup Uncommitted', a # b
          PROVE  a.id # b.id /\ ~Clash(a, b)
      BY <1>3, <3>1, <3>2 DEF RowsInv, KeysUnique, tables
    <3>3. ASSUME NEW p \in Requests, NEW q \in Requests, p # q
          PROVE  tx'[p].accounts \cap tx'[q].accounts = {}
      <4>1. \A t \in Requests : t # r => row \notin tx[t].accounts /\ tx'[t] = tx[t]
        BY <3>1, <1>a DEF Uncommitted
      <4>2. tx'[r].accounts = {row} BY <1>a
      <4>3. QED BY <3>3, <4>1, <4>2 DEF RowsInv, KeysUnique
    <3>4. QED BY <3>2, <3>3 DEF KeysUnique
  <2>5. QED BY <2>1, <2>2, <2>3, <2>4 DEF RowsInv
<1>6. RequestsInv'
  <2>1. TxShape'
    <3>1. /\ tx'[r].accounts = {row} /\ tx'[r].passwords = {} /\ tx'[r].subscriptions = {}
          /\ pc'[r] = "password" /\ accountId'[r] = nextId
      BY <1>a, <1>2 DEF TypeOK, Goto, EmptyTx
    <3>2. nextId >= FirstId BY DEF RowsInv, IdsBelowCounter, TypeOK
    <3>3. \A q \in Requests : q # r =>
            pc'[q] = pc[q] /\ tx'[q] = tx[q] /\ accountId'[q] = accountId[q]
      BY <1>a DEF TypeOK, Goto
    <3>4. SUFFICES ASSUME NEW q \in Requests PROVE TxShape!(q)'
      BY DEF TxShape
    <3>5. CASE q = r
      BY <3>1, <3>2, <3>5 DEF InsertedStates, NewRow
    <3>6. CASE q # r
      BY <3>3, <3>6 DEF RequestsInv, TxShape
    <3>7. QED BY <3>5, <3>6
  <2>2. nextId \notin Ids(accounts \cup retired)
    BY <1>4 DEF Ids, TypeOK, Row
  <2>3. OwnRow'
    BY <2>2 DEF RequestsInv, OwnRow, Goto, TypeOK, tables, deletion, InTx
  <2>4. AnswerIsTrue'
    BY <2>2 DEF RequestsInv, AnswerIsTrue, Goto, TypeOK, tables, deletion
  <2>5. QED BY <2>1, <2>3, <2>4 DEF RequestsInv
<1>7. CacheInv'
  BY CacheUnchanged DEF tables, deletion
<1>8. DeletionLocks'
  BY LocksUnchanged DEF tables, deletion
<1>9. QED BY <1>5, <1>6, <1>7, <1>8

\* The counter moves, the rows do not.
LEMMA InsertDuplicateStep ==
  ASSUME IInv, TypeOK', NEW r \in Requests, InsertDuplicate(r)
  PROVE  IInv'
<1> USE DEF IInv, InsertDuplicate
<1>1. RowsInv'
  <2>1. IdsBelowCounter'
    BY DEF RowsInv, IdsBelowCounter, TypeOK, Row, tables, deletion
  <2>2. IdsDistinct' /\ RetiredApart' /\ EveryAccountWhole' /\ KeysUnique'
    BY DEF RowsInv, IdsDistinct, RetiredApart, EveryAccountWhole, KeysUnique, Uncommitted,
       tables, deletion
  <2>3. QED BY <2>1, <2>2 DEF RowsInv
<1>2. RequestsInv'
  BY QuietRequestStep
  DEF RequestsInv, OwnRow, InTx, InsertedStates, tables, deletion
<1>3. CacheInv' /\ DeletionLocks'
  BY CacheUnchanged, LocksUnchanged DEF tables, deletion
<1>4. QED BY <1>1, <1>2, <1>3

\* The transaction gains a row of a child table, or is rolled back: its own
\* account row stays as it is or goes away.
LEMMA TransactionStep ==
  ASSUME IInv, TypeOK', NEW r \in Requests,
         InsertPassword(r) \/ InsertSubscription(r) \/ Rollback(r)
  PROVE  IInv'
<1> USE DEF IInv
<1>1. UNCHANGED <<tables, retired, nextId, accountId, cache, form, ackLost, deletion>>
  BY DEF InsertPassword, InsertSubscription, Rollback, deletion
<1>2. /\ \A q \in Requests : q # r => tx'[q] = tx[q] /\ pc'[q] = pc[q]
      /\ tx'[r].accounts \subseteq tx[r].accounts
  <2>1. CASE InsertPassword(r) BY <2>1 DEF InsertPassword, TypeOK, Goto
  <2>2. CASE InsertSubscription(r) BY <2>2 DEF InsertSubscription, TypeOK, Goto
  <2>3. CASE Rollback(r) BY <2>3 DEF Rollback, TypeOK, Goto, EmptyTx
  <2>4. QED BY <2>1, <2>2, <2>3
<1>3. RowsInv'
  <2>1. IdsBelowCounter' /\ IdsDistinct' /\ RetiredApart' /\ EveryAccountWhole'
    BY <1>1 DEF RowsInv, IdsBelowCounter, IdsDistinct, RetiredApart, EveryAccountWhole,
       tables, deletion
  <2>2. \A q \in Requests : tx'[q].accounts \subseteq tx[q].accounts
    BY <1>2
  <2>3. Uncommitted' \subseteq Uncommitted
    BY <2>2 DEF Uncommitted
  <2>4. KeysUnique'
    BY <1>1, <2>2, <2>3 DEF RowsInv, KeysUnique, tables
  <2>5. QED BY <2>1, <2>4 DEF RowsInv
<1>4. TxShape'
  <2> SUFFICES ASSUME NEW q \in Requests PROVE TxShape!(q)'
    BY DEF TxShape
  <2>1. CASE q # r
    BY <1>1, <1>2, <2>1 DEF RequestsInv, TxShape
  <2>2. CASE q = r /\ InsertPassword(r)
    <3>1. /\ tx'[r].accounts = tx[r].accounts /\ tx'[r].passwords = {accountId[r]}
          /\ tx'[r].subscriptions = tx[r].subscriptions
          /\ pc[r] = "password" /\ pc'[r] = "subscription"
      BY <2>2 DEF InsertPassword, TypeOK, Goto
    <3>2. QED BY <1>1, <2>2, <3>1 DEF RequestsInv, TxShape, InsertedStates
  <2>3. CASE q = r /\ InsertSubscription(r)
    <3>1. /\ tx'[r].accounts = tx[r].accounts /\ tx'[r].passwords = tx[r].passwords
          /\ tx'[r].subscriptions = {accountId[r]}
          /\ pc[r] = "subscription" /\ pc'[r] = "commit"
      BY <2>3 DEF InsertSubscription, TypeOK, Goto
    <3>2. QED BY <1>1, <2>3, <3>1 DEF RequestsInv, TxShape, InsertedStates
  <2>4. CASE q = r /\ Rollback(r)
    <3>1. tx'[r] = EmptyTx /\ pc'[r] = "400"
      BY <2>4 DEF Rollback, TypeOK, Goto
    <3>2. QED BY <2>4, <3>1 DEF InsertedStates
  <2>5. QED BY <2>1, <2>2, <2>3, <2>4
<1>5. pc[r] \in InTx /\ pc'[r] \in {"subscription", "commit", "400"}
  BY DEF InsertPassword, InsertSubscription, Rollback, Goto, TypeOK, InTx
<1>6. OwnRow'
  BY <1>1, <1>2, <1>5 DEF RequestsInv, OwnRow, tables, deletion, InTx
<1>7. AnswerIsTrue'
  BY <1>1, <1>2, <1>5 DEF RequestsInv, OwnRow, AnswerIsTrue, tables, deletion
<1>8. CacheInv' /\ DeletionLocks'
  BY <1>1, CacheUnchanged, LocksUnchanged DEF tables, deletion
<1>9. QED BY <1>3, <1>4, <1>6, <1>7, <1>8 DEF RequestsInv

\* The ids of a table with one row more.
LEMMA AddedId ==
  ASSUME NEW rows, NEW a
  PROVE  Ids(rows \cup {a}) = Ids(rows) \cup {a.id}
BY DEF Ids

\* The rows of one transaction move into the tables.
LEMMA CommitStep ==
  ASSUME IInv, TypeOK', NEW r \in Requests, Commit(r)
  PROVE  IInv'
<1> DEFINE row == [id |-> accountId[r], username |-> form[r].username, email |-> form[r].email]
<1>1. /\ tx[r].accounts = {row} /\ tx[r].passwords = {accountId[r]}
      /\ tx[r].subscriptions = {accountId[r]} /\ accountId[r] >= FirstId
      /\ pc[r] = "commit"
  BY DEF IInv, RequestsInv, TxShape, InsertedStates, Commit
<1>2. /\ accounts' = accounts \cup {row}
      /\ passwords' = passwords \cup {accountId[r]}
      /\ subscriptions' = subscriptions \cup {accountId[r]}
      /\ UNCHANGED <<webhooks, nextId, cache, form, accountId, retired, dpc, target>>
  BY <1>1 DEF Commit, deletion
<1>3. /\ tx'[r] = EmptyTx
      /\ \A q \in Requests : q # r => tx'[q] = tx[q] /\ pc'[q] = pc[q]
      /\ pc'[r] \in {"tokens", "400"}
      /\ pc'[r] = "400" => r \in ackLost'
      /\ ackLost \subseteq ackLost'
      /\ \A q \in Requests : q # r /\ q \in ackLost' => q \in ackLost
  BY DEF Commit, IInv, TypeOK, Goto
<1>4. accountId[r] \notin Ids(accounts \cup retired)
  BY <1>1 DEF IInv, RequestsInv, OwnRow, InTx
<1>5. row \in Uncommitted
  BY <1>1 DEF Uncommitted
<1>6. Uncommitted' \subseteq Uncommitted
  BY <1>3 DEF Uncommitted, EmptyTx
<1>7. RowsInv'
  <2>1. accountId[r] < nextId BY DEF IInv, RowsInv, IdsBelowCounter
  <2>2. IdsBelowCounter'
    <3>1. accountId[r] \in Nat /\ FirstId <= accountId[r]
      BY <1>1 DEF IInv, TypeOK
    <3>2. QED BY <1>2, <2>1, <3>1 DEF IInv, RowsInv, IdsBelowCounter
  <2>3. IdsDistinct' BY <1>2 DEF IInv, RowsInv, IdsDistinct
  <2>4. RetiredApart' BY <1>2, <1>4 DEF IInv, RowsInv, RetiredApart, Ids
  <2>5. EveryAccountWhole'
    <3>1. Ids(accounts') = Ids(accounts) \cup {accountId[r]}
      BY <1>2, AddedId
    <3>2. \A a \in Legacy : a.id # accountId[r]
      BY <1>1, LegacyAssumption DEF IInv, TypeOK, Row
    <3>3. accountId[r] \notin Ids(Legacy)
      BY <3>2 DEF Ids
    <3>4. QED BY <1>2, <3>1, <3>3 DEF IInv, RowsInv, EveryAccountWhole
  <2>6. KeysUnique'
    <3>1. accounts' \cup Uncommitted' \subseteq accounts \cup Uncommitted
      BY <1>2, <1>5, <1>6
    <3>2. \A q \in Requests : tx'[q].accounts \subseteq tx[q].accounts
      BY <1>3 DEF EmptyTx
    <3>3. QED BY <3>1, <3>2 DEF IInv, RowsInv, KeysUnique
  <2>7. QED BY <2>2, <2>3, <2>4, <2>5, <2>6 DEF RowsInv
<1>8. \A q \in Requests : q # r => accountId[q] # accountId[r]
  <2>1. accountId[r] # 0 BY <1>1 DEF IInv, TypeOK
  <2>2. QED BY <2>1 DEF IInv, RowsInv, IdsDistinct
<1>9. RequestsInv'
  <2>1. TxShape' BY <1>2, <1>3 DEF IInv, RequestsInv, TxShape, InsertedStates
  <2>2. Ids((accounts \cup retired)') = Ids(accounts \cup retired) \cup {accountId[r]}
    <3>1. (accounts \cup retired)' = (accounts \cup retired) \cup {row}
      BY <1>2
    <3>2. Ids((accounts \cup retired) \cup {row}) = Ids(accounts \cup retired) \cup {row.id}
      BY AddedId
    <3>3. QED BY <3>1, <3>2
  <2>3. OwnRow'
    <3> SUFFICES ASSUME NEW q \in Requests PROVE OwnRow!(q)'
      BY DEF OwnRow
    <3>1. CASE q = r
      <4>1. row \in (accounts \cup retired)' BY <1>2
      <4>2. row.id = accountId'[r] /\ row.username = form'[r].username /\ row.email = form'[r].email
        BY <1>2
      <4>3. pc'[r] \in {"tokens", "400"} BY <1>3
      <4>4. QED BY <3>1, <4>1, <4>2, <4>3 DEF InTx
    <3>2. CASE q # r
      <4>1. pc'[q] = pc[q] /\ accountId'[q] = accountId[q] /\ form'[q] = form[q]
        BY <1>2, <1>3, <3>2
      <4>2. accountId[q] \notin Ids(accounts \cup retired)
              => accountId[q] \notin Ids((accounts \cup retired)')
        BY <1>8, <2>2, <3>2
      <4>3. accounts \cup retired \subseteq (accounts \cup retired)'
        BY <1>2
      <4>4. Names(accounts \cup retired) \subseteq Names((accounts \cup retired)')
        BY <4>3 DEF Names
      <4>5. QED BY <4>1, <4>2, <4>3, <4>4 DEF IInv, RequestsInv, OwnRow
    <3>3. QED BY <3>1, <3>2
  <2>4. AnswerIsTrue'
    <3> SUFFICES ASSUME NEW q \in Requests PROVE AnswerIsTrue!(q)'
      BY DEF AnswerIsTrue
    <3>1. CASE q = r BY <1>3, <3>1
    <3>2. CASE q # r
      BY <1>2, <1>3, <1>8, <2>2, <3>2 DEF IInv, RequestsInv, AnswerIsTrue
    <3>3. QED BY <3>1, <3>2
  <2>5. QED BY <2>1, <2>3, <2>4 DEF RequestsInv
<1>10. CacheInv'
  BY <1>2 DEF IInv, CacheInv, CacheHoldsRegisteredNames, SessionsOfCommittedAccounts, cache,
     Names, Ids
<1>11. DeletionLocks'
  <2>1. accountId[r] \notin passwords
    BY <1>4 DEF IInv, RowsInv, EveryAccountWhole, Ids
  <2>2. \A d \in Deleters : dpc[d] = "commit" => target[d] # accountId[r]
    BY <2>1 DEF IInv, DeletionLocks
  <2>3. QED BY <1>2, <2>2 DEF IInv, DeletionLocks, LockedBy
<1>12. QED BY <1>7, <1>9, <1>10, <1>11 DEF IInv

-----------------------------------------------------------------------------
(* Deletions, webhooks, crashes *)

\* The steps of a deletion before its commit touch nothing but its locks.
LEMMA OpenDeletion ==
  ASSUME IInv, TypeOK', NEW d \in Deleters,
         \/ DeleteById(d) \/ DeleteByUsername(d) \/ DeletePassword(d) \/ NoPassword(d)
         \/ DeleteRow(d) \/ RefuseRow(d) \/ FailDelete(d)
  PROVE  IInv'
<1> USE DEF IInv
<1>1. UNCHANGED <<tables, nextId, cache, request, retired>>
  BY DEF DeleteById, DeleteByUsername, DeletePassword, NoPassword, DeleteRow, RefuseRow,
         FailDelete
<1>2. RowsInv' /\ RequestsInv' /\ CacheInv'
  BY <1>1, RowsUnchanged, RequestsUnchanged, CacheUnchanged DEF tables, request
<1>3. DeletionLocks'
  <2> USE DEF DeletionLocks, LockedBy, StepTo, TypeOK, tables
  <2>1. CASE DeleteById(d) BY <1>1, <2>1 DEF DeleteById
  <2>2. CASE DeleteByUsername(d) BY <1>1, <2>2 DEF DeleteByUsername
  <2>3. CASE DeletePassword(d) BY <1>1, <2>3 DEF DeletePassword
  <2>4. CASE NoPassword(d) BY <1>1, <2>4 DEF NoPassword
  <2>5. CASE DeleteRow(d) BY <1>1, <2>5 DEF DeleteRow
  <2>6. CASE RefuseRow(d) BY <1>1, <2>6 DEF RefuseRow
  <2>7. CASE FailDelete(d) BY <1>1, <2>7 DEF FailDelete
  <2>8. QED BY <2>1, <2>2, <2>3, <2>4, <2>5, <2>6, <2>7
<1>4. QED BY <1>2, <1>3

\* Only a row that no subscription refers to leaves: one of Legacy.
LEMMA CommitDeleteStep ==
  ASSUME IInv, TypeOK', NEW d \in Deleters, CommitDelete(d)
  PROVE  /\ IInv'
         /\ accounts \ Legacy \subseteq accounts'
<1> USE DEF IInv, CommitDelete
<1>1. /\ target[d] \in passwords /\ target[d] \notin subscriptions \cup webhooks
      /\ \A e \in Deleters : e # d /\ dpc[e] \in {"account", "commit"} => target[e] # target[d]
  BY DEF DeletionLocks, LockedBy
<1>2. /\ accounts' \subseteq accounts
      /\ accounts \cup retired = (accounts \cup retired)'
      /\ \A a \in accounts : a.id # target[d] => a \in accounts'
      /\ \A a \in accounts' : a.id # target[d]
  OBVIOUS
<1>3. /\ UNCHANGED <<pc, form, tx, accountId, ackLost, nextId, cache, subscriptions, webhooks, target>>
      /\ passwords' = passwords \ {target[d]}
      /\ dpc'[d] \notin {"account", "commit"}
      /\ \A e \in Deleters : e # d => dpc'[e] = dpc[e]
  BY DEF request, StepTo, TypeOK
<1>4. RowsInv'
  <2>1. IdsBelowCounter' /\ IdsDistinct'
    BY <1>2, <1>3 DEF RowsInv, IdsBelowCounter, IdsDistinct
  <2>2. RetiredApart'
    BY <1>2 DEF RowsInv, RetiredApart
  <2>3. EveryAccountWhole'
    <3>1. Ids(accounts') = Ids(accounts) \ {target[d]}
      BY <1>2 DEF Ids
    <3>2. QED BY <1>1, <1>3, <3>1 DEF RowsInv, EveryAccountWhole
  <2>4. KeysUnique'
    BY <1>2, <1>3 DEF RowsInv, KeysUnique, Uncommitted
  <2>5. QED BY <2>1, <2>2, <2>3, <2>4 DEF RowsInv
<1>5. RequestsInv' /\ CacheInv'
  <2> HIDE DEF CommitDelete, IInv
  <2>1. RequestsInv /\ CacheInv BY DEF IInv
  <2>2. TxShape' BY <1>3, <2>1 DEF RequestsInv, TxShape
  <2>3. OwnRow' BY <1>2, <1>3, <2>1 DEF RequestsInv, OwnRow
  <2>4. AnswerIsTrue' BY <1>2, <1>3, <2>1 DEF RequestsInv, AnswerIsTrue
  <2>5. CacheInv'
    BY <1>2, <1>3, <2>1 DEF CacheInv, CacheHoldsRegisteredNames, SessionsOfCommittedAccounts, cache
  <2>6. QED BY <2>2, <2>3, <2>4, <2>5 DEF RequestsInv
<1>6. DeletionLocks'
  BY <1>1, <1>3 DEF DeletionLocks, LockedBy
<1>7. accounts \ Legacy \subseteq accounts'
  <2> SUFFICES ASSUME NEW a \in accounts, a \notin Legacy PROVE a.id # target[d]
    BY <1>2
  <2>1. target[d] \in Ids(Legacy)
    BY <1>1 DEF RowsInv, EveryAccountWhole
  <2>2. target[d] < FirstId
    BY <2>1, LegacyAssumption DEF Ids
  <2>3. a.id \in Nat /\ target[d] \in Nat /\ FirstId <= a.id
    BY DEF RowsInv, IdsBelowCounter, TypeOK, Row
  <2>4. QED BY <2>2, <2>3
<1>8. QED BY <1>4, <1>5, <1>6, <1>7

\* A webhook comes to an account that no deletion holds, or goes.
LEMMA WebhookStep ==
  ASSUME IInv, TypeOK', NEW id \in Ids(accounts), AddWebhook(id) \/ DropWebhook(id)
  PROVE  IInv'
<1> USE DEF IInv
<1>1. /\ UNCHANGED <<accounts, passwords, subscriptions, nextId, cache, request, deletion>>
      /\ webhooks' \subseteq webhooks \cup {id}
      /\ webhooks' = webhooks \cup {id} => id \notin Ids(BeingDeleted) \/ id \in webhooks
  BY DEF AddWebhook, DropWebhook
<1>2. RowsInv'
  BY <1>1 DEF RowsInv, IdsBelowCounter, IdsDistinct, RetiredApart, EveryAccountWhole,
     KeysUnique, Uncommitted, request, deletion
<1>3. RequestsInv' /\ CacheInv'
  BY <1>1, RequestsUnchanged, CacheUnchanged DEF request, deletion
<1>4. DeletionLocks'
  <2>1. CASE DropWebhook(id)
    BY <1>1, <2>1 DEF DropWebhook, DeletionLocks, LockedBy, deletion
  <2>2. CASE AddWebhook(id)
    <3>1. \A e \in Deleters : dpc[e] = "commit" => target[e] # id
      BY <2>2 DEF AddWebhook, BeingDeleted, Ids
    <3>2. QED BY <1>1, <2>2, <3>1 DEF AddWebhook, DeletionLocks, LockedBy, deletion
  <2>3. QED BY <2>1, <2>2
<1>5. QED BY <1>2, <1>3, <1>4

\* The process is killed: all open transactions and deletions are undone.
LEMMA CrashStep ==
  ASSUME IInv, TypeOK', Crash
  PROVE  IInv'
<1> USE DEF IInv, Crash
<1>1. \A r \in Requests :
        /\ tx'[r] = EmptyTx
        /\ pc'[r] \in {"gone", pc[r]} /\ pc'[r] \notin Running
  BY DEF TypeOK, Running, InTx
<1>2. RowsInv'
  <2>1. IdsBelowCounter' /\ IdsDistinct' /\ RetiredApart' /\ EveryAccountWhole'
    BY DEF RowsInv, IdsBelowCounter, IdsDistinct, RetiredApart, EveryAccountWhole, tables
  <2>2. Uncommitted' = {}
    BY <1>1 DEF Uncommitted, EmptyTx
  <2>3. KeysUnique'
    BY <1>1, <2>2 DEF RowsInv, KeysUnique, EmptyTx, tables
  <2>4. QED BY <2>1, <2>3 DEF RowsInv
<1>3. RequestsInv'
  <2>1. TxShape' BY <1>1 DEF TxShape, InsertedStates, Running, InTx
  <2>2. OwnRow' BY <1>1 DEF RequestsInv, OwnRow, Running, InTx, tables
  <2>3. AnswerIsTrue' BY <1>1 DEF RequestsInv, AnswerIsTrue, tables
  <2>4. QED BY <2>1, <2>2, <2>3 DEF RequestsInv
<1>4. CacheInv'
  BY DEF CacheInv, CacheHoldsRegisteredNames, SessionsOfCommittedAccounts, tables, cache
<1>5. DeletionLocks'
  BY DEF DeletionLocks, LockedBy, TypeOK, tables
<1>6. QED BY <1>2, <1>3, <1>4, <1>5

-----------------------------------------------------------------------------

\* Every step keeps the inductive invariant.
LEMMA NextIInv == IInv /\ TypeOK' /\ [Next]_vars => IInv'
<1> SUFFICES ASSUME IInv, TypeOK', [Next]_vars PROVE IInv'
  OBVIOUS
<1>1. ASSUME NEW r \in Requests, SignUp(r) PROVE IInv'
  BY <1>1, OutsideTransaction, InsertAccountStep, InsertDuplicateStep, TransactionStep,
     CommitStep DEF SignUp, Serve
<1>2. ASSUME NEW d \in Deleters, Delete(d) PROVE IInv'
  BY <1>2, OpenDeletion, CommitDeleteStep DEF Delete, Remove
<1>3. ASSUME NEW id \in Ids(accounts), AddWebhook(id) \/ DropWebhook(id) PROVE IInv'
  BY <1>3, WebhookStep
<1>4. CASE Crash
  BY <1>4, CrashStep
<1>5. CASE UNCHANGED vars
  BY <1>5, RowsUnchanged, RequestsUnchanged, CacheUnchanged, LocksUnchanged
  DEF vars, IInv, tables, request, deletion
<1>6. QED BY <1>1, <1>2, <1>3, <1>4, <1>5 DEF Next

\* The inductive invariant holds in every state.
THEOREM Invariance == Spec => []IInv
<1>1. IInv /\ TypeOK' /\ [Next]_vars => IInv'
  BY NextIInv
<1>2. QED BY InitIInv, TypeCorrect, <1>1, PTL DEF Spec

\* However many sign-ups and deletions run, fail or are cut off, accounts are
\* whole: never one without its password or, if signed up, its subscription.
THEOREM AccountsWhole == Spec => []EveryAccountWhole
BY Invariance, PTL DEF IInv, RowsInv

\* No two rows ever share an id, a username or an email.
THEOREM UniqueKeys == Spec => []KeysUnique
BY Invariance, PTL DEF IInv, RowsInv

\* A refused sign-up has left nothing behind, a successful one its account.
THEOREM TrueAnswers == Spec => []AnswerIsTrue
BY Invariance, PTL DEF IInv, RequestsInv

\* The two caches name only what was committed.
THEOREM TrueCaches == Spec => []CachesHoldCommitted
BY Invariance, PTL DEF IInv, CacheInv, CachesHoldCommitted

-----------------------------------------------------------------------------

\* Only two steps change the table of accounts.
LEMMA AccountsChange ==
  ASSUME [Next]_vars,
         \A r \in Requests : ~Commit(r),
         \A d \in Deleters : ~CommitDelete(d)
  PROVE  UNCHANGED <<accounts, passwords, subscriptions, retired>>
<1> USE DEF tables, deletion
<1>1. ASSUME NEW r \in Requests, SignUp(r) PROVE UNCHANGED <<tables, retired>>
  BY <1>1 DEF SignUp, Serve, Receive, Has, IsUsernameTaken, AddTaken, Recheck, InsertAccount,
     InsertDuplicate, InsertPassword, InsertSubscription, Rollback, IssueTokens,
     SaveRefreshToken, GetRole
<1>2. ASSUME NEW d \in Deleters, Delete(d) PROVE UNCHANGED <<tables, retired>>
  BY <1>2 DEF Delete, Remove, DeleteById, DeleteByUsername, DeletePassword, NoPassword,
     DeleteRow, RefuseRow, FailDelete
<1>3. ASSUME NEW id \in Ids(accounts), AddWebhook(id) \/ DropWebhook(id)
      PROVE  UNCHANGED <<accounts, passwords, subscriptions, retired>>
  BY <1>3 DEF AddWebhook, DropWebhook
<1>4. CASE Crash BY <1>4 DEF Crash
<1>5. CASE UNCHANGED vars BY <1>5 DEF vars
<1>6. QED BY <1>1, <1>2, <1>3, <1>4, <1>5 DEF Next

\* What a commit adds: one row, whole, whose keys are nobody's.
LEMMA CommitAdds ==
  ASSUME IInv, NEW r \in Requests, Commit(r)
  PROVE  \E row \in Row :
           /\ accounts' = accounts \cup {row}
           /\ passwords' = passwords \cup {row.id}
           /\ subscriptions' = subscriptions \cup {row.id}
           /\ retired' = retired
           /\ row.id \notin Ids(accounts \cup retired)
           /\ \A a \in accounts : ~Clash(a, row)
<1> DEFINE row == [id |-> accountId[r], username |-> form[r].username, email |-> form[r].email]
<1>1. /\ tx[r].accounts = {row} /\ tx[r].passwords = {accountId[r]}
      /\ tx[r].subscriptions = {accountId[r]}
      /\ accountId[r] \notin Ids(accounts \cup retired)
  BY DEF IInv, RequestsInv, TxShape, OwnRow, InTx, InsertedStates, Commit
<1>2. row \in Row
  BY <1>1 DEF IInv, TypeOK
<1>3. row \in Uncommitted /\ row \notin accounts
  BY <1>1 DEF Uncommitted, Ids
<1>4. \A a \in accounts : ~Clash(a, row)
  BY <1>3 DEF IInv, RowsInv, KeysUnique
<1>5. row.id = accountId[r]
  OBVIOUS
<1>6. QED
  BY <1>1, <1>2, <1>4, <1>5 DEF Commit, deletion

\* An account that CreateAccount made cannot be deleted.
THEOREM NoSignedUpAccountLeaves == Spec => SignedUpAccountsStay
<1>1. IInv /\ TypeOK' /\ [Next]_vars => [accounts \ Legacy \subseteq accounts']_vars
  <2> SUFFICES ASSUME IInv, TypeOK', [Next]_vars PROVE accounts \ Legacy \subseteq accounts'
    OBVIOUS
  <2>1. CASE \E r \in Requests : Commit(r) BY <2>1, CommitAdds
  <2>2. CASE \E d \in Deleters : CommitDelete(d) BY <2>2, CommitDeleteStep
  <2>3. QED BY <2>1, <2>2, AccountsChange
<1>2. QED BY <1>1, Invariance, TypeCorrect, PTL DEF Spec, SignedUpAccountsStay

-----------------------------------------------------------------------------
(* Accounts implements AccountRegistry *)

\* The entry of a row.
EntryOf(a) ==
    [row |-> a, password |-> a.id \in passwords, plan |-> a.id \in subscriptions]

\* The rows that the abstract registry sees are those of table accounts.
LEMMA RegisteredRows == Registry!Rows = accounts
<1>1. Registered = {EntryOf(a) : a \in accounts}
  BY DEF Registered, EntryOf
<1>2. \A a : EntryOf(a).row = a
  BY DEF EntryOf
<1>3. QED
  BY <1>1, <1>2 DEF Registry!Rows

\* Sign-ups and deletions, with their transactions, races, failures and
\* crashes, implement registration and removal of whole accounts.  Only the
\* COMMIT of CreateAccount and that of a deletion are steps of the registry.
THEOREM Implementation == Spec => ImplementsRegistry
<1>1. Init => Registry!Init
  <2> SUFFICES ASSUME Init PROVE Registry!Init
    OBVIOUS
  <2>1. accounts = Legacy /\ retired = {}
    BY DEF Init
  <2>2. \A a \in Legacy : a.id \in passwords /\ a.id \notin subscriptions
    BY DEF Init, Ids
  <2>3. Registered = {[row |-> a, password |-> TRUE, plan |-> FALSE] : a \in Legacy}
    <3>1. \A a \in Legacy : EntryOf(a) = [row |-> a, password |-> TRUE, plan |-> FALSE]
      <4> SUFFICES ASSUME NEW a \in Legacy
                   PROVE  EntryOf(a) = [row |-> a, password |-> TRUE, plan |-> FALSE]
        OBVIOUS
      <4>1. (a.id \in passwords) = TRUE
        BY <2>2
      <4>2. (a.id \in subscriptions) = FALSE
        BY <2>2
      <4>3. QED BY <4>1, <4>2, Zenon DEF EntryOf
    <3>2. Registered = {EntryOf(a) : a \in Legacy}
      BY <2>1 DEF Registered, EntryOf
    <3>3. QED BY <3>1, <3>2
  <2>4. QED BY <2>1, <2>3 DEF Registry!Init
<1>2. IInv /\ TypeOK' /\ [Next]_vars => [Registry!Next]_Registry!vars
  <2> SUFFICES ASSUME IInv, TypeOK', [Next]_vars PROVE [Registry!Next]_Registry!vars
    OBVIOUS
  <2>1. ASSUME NEW r \in Requests, Commit(r) PROVE Registry!Next
    <3>1. PICK row \in Row :
            /\ accounts' = accounts \cup {row}
            /\ passwords' = passwords \cup {row.id}
            /\ subscriptions' = subscriptions \cup {row.id}
            /\ retired' = retired
            /\ row.id \notin Ids(accounts \cup retired)
            /\ \A a \in accounts : ~Clash(a, row)
      BY <2>1, CommitAdds
    <3> DEFINE entry == [row |-> row, password |-> TRUE, plan |-> TRUE]
    <3>2. \A a \in accounts \cup retired : a.id # row.id
      BY <3>1 DEF Ids
    <3>3. Registered' = Registered \cup {entry}
      <4>1. \A a \in accounts : a.id # row.id
        BY <3>2
      <4>2. \A a \in accounts : EntryOf(a)' = EntryOf(a)
        BY <3>1, <4>1 DEF EntryOf
      <4>3. EntryOf(row)' = entry
        BY <3>1 DEF EntryOf
      <4>4. Registered' = {EntryOf(a)' : a \in accounts \cup {row}}
        BY <3>1 DEF Registered, EntryOf
      <4>5. Registered = {EntryOf(a) : a \in accounts}
        BY DEF Registered, EntryOf
      <4>6. QED BY <4>2, <4>3, <4>4, <4>5
    <3>4. entry \notin Registered
      BY <3>2 DEF Registered
    <3>5. Registry!Register(entry)
      BY <3>1, <3>2, <3>3, RegisteredRows DEF Registry!Register, Clash
    <3>6. QED BY <3>3, <3>4, <3>5 DEF Registry!Next
  <2>2. ASSUME NEW d \in Deleters, CommitDelete(d) PROVE Registry!Next
    <3>1. PICK a \in accounts : a.id = target[d]
      BY <2>2 DEF IInv, DeletionLocks, RowsInv, EveryAccountWhole, Ids, CommitDelete
    <3>2. target[d] \notin subscriptions
      BY <2>2 DEF IInv, DeletionLocks, CommitDelete
    <3>3. \A b \in accounts : b.id = target[d] <=> b = a
      BY <3>1 DEF IInv, RowsInv, KeysUnique
    <3>4. accounts' = accounts \ {a} /\ retired' = retired \cup {a}
      BY <2>2, <3>3 DEF CommitDelete
    <3> DEFINE entry == [row |-> a, password |-> a.id \in passwords, plan |-> a.id \in subscriptions]
    <3>5. entry \in Registered
      BY DEF Registered
    <3>6. Registered' = Registered \ {entry}
      BY <2>2, <3>3, <3>4 DEF Registered, CommitDelete
    <3>7. Registry!Remove(entry)
      BY <3>1, <3>2, <3>4, <3>6 DEF Registry!Remove
    <3>8. QED BY <3>5, <3>7 DEF Registry!Next
  <2>3. ASSUME \A r \in Requests : ~Commit(r), \A d \in Deleters : ~CommitDelete(d)
        PROVE  UNCHANGED Registry!vars
    BY <2>3, AccountsChange DEF Registered, Registry!vars
  <2>4. QED BY <2>1, <2>2, <2>3
<1>3. QED BY <1>1, <1>2, Invariance, TypeCorrect, PTL DEF Spec, ImplementsRegistry, Registry!Spec
=============================================================================
