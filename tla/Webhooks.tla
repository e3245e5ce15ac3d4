------------------------------- MODULE Webhooks -------------------------------
(***************************************************************************)
(* The webhooks of an account: the handlers of /profile/webhooks in        *)
(* internal/logic/http/profile.go, the statements they make of             *)
(* internal/dao/database/chatbot_webhook.go, and the access token that     *)
(* says whose webhooks they are (internal/logic/token/token.go,            *)
(* internal/handler/http/middlewares.go).  PUT and DELETE look the webhook *)
(* up in one statement, to compare its owner, and change it by its id in   *)
(* another.                                                                *)
(*                                                                         *)
(* A request stands for a goroutine of the server: it serves one request   *)
(* after another.  What CreateProfileWebhook sends to the webhook server   *)
(* is in Notifications.                                                    *)
(***************************************************************************)
EXTENDS Integers, FiniteSets, Floats

CONSTANTS
    Accounts,      \* the ids of accounts
    Requests,
    Names,         \* of webhooks; their URLs are left out
    Blank,         \* the name in a body that lacks a name or a URL
    Reader,        \* an account whose client reads all its webhooks page by page
    PageSize,      \* the limit it asks for
    Precision,     \* bits of the mantissa of a float64: 53
    MaxId          \* bound: the last id a webhook can get

\* AUTO_INCREMENT starts at 1; a float64 holds these ids.
ASSUME AccountAssumption ==
    /\ Precision \in Nat
    /\ \A a \in Accounts : a \in Nat \ {0} /\ a < 2 ^ Precision
ASSUME ReaderAssumption == Reader \in Accounts /\ PageSize \in Nat \ {0}
ASSUME BodyAssumption == Blank \in Names
ASSUME BoundAssumption == MaxId \in Nat \ {0}

VARIABLES
    rows,      \* table chatbot_webhooks
    nextId,    \* its AUTO_INCREMENT counter
    pc, form,  \* where each request is, and what it asks for
    account,   \* the account that the middleware read from its token
    at, due,   \* the client of Reader: the offset of its next page; of the webhooks
               \* there were when it began and still are, those it was not shown
    walk,      \* "none", "reading", or "read" when a page came back short
    spoilt,    \* history: a webhook went, or a page broke off, while it was reading
    deleted    \* history: how many DELETEs of each id were answered 204

client == <<at, due, walk, spoilt>>
vars == <<rows, nextId, pc, form, account, client, deleted>>

Ids == 1 .. MaxId
Row == [id : Ids, owner : Accounts, name : Names]

\* What the path and the body of a request say, as far as its kind uses them.
Form ==
    [kind : {"get", "delete"}, signedIn : Accounts, id : Ids, name : {Blank}]
    \cup [kind : {"put"}, signedIn : Accounts, id : Ids, name : Names]
    \cup [kind : {"post"}, signedIn : Accounts, id : {1}, name : Names]

TypeOK ==
    /\ rows \subseteq Row
    /\ nextId \in 1 .. MaxId + 1
    /\ pc \in [Requests -> {"idle", "owner", "insert", "update", "delete"}]
    /\ form \in [Requests -> Form]
    /\ account \in [Requests -> Nat]
    /\ at \in Nat
    /\ due \subseteq Ids
    /\ walk \in {"none", "reading", "read"}
    /\ spoilt \in BOOLEAN
    /\ deleted \in [Ids -> Nat]

NoForm ==
    [kind |-> "get", signedIn |-> Reader, id |-> 1, name |-> Blank]

Init ==
    /\ rows = {}
    /\ nextId = 1
    /\ pc = [r \in Requests |-> "idle"]
    /\ form = [r \in Requests |-> NoForm]
    /\ account = [r \in Requests |-> 0]
    /\ at = 0 /\ due = {} /\ walk = "none" /\ spoilt = FALSE
    /\ deleted = [w \in Ids |-> 0]

-----------------------------------------------------------------------------
(* The access token *)

\* Fault: the claim passes through a number with fewer bits.
ClaimNarrow(n) == Rounded(n, Precision - 1)

\* The id is a JSON number, which MapClaims decodes to a float64.
Claim(n) == Rounded(n, Precision)
-----------------------------------------------------------------------------
(* The handlers *)

Goto(r, there) == pc' = [pc EXCEPT ![r] = there] /\ UNCHANGED <<form, account>>

\* Whatever the answer is, the goroutine is free again.
Answer(r) ==
    /\ pc' = [pc EXCEPT ![r] = "idle"]
    /\ form' = [form EXCEPT ![r] = NoForm]
    /\ account' = [account EXCEPT ![r] = 0]

\* A request with a valid bearer token.  One without, or with one that has
\* expired, is answered 401 and one whose webhookId is no number 400: neither
\* changes anything.  POST binds its body first.
Receive(r) ==
    /\ pc[r] = "idle"
    /\ \E f \in Form :
         /\ form' = [form EXCEPT ![r] = f]
         /\ account' = [account EXCEPT ![r] = Claim(f.signedIn)]
         /\ pc' = [pc EXCEPT ![r] = IF f.kind = "post" THEN "insert" ELSE "owner"]
    /\ UNCHANGED <<rows, nextId, client, deleted>>

NameTaken(owner, name, id) ==
    \E row \in rows : row.owner = owner /\ row.name = name /\ row.id # id

Inserted(r) == [id |-> nextId, owner |-> account[r], name |-> form[r].name]

\* CreateWebhook wants a name and a URL; a name that the account uses fails
\* in the unique index, and uses up an id.
Insert(r) ==
    /\ pc[r] = "insert"
    /\ \/ /\ form[r].name = Blank
          /\ UNCHANGED <<rows, nextId>>
       \/ /\ form[r].name # Blank
          /\ nextId <= MaxId
          /\ nextId' = nextId + 1
          /\ rows' = IF NameTaken(account[r], form[r].name, nextId)
                     THEN rows ELSE rows \cup {Inserted(r)}
    /\ Answer(r)
    /\ UNCHANGED <<client, deleted>>

\* GetWebhook.
Found(id) == {row \in rows : row.id = id}

\* Fault: any webhook that exists will do.
CheckExists(r) ==
    /\ pc[r] = "owner"
    /\ IF /\ form[r].kind # "get"
          /\ Found(form[r].id) # {}
       THEN Goto(r, IF form[r].kind = "put" THEN "update" ELSE "delete")
       ELSE Answer(r)
    /\ UNCHANGED <<rows, nextId, client, deleted>>

\* 404 if there is no such row, 403 if it is somebody else's; GET
\* answers with it.
CheckOwner(r) ==
    /\ pc[r] = "owner"
    /\ IF /\ form[r].kind # "get"
          /\ \E row \in Found(form[r].id) : row.owner = account[r]
       THEN Goto(r, IF form[r].kind = "put" THEN "update" ELSE "delete")
       ELSE Answer(r)
    /\ UNCHANGED <<rows, nextId, client, deleted>>

\* UpdateWebhook looks at the id only, and takes blanks too; it fails on a name
\* that another webhook of the owner has.
Renamed(row, r) ==
    IF row.id = form[r].id /\ ~NameTaken(row.owner, form[r].name, row.id)
    THEN [row EXCEPT !.name = form[r].name] ELSE row

\* 500 if the statement failed, or changed nothing: if the row is gone by now,
\* or keeps its values.
Update(r) ==
    /\ pc[r] = "update"
    /\ rows' = {Renamed(row, r) : row \in rows}
    /\ Answer(r)
    /\ UNCHANGED <<nextId, client, deleted>>

Own(a) == {row \in rows : row.owner = a}
Rank(row) == Cardinality({v \in Own(row.owner) : v.id <= row.id})

\* Fault: RowsAffected is not looked at.
DeleteUnchecked(r) ==
    LET gone == Found(form[r].id) IN
    /\ pc[r] = "delete"
    /\ rows' = rows \ gone
    /\ deleted' \in {deleted, [deleted EXCEPT ![form[r].id] = @ + 1]}
    /\ due' = due \ {form[r].id}
    /\ spoilt' = (spoilt \/ \E row \in gone : row.owner = Reader /\ Rank(row) <= at)
    /\ Answer(r)
    /\ UNCHANGED <<nextId, at, walk>>

\* DeleteWebhook: 204 if it deleted a row, which it may also have done when the
\* answer is lost; 500 if there is none by now.
Delete(r) ==
    LET gone == Found(form[r].id) IN
    /\ pc[r] = "delete"
    /\ rows' = rows \ gone
    /\ deleted' \in {deleted, IF gone = {} THEN deleted
                              ELSE [deleted EXCEPT ![form[r].id] = @ + 1]}
    /\ due' = due \ {form[r].id}
    /\ spoilt' = (spoilt \/ \E row \in gone : row.owner = Reader /\ Rank(row) <= at)
    /\ Answer(r)
    /\ UNCHANGED <<nextId, at, walk>>

\* A statement fails, a body does not bind, or the server is killed.
Abandon(r) ==
    /\ pc[r] # "idle"
    /\ Answer(r)
    /\ UNCHANGED <<rows, nextId, client, deleted>>

-----------------------------------------------------------------------------
(* GetProfileWebhooks, and a client that reads page after page *)

IdsOf(page) == {row.id : row \in page}

StartReading ==
    /\ walk # "reading"
    /\ walk' = "reading" /\ at' = 0 /\ due' = IdsOf(Own(Reader)) /\ spoilt' = FALSE
    /\ UNCHANGED <<rows, nextId, pc, form, account, deleted>>

\* ORDER BY id LIMIT limit OFFSET offset.
Page(a, limit, offset) == {row \in Own(a) : offset < Rank(row) /\ Rank(row) <= offset + limit}

\* The client goes on behind what it got, and stops at a page that is short.
Show(page) ==
    /\ at' = at + Cardinality(page)
    /\ due' = due \ IdsOf(page)
    /\ walk' = IF Cardinality(page) < PageSize THEN "read" ELSE "reading"

\* Fault: the rows come in no order.
ReadAnyPage ==
    /\ walk = "reading"
    /\ \E page \in SUBSET Own(Claim(Reader)) :
         /\ Cardinality(page) = Cardinality(Page(Claim(Reader), PageSize, at))
         /\ Show(page)
    /\ UNCHANGED <<rows, nextId, pc, form, account, spoilt, deleted>>

\* GetWebhooksByAccountId.  Its loop does not look at rows.Err: when the
\* connection breaks, the rows read so far are answered, with status 200.
ReadPage ==
    LET page == Page(Claim(Reader), PageSize, at) IN
    /\ walk = "reading"
    /\ \/ Show(page) /\ UNCHANGED spoilt
       \/ \E row \in page : Show({v \in page : v.id < row.id}) /\ spoilt' = TRUE
    /\ UNCHANGED <<rows, nextId, pc, form, account, deleted>>

\* The query fails and the client gives up.
StopReading ==
    /\ walk = "reading"
    /\ walk' = "none" /\ at' = 0 /\ due' = {} /\ spoilt' = FALSE
    /\ UNCHANGED <<rows, nextId, pc, form, account, deleted>>

Next ==
    \/ \E r \in Requests :
         Receive(r) \/ Insert(r) \/ CheckOwner(r) \/ Update(r) \/ Delete(r) \/ Abandon(r)
    \/ StartReading \/ ReadPage \/ StopReading

Spec == Init /\ [][Next]_vars

-----------------------------------------------------------------------------
(* Properties *)

\* Whatever happens between the look-up and the statement that uses it, a
\* webhook is changed or deleted only by a request whose token was issued to
\* its owner, at sign-in: this needs ids that are not given out again, and a
\* token that brings the account id back exactly.
OwnersOnly ==
    [][\A row \in rows : row \notin rows' =>
         \E r \in Requests : /\ pc[r] \in {"update", "delete"} /\ pc'[r] = "idle"
                             /\ form[r].id = row.id /\ form[r].signedIn = row.owner]_vars

\* Of all DELETEs of a webhook, concurrent or repeated, one at most is
\* answered 204, and then the webhook is gone for good.
DeletedOnce ==
    \A w \in Ids : /\ deleted[w] <= 1
                   /\ deleted[w] = 1 => w \notin IdsOf(rows)

\* A client that reads its webhooks page after page sees each that is there all
\* the time, whatever is added and renamed meanwhile and whatever is deleted
\* behind the pages it read; it misses one only if a webhook it was shown is
\* deleted, or the list broke off.
WalkIsComplete == walk = "read" /\ ~spoilt => due = {}
=============================================================================
