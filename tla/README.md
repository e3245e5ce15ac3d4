# A TLA+ model of the standalone server

The standalone server is the HTTP backend of Fiagram: people sign up and in,
keep a profile and webhooks, and set up trading alerts; a Kafka topic brings
signals, which the server posts to the webhooks.  These modules model the parts
in which something concurrent, partial or long-lived happens, TLC checks them on
small instances, and TLAPS proves their safety properties for every size.  Paths below are relative to `internal/` of
the repository (`src/internal/` in `PROJECT.json`).

## 1. The system

| Part | State | Operations | What is hard |
|---|---|---|---|
| Registration and removal: `logic/http/auth.go` SignUp, `logic/account/account.go`, `dao/database/account*.go`, `dao/cache/usernames_taken.go` | tables accounts, account_passwords, account_subscriptions, chatbot_webhooks; the set of taken usernames | SignUp → CreateAccount; DeleteAccount, DeleteAccountByUsername | check-then-insert races, a transaction of three INSERTs that fails in the middle, an acknowledgement that is lost, a cache that is never cleaned, a foreign key nobody thought of when deleting |
| Refresh tokens: `logic/http/auth.go` SignIn, RefreshToken, SignOut; `dao/cache/refresh_token.go`, `ram.go`, `redis.go` | one entry per token, with a lifetime; the browsers' cookies | sign in, rotate, sign out | rotation is Get, Set, Del: other requests, errors and crashes in between; lost answers; the two stores differ |
| Account data: `logic/http/profile.go`, `logic/account/account.go` | rows of accounts, password hashes | UpdateProfileMe, UpdateProfilePassword, CheckAccountValid | read-merge-write outside of one transaction, a unique index on the email, check-then-store of passwords |
| Notification: `logic/consumer/torch.go`, `handler/consumer`, `logic/chatbot`, `handler/chatbot`, `handler/module.go` | Kafka offsets, two bounded channels, table chatbot_webhooks | consume, mark, commit; create a webhook; greet; post to every webhook; start and stop | full channels that block their senders, rebalances, offsets committed before the work is done, crashes |
| Alerts: `logic/http/strategy.go`, the strategy service behind gRPC | alerts (in the service), roles, plans, webhooks | CreateStrategyAlert, DeleteStrategyAlert | four checks and then an act, over two databases and a service |
| Alert operands: `logic/http/strategy.go` | none | JSON ↔ protobuf, compatibility | two hand-written tables that should be inverse, JSON null |
| Webhook resources: `logic/http/profile.go`, `dao/database/chatbot_webhook.go` | table chatbot_webhooks | create, read, list by pages, update, delete | ownership is checked in one statement and used in another; pages are cut by an offset while rows come and go; a list that breaks off passes for a whole one |
| Access tokens: `logic/token/token.go`, `handler/http/middlewares.go` | none | sign, verify | the account id passes through a JSON number, a float64 |
| Roles: `dao/database/account_role.go` | a package variable, a slice that is filled once | look-ups by id and by name | filled, row by row and without a lock, by whichever requests come first |
| Database set-up, start and stop: `dao/database/database.go`, `migrator.go`, `migrations/mysql/*.sql`, `handler/consumer`, `handler/module.go` | the schema, the record of migrations | migrate, serve, stop, start again | MySQL commits at every CREATE TABLE, so that an interrupted migration leaves a part of it behind |
| HTTP server, configuration, logging, message queue clients, generated code | – | – | no state of the program's own |

How they interact.  HTTP handlers run in a goroutine each and share nothing but
the database, the token cache and the two Go channels.  `CreateProfileWebhook`
sends into the channel of created webhooks, one Kafka claim per partition sends
into the channel of torch signals, and a single goroutine, the webhook server,
reads both.  A sign-up stores a refresh token after its transaction; alerts need
a webhook and a plan of the account; access tokens name accounts by id and the path of a
request names a webhook by id, so that neither may come back: the AUTO_INCREMENT
of MySQL sees to that, and the models take it as given.  Answers that show an account take its role from the
slice of roles, which is right only over a database that was migrated whole.

What makes each part correct is stated as the properties of its module and
listed in section 4.

## 2. The modules

| Module | Models | State and actions against the code |
|---|---|---|
| `Accounts` | SignUp, CreateAccount, DeleteAccount(ByUsername) | `pc[r]` is the place of a request in SignUp and CreateAccount: `has`, `isTaken`, `add` are SignUp's look-ups, `recheck` … `commit` the calls of CreateAccount, `tokens`, `save`, `role` the rest of SignUp.  `tx[r]` holds what its transaction has inserted; `Commit` moves it into the tables, `Rollback` drops it.  `dpc[d]`, `target[d]` are a deletion.  Each action is one call of the code to the database or a cache, so that any other request may run between two of them. |
| `AccountRegistry` | what `logic/account` promises | a set of accounts, registered and removed whole |
| `Sessions` | SignIn, RefreshToken, SignOut, the token store, cookies | a request goes `get` → `set` → `del` → `reply`; `live`, `owner`, `until` are the entries; `jar`, `jarUntil` the cookies; `cacheType` the configured store |
| `Profiles` | UpdateProfileMe, UpdateProfilePassword, SignIn's check | `read` → `update` → `commit` → `role`, and `read` → `check` → `store`; `seen[r]` is the row merged into, `pending[r]` the UPDATE not yet committed |
| `Notifications` | the consumer, both channels, the webhook server, POST and DELETE of webhooks, start and stop | `kpc[p]` is the loop of ConsumeClaim (`receive`, `send`, `mark`), `wpc` that of the webhook server, `cpc[c]` a POST request; `marked`, `committed`, `session` are what sarama and the broker keep |
| `Alerts` | CreateStrategyAlert, DeleteStrategyAlert, GetRoleByAccountId, the configured quotas, webhooks as far as alerts need them | `pc[r]` walks through role, plan, count, webhook, create, created |
| `AlertOperands` | the conversions of operands, the compatibility rule, and one alert that is created, read and edited | `FromJSON`, `ToJSON`, `Compatible` are the Go functions; a number is read as the double `Decode` gives, if any, and written as `Encode` gives; `Create`, `Update`, `Get` the handlers |
| `Webhooks` | POST, GET, PUT and DELETE of `/profile/webhooks`, the paged list and a client that reads it page after page, the account id in the token | a request goes `insert` → `idle`, or `owner` → `update` or `delete` → `idle`; `account[r]` is what the middleware read from the token, `Claim` of the id that signed in; `walk`, `at`, `due` are the client |
| `Startup` | the migrations statement by statement, the start and the stop of the process, its being killed | `phase` is `down` → `migrate` → `serving` → `stopping` → `down`; `schema` is what was created, `applied` the recorded migrations, `step` the next statement |
| `Roles` (EXTENDS `Startup`) | GetRoleById and GetRoleByName | a look-up goes `check` → `look`, by way of `reset`, `query` and, for each row, `row` → `store` if the slice is nil; `cache`, `filled` are the slice, `seen[r]` the slice that append was given |
| `Accounts_proofs`, `Webhooks_proofs`, `Sessions_proofs`, `Profiles_proofs`, `Notifications_proofs`, `Alerts_proofs`, `AlertOperands_proofs`, `Roles_proofs` | – | theorems about the module each is named after; `Roles_proofs` about `Startup` too |
| `Floats` | what `encoding/json` does to a number that it decodes to a float64 | `Rounded(n, b)` is the nearest number with a mantissa of `b` bits; `Webhooks` uses it for the account id in the token, `MCAlertOperands` for constants |
| `MC…` | – | constants of the instances TLC checks |

A variable marked *history* in a module exists for a property only and no guard
reads it.  An operator under a comment `Fault:` is what the definition after it
would be with a plausible mistake in it.  No `Next` uses it: putting it in the
place of that definition shows that the property meant for that mistake fails
(`mutants` in `PROJECT.json` names the pairs).

What lies outside of the program is modelled from how the program uses it:

- MySQL: a transaction's rows are private until it commits; an INSERT or UPDATE
  waits for an uncommitted rival in a unique index and fails on a committed one;
  a foreign key refuses the DELETE of a row that is still referred to; a counter
  value that AUTO_INCREMENT gave out is not given out again.  Whatever waits may
  also fail (lock wait timeout, deadlock detection, broken connection).
- Kafka and sarama: marked offsets are committed now and then and when a session
  closes, claims start at the committed offset or, while there is none, at the
  newest one; `Consume` returns when every claim has returned.
- The strategy service: an alert is stored and counted per account; a call may
  take effect and its answer be lost.
- Redis drops an entry when its lifetime is over; the in-memory store takes a
  lifetime and ignores it.

## 3. What the code does that the models keep

- `IsUsernameTaken` is asked twice, both times outside of the transaction of
  CreateAccount (`Recheck`); only the unique index keeps names apart.
- The deferred `Rollback` runs on every early return (`Rollback`, `FailDelete`),
  and a failed COMMIT answers 400 although it may have been applied
  (`Commit`, second disjunct).
- Deleting an account deletes its password and its row, but not its row in
  `account_subscriptions`, which CreateAccount always inserts: the foreign key
  refuses the deletion of every account that signed up (`RefuseRow`).  Only an
  account from before that table can leave.
- Any call to the database, Redis or the strategy service may take effect and
  its answer be lost; the handler then answers 500 although the change stays
  (`Set`, `Del` of `Sessions`, `SaveRefreshToken`, `Store`, `CreateWebhook`,
  `AddWebhook`, `DropWebhook` and the commits).
- Rotation stores the new token before it deletes the old one and drops the
  error of the deletion (`DelFails`).
- The cookie always expires after `refreshTokenTTL`, the entry after
  `refreshTokenLongTTL` when isRememberMe was set (`Reply`, `Lifetime`).
- A signal that does not decode is passed over without being marked (`Receive`).
- The loops over the webhooks and over the roles do not look at `rows.Err`: when
  the connection breaks, the rows read so far pass for all (`List`, `ReadPage`,
  second disjuncts; `BreakOff`).  A page then comes with 200 and is short, an
  alert is refused with 422 for want of a webhook (`CheckWebhooks`).
- PUT and DELETE of a webhook compare the owner of the row in one statement and
  change the row by its id in another (`CheckOwner`; `Update`, `Delete`).
- The UPDATE of a webhook fails with 500 if it changes nothing, as a repeated PUT
  does; it takes blanks, which the INSERT refuses (`Update`, `Insert`).
- A role's id 0, that of "none", counts as a missing argument (`Findable`).
- The slice of roles is emptied before the query that fills it, and each row is
  appended to what the variable holds at that moment (`Reset`, `ReadRow`,
  `Store`).
- A CREATE TABLE commits and may be repeated, the INSERT of a role may not
  (`Execute`); a migration is recorded after its last statement (`Record`).
- The quota asks the service for one alert more than the limit (`CountAlerts`);
  a quota for plan "max" that is no number decodes to 0, which means no limit,
  but for no other plan; a negative quota is kept and refuses every request
  (`DecodedMax`, `Unlimited`).
- A constant operand is a float64 on its way: a number with more digits is
  rounded, and one out of range is refused (`FromJSON`).
- `UpdateAccount` treats zero changed rows as a failure (`Update`).
- SignUp without `phoneNumber` and SignIn without `isRememberMe` dereference a
  nil pointer and end in the recovery middleware (`IsUsernameTaken`,
  `SendSignIn`: status `"panic"`).

## 4. The runs

Bounds are in the `.cfg` files.  Deadlock is not checked anywhere: each instance
serves a fixed number of requests, signals or edits and then has really stopped;
that nothing stops before is what the liveness properties say.

| Run | Checks | Bounds |
|---|---|---|
| `accounts` | `EveryAccountWhole`, `KeysUnique`, `AnswerIsTrue`, `CachesHoldCommitted`, `SignedUpAccountsStay`, `ImplementsRegistry`, `EveryRequestEnds` | 2 sign-ups with any of 2 names and 2 emails, 1 deletion of any id or name, 1 older account, webhooks come and go |
| `notifications` | `CommitPassesNothing`, `QueuedIsAccountedFor`, `EveryWebhookTried` | 2 partitions with 2 and 1 signals, one undecodable, 2 webhooks that may be deleted, channel of 1, one crash, stop or failed commit, any number of rebalances |
| `notifications_created` | `CreatedIsAccountedFor`, `CreatorsAreAnswered` | 2 POSTs, 1 webhook, 1 signal, channels of 1, no faults |
| `notifications_live` | `OnceAndInOrder`, `SignalsAreHandled`, `SessionEnds` | 2 signals, 1 POST, 1 webhook, channels of 1, no faults, any number of rebalances |
| `sessions` | `RotationKeepsOneToken`, `FamilyKeepsItsAccount`, `TokensPerSignIn`, `CookieHasItsEntry`, `SignedOutTokenIsRefused`, `SignOutEndsSession` | 3 requests of any kind from 1 browser, 2 accounts, 3 tokens, 3 instants, lifetimes 1 and 2, both stores |
| `profiles` | `EmailsUnique`, `ChecksAreLinearizable`, `LostOnlyToOverlap`, `EveryRequestEnds` | 2 requests of any kind, 2 accounts, 2 full names, 3 emails, 1 phone number, 2 passwords |
| `alerts` | `OverrunOnlyByOverlap`, `AlertsAreEntitled` | 3 requests of any kind from 1 account, every role and plan, quotas 0, 1 and one that is no number, 0 or 1 webhook at first |
| `operands` | `ShownIsDocumented`, `ShownIsFaithful`, `AcceptedIsShownAgain` | every string of the API, one unknown one, null, and four numbers: two that are doubles, one that is rounded to the second of them, one out of range |
| `webhooks` | `DeletedOnce`, `WalkIsComplete`, `OwnersOnly` | 2 goroutines that serve any requests one after another, accounts 8 and 9 with a mantissa of 4 bits, 2 names and the blank, 2 ids, pages of 1 |
| `roles` | `ServesWholeSchema`, `StartsUnlessTorn`, `RefusedOnlyWhenDisturbed` | the real migrations, 2 goroutines that look up any role, 2 kills or stops |
| `profiles_merge`, `operands_sma` | one statement each that the code does not keep, see section 6 | |

`TypeOK` is checked in the runs `notifications`, `sessions`, `profiles` and
`alerts`.  For `Accounts`, `Webhooks`, `Roles` and `AlertOperands` it is only
proved.

Why the bounds are enough to mean something.  The races of sign-ups are between
two requests for one key, and a third can only repeat what the second does; the
deletion and the older account add the one way in which a row can leave.  Two
claims are needed for what claims share, which is the channel and the end of the
session.  A channel of one place is full as soon as one sender is ahead, which
100 places only put off.  Two signals of one partition are the least that can
change their order, two POSTs the least of which one can wait.  Three requests
are a sign-in and two overlapping refreshes, or a sign-in, a refresh and a
sign-out.  A quota of one is overrun by two requests; the third deletes; a quota of
0 is no limit for the plan max, where "no number" comes to it, and admits nothing
for the plan free.  For operands the strings are the real ones, and so are the
migrations; the four numbers are one of each kind that the conversion tells apart.

Two requests for one webhook are what it takes to come between its look-up and
the statement that uses it, and a goroutine that serves one request after
another brings any number of them.  With two ids the first can be deleted and
given out wrongly again, and a page of one webhook is followed by another.  A
mantissa of 4 bits holds 8 and 9 apart and one of 3 bits does not, as 53 bits
hold the real ids: the bound is where it would matter.  Two kills are one that
leaves a migration half done and one that falls into its repetition.  Two
look-ups meet at every row of the table; a third could only overlap with them.

Symmetry is used for the requests in `sessions`, `alerts` and `webhooks`, where
requests are interchangeable and no property is a liveness property.

## 5. Fairness

- `Accounts`, `Profiles`: weak fairness of each request's own next step.  Every
  request has a goroutine, and every statement returns.  Failures are not fair:
  the liveness properties do not lean on a lock wait timeout.
- `Notifications`: weak fairness of the claims, of the webhook server and of the
  two steps that open and close a session.  A send on a full channel is strongly
  fair because Go serves blocked senders in the order they came; so is the
  taking from either channel, because a select with two ready cases chooses at
  random.  A POST is assumed to return: `http.DefaultClient` has no timeout, so
  that this is in the hands of the endpoints.
- `Roles`: weak fairness of the process that starts or ends, and is started again.
  After a failure or a kill of the process docker does that (`restart: always` in
  `src/deployments/docker-compose.test.yml`); after a stop it does not, and that
  whoever stopped the server starts it again is an assumption.  Kills are at most `MaxFaults`; a process that is
  killed again and again never comes up.  Nothing is assumed of look-ups.
- `Sessions`, `Alerts`, `AlertOperands`, `Webhooks` have safety properties only,
  and no fairness.
- Nothing is assumed of clients, of rebalances or of crashes.

`SessionEnds` is checked without stops.  After a stop the webhook server leaves
at once while a claim that is sending to a full channel, outside its select,
stays: with `MaxFaults = 1` the property fails.  The process then exits anyhow
and the session with it, so that this is left as a remark.

## 6. What the code does not keep

- `profiles_merge`: `UpdateProfileMe` reads the row before the transaction that
  writes every field back.  Of two concurrent updates of different fields the
  later one restores the field it did not name, and both answer 200.
  `LostOnlyToOverlap` says that this is the only way to lose an update.
- `operands_sma`: `sma100` and `sma200` are documented and shown, but refused
  when sent; the code knows `ma100` and `ma200` instead.  A client that reads an
  alert and writes it back is refused.

Seen while modelling, without a run that would refute a statement; the properties
named say how far it goes:

- Alerts are counted in one call and created in another, so that two requests
  pass the count together (`OverrunOnlyByOverlap`).
- A message is marked when its signal is in the channel, so that a committed
  offset may pass signals that die with the process (`CommitPassesNothing`,
  `QueuedIsAccountedFor`).
- A start that is cut off between the first role and the record of the migration
  can never be repeated (`StartsUnlessTorn`).
- Look-ups that fill the slice of roles together may lose one for the rest of the
  process (`RefusedOnlyWhenDisturbed`).
- A client that pages through its webhooks misses one when one that it was shown
  is deleted meanwhile, or when a list breaks off (`WalkIsComplete`).
- A repeated PUT of a profile or a webhook is answered 500.
- A second operand that is missing from a body, or null, is accepted as the
  constant 0 (`FromJSON`), although `src/docs/openapi.yml` requires it.  As the
  first operand it is refused, because a constant is (`ShownIsDocumented`).
- A constant with more digits than a float64 holds is shown rounded, and one such
  as 1e400 is answered 400 (`AcceptedIsShownAgain`).
- The two nil pointers of section 3, although `src/docs/openapi.yml` makes
  `phoneNumber` and `isRememberMe` optional.
- Accounts that signed up cannot be deleted (`SignedUpAccountsStay`).

## 7. What is proved

### Accounts

`Accounts_proofs` proves, for any sets of requests, deletions, names, emails and
older accounts, from the two assumptions of `Accounts` (`FirstIdAssumption`: the
counter starts at a positive number; `LegacyAssumption`: the older accounts have
ids below it and distinct keys):

- `TypeCorrect`: `Spec => []TypeOK`, by one lemma for a request's steps
  (`SignUpType`), one for a deletion's (`DeletionType`) and one for the rest
  (`SurroundingsType`);
- `AccountsWhole`, `UniqueKeys`, `TrueAnswers`, `TrueCaches`: the safety
  invariants of the run `accounts`;
- `NoSignedUpAccountLeaves`: its action property;
- `Implementation`: `Accounts` implements `AccountRegistry` under the mapping
  `registered <- Registered`.

None of these is inductive.  The inductive invariant is

    IInv == TypeOK /\ RowsInv /\ RequestsInv /\ CacheInv /\ DeletionLocks

- `RowsInv` adds to wholeness and uniqueness that all ids lie below the counter
  (`IdsBelowCounter`), that no two requests were given one id (`IdsDistinct`) and
  that rows that left share no id with those that stay (`RetiredApart`): without
  them a new row could repeat an id;
- `RequestsInv` says what an open transaction holds at each place (`TxShape`):
  at its COMMIT the account, its password and its subscription, under an id that
  is nobody's; and that a request before its COMMIT has no row and one after it
  has its own (`OwnRow`), which makes the answers true;
- `CacheInv` is the statement about the two caches;
- `DeletionLocks` says what the row locks of an open deletion preserve: the
  password is there and, before its COMMIT, no child table refers to the row.

The proof has one lemma per kind of step (`OutsideTransaction`,
`InsertAccountStep`, `TransactionStep`, `CommitStep`, `OpenDeletion`,
`CommitDeleteStep`, `WebhookStep`, `CrashStep`) and one for each part of the
invariant that a step leaves alone.  For the action properties and the
refinement, `AccountsChange` shows that only `Commit` and `CommitDelete` change
the table, and `CommitAdds` what the first one adds.

### Webhooks

`Webhooks_proofs` proves, for any accounts and requests and any bounds, from the
assumptions of `Webhooks` (`AccountAssumption`: ids are positive and below
2^`Precision`; `ReaderAssumption`, `BodyAssumption`, `BoundAssumption`: the other
parameters make sense):

- `TypeCorrect`: `Spec => []TypeOK`;
- `OneDeletion`, `CompleteWalk`: the invariants `DeletedOnce` and
  `WalkIsComplete`;
- `ChangedByOwners`: the action property `OwnersOnly`.

It rests on `ClaimExact`: a number below 2^`Precision` comes back from the token
as it was.  The inductive invariant is

    IInv == TypeOK /\ RowsInv /\ (\A r \in Requests : RequestInv(r)) /\ DeletedInv

`RequestInv` is the heart of it: between the look-up and the statement, the row
with the id of the request either belongs to whoever signed in or is gone.  It
stays true because ids below the counter are not given out again (`RowsInv`);
even `TypeOK` needs it, since the owner of a new row is what the token says.

For `CompleteWalk` a second invariant stands on the first: as long as nothing
spoilt the walk, whatever the client has still to be shown is there, at a place
behind its offset (`WalkInv`).  The rank of a row is the place of its id
(`RankIsPlace`), and places are a bijection of the ids onto the numbers up to how
many there are (`PlacesTaken`); so a page that is not full is the last one
(`PageOfReader`).  A new webhook comes behind all others (`InsertWalk`), and one
that is deleted behind the offset leaves the rest behind it
(`PlaceAfterRemoval`).

### Start and roles

`Roles_proofs` proves, for any requests and any number of interrupted starts
(`FaultAssumption`: their bound is a number):

- `TypeCorrect`: `Spec => []TypeOK`;
- `WholeSchema`: the invariant `ServesWholeSchema`;
- `RefusalsExplained`: the action property `RefusedOnlyWhenDisturbed`: a role that
  exists is refused only after readings met or broke off, while another request is
  still reading, or when the request's own reading broke off.

The inductive invariant is

    IInv == TypeOK /\ StartInv /\ (\A r \in Requests : RequestInv(r))
            /\ (~damaged => ReadingInv)

- `StartInv`: a recorded migration is there as a whole, and of the one that runs
  the part before its next statement is; so a process that serves has it all;
- `RequestInv`: who looks without having been cut off looks into a filled slice;
- `ReadingInv`: as long as no readings met, one request at most reads, the slice
  holds the rows before its next one, and all of them when nobody reads.

### Sessions

`Sessions_proofs` proves, for any browsers, any requests (infinitely many
included) and any lifetimes and bounds, from `TimeAssumption`: the bounds and
lifetimes are numbers, the long lifetime is not the shorter one, and 0 is the id
of no account.  The lifetimes are 720 and 24 hours in `src/configs/local.yaml`;
nothing in the code compares them, and the other way round a cookie could outlive
its entry.  The theorems:

- `TypeCorrect`, `SafeRotation`, `OneAccountPerFamily`, `BoundedFamily`,
  `CookieIsWorthSomething`: the invariants of the run `sessions`;
- `SessionEnded`: the invariant `SignOutEndsSession`;
- `SignOutIsFinal`: its action property.

    IInv == TypeOK /\ RequestInv /\ TokenInv /\ CookieInv /\ RotationInv
            /\ SignedOutInv /\ CountInv

- `RequestInv` says what a request has at each place; `TokenInv` that a token
  without an entry has a reason to have none (`Accounted`), and that a family
  begins with a token of the same account;
- `CookieInv`: a cookie expires no later than the entry of its token;
- `RotationInv`: a refresh has its old token before it stored the new one, and
  the new one from then on, or else another request or time took it;
- `SignedOutInv`: a token that was signed out has no entry;
- `CountInv` is what makes `TokensPerSignIn` inductive.  A refresh that stores a
  token adds one to the family and to the right-hand side, but takes itself off
  the right-hand side when it deletes the old token, which may be gone by then.
  So the tokens are counted that have an entry *or* that a refresh has still to
  delete (`Counted`), and no two such refreshes rotate one token, or the later
  one is `doubled` and counts on the right.  `BoundKept`, `BoundAdd` and
  `BoundRemove` are the three ways in which the two sides change.  A sign-in that
  was ended has one token less to its name (`Allowed`): the sign-out deletes the
  token that counted for it, if no refresh is rotating that token (`BoundEnd`),
  and from then on each token left is one of a stray refresh.  This is what makes
  `SignOutEndsSession` hold for good: a refresh that read the token before it was
  deleted is one of those, and a later one finds nothing to read.

### Profiles

`Profiles_proofs` proves, for any accounts, requests, values and passwords, from
`ProfileAssumption` (there is an account; the rows at the start have distinct
emails; the other parameters make sense):

- `TypeCorrect`, `UniqueEmails`, `LinearizableChecks`: the invariants of the run
  `profiles`;
- `LossExplained`: its action property `LostOnlyToOverlap`.

    IInv == ShapeInv /\ KindInv /\ PendingInv /\ SeenInv /\ HeldInv

- `PendingInv` is the argument for the emails.  A request between its UPDATE and
  its COMMIT holds the merged row, whose email no row of another account has and
  no other such request holds: the UPDATE looked at the index and waited for the
  locks of the others (`Blocking`), and while it holds its own nobody gets there;
- `SeenInv`: what a request read is still so, except for the fields that others
  committed since;
- `HeldInv`: the present password is among those held while the request runs.

### Notifications

`Notifications_proofs` proves, for any partitions, signals, webhooks and POSTs,
any capacities of the channels and any number of crashes and rebalances, from
`CapacityAssumption` (both capacities are positive), `BoundAssumption` and
`InputAssumption` (the parameters have their types, and a new webhook gets a new
id):

- `TypeCorrect`, `NothingPassedOver`, `HandedOnOnce`, `SignalsAccountedFor`,
  `AllWebhooksTried`, `CreatedAccountedFor`: all invariants of the three runs.

    IInv == TypeOK /\ OffsetInv /\ OrderInv /\ ServerInv /\ TorchInv
            /\ TriedInv /\ CreatedInv

- `OffsetInv`: whatever was marked or committed, and whatever the loop of a claim
  has behind it, was queued, is undecodable, or came while the group had no committed offset yet:
  every session that opens without one starts behind it (`Passed`);
- `OrderInv`: until something fails, a signal that was queued is marked or about
  to be, so that a session that begins at the committed offset begins behind all
  that was queued;
- `TorchInv`, `CreatedInv`: no channel holds anything twice, and what was sent
  is in one place; `ServerInv` and `TriedInv` say what the webhook server has in
  hand while it handles it.

`Sending`, `Receiving` and `EmptyChannel` are the lemmas on channels: what a send
adds to the set a channel holds and what a receive takes away, and that it holds
nothing twice.  There is one lemma per action.

### Alerts

`Alerts_proofs` proves, for any accounts and quotas and any requests (infinitely
many included), from `QuotaAssumption` (the quotas of the plans free and pro are
integers, that of plan max may be anything, and none is so large that the limit
`uint32(quota) + 1` wraps around):

- `TypeCorrect`, `BoundedOverrun`, `EntitledAlerts`: the invariants of the run
  `alerts`.

    IInv == TypeOK /\ EntitlementInv /\ QuotaInv

`QuotaInv` says that a request which has counted, and since whose count no alert
was created, still has room for one more (`Room`): an alert that is deleted only
makes more of it, and an alert that is created makes all the others stale.
A negative quota admits as much as 0
(`Allowance`).  `EntitlementInv` keeps what the checks found out.

### Alert operands

`AlertOperands_proofs` proves, for any numbers and strings that clients send, from
`DoubleAssumption` (0 is a double; a number is read as one double or none; a
double is written as a number that is read as itself again):

- `TypeCorrect`, `DocumentedAlerts`, `FaithfulAlerts`: the first two invariants of
  the run `operands`;
- `RoundTrip`: its third.  A documented pair that was accepted is shown again: a
  string as it was sent, a number as one that reads as the same double, and as it
  was sent if a double is written that way;
- `RefusedDocumented`: a documented pair is refused exactly if it names `sma100`
  or `sma200` or has a number out of the range of a double.  The run
  `operands_sma` finds a pair of the first sort; this says that there are no
  others.

The lemmas are about the functions: `ToJSONInjective`, `FromJSONOperand` (at most
one operand, and a documented one is shown again, `ShownAs`) and
`CompatibleIsDocumented` (the rule in the code is the documented one).

### What is only model-checked

Liveness: `EveryRequestEnds` of `Accounts` and of `Profiles`,
`CreatorsAreAnswered`, `SignalsAreHandled`, `SessionEnds` and `StartsUnlessTorn`.
Weak and strong fairness speak of ENABLED, which the prover does not handle.  The
two statements of section 6 that the code does not keep are refuted by TLC.

Every inductive invariant was checked by TLC, on the instance of its run or one
like it, before it was proved.  The bounds of section 4 (`MaxId`, `MaxTokens`, `MaxTime`,
`MaxOffset`, `MaxFaults`, `MaxWebhooks`) are parameters of the theorems, which
hold for any value of them.

## 8. What is not modelled, and the plan

Not modelled: GetProfileMe and the read-only handlers of alerts, which only show
what is there; `GetAccountAll`, `GetAccountList` and `Migrator.Down`, which
nothing calls; the formatting of answers; hashing and signing (libraries);
routing, CORS, configuration and logging; the message queue clients that nothing
uses; generated code.  The strategy service and the producers of topic `torch`
are other programs.

Done: all modules of section 2 with their runs, and the proofs of section 7.

Next, in this order:

1. An abstract specification of `Notifications` (each signal handed on at most
   once until something fails, in order) and one of `Sessions` (families of
   tokens that are opened, kept alive and closed), with refinements, checked
   first and then proved.
2. Lemmas towards liveness that need no fairness: in every state of
   `Notifications` before a stop, some claim, the server or the session has a
   next step; the same for the lock waits of `Profiles` and `Accounts`.
3. One table of webhooks for `Webhooks`, `Alerts` and `Notifications`, each of
   which keeps its own view of it now.
