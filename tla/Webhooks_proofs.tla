---------------------------- MODULE Webhooks_proofs ----------------------------
(***************************************************************************)
(* Theorems about Webhooks, for any accounts, requests and names, and any  *)
(* precision of the access token that its assumption allows.               *)
(***************************************************************************)
EXTENDS Webhooks, FiniteSetTheorems, TLAPS

\* The claim of an access token is exact as long as the mantissa holds the id:
\* 2^53 accounts.
LEMMA ClaimExact ==
  ASSUME NEW n \in Nat, n < 2 ^ Precision
  PROVE  Claim(n) = n
<1> DEFINE Fits(k) == n < 2 ^ (Precision + k) /\ \A j \in 0 .. k - 1 : n >= 2 ^ (Precision + j)
<1>1. Precision \in Nat BY AccountAssumption
<1>2. Precision + 0 = Precision BY <1>1
<1>3. Fits(0)
  <2>1. n < 2 ^ (Precision + 0) BY <1>2
  <2>2. 0 .. 0 - 1 = {} OBVIOUS
  <2>3. QED BY <2>1, <2>2
<1>4. ASSUME NEW k \in 0 .. n, Fits(k) PROVE k = 0
  <2>1. SUFFICES ASSUME k # 0 PROVE FALSE OBVIOUS
  <2>2. 0 \in 0 .. k - 1 BY <2>1
  <2>3. n >= 2 ^ (Precision + 0) BY <1>4, <2>2
  <2>4. n >= 2 ^ Precision BY <2>3, <1>2
  <2>5. 2 ^ Precision \in Int BY <1>1
  <2>6. QED BY <2>4, <2>5
<1>5. (CHOOSE k \in 0 .. n : Fits(k)) = 0
  <2> HIDE DEF Fits
  <2>1. 0 \in 0 .. n OBVIOUS
  <2>2. QED BY <1>3, <1>4, <2>1
<1>6. Ulp(n, Precision) = 2 ^ 0 BY <1>5 DEF Ulp
<1>7. 2 ^ 0 = 1 OBVIOUS
<1>8. Ulp(n, Precision) = 1 BY <1>6, <1>7
<1>9. /\ n \div 1 = n /\ n % 1 = 0 OBVIOUS
<1>10. QED BY <1>8, <1>9 DEF Claim, Rounded

LEMMA ClaimOfAccount ==
  ASSUME NEW a \in Accounts
  PROVE  Claim(a) = a
BY ClaimExact, AccountAssumption
-----------------------------------------------------------------------------
(* The inductive invariant *)

\* No two rows share an id, and the counter is above all of them.
RowsInv ==
    /\ \A v, w \in rows : v.id = w.id => v = w
    /\ \A w \in rows : w.id < nextId

\* What a request that goes on to change a webhook has found out stays true: the
\* row with its id, if there is still one, belongs to the account signed in.
RequestInv(r) ==
    /\ pc[r] # "idle" => account[r] = form[r].signedIn
    /\ pc[r] \in {"update", "delete"} =>
         /\ form[r].id < nextId
         /\ \A w \in rows : w.id = form[r].id => w.owner = form[r].signedIn

\* What was deleted once is below the counter, and gone.
DeletedInv ==
    \A w \in Ids : /\ deleted[w] <= 1
                   /\ deleted[w] = 1 => w < nextId /\ \A row \in rows : row.id # w

IInv == TypeOK /\ RowsInv /\ (\A r \in Requests : RequestInv(r)) /\ DeletedInv

\* What a form says.
LEMMA FormFields ==
  ASSUME NEW f \in Form
  PROVE  /\ f.signedIn \in Accounts /\ f.id \in Ids /\ f.name \in Names
         /\ f.kind \in {"get", "put", "delete", "post"}
BY BodyAssumption, BoundAssumption DEF Form, Ids

LEMMA NoFormIsForm == NoForm \in Form
BY ReaderAssumption, BoundAssumption DEF NoForm, Form, Ids

\* Any set of rows can be counted: their ids are bounded, and no two have the
\* same.
LEMMA RowsFinite ==
  ASSUME TypeOK, RowsInv, NEW S \in SUBSET rows
  PROVE  IsFiniteSet(S) /\ Cardinality(S) \in Nat
<1> DEFINE f == [row \in S |-> row.id]
<1>1. f \in Injection(S, 1 .. MaxId)
  BY DEF TypeOK, RowsInv, Row, Ids, Injection, IsInjective
<1>2. IsFiniteSet(1 .. MaxId) BY FS_Interval, BoundAssumption
<1>3. IsFiniteSet(S) BY <1>1, <1>2, FS_Injection
<1>4. QED BY <1>3, FS_CardinalityType

LEMMA InitIInv == Init => IInv
<1> SUFFICES ASSUME Init PROVE IInv OBVIOUS
<1>1. TypeOK
  <2>1. nextId \in 1 .. MaxId + 1 BY BoundAssumption DEF Init
  <2>2. form \in [Requests -> Form] BY NoFormIsForm DEF Init
  <2>3. QED BY <2>1, <2>2 DEF Init, TypeOK
<1>2. RowsInv /\ (\A r \in Requests : RequestInv(r)) /\ DeletedInv
  BY DEF Init, RowsInv, RequestInv, DeletedInv
<1>3. QED BY <1>1, <1>2 DEF IInv

\* An answer forgets the request and keeps the others.
LEMMA AnswerKeeps ==
  ASSUME IInv, NEW r \in Requests, Answer(r)
  PROVE  /\ pc' \in [Requests -> {"idle", "owner", "insert", "update", "delete"}]
         /\ form' \in [Requests -> Form]
         /\ account' \in [Requests -> Nat]
         /\ pc'[r] = "idle"
         /\ \A q \in Requests \ {r} :
              pc'[q] = pc[q] /\ form'[q] = form[q] /\ account'[q] = account[q]
BY NoFormIsForm DEF IInv, TypeOK, Answer

\* A step that leaves the rows alone and answers, or goes on looking.
LEMMA ReceiveStep ==
  ASSUME IInv, NEW r \in Requests, Receive(r)
  PROVE  IInv'
<1> USE DEF IInv, Receive
<1>1. PICK f \in Form :
        /\ form' = [form EXCEPT ![r] = f]
        /\ account' = [account EXCEPT ![r] = Claim(f.signedIn)]
        /\ pc' = [pc EXCEPT ![r] = IF f.kind = "post" THEN "insert" ELSE "owner"]
  OBVIOUS
<1>2. Claim(f.signedIn) = f.signedIn /\ f.signedIn \in Nat
  BY FormFields, ClaimOfAccount, AccountAssumption
<1>3. TypeOK' BY <1>1, <1>2 DEF TypeOK, client
<1>4. RowsInv' /\ DeletedInv' BY DEF RowsInv, DeletedInv
<1>5. ASSUME NEW q \in Requests PROVE RequestInv(q)'
  <2>1. CASE q = r BY <1>1, <1>2, <2>1 DEF RequestInv, TypeOK
  <2>2. CASE q # r BY <1>1, <2>2 DEF RequestInv, TypeOK
  <2>3. QED BY <2>1, <2>2
<1>6. QED BY <1>3, <1>4, <1>5

LEMMA AbandonStep ==
  ASSUME IInv, NEW r \in Requests, Abandon(r)
  PROVE  IInv'
<1> USE DEF IInv, Abandon
<1>1. TypeOK' BY AnswerKeeps DEF TypeOK, client
<1>2. RowsInv' /\ DeletedInv' BY DEF RowsInv, DeletedInv
<1>3. \A q \in Requests : RequestInv(q)' BY AnswerKeeps DEF RequestInv
<1>4. QED BY <1>1, <1>2, <1>3

LEMMA InsertStep ==
  ASSUME IInv, NEW r \in Requests, Insert(r)
  PROVE  IInv'
<1> USE DEF IInv
<1>1. Answer(r) /\ pc[r] = "insert" /\ UNCHANGED <<client, deleted>> BY DEF Insert
<1>2. account[r] \in Accounts /\ form[r].name \in Names
  BY <1>1, FormFields DEF RequestInv, TypeOK
<1>3. CASE UNCHANGED <<rows, nextId>>
  <2>1. TypeOK' BY <1>1, <1>3, AnswerKeeps DEF TypeOK, client
  <2>2. RowsInv' /\ DeletedInv' BY <1>1, <1>3 DEF RowsInv, DeletedInv
  <2>3. \A q \in Requests : RequestInv(q)' BY <1>3, <1>1, AnswerKeeps DEF RequestInv
  <2>4. QED BY <2>1, <2>2, <2>3
<1>4. CASE nextId <= MaxId /\ nextId' = nextId + 1 /\ rows' \in {rows, rows \cup {Inserted(r)}}
  <2>1. Inserted(r) \in Row /\ Inserted(r).id = nextId /\ nextId \in Nat
    BY <1>2, <1>4, BoundAssumption DEF Inserted, Row, Ids, TypeOK
  <2>2. TypeOK' BY <1>1, <1>4, <2>1, AnswerKeeps, BoundAssumption DEF TypeOK, client
  <2>3. RowsInv' BY <1>4, <2>1 DEF RowsInv, TypeOK, Row, Ids
  <2>4. DeletedInv' BY <1>1, <1>4, <2>1 DEF DeletedInv, TypeOK, Row, Ids
  <2>5. ASSUME NEW q \in Requests PROVE RequestInv(q)'
    <3>1. CASE q = r BY <1>1, <3>1, AnswerKeeps DEF RequestInv
    <3>2. CASE q # r
      <4>1. form[q].id \in Ids BY FormFields DEF TypeOK
      <4>2. QED BY <1>1, <1>4, <2>1, <3>2, <4>1, AnswerKeeps DEF RequestInv, Ids
    <3>3. QED BY <3>1, <3>2
  <2>6. QED BY <2>2, <2>3, <2>4, <2>5
<1>5. QED BY <1>3, <1>4 DEF Insert

LEMMA CheckOwnerStep ==
  ASSUME IInv, NEW r \in Requests, CheckOwner(r)
  PROVE  IInv'
<1> USE DEF IInv
<1>1. UNCHANGED <<rows, nextId, client, deleted>> BY DEF CheckOwner
<1>2. CASE Answer(r)
  <2>1. TypeOK' BY <1>1, <1>2, AnswerKeeps DEF TypeOK, client
  <2>2. \A q \in Requests : RequestInv(q)' BY <1>1, <1>2, AnswerKeeps DEF RequestInv
  <2>3. QED BY <1>1, <2>1, <2>2 DEF RowsInv, DeletedInv
<1>3. CASE /\ \E row \in Found(form[r].id) : row.owner = account[r]
           /\ Goto(r, IF form[r].kind = "put" THEN "update" ELSE "delete")
           /\ pc[r] = "owner"
  <2>1. form[r].id < nextId /\ \A w \in rows : w.id = form[r].id => w.owner = form[r].signedIn
    BY <1>3 DEF Found, RowsInv, RequestInv
  <2>2. TypeOK' BY <1>1, <1>3 DEF TypeOK, Goto, client
  <2>3. ASSUME NEW q \in Requests PROVE RequestInv(q)'
    <3>1. CASE q = r BY <1>1, <1>3, <2>1, <3>1 DEF RequestInv, Goto, TypeOK
    <3>2. CASE q # r BY <1>1, <1>3, <3>2 DEF RequestInv, Goto, TypeOK
    <3>3. QED BY <3>1, <3>2
  <2>4. QED BY <1>1, <2>2, <2>3 DEF RowsInv, DeletedInv
<1>4. QED BY <1>2, <1>3 DEF CheckOwner

\* A statement may rename rows and drop some: that breaks nothing.
LEMMA RowsShrink ==
  ASSUME IInv, NEW r \in Requests, Answer(r), UNCHANGED <<nextId, at, walk>>,
         rows' \subseteq Row, due' \subseteq due, spoilt' \in BOOLEAN,
         \A w \in rows' : \E v \in rows : v.id = w.id /\ v.owner = w.owner,
         \A v, w \in rows' : v.id = w.id => v = w,
         DeletedInv', deleted' \in [Ids -> Nat]
  PROVE  IInv'
<1> USE DEF IInv
<1>1. TypeOK' BY AnswerKeeps DEF TypeOK
<1>2. RowsInv' BY DEF RowsInv
<1>3. ASSUME NEW q \in Requests PROVE RequestInv(q)'
  <2>1. CASE q = r BY <2>1, AnswerKeeps DEF RequestInv
  <2>2. CASE q # r BY <2>2, AnswerKeeps DEF RequestInv
  <2>3. QED BY <2>1, <2>2
<1>4. QED BY <1>1, <1>2, <1>3

LEMMA UpdateStep ==
  ASSUME IInv, NEW r \in Requests, Update(r)
  PROVE  IInv'
<1>1. /\ rows' = {Renamed(row, r) : row \in rows} /\ Answer(r)
      /\ UNCHANGED <<nextId, client, deleted>>
  BY DEF Update
<1>2. form[r].name \in Names BY FormFields DEF IInv, TypeOK
<1>3. \A row \in rows : /\ Renamed(row, r) \in Row
                        /\ Renamed(row, r).id = row.id /\ Renamed(row, r).owner = row.owner
  BY <1>2 DEF Renamed, IInv, TypeOK, Row
<1>4. rows' \subseteq Row BY <1>1, <1>3
<1>5. \A w \in rows' : \E v \in rows : v.id = w.id /\ v.owner = w.owner BY <1>1, <1>3
<1>6. \A v, w \in rows' : v.id = w.id => v = w BY <1>1, <1>3 DEF IInv, RowsInv
<1>7. DeletedInv' BY <1>1, <1>5 DEF IInv, DeletedInv
<1>8. QED BY <1>1, <1>4, <1>5, <1>6, <1>7, RowsShrink DEF client, IInv, TypeOK

LEMMA DeleteStep ==
  ASSUME IInv, NEW r \in Requests, Delete(r)
  PROVE  IInv'
<1> DEFINE gone == Found(form[r].id)
<1>1. /\ pc[r] = "delete"
      /\ rows' = rows \ gone
      /\ deleted' \in {deleted, IF gone = {} THEN deleted
                                ELSE [deleted EXCEPT ![form[r].id] = @ + 1]}
      /\ due' \subseteq due /\ spoilt' \in BOOLEAN
      /\ Answer(r) /\ UNCHANGED <<nextId, at, walk>>
  BY DEF Delete, IInv, TypeOK, Found
<1>2. form[r].id \in Ids BY FormFields DEF IInv, TypeOK
<1>3. rows' \subseteq rows /\ \A w \in rows' : w.id # form[r].id BY <1>1 DEF Found
<1>4. form[r].id < nextId BY <1>1 DEF IInv, RequestInv
<1>5. DeletedInv' /\ deleted' \in [Ids -> Nat]
  <2>1. CASE deleted' = deleted BY <1>1, <1>3, <2>1 DEF IInv, DeletedInv, TypeOK
  <2>2. CASE gone # {} /\ deleted' = [deleted EXCEPT ![form[r].id] = @ + 1]
    <3>1. deleted[form[r].id] # 1 BY <1>2, <2>2 DEF IInv, DeletedInv, Found
    <3>2. deleted[form[r].id] = 0 BY <1>2, <3>1 DEF IInv, DeletedInv, TypeOK
    <3>3. deleted'[form[r].id] = 1 /\ \A w \in Ids \ {form[r].id} : deleted'[w] = deleted[w]
      BY <1>2, <2>2, <3>2 DEF IInv, TypeOK
    <3>4. DeletedInv' BY <1>1, <1>3, <1>4, <3>3 DEF IInv, DeletedInv
    <3>5. QED BY <1>2, <2>2, <3>4 DEF IInv, TypeOK
  <2>3. QED BY <1>1, <2>1, <2>2
<1>6. QED BY <1>1, <1>3, <1>5, RowsShrink DEF IInv, TypeOK, RowsInv

\* The client of Reader changes nothing but its own variables.
LEMMA ReaderStep ==
  ASSUME IInv, StartReading \/ ReadPage \/ StopReading
  PROVE  IInv'
<1> USE DEF IInv
<1>1. UNCHANGED <<rows, nextId, pc, form, account, deleted>>
  BY DEF StartReading, ReadPage, StopReading
<1>2. at' \in Nat /\ due' \subseteq Ids /\ walk' \in {"none", "reading", "read"} /\ spoilt' \in BOOLEAN
  <2>1. CASE StartReading
    <3>1. IdsOf(Own(Reader)) \subseteq Ids BY DEF IdsOf, Own, TypeOK, Row
    <3>2. QED BY <2>1, <3>1 DEF StartReading
  <2>2. CASE ReadPage
    <3>1. \E page \in SUBSET rows : Show(page) /\ (spoilt' = spoilt \/ spoilt' = TRUE)
      BY <2>2 DEF ReadPage, Page, Own
    <3>2. PICK page \in SUBSET rows : Show(page) /\ (spoilt' = spoilt \/ spoilt' = TRUE)
      BY <3>1
    <3>3. Cardinality(page) \in Nat BY RowsFinite
    <3>4. at' \in Nat BY <3>2, <3>3 DEF Show, TypeOK
    <3>5. due' \subseteq Ids BY <3>2 DEF Show, TypeOK
    <3>6. walk' \in {"none", "reading", "read"} BY <3>2 DEF Show
    <3>7. spoilt' \in BOOLEAN BY <3>2 DEF TypeOK
    <3>8. QED BY <3>4, <3>5, <3>6, <3>7
  <2>3. CASE StopReading BY <2>3 DEF StopReading
  <2>4. QED BY <2>1, <2>2, <2>3
<1>3. TypeOK' BY <1>1, <1>2 DEF TypeOK
<1>4. RowsInv' /\ DeletedInv' /\ \A r \in Requests : RequestInv(r)'
  BY <1>1 DEF RowsInv, DeletedInv, RequestInv
<1>5. QED BY <1>3, <1>4

LEMMA NextIInv == IInv /\ [Next]_vars => IInv'
<1> SUFFICES ASSUME IInv, [Next]_vars PROVE IInv' OBVIOUS
<1>1. ASSUME NEW r \in Requests,
             Receive(r) \/ Insert(r) \/ CheckOwner(r) \/ Update(r) \/ Delete(r) \/ Abandon(r)
      PROVE  IInv'
  BY <1>1, ReceiveStep, InsertStep, CheckOwnerStep, UpdateStep, DeleteStep, AbandonStep
<1>2. CASE StartReading \/ ReadPage \/ StopReading BY <1>2, ReaderStep
<1>3. CASE UNCHANGED vars
  BY <1>3 DEF vars, client, IInv, TypeOK, RowsInv, RequestInv, DeletedInv
<1>4. QED BY <1>1, <1>2, <1>3 DEF Next

-----------------------------------------------------------------------------
(* The client that reads page after page *)

\* The place of an id w in a set of ids in ascending order.
UpTo(S, w) == {i \in S : i <= w}
Place(S, w) == Cardinality(UpTo(S, w))

ReaderIds == IdsOf(Own(Reader))

\* As long as nothing spoilt it, what the client has still to be shown is there
\* and lies behind its offset; when it is done, nothing is left.
WalkInv ==
    /\ walk = "reading" /\ ~spoilt => \A w \in due : w \in ReaderIds /\ at < Place(ReaderIds, w)
    /\ walk = "read" /\ ~spoilt => due = {}

LEMMA IdsFinite ==
  ASSUME NEW S \in SUBSET Ids
  PROVE  IsFiniteSet(S) /\ Cardinality(S) \in Nat
<1>1. IsFiniteSet(Ids) BY FS_Interval, BoundAssumption DEF Ids
<1>2. IsFiniteSet(S) BY <1>1, FS_Subset
<1>3. QED BY <1>2, FS_CardinalityType

LEMMA PlaceBounds ==
  ASSUME NEW S \in SUBSET Ids, NEW w \in Ids
  PROVE  /\ Place(S, w) \in Nat
         /\ Place(S, w) <= Cardinality(S)
         /\ w \in S => 0 < Place(S, w)
<1>1. UpTo(S, w) \in SUBSET S BY DEF UpTo
<1>2. Place(S, w) \in Nat /\ Place(S, w) <= Cardinality(S)
  BY <1>1, IdsFinite, FS_Subset DEF Place
<1>3. ASSUME w \in S PROVE Place(S, w) # 0
  <2>1. w \in UpTo(S, w) BY <1>3 DEF UpTo, Ids
  <2>2. IsFiniteSet(UpTo(S, w)) BY <1>1, IdsFinite
  <2>3. QED BY <2>1, <2>2, FS_EmptySet DEF Place
<1>4. QED BY <1>2, <1>3

\* A greater id has a later place.
LEMMA PlaceGrows ==
  ASSUME NEW S \in SUBSET Ids, NEW v \in S, NEW w \in S, v < w
  PROVE  Place(S, v) < Place(S, w)
<1>1. UpTo(S, v) \cup {w} \in SUBSET UpTo(S, w)
  <2>1. \A i \in S : i \in Int BY DEF Ids
  <2>2. UpTo(S, v) \cup {w} \subseteq UpTo(S, w) BY <2>1 DEF UpTo
  <2>3. QED BY <2>2
<1>2. w \notin UpTo(S, v) BY DEF UpTo, Ids
<1>3. IsFiniteSet(UpTo(S, v)) /\ IsFiniteSet(UpTo(S, w)) BY IdsFinite DEF UpTo
<1>4. Cardinality(UpTo(S, v) \cup {w}) = Cardinality(UpTo(S, v)) + 1
  BY <1>2, <1>3, FS_AddElement
<1>5. Cardinality(UpTo(S, v) \cup {w}) <= Cardinality(UpTo(S, w)) BY <1>1, <1>3, FS_Subset
<1>6. Place(S, v) \in Nat /\ Place(S, w) \in Nat BY PlaceBounds
<1>7. QED BY <1>4, <1>5, <1>6 DEF Place

\* Each place is taken once, and from the first to the last all are taken.
LEMMA PlacesTaken ==
  ASSUME NEW S \in SUBSET Ids
  PROVE  /\ \A v, w \in S : Place(S, v) = Place(S, w) => v = w
         /\ \A n \in 1 .. Cardinality(S) : \E w \in S : Place(S, w) = n
<1> DEFINE N == Cardinality(S)
           place == [w \in S |-> Place(S, w)]
<1>1. N \in Nat /\ IsFiniteSet(S) BY IdsFinite
<1>2. \A w \in S : Place(S, w) \in 1 .. N BY <1>1, PlaceBounds
<1>3. ASSUME NEW v \in S, NEW w \in S, Place(S, v) = Place(S, w)
      PROVE  v = w
  <2>1. ~(v < w) /\ ~(w < v) BY <1>2, <1>3, PlaceGrows
  <2>2. QED BY <2>1 DEF Ids
<1>4. place \in Injection(S, 1 .. N) BY <1>2, <1>3 DEF Injection, IsInjective
<1>5. IsFiniteSet(1 .. N) /\ Cardinality(1 .. N) = N BY <1>1, FS_Interval
<1>6. place \in Surjection(S, 1 .. N)
  <2> HIDE DEF place
  <2>1. QED BY <1>4, <1>5, FS_Injection
<1>7. \A n \in 1 .. N : \E w \in S : place[w] = n BY <1>6 DEF Surjection
<1>8. QED BY <1>3, <1>7

\* An id is known by its row: counting ids is counting rows.
LEMMA IdsCount ==
  ASSUME TypeOK, RowsInv, NEW S \in SUBSET rows
  PROVE  IdsOf(S) \in SUBSET Ids /\ Cardinality(IdsOf(S)) = Cardinality(S)
<1> DEFINE f == [row \in S |-> row.id]
<1>1. f \in Bijection(S, IdsOf(S))
  BY DEF Bijection, Injection, IsInjective, Surjection, IdsOf, RowsInv
<1>2. ExistsBijection(S, IdsOf(S))
  <2> HIDE DEF f
  <2>1. QED BY <1>1 DEF ExistsBijection
<1>3. IsFiniteSet(S) BY RowsFinite
<1>4. IdsOf(S) \in SUBSET Ids BY DEF IdsOf, TypeOK, Row
<1>5. QED BY <1>2, <1>3, <1>4, FS_Bijection

\* The rank of a row is the place of its id.
LEMMA RankIsPlace ==
  ASSUME TypeOK, RowsInv, NEW row \in rows
  PROVE  Rank(row) = Place(IdsOf(Own(row.owner)), row.id)
<1> DEFINE S == {v \in Own(row.owner) : v.id <= row.id}
<1>1. S \in SUBSET rows BY DEF Own
<1>2. IdsOf(S) = UpTo(IdsOf(Own(row.owner)), row.id) BY DEF IdsOf, UpTo
<1>3. QED BY <1>1, <1>2, IdsCount DEF Rank, Place

\* Removing an id that lies behind the offset leaves the others behind it.
LEMMA PlaceAfterRemoval ==
  ASSUME NEW S \in SUBSET Ids, NEW g \in S, NEW w \in S \ {g}, NEW n \in Nat,
         n < Place(S, g), n < Place(S, w)
  PROVE  n < Place(S \ {g}, w)
<1>1. UpTo(S \ {g}, w) = UpTo(S, w) \ {g} BY DEF UpTo
<1>2. IsFiniteSet(UpTo(S, w)) BY IdsFinite DEF UpTo
<1>3. Place(S, g) \in Nat /\ Place(S, w) \in Nat BY PlaceBounds
<1>4. CASE g < w
  <2>1. g \in UpTo(S, w) BY <1>4 DEF UpTo, Ids
  <2>2. Cardinality(UpTo(S, w) \ {g}) = Cardinality(UpTo(S, w)) - 1
    BY <1>2, <2>1, FS_RemoveElement
  <2>3. Place(S, g) < Place(S, w) BY <1>4, PlaceGrows
  <2>4. Place(S \ {g}, w) = Place(S, w) - 1 BY <1>1, <2>2 DEF Place
  <2>5. QED BY <1>3, <2>3, <2>4
<1>5. CASE w < g
  <2>1. g \notin UpTo(S, w) BY <1>5 DEF UpTo, Ids
  <2>2. QED BY <1>1, <2>1 DEF Place
<1>6. QED BY <1>4, <1>5 DEF Ids

\* A page holds the ids at the places behind the offset; it is as long as its
\* limit unless there are no more.
LEMMA PageOfReader ==
  ASSUME IInv, NEW page, page = Page(Claim(Reader), PageSize, at)
  PROVE  /\ page \in SUBSET rows
         /\ IdsOf(page) = {w \in ReaderIds : /\ at < Place(ReaderIds, w)
                                             /\ Place(ReaderIds, w) <= at + PageSize}
         /\ Cardinality(page) \in Nat /\ Cardinality(page) <= PageSize
         /\ Cardinality(page) < PageSize => Cardinality(ReaderIds) < at + PageSize
<1> DEFINE S == ReaderIds
           P == {w \in S : at < Place(S, w) /\ Place(S, w) <= at + PageSize}
           places == at + 1 .. at + PageSize
<1>1. /\ TypeOK /\ RowsInv /\ at \in Nat /\ PageSize \in Nat \ {0} /\ Reader \in Accounts
  BY ReaderAssumption DEF IInv, TypeOK
<1>2. page = {row \in Own(Reader) : at < Rank(row) /\ Rank(row) <= at + PageSize}
  BY <1>1, ClaimOfAccount DEF Page
<1>3. Own(Reader) \in SUBSET rows /\ \A row \in Own(Reader) : row.owner = Reader BY DEF Own
<1>4. page \in SUBSET rows BY <1>2, <1>3
<1>5. \A row \in Own(Reader) : Rank(row) = Place(S, row.id)
  BY <1>1, <1>3, RankIsPlace DEF ReaderIds
<1>6. IdsOf(page) = P
  <2>1. \A w \in P : \E row \in page : row.id = w
    <3>1. SUFFICES ASSUME NEW w \in P PROVE \E row \in page : row.id = w OBVIOUS
    <3>2. PICK row \in Own(Reader) : row.id = w BY <3>1 DEF ReaderIds, IdsOf
    <3>3. Rank(row) = Place(S, w) BY <1>5, <3>2
    <3>4. row \in page BY <1>2, <3>1, <3>2, <3>3
    <3>5. QED BY <3>2, <3>4
  <2>2. \A row \in page : row.id \in P
    <3>1. SUFFICES ASSUME NEW row \in page PROVE row.id \in P OBVIOUS
    <3>2. row \in Own(Reader) /\ at < Rank(row) /\ Rank(row) <= at + PageSize BY <1>2
    <3>3. row.id \in S /\ Rank(row) = Place(S, row.id) BY <1>5, <3>2 DEF ReaderIds, IdsOf
    <3>4. QED BY <3>2, <3>3
  <2> HIDE DEF P
  <2>3. QED BY <2>1, <2>2 DEF IdsOf
<1>7. S \in SUBSET Ids BY <1>1, <1>3, IdsCount DEF ReaderIds
<1>8. Cardinality(P) = Cardinality(page) BY <1>1, <1>4, <1>6, IdsCount
<1>9. IsFiniteSet(P) /\ Cardinality(P) \in Nat /\ Cardinality(S) \in Nat BY <1>7, IdsFinite
<1>10. IsFiniteSet(places) /\ Cardinality(places) = PageSize BY <1>1, FS_Interval
<1>11. \A w \in S : Place(S, w) \in Nat BY <1>7, PlaceBounds
<1>12. Cardinality(P) <= PageSize
  <2> DEFINE f == [w \in P |-> Place(S, w)]
  <2>1. \A w \in P : Place(S, w) \in places BY <1>1, <1>11
  <2>2. f \in Injection(P, places)
    BY <1>7, <2>1, PlacesTaken DEF Injection, IsInjective
  <2> HIDE DEF f, P, places
  <2>3. QED BY <2>2, <1>10, FS_Injection
<1>13. ASSUME Cardinality(S) >= at + PageSize PROVE Cardinality(P) >= PageSize
  <2> DEFINE f == [w \in P |-> Place(S, w)]
  <2>1. ASSUME NEW n \in places PROVE \E w \in P : Place(S, w) = n
    <3>1. n \in 1 .. Cardinality(S) BY <1>1, <1>9, <1>13
    <3>2. PICK w \in S : Place(S, w) = n BY <1>7, <3>1, PlacesTaken
    <3>3. w \in P BY <1>1, <3>2
    <3>4. QED BY <3>2, <3>3
  <2>2. \A w \in P : Place(S, w) \in places BY <1>1, <1>11
  <2>3. f \in Surjection(P, places) BY <2>1, <2>2 DEF Surjection
  <2> HIDE DEF f, P, places
  <2>4. QED BY <2>3, <1>9, <1>10, FS_Surjection
<1>14. QED BY <1>1, <1>4, <1>6, <1>8, <1>9, <1>12, <1>13

LEMMA ReadPageWalk ==
  ASSUME IInv, WalkInv, ReadPage
  PROVE  WalkInv'
<1>1. PICK page : page = Page(Claim(Reader), PageSize, at) OBVIOUS
<1>2. /\ walk = "reading" /\ UNCHANGED rows
      /\ \/ Show(page) /\ UNCHANGED spoilt
         \/ spoilt' = TRUE
  BY <1>1 DEF ReadPage
<1>3. CASE spoilt' = TRUE BY <1>3 DEF WalkInv
<1>4. CASE Show(page) /\ UNCHANGED spoilt /\ spoilt = FALSE
  <2> DEFINE S == ReaderIds
  <2>1. /\ IdsOf(page) = {w \in S : at < Place(S, w) /\ Place(S, w) <= at + PageSize}
        /\ Cardinality(page) \in Nat /\ Cardinality(page) <= PageSize
        /\ Cardinality(page) < PageSize => Cardinality(S) < at + PageSize
    BY <1>1, PageOfReader
  <2>2. at \in Nat /\ PageSize \in Nat BY ReaderAssumption DEF IInv, TypeOK
  <2>3. S \in SUBSET Ids BY IdsCount DEF IInv, ReaderIds, Own
  <2>4. ASSUME NEW w \in due' PROVE w \in S /\ at + PageSize < Place(S, w)
    <3>1. w \in due /\ w \notin IdsOf(page) BY <1>4 DEF Show
    <3>2. w \in S /\ at < Place(S, w) BY <1>2, <1>4, <3>1 DEF WalkInv
    <3>3. Place(S, w) \in Nat BY <2>3, <3>2, PlaceBounds
    <3>4. QED BY <2>1, <2>2, <3>1, <3>2, <3>3
  <2>5. ReaderIds' = S BY <1>2 DEF ReaderIds, Own, IdsOf
  <2>6. CASE Cardinality(page) < PageSize
    <3>1. due' = {}
      <4>1. SUFFICES ASSUME NEW w \in due' PROVE FALSE OBVIOUS
      <4>2. w \in S /\ at + PageSize < Place(S, w) BY <2>4
      <4>3. Place(S, w) \in Nat /\ Place(S, w) <= Cardinality(S) BY <2>3, <4>2, PlaceBounds
      <4>4. Cardinality(S) \in Nat BY <2>3, IdsFinite
      <4>5. QED BY <2>1, <2>2, <2>6, <4>2, <4>3, <4>4
    <3>2. QED BY <3>1 DEF WalkInv
  <2>7. CASE ~(Cardinality(page) < PageSize)
    <3>1. walk' = "reading" /\ at' = at + Cardinality(page) BY <1>4, <2>7 DEF Show
    <3>2. at' = at + PageSize BY <2>1, <2>2, <2>7, <3>1
    <3>3. \A w \in due' : w \in ReaderIds' /\ at' < Place(ReaderIds', w) BY <2>4, <2>5, <3>2
    <3>4. QED BY <3>1, <3>3 DEF WalkInv, Place, UpTo
  <2>8. QED BY <2>6, <2>7
<1>5. QED BY <1>2, <1>3, <1>4 DEF IInv, TypeOK

LEMMA StartReadingWalk ==
  ASSUME IInv, StartReading
  PROVE  WalkInv'
<1>1. walk' = "reading" /\ at' = 0 /\ due' = ReaderIds /\ rows' = rows
  BY DEF StartReading, ReaderIds
<1>2. ReaderIds' = ReaderIds BY <1>1 DEF ReaderIds, Own, IdsOf
<1>3. ReaderIds \in SUBSET Ids BY IdsCount DEF IInv, ReaderIds, Own
<1>4. \A w \in due' : w \in ReaderIds' /\ at' < Place(ReaderIds', w)
  BY <1>1, <1>2, <1>3, PlaceBounds
<1>5. QED BY <1>1, <1>4 DEF WalkInv, Place, UpTo

\* The steps that keep the ids of the reader's webhooks.
LEMMA SameIdsWalk ==
  ASSUME WalkInv, UNCHANGED client, ReaderIds' = ReaderIds
  PROVE  WalkInv'
BY DEF WalkInv, client, Place, UpTo

\* A new webhook comes behind all there are.
LEMMA InsertWalk ==
  ASSUME IInv, WalkInv, NEW r \in Requests, Insert(r)
  PROVE  WalkInv'
<1>1. UNCHANGED client BY DEF Insert
<1>2. rows' = rows \/ rows' = rows \cup {Inserted(r)} BY DEF Insert
<1>3. Inserted(r).id = nextId /\ nextId \in Nat BY DEF Inserted, IInv, TypeOK
<1>4. ReaderIds \in SUBSET Ids /\ \A i \in ReaderIds : i < nextId
  BY IdsCount DEF IInv, RowsInv, ReaderIds, Own, IdsOf
<1>5. ReaderIds' \subseteq ReaderIds \cup {nextId} /\ ReaderIds \subseteq ReaderIds'
  BY <1>2, <1>3 DEF ReaderIds, Own, IdsOf
<1>6. \A w \in ReaderIds : UpTo(ReaderIds', w) = UpTo(ReaderIds, w)
  <2>1. SUFFICES ASSUME NEW w \in ReaderIds
                 PROVE  UpTo(ReaderIds', w) = UpTo(ReaderIds, w)
    OBVIOUS
  <2>2. w < nextId /\ w \in Int BY <1>4 DEF Ids
  <2>3. ~(nextId <= w) BY <1>3, <2>2
  <2>4. QED BY <1>5, <2>3 DEF UpTo
<1>7. walk' = walk /\ spoilt' = spoilt /\ due' = due /\ at' = at BY <1>1 DEF client
<1>8. ASSUME walk = "reading", ~spoilt, NEW w \in due
      PROVE  w \in ReaderIds' /\ at < Place(ReaderIds', w)
  <2>1. w \in ReaderIds /\ at < Place(ReaderIds, w) BY <1>8 DEF WalkInv
  <2>2. QED BY <1>5, <1>6, <2>1 DEF Place
<1>9. QED BY <1>7, <1>8 DEF WalkInv, Place, UpTo

LEMMA UpdateWalk ==
  ASSUME WalkInv, NEW r \in Requests, Update(r), IInv
  PROVE  WalkInv'
<1>1. rows' = {Renamed(row, r) : row \in rows} /\ UNCHANGED client BY DEF Update
<1>2. \A row \in rows : Renamed(row, r).id = row.id /\ Renamed(row, r).owner = row.owner
  BY DEF Renamed, IInv, TypeOK, Row
<1>3. ReaderIds = {row.id : row \in {v \in rows : v.owner = Reader}}
  BY DEF ReaderIds, Own, IdsOf
<1>4. ReaderIds' = {row.id : row \in {v \in rows' : v.owner = Reader}}
  BY DEF ReaderIds, Own, IdsOf
<1>5. ReaderIds' = ReaderIds BY <1>1, <1>2, <1>3, <1>4
<1>6. QED BY <1>1, <1>5, SameIdsWalk

\* A webhook that goes was shown to the client, which spoils its walk, or lies
\* behind its offset.
LEMMA DeleteWalk ==
  ASSUME IInv, WalkInv, NEW r \in Requests, Delete(r)
  PROVE  WalkInv'
<1>1. PICK g : g = form[r].id OBVIOUS
<1>2. PICK gone : gone = {row \in rows : row.id = g} OBVIOUS
<1>3. /\ rows' = rows \ gone /\ due' = due \ {g} /\ at' = at /\ walk' = walk
      /\ spoilt' = (spoilt \/ \E row \in gone : row.owner = Reader /\ Rank(row) <= at)
  BY <1>1, <1>2 DEF Delete, Found
<1>4. ReaderIds' = ReaderIds \ {g} BY <1>2, <1>3 DEF ReaderIds, Own, IdsOf
<1>5. ReaderIds \in SUBSET Ids /\ at \in Nat
  BY IdsCount DEF IInv, TypeOK, ReaderIds, Own
<1>6. ASSUME walk = "reading", ~spoilt', NEW w \in due'
      PROVE  w \in ReaderIds \ {g} /\ at < Place(ReaderIds \ {g}, w)
  <2>1. w \in ReaderIds \ {g} /\ at < Place(ReaderIds, w) BY <1>3, <1>6 DEF WalkInv
  <2>2. CASE g \notin ReaderIds BY <2>1, <2>2, ReaderIds \ {g} = ReaderIds
  <2>3. CASE g \in ReaderIds
    <3>1. PICK row \in rows : row.id = g /\ row.owner = Reader
      BY <2>3 DEF ReaderIds, Own, IdsOf
    <3>2. Rank(row) = Place(ReaderIds, g) BY <3>1, RankIsPlace DEF IInv, ReaderIds
    <3>3. ~(Rank(row) <= at) BY <1>2, <1>3, <1>6, <3>1
    <3>4. g \in Ids BY <1>5, <2>3
    <3>5. Place(ReaderIds, g) \in Nat BY <1>5, <3>4, PlaceBounds
    <3>6. at < Place(ReaderIds, g) BY <1>5, <3>2, <3>3, <3>5
    <3>7. QED BY <1>5, <2>1, <2>3, <3>6, PlaceAfterRemoval
  <2>4. QED BY <2>2, <2>3
<1>7. \A w \in due' : walk = "reading" /\ ~spoilt' => w \in ReaderIds' /\ at < Place(ReaderIds', w)
  BY <1>4, <1>6
<1>8. walk' = "read" /\ ~spoilt' => due' = {} BY <1>3 DEF WalkInv
<1>9. QED BY <1>3, <1>7, <1>8 DEF WalkInv, Place, UpTo

LEMMA NextWalk == IInv /\ WalkInv /\ [Next]_vars => WalkInv'
<1> SUFFICES ASSUME IInv, WalkInv, [Next]_vars PROVE WalkInv' OBVIOUS
<1>1. ASSUME NEW r \in Requests, Receive(r) \/ CheckOwner(r) \/ Abandon(r)
      PROVE  WalkInv'
  <2>1. UNCHANGED <<rows, client>> BY <1>1 DEF Receive, CheckOwner, Abandon
  <2>2. QED BY <2>1, SameIdsWalk DEF ReaderIds, Own, IdsOf
<1>2. CASE StopReading BY <1>2 DEF StopReading, WalkInv
<1>3. CASE UNCHANGED vars
  <2>1. UNCHANGED <<rows, client>> BY <1>3 DEF vars
  <2>2. QED BY <2>1, SameIdsWalk DEF ReaderIds, Own, IdsOf
<1>4. QED
  BY <1>1, <1>2, <1>3, InsertWalk, UpdateWalk, DeleteWalk, StartReadingWalk, ReadPageWalk
  DEF Next
-----------------------------------------------------------------------------

\* The inductive invariant holds in every state.
THEOREM Invariance == Spec => []IInv
BY InitIInv, NextIInv, PTL DEF Spec

\* The variables keep their types, for any accounts that a token can name.
THEOREM TypeCorrect == Spec => []TypeOK
BY Invariance, PTL DEF IInv

\* However many DELETEs of a webhook race or are repeated, one is answered 204.
THEOREM OneDeletion == Spec => []DeletedOnce
<1>1. IInv => DeletedOnce BY DEF IInv, DeletedInv, DeletedOnce, IdsOf
<1>2. QED BY <1>1, Invariance, PTL

\* Only a request that was signed in as its owner ever changes a webhook or
\* takes it away, though the look-up and the statement are two.
THEOREM ChangedByOwners == Spec => OwnersOnly
<1>1. ASSUME IInv, [Next]_vars, NEW row \in rows, row \notin rows'
      PROVE  \E r \in Requests : /\ pc[r] \in {"update", "delete"} /\ pc'[r] = "idle"
                                 /\ form[r].id = row.id /\ form[r].signedIn = row.owner
  <2>1. PICK r \in Requests : Update(r) \/ Delete(r)
    BY <1>1 DEF Next, vars, Receive, Insert, CheckOwner, Abandon, StartReading, ReadPage,
                StopReading
  <2>2. pc[r] \in {"update", "delete"} /\ Answer(r) BY <2>1 DEF Update, Delete
  <2>3. pc'[r] = "idle" BY <1>1, <2>2, AnswerKeeps
  <2>4. row.id = form[r].id BY <1>1, <2>1 DEF Update, Renamed, Delete, Found
  <2>5. row.owner = form[r].signedIn BY <1>1, <2>2, <2>4 DEF IInv, RequestInv
  <2>6. QED BY <2>2, <2>3, <2>4, <2>5
<1>2. IInv /\ [Next]_vars =>
        [\A row \in rows : row \notin rows' =>
           \E r \in Requests : /\ pc[r] \in {"update", "delete"} /\ pc'[r] = "idle"
                               /\ form[r].id = row.id /\ form[r].signedIn = row.owner]_vars
  BY <1>1
<1>3. QED BY <1>2, Invariance, PTL DEF Spec, OwnersOnly

\* A client that reads page after page misses no webhook that is there all the
\* time, unless one it was shown was deleted or a page broke off: for any number
\* of requests that add, rename and delete meanwhile, and any length of a page.
THEOREM CompleteWalk == Spec => []WalkIsComplete
<1>1. Init => WalkInv BY DEF Init, WalkInv
<1>2. WalkInv => WalkIsComplete BY DEF WalkInv, WalkIsComplete
<1>3. QED BY <1>1, <1>2, NextWalk, Invariance, PTL DEF Spec
=============================================================================
