---------------------------- MODULE Profiles_proofs ----------------------------
(***************************************************************************)
(* Theorems about Profiles, for any accounts, requests, values and         *)
(* passwords.                                                              *)
(***************************************************************************)
EXTENDS Profiles, FiniteSetTheorems, TLAPS

-----------------------------------------------------------------------------
(* The inductive invariant *)

\* The types as the proof needs them: what Next updates are functions.
ShapeInv ==
    /\ rows \in [Accounts -> Rows]
    /\ password \in [Accounts -> Passwords]
    /\ pc \in [Requests -> {"idle"} \cup Running \cup Answered]
    /\ form \in [Requests -> Forms \cup {AnyForm}]
    /\ \A r \in Requests : pc[r] # "idle" => form[r] \in Forms
    /\ seen \in [Requests -> Rows]
    /\ pending \in [Requests -> SUBSET Rows]
    /\ overtaken \in [Requests -> SUBSET Fields]
    /\ held \in [Requests -> SUBSET Passwords]

\* Where a request may be, by its kind.
KindInv ==
    \A r \in Requests :
        /\ pc[r] = "read" => form[r].kind \in {"info", "password"}
        /\ pc[r] \in {"update", "commit", "role"} => form[r].kind = "info"
        /\ pc[r] = "check" => form[r].kind \in {"password", "signIn"}
        /\ pc[r] = "store" => form[r].kind = "password"

\* A request between its UPDATE and its COMMIT holds the merged row, with an
\* email that no row of another account and no other such request has, and is
\* the only one to hold a row of its account.
PendingInv ==
    /\ \A r \in Requests : pending[r] = IF pc[r] = "commit" THEN {Merged(r)} ELSE {}
    /\ \A r \in Requests : pc[r] = "commit" => ~EmailElsewhere(r)
    /\ \A q, r \in Requests : q # r /\ pc[q] = "commit" /\ pc[r] = "commit" =>
         /\ form[q].account # form[r].account
         /\ Merged(q)["email"] # Merged(r)["email"]
    /\ \A a, b \in Accounts : a # b => rows[a]["email"] # rows[b]["email"]

\* What a request read is still so, except for what others committed since.
SeenInv ==
    \A r \in Requests : pc[r] \in {"update", "commit"} =>
        \A f \in Fields : seen[r][f] = rows[form[r].account][f] \/ f \in overtaken[r]

\* The password there is now is among those held while the request runs.
HeldInv ==
    /\ \A r \in Requests : pc[r] \in Running => password[form[r].account] \in held[r]
    /\ ChecksAreLinearizable

IInv == ShapeInv /\ KindInv /\ PendingInv /\ SeenInv /\ HeldInv

-----------------------------------------------------------------------------
(* Lemmas *)

\* What a form says.
LEMMA FormFields ==
  ASSUME NEW f \in Forms
  PROVE  /\ f.account \in Accounts /\ f.kind \in AllKinds
         /\ f.old \in Passwords /\ f.new \in Passwords
         /\ DOMAIN f.change \subseteq Fields
         /\ \A g \in DOMAIN f.change : f.change[g] \in Values[g]
<1>1. /\ f.account \in Accounts /\ f.kind \in AllKinds
      /\ f.old \in Passwords /\ f.new \in Passwords
      /\ f.change \in Changes \cup {NoChange}
  BY ProfileAssumption DEF Forms, AllKinds
<1>2. CASE f.change = NoChange
  <2>1. DOMAIN NoChange = {} BY DEF NoChange
  <2>2. QED BY <1>1, <1>2, <2>1
<1>3. CASE f.change \in Changes
  <2>1. PICK S \in SUBSET Fields :
          f.change \in {c \in [S -> AnyValue] : \A g \in S : c[g] \in Values[g]}
    BY <1>3 DEF Changes
  <2>2. QED BY <1>1, <2>1
<1>4. QED BY <1>1, <1>2, <1>3

\* Merging a form into a row gives a row.
LEMMA MergedRow ==
  ASSUME ShapeInv, NEW r \in Requests, form[r] \in Forms
  PROVE  Merged(r) \in Rows
<1>1. ASSUME NEW g \in Fields PROVE Merged(r)[g] \in Values[g]
  BY <1>1, FormFields DEF Merged, ShapeInv, Rows
<1>2. \A g \in Fields : Merged(r)[g] \in AnyValue BY <1>1 DEF AnyValue
<1>3. Merged(r) = [g \in Fields |-> Merged(r)[g]] BY DEF Merged
<1>4. QED BY <1>1, <1>2, <1>3 DEF Rows

LEMMA InitIInv == Init => IInv
<1> SUFFICES ASSUME Init PROVE IInv OBVIOUS
<1>1. PICK row \in Rows : TRUE BY ProfileAssumption
<1>2. (CHOOSE v \in Rows : TRUE) \in Rows BY <1>1
<1>3. ShapeInv BY <1>2, ProfileAssumption DEF Init, ShapeInv
<1>4. KindInv /\ SeenInv BY DEF Init, KindInv, SeenInv
<1>5. PendingInv BY ProfileAssumption DEF Init, PendingInv
<1>6. HeldInv BY DEF Init, HeldInv, ChecksAreLinearizable, Running
<1>7. QED BY <1>3, <1>4, <1>5, <1>6 DEF IInv

\* PendingInv stays when no row is committed and no request comes to its COMMIT.
LEMMA PendingKept ==
  ASSUME PendingInv, rows' = rows,
         \A q \in Requests :
            IF pc'[q] = "commit"
            THEN /\ pc[q] = "commit"
                 /\ form'[q] = form[q] /\ seen'[q] = seen[q] /\ pending'[q] = pending[q]
            ELSE pending'[q] = {}
  PROVE  PendingInv'
<1>1. ASSUME NEW q \in Requests, pc'[q] = "commit"
      PROVE  /\ pc[q] = "commit" /\ form'[q] = form[q]
             /\ Merged(q)' = Merged(q) /\ ~EmailElsewhere(q)'
  <2>1. pc[q] = "commit" /\ form'[q] = form[q] /\ seen'[q] = seen[q] BY <1>1
  <2>2. Merged(q)' = Merged(q) BY <2>1 DEF Merged
  <2>3. ~EmailElsewhere(q) BY <2>1 DEF PendingInv
  <2>4. ~EmailElsewhere(q)' BY <2>1, <2>2, <2>3 DEF EmailElsewhere
  <2>5. QED BY <2>1, <2>2, <2>4
<1>2. ASSUME NEW q \in Requests
      PROVE  pending'[q] = IF pc'[q] = "commit" THEN {Merged(q)'} ELSE {}
  <2>1. CASE pc'[q] = "commit"
    <3>1. pending'[q] = pending[q] /\ pending[q] = {Merged(q)} BY <1>1, <2>1 DEF PendingInv
    <3>2. QED BY <1>1, <2>1, <3>1
  <2>2. QED BY <2>1
<1>3. ASSUME NEW q \in Requests, NEW r \in Requests, q # r,
             pc'[q] = "commit", pc'[r] = "commit"
      PROVE  /\ form'[q].account # form'[r].account
             /\ Merged(q)'["email"] # Merged(r)'["email"]
  <2>1. /\ form[q].account # form[r].account
        /\ Merged(q)["email"] # Merged(r)["email"]
    BY <1>1, <1>3 DEF PendingInv
  <2>2. QED BY <1>1, <1>3, <2>1
<1>4. \A a, b \in Accounts : a # b => rows'[a]["email"] # rows'[b]["email"]
  BY DEF PendingInv
<1>5. QED BY <1>1, <1>2, <1>3, <1>4 DEF PendingInv

LEMMA ReceiveStep ==
  ASSUME IInv, NEW r \in Requests, Receive(r)
  PROVE  IInv'
<1> USE DEF IInv, Goto
<1>1. PICK f \in Forms :
        /\ form' = [form EXCEPT ![r] = f]
        /\ held' = [held EXCEPT ![r] = {password[f.account]}]
        /\ pc' = [pc EXCEPT ![r] = IF f.kind = "signIn" THEN "check" ELSE "read"]
  BY DEF Receive
<1>2. pc[r] = "idle" /\ UNCHANGED <<rows, password, seen, pending, overtaken>> BY DEF Receive
<1>3. f.account \in Accounts /\ f.kind \in AllKinds BY FormFields
<1>4. password[f.account] \in Passwords BY <1>3 DEF ShapeInv
<1>5. ShapeInv' BY <1>1, <1>2, <1>4 DEF ShapeInv, Running
<1>6. \A q \in Requests \ {r} : form'[q] = form[q] /\ pc'[q] = pc[q] /\ held'[q] = held[q]
  BY <1>1 DEF ShapeInv
<1>7. form'[r] = f /\ pc'[r] \in {"check", "read"} /\ held'[r] = {password[f.account]}
  BY <1>1 DEF ShapeInv
<1>8. KindInv' BY <1>1, <1>3, <1>6, <1>7 DEF KindInv, AllKinds, ShapeInv
<1>9. SeenInv' BY <1>2, <1>6, <1>7 DEF SeenInv
<1>10. PendingInv' BY <1>2, <1>6, <1>7, PendingKept DEF PendingInv
<1>11. HeldInv'
  BY <1>2, <1>6, <1>7 DEF HeldInv, ChecksAreLinearizable, Running
<1>12. QED BY <1>5, <1>8, <1>9, <1>10, <1>11

LEMMA ReadStep ==
  ASSUME IInv, NEW r \in Requests, Read(r)
  PROVE  IInv'
<1> USE DEF IInv, Goto, Read
<1>1. form[r] \in Forms /\ form[r].account \in Accounts BY FormFields DEF ShapeInv
<1>2. rows[form[r].account] \in Rows BY <1>1 DEF ShapeInv
<1>3. ShapeInv' BY <1>2 DEF ShapeInv, Running
<1>4. \A q \in Requests \ {r} :
        seen'[q] = seen[q] /\ pc'[q] = pc[q] /\ overtaken'[q] = overtaken[q]
  BY DEF ShapeInv
<1>5. pc[r] = "read" /\ pc'[r] = IF form[r].kind = "info" THEN "update" ELSE "check"
  BY DEF ShapeInv
<1>6. seen'[r] = rows[form[r].account] BY DEF ShapeInv
<1>7. KindInv' BY <1>4, <1>5 DEF KindInv
<1>8. SeenInv' BY <1>4, <1>5, <1>6 DEF SeenInv
<1>9. PendingInv'
  <2>1. ASSUME NEW q \in Requests
        PROVE  IF pc'[q] = "commit"
               THEN /\ pc[q] = "commit"
                    /\ form'[q] = form[q] /\ seen'[q] = seen[q] /\ pending'[q] = pending[q]
               ELSE pending'[q] = {}
    <3>1. pc[q] # "commit" => pending[q] = {} BY DEF PendingInv
    <3>2. pending' = pending /\ form' = form OBVIOUS
    <3>3. CASE q = r BY <1>5, <3>1, <3>2, <3>3
    <3>4. CASE q # r BY <1>4, <3>1, <3>2, <3>4
    <3>5. QED BY <3>3, <3>4
  <2>2. QED BY <2>1, PendingKept
<1>10. HeldInv' BY <1>4, <1>5 DEF HeldInv, ChecksAreLinearizable, Running
<1>11. QED BY <1>3, <1>7, <1>8, <1>9, <1>10

\* No form and no row that was read changes, and no row is committed.
LEMMA MergedKept ==
  ASSUME UNCHANGED <<rows, form, seen>>
  PROVE  \A q : Merged(q)' = Merged(q) /\ (EmailElsewhere(q)' <=> EmailElsewhere(q))
BY DEF Merged, EmailElsewhere

\* An UPDATE waits until no other uncommitted one could clash with its email.
LEMMA UpdateStep ==
  ASSUME IInv, NEW r \in Requests, Update(r)
  PROVE  IInv'
<1> USE DEF IInv, Goto
<1>1. UNCHANGED <<rows, password, form, seen, overtaken, held>> /\ pc[r] = "update"
  BY DEF Update
<1>2. form[r] \in Forms BY <1>1 DEF ShapeInv
<1>3. Merged(r) \in Rows BY <1>2, MergedRow
<1>4. \/ pc' = [pc EXCEPT ![r] = "500"] /\ UNCHANGED pending
      \/ /\ ~EmailElsewhere(r)
         /\ pc' = [pc EXCEPT ![r] = "commit"] /\ pending' = [pending EXCEPT ![r] = {Merged(r)}]
  BY DEF Update
<1>5. ShapeInv' BY <1>1, <1>2, <1>3, <1>4 DEF ShapeInv, Running, Answered
<1>6. KindInv' BY <1>1, <1>4 DEF KindInv, ShapeInv
<1>7. SeenInv' BY <1>1, <1>4 DEF SeenInv, ShapeInv
<1>8. HeldInv' BY <1>1, <1>4 DEF HeldInv, ChecksAreLinearizable, Running, ShapeInv
<1>9. PendingInv'
  <2>1. CASE pc' = [pc EXCEPT ![r] = "500"] /\ UNCHANGED pending
    BY <1>1, <2>1, MergedKept DEF PendingInv, ShapeInv
  <2>2. CASE /\ ~EmailElsewhere(r) /\ pc' = [pc EXCEPT ![r] = "commit"]
             /\ pending' = [pending EXCEPT ![r] = {Merged(r)}]
    <3>1. ASSUME NEW q \in Requests \ {r}, pc[q] = "commit"
          PROVE  /\ form[q].account # form[r].account
                 /\ Merged(q)["email"] # Merged(r)["email"]
      <4>1. Merged(q) \in pending[q] BY <3>1 DEF PendingInv
      <4>2. q \notin Blocking(r) BY DEF Update
      <4>3. form[q].account # form[r].account BY <4>1, <4>2 DEF Blocking
      <4>4. form[q].account \in Accounts BY <3>1, FormFields DEF ShapeInv
      <4>5. rows[form[q].account]["email"] # Merged(r)["email"]
        BY <2>2, <4>3, <4>4 DEF EmailElsewhere
      <4>6. QED BY <4>1, <4>2, <4>3, <4>5 DEF Blocking
    <3>2. \A q \in Requests \ {r} : pc'[q] = pc[q] /\ pending'[q] = pending[q]
      BY <2>2 DEF ShapeInv
    <3>3. pc'[r] = "commit" /\ pending'[r] = {Merged(r)} BY <2>2 DEF ShapeInv
    <3>4. ASSUME NEW q \in Requests
          PROVE  /\ pending'[q] = IF pc'[q] = "commit" THEN {Merged(q)'} ELSE {}
                 /\ pc'[q] = "commit" => ~EmailElsewhere(q)'
      <4>1. Merged(q)' = Merged(q) /\ (EmailElsewhere(q)' <=> EmailElsewhere(q))
        BY <1>1, MergedKept
      <4>2. CASE q = r BY <2>2, <3>3, <4>1, <4>2
      <4>3. CASE q # r
        <5>1. /\ pending[q] = IF pc[q] = "commit" THEN {Merged(q)} ELSE {}
              /\ pc[q] = "commit" => ~EmailElsewhere(q)
          BY DEF PendingInv
        <5>2. QED BY <3>2, <4>1, <4>3, <5>1
      <4>4. QED BY <4>2, <4>3
    <3>5. ASSUME NEW q \in Requests, NEW p \in Requests, q # p,
                 pc'[q] = "commit", pc'[p] = "commit"
          PROVE  /\ form'[q].account # form'[p].account
                 /\ Merged(q)'["email"] # Merged(p)'["email"]
      <4>1. form' = form /\ Merged(q)' = Merged(q) /\ Merged(p)' = Merged(p)
        BY <1>1, MergedKept
      <4>2. CASE q # r /\ p # r BY <3>2, <3>5, <4>1, <4>2 DEF PendingInv
      <4>3. CASE q = r BY <3>1, <3>2, <3>5, <4>1, <4>3
      <4>4. CASE p = r BY <3>1, <3>2, <3>5, <4>1, <4>4
      <4>5. QED BY <4>2, <4>3, <4>4
    <3>6. QED BY <1>1, <3>4, <3>5 DEF PendingInv
  <2>3. QED BY <1>4, <2>1, <2>2
<1>10. QED BY <1>5, <1>6, <1>7, <1>8, <1>9

\* A COMMIT puts in place the one row that was held for the account.
LEMMA CommitStep ==
  ASSUME IInv, NEW r \in Requests, Commit(r)
  PROVE  IInv'
<1> DEFINE a == form[r].account
<1> USE DEF IInv, Goto
<1>1. /\ pc[r] = "commit" /\ UNCHANGED <<password, form, seen, held>>
      /\ pending' = [pending EXCEPT ![r] = {}]
      /\ pc' = [pc EXCEPT ![r] = "role"] \/ pc' = [pc EXCEPT ![r] = "500"]
  BY DEF Commit
<1>2. pending[r] = {Merged(r)} BY <1>1 DEF PendingInv
<1>3. /\ rows' = [rows EXCEPT ![a] = Merged(r)]
      /\ overtaken' = [q \in Requests |->
              IF q # r /\ form[q].account = a
              THEN overtaken[q] \cup {f \in Fields : Merged(r)[f] # rows[a][f]}
              ELSE overtaken[q]]
  BY <1>2 DEF Commit
<1>4. form[r] \in Forms /\ a \in Accounts BY <1>1, FormFields DEF ShapeInv
<1>5. Merged(r) \in Rows BY <1>4, MergedRow
<1>6. ShapeInv' BY <1>1, <1>3, <1>5 DEF ShapeInv, Running, Answered
<1>7. \A q \in Requests \ {r} : pc'[q] = pc[q] /\ pending'[q] = pending[q]
  BY <1>1 DEF ShapeInv
<1>8. pc'[r] \in {"role", "500"} /\ pending'[r] = {} BY <1>1 DEF ShapeInv
<1>9. /\ rows'[a] = Merged(r)
      /\ \A b \in Accounts \ {a} : rows'[b] = rows[b]
  BY <1>3, <1>4 DEF ShapeInv
<1>10. KindInv' BY <1>1, <1>7, <1>8 DEF KindInv
<1>11. SeenInv'
  <2> SUFFICES ASSUME NEW q \in Requests, pc'[q] \in {"update", "commit"}, NEW f \in Fields
               PROVE  seen[q][f] = rows'[form[q].account][f] \/ f \in overtaken'[q]
    BY <1>1 DEF SeenInv
  <2>1. q # r /\ pc[q] \in {"update", "commit"} BY <1>7, <1>8
  <2>2. seen[q][f] = rows[form[q].account][f] \/ f \in overtaken[q] BY <2>1 DEF SeenInv
  <2>3. form[q].account \in Accounts BY <2>1, FormFields DEF ShapeInv
  <2>4. QED BY <1>3, <1>9, <2>1, <2>2, <2>3
<1>12. HeldInv' BY <1>1, <1>7, <1>8 DEF HeldInv, ChecksAreLinearizable, Running, KindInv
<1>13. PendingInv'
  <2>1. \A q : Merged(q)' = Merged(q) BY <1>1 DEF Merged
  <2>2. ASSUME NEW q \in Requests, pc'[q] = "commit"
        PROVE  ~EmailElsewhere(q)'
    <3>1. q # r /\ pc[q] = "commit" BY <1>7, <1>8, <2>2
    <3>2. Merged(q)["email"] # Merged(r)["email"] BY <1>1, <3>1 DEF PendingInv
    <3>3. ~EmailElsewhere(q) BY <3>1 DEF PendingInv
    <3>4. QED BY <1>1, <1>9, <2>1, <3>2, <3>3 DEF EmailElsewhere
  <2>3. ASSUME NEW b \in Accounts, b # a
        PROVE  rows'[a]["email"] # rows'[b]["email"]
    <3>1. ~EmailElsewhere(r) BY <1>1 DEF PendingInv
    <3>2. QED BY <1>9, <2>3, <3>1 DEF EmailElsewhere
  <2>4. ASSUME NEW b \in Accounts, NEW c \in Accounts, b # c
        PROVE  rows'[b]["email"] # rows'[c]["email"]
    BY <1>9, <2>3, <2>4 DEF PendingInv
  <2>5. ASSUME NEW q \in Requests
        PROVE  pending'[q] = IF pc'[q] = "commit" THEN {Merged(q)'} ELSE {}
    <3>1. CASE q = r BY <1>8, <3>1
    <3>2. CASE q # r
      <4>1. pending[q] = IF pc[q] = "commit" THEN {Merged(q)} ELSE {} BY DEF PendingInv
      <4>2. QED BY <1>7, <2>1, <3>2, <4>1
    <3>3. QED BY <3>1, <3>2
  <2>6. ASSUME NEW q \in Requests, NEW p \in Requests, q # p,
               pc'[q] = "commit", pc'[p] = "commit"
        PROVE  /\ form'[q].account # form'[p].account
               /\ Merged(q)'["email"] # Merged(p)'["email"]
    <3>1. pc[q] = "commit" /\ pc[p] = "commit" BY <1>7, <1>8, <2>6
    <3>2. form' = form /\ Merged(q)' = Merged(q) /\ Merged(p)' = Merged(p) BY <1>1, <2>1
    <3>3. QED BY <2>6, <3>1, <3>2 DEF PendingInv
  <2>7. QED BY <2>2, <2>4, <2>5, <2>6 DEF PendingInv
<1>14. QED BY <1>6, <1>10, <1>11, <1>12, <1>13

\* The steps that change nothing but where a request is.
LEMMA RoleStep ==
  ASSUME IInv, NEW r \in Requests, Role(r)
  PROVE  IInv'
<1> USE DEF IInv, Goto, Role
<1>1. ShapeInv' BY DEF ShapeInv, Running, Answered
<1>2. KindInv' /\ SeenInv' BY DEF KindInv, SeenInv, ShapeInv
<1>3. PendingInv' BY MergedKept DEF PendingInv, ShapeInv
<1>4. HeldInv' BY DEF HeldInv, ChecksAreLinearizable, Running, ShapeInv, KindInv
<1>5. QED BY <1>1, <1>2, <1>3, <1>4

LEMMA CheckStep ==
  ASSUME IInv, NEW r \in Requests, Check(r)
  PROVE  IInv'
<1> USE DEF IInv, Goto, Check, Admission, Refusal, HashOf
<1>1. ShapeInv' BY DEF ShapeInv, Running, Answered
<1>2. KindInv' /\ SeenInv' BY DEF KindInv, SeenInv, ShapeInv
<1>3. PendingInv' BY MergedKept DEF PendingInv, ShapeInv
<1>4. HeldInv' BY DEF HeldInv, ChecksAreLinearizable, Running, ShapeInv, KindInv
<1>5. QED BY <1>1, <1>2, <1>3, <1>4

LEMMA StoreStep ==
  ASSUME IInv, NEW r \in Requests, Store(r)
  PROVE  IInv'
<1> DEFINE a == form[r].account
<1> USE DEF IInv, Goto
<1>1. /\ pc[r] = "store" /\ UNCHANGED <<rows, form, seen, pending, overtaken>>
      /\ password' = [password EXCEPT ![a] = form[r].new]
      /\ held' = [q \in Requests |->
                    IF pc[q] \in Running /\ form[q].account = a
                    THEN held[q] \cup {form[r].new} ELSE held[q]]
      /\ pc' = [pc EXCEPT ![r] = "204"] \/ pc' = [pc EXCEPT ![r] = "500"]
  BY DEF Store
<1>2. a \in Accounts /\ form[r].new \in Passwords BY <1>1, FormFields DEF ShapeInv
<1>3. ShapeInv' BY <1>1, <1>2 DEF ShapeInv, Running, Answered
<1>4. KindInv' /\ SeenInv' BY <1>1 DEF KindInv, SeenInv, ShapeInv
<1>5. PendingInv' BY <1>1, MergedKept DEF PendingInv, ShapeInv
<1>6. \A q \in Requests : held[q] \subseteq held'[q] /\ (pc[q] \notin Running => held'[q] = held[q])
  BY <1>1
<1>7. \A q \in Requests \ {r} : pc'[q] = pc[q] BY <1>1 DEF ShapeInv
<1>8. pc'[r] \in {"204", "500"} BY <1>1 DEF ShapeInv
<1>9. ASSUME NEW q \in Requests, pc'[q] \in Running
      PROVE  password'[form[q].account] \in held'[q]
  <2>1. q # r /\ pc[q] \in Running BY <1>7, <1>8, <1>9 DEF Running
  <2>2. password[form[q].account] \in held[q] BY <2>1 DEF HeldInv
  <2>3. CASE form[q].account = a BY <1>1, <1>2, <2>1, <2>3 DEF ShapeInv
  <2>4. CASE form[q].account # a BY <1>1, <1>6, <2>2, <2>4 DEF ShapeInv
  <2>5. QED BY <2>3, <2>4
<1>10. ChecksAreLinearizable'
  BY <1>1, <1>6, <1>7, <1>8 DEF HeldInv, ChecksAreLinearizable, Running
<1>11. HeldInv' BY <1>1, <1>9, <1>10 DEF HeldInv
<1>12. QED BY <1>3, <1>4, <1>5, <1>11

LEMMA FailStep ==
  ASSUME IInv, NEW r \in Requests, Fail(r)
  PROVE  IInv'
<1> USE DEF IInv, Goto, Fail
<1>1. ShapeInv' BY DEF ShapeInv, Running, Answered
<1>2. KindInv' /\ SeenInv' BY DEF KindInv, SeenInv, ShapeInv
<1>3. PendingInv' BY MergedKept DEF PendingInv, ShapeInv
<1>4. HeldInv' BY DEF HeldInv, ChecksAreLinearizable, Running, ShapeInv
<1>5. QED BY <1>1, <1>2, <1>3, <1>4

LEMMA CrashStep ==
  ASSUME IInv, Crash
  PROVE  IInv'
<1> USE DEF IInv, Crash
<1>1. \A r \in Requests : pc'[r] \notin Running /\ (pc'[r] = pc[r] \/ pc'[r] = "gone")
  BY DEF Running
<1>2. ShapeInv' BY DEF ShapeInv, Running, Answered
<1>3. KindInv' /\ SeenInv' BY <1>1 DEF KindInv, SeenInv, Running
<1>4. PendingInv' BY <1>1, MergedKept DEF PendingInv, Running
<1>5. HeldInv' BY <1>1 DEF HeldInv, ChecksAreLinearizable, Running
<1>6. QED BY <1>2, <1>3, <1>4, <1>5

LEMMA NextIInv == IInv /\ [Next]_vars => IInv'
<1> SUFFICES ASSUME IInv, [Next]_vars PROVE IInv' OBVIOUS
<1>1. ASSUME NEW r \in Requests, Receive(r) \/ Serve(r) \/ Fail(r) PROVE IInv'
  BY <1>1, ReceiveStep, ReadStep, UpdateStep, CommitStep, RoleStep, CheckStep, StoreStep, FailStep
     DEF Serve
<1>2. CASE Crash BY <1>2, CrashStep
<1>3. CASE UNCHANGED vars
  BY <1>3, MergedKept DEF vars, IInv, ShapeInv, KindInv, PendingInv, SeenInv, HeldInv,
                          ChecksAreLinearizable
<1>4. QED BY <1>1, <1>2, <1>3 DEF Next

-----------------------------------------------------------------------------

\* The inductive invariant holds in every state.
THEOREM Invariance == Spec => []IInv
BY InitIInv, NextIInv, PTL DEF Spec

\* The variables keep their types: rows have values of their fields only,
\* however updates are merged, and no request holds two of them.
THEOREM TypeCorrect == Spec => []TypeOK
<1>1. ASSUME IInv PROVE TypeOK
  <2>1. ASSUME NEW r \in Requests PROVE Cardinality(pending[r]) <= 1
    <3>1. pending[r] = {} \/ pending[r] = {Merged(r)} BY <1>1 DEF IInv, PendingInv
    <3>2. CASE pending[r] = {} BY <3>2, FS_EmptySet
    <3>3. CASE pending[r] = {Merged(r)}
      <4>1. Cardinality({Merged(r)}) = 1 BY FS_Singleton
      <4>2. QED BY <3>3, <4>1
    <3>4. QED BY <3>1, <3>2, <3>3
  <2>2. QED BY <1>1, <2>1 DEF IInv, ShapeInv, TypeOK
<1>2. QED BY <1>1, Invariance, PTL

\* The locks of the email index keep emails apart, whatever updates overlap.
THEOREM UniqueEmails == Spec => []EmailsUnique
<1>1. ASSUME IInv PROVE EmailsUnique
  <2> SUFFICES ASSUME NEW a \in Accounts, NEW b \in Accounts, a # b
               PROVE  /\ rows[a]["email"] # rows[b]["email"]
                      /\ \A r \in Requests : form[r].account = a =>
                           \A row \in pending[r] : row["email"] # rows[b]["email"]
    BY DEF EmailsUnique
  <2>1. ASSUME NEW r \in Requests, form[r].account = a, NEW row \in pending[r]
        PROVE  row["email"] # rows[b]["email"]
    <3>1. row = Merged(r) /\ ~EmailElsewhere(r) BY <1>1, <2>1 DEF IInv, PendingInv
    <3>2. QED BY <2>1, <3>1 DEF EmailElsewhere
  <2>2. QED BY <1>1, <2>1 DEF IInv, PendingInv
<1>2. QED BY <1>1, Invariance, PTL

\* No verdict on a password is older or newer than the request it answers.
THEOREM LinearizableChecks == Spec => []ChecksAreLinearizable
<1>1. IInv => ChecksAreLinearizable BY DEF IInv, HeldInv
<1>2. QED BY <1>1, Invariance, PTL

\* An update takes a field back only from one that committed meanwhile.
THEOREM LossExplained == Spec => LostOnlyToOverlap
<1> DEFINE Explained(r) ==
      Commit(r) =>
         \A f \in Fields \ DOMAIN form[r].change :
             rows'[form[r].account][f] = rows[form[r].account][f] \/ f \in overtaken[r]
<1>1. ASSUME IInv, NEW r \in Requests PROVE Explained(r)
  <2> SUFFICES ASSUME Commit(r), NEW f \in Fields \ DOMAIN form[r].change
               PROVE  rows'[form[r].account][f] = rows[form[r].account][f] \/ f \in overtaken[r]
    OBVIOUS
  <2>1. pc[r] = "commit" /\ pending[r] = {Merged(r)} BY <1>1 DEF Commit, IInv, PendingInv
  <2>2. form[r].account \in Accounts BY <1>1, <2>1, FormFields DEF IInv, ShapeInv
  <2>3. rows'[form[r].account] = Merged(r) BY <1>1, <2>1, <2>2 DEF Commit, IInv, ShapeInv
  <2>4. Merged(r)[f] = seen[r][f] BY DEF Merged
  <2>5. QED BY <1>1, <2>1, <2>3, <2>4 DEF IInv, SeenInv
<1>2. IInv => [\A r \in Requests : Explained(r)]_vars BY <1>1
<1>3. QED BY <1>2, Invariance, PTL DEF LostOnlyToOverlap
=============================================================================
