------------------------------ MODULE Roles_proofs ------------------------------
(***************************************************************************)
(* Theorems about Startup and Roles, for any requests and any number of    *)
(* interrupted starts.                                                     *)
(***************************************************************************)
EXTENDS Roles, TLAPS

-----------------------------------------------------------------------------
(* Starting *)

\* The migrations that were recorded are there as a whole, and so is the part
\* before the next statement of the one that runs.
StartInv ==
    /\ StartTypeOK
    /\ \A m \in applied : ToSet(Migrations[m]) \subseteq schema
    /\ phase = "migrate" /\ Unapplied # {} =>
         \A i \in 1 .. step - 1 : i <= Len(Migrations[Current]) => Migrations[Current][i] \in schema
    /\ phase \in {"serving", "stopping"} => applied = 1 .. Len(Migrations)

LEMMA MigrationFacts ==
  /\ Len(Migrations) = 2 /\ Len(Migrations[1]) = 7 /\ Len(Migrations[2]) = 1
  /\ Len(RoleRows) = 3
  /\ \A m \in 1 .. 2 : \A i \in 1 .. Len(Migrations[m]) : Migrations[m][i] \in ToSet(Migrations[m])
  /\ \A m \in 1 .. 2 : \A x \in ToSet(Migrations[m]) :
       \E i \in 1 .. Len(Migrations[m]) : x = Migrations[m][i]
  /\ \A m \in 1 .. 2 : ToSet(Migrations[m]) \subseteq Schema
  /\ Schema = ToSet(Migrations[1]) \cup ToSet(Migrations[2])
<1>1. Len(Migrations) = 2 /\ Len(RoleRows) = 3 /\ Len(Migrations[1]) = 7 /\ Len(Migrations[2]) = 1
  BY DEF Migrations, RoleRows
<1>2. \A m \in 1 .. 2 : /\ \A i \in 1 .. Len(Migrations[m]) : Migrations[m][i] \in ToSet(Migrations[m])
                        /\ \A x \in ToSet(Migrations[m]) :
                             \E i \in 1 .. Len(Migrations[m]) : x = Migrations[m][i]
  <2>1. DOMAIN Migrations[1] = 1 .. Len(Migrations[1]) BY DEF Migrations, RoleRows
  <2>2. DOMAIN Migrations[2] = 1 .. Len(Migrations[2]) BY DEF Migrations
  <2>3. \A m \in 1 .. 2 : DOMAIN Migrations[m] = 1 .. Len(Migrations[m])
    <3>1. TAKE m \in 1 .. 2
    <3>2. m = 1 \/ m = 2 OBVIOUS
    <3>3. QED BY <2>1, <2>2, <3>2
  <2>4. QED BY <2>3 DEF ToSet
<1>3. \A m \in 1 .. 2 : ToSet(Migrations[m]) \subseteq Schema
  BY <1>1 DEF Schema
<1>4. Schema = ToSet(Migrations[1]) \cup ToSet(Migrations[2])
  BY <1>1 DEF Schema
<1>5. QED BY <1>1, <1>2, <1>3, <1>4

LEMMA CurrentFacts ==
  ASSUME applied \subseteq 1 .. 2, Unapplied # {}
  PROVE  Current \in 1 .. 2 /\ Current \notin applied
<1>1. Unapplied \subseteq 1 .. 2 BY MigrationFacts DEF Unapplied
<1>2. \E m \in Unapplied : \A n \in Unapplied : m <= n
  <2>1. CASE 1 \in Unapplied BY <1>1, <2>1
  <2>2. CASE 1 \notin Unapplied
    <3>1. PICK m \in Unapplied : TRUE OBVIOUS
    <3>2. \A n \in Unapplied : n = 2
      <4>1. TAKE n \in Unapplied
      <4>2. n \in 1 .. 2 BY <1>1
      <4>3. QED BY <2>2, <4>2
    <3>3. QED BY <3>1, <3>2
  <2>3. QED BY <2>1, <2>2
<1>3. Current \in Unapplied BY <1>2 DEF Current
<1>4. QED BY <1>1, <1>3 DEF Unapplied

LEMMA StartInitInv == StartInit => StartInv
BY MigrationFacts, FaultAssumption DEF StartInit, StartInv, StartTypeOK

LEMMA StartNextInv ==
  ASSUME StartInv, StartStep \/ Stop \/ Die \/ UNCHANGED startVars
  PROVE  StartInv'
<1> USE DEF StartInv, StartTypeOK
<1>1. applied \subseteq 1 .. 2 BY MigrationFacts
<1>2. CASE Start BY <1>2, MigrationFacts DEF Start
<1>3. CASE Execute
  <2>1. phase = "migrate" /\ Unapplied # {} /\ step <= Len(Migrations[Current])
        /\ UNCHANGED <<applied, faults>>
    BY <1>3 DEF Execute
  <2>2. Unapplied' = Unapplied /\ Current' = Current
    BY <2>1 DEF Unapplied, Current
  <2>3. Current \in 1 .. 2 BY <1>1, <2>1, CurrentFacts
  <2>4. CASE phase' = "down" /\ UNCHANGED <<schema, step>> BY <2>1, <2>4
  <2>5. CASE schema' = schema \cup {Statement} /\ step' = step + 1 /\ UNCHANGED phase
    <3>1. step \in 1 .. Len(Migrations[Current]) /\ step' \in 1 .. Len(Migrations[1]) + 1
      <4>1. Len(Migrations[Current]) \in 1 .. 7 /\ Len(Migrations[1]) = 7
        <5>1. Current = 1 \/ Current = 2 BY <2>3
        <5>2. QED BY <5>1, MigrationFacts
      <4>2. step \in 1 .. 8 BY <4>1
      <4>3. step \in 1 .. Len(Migrations[Current]) BY <2>1, <4>1, <4>2
      <4>4. \A n \in 1 .. 7 : \A k \in 1 .. n : k + 1 \in 1 .. 8
        <5> HIDE DEF StartInv, StartTypeOK
        <5>1. QED OBVIOUS
      <4>5. step + 1 \in 1 .. 8
        <5> HIDE DEF StartInv, StartTypeOK
        <5>1. QED BY <4>1, <4>3, <4>4
      <4>6. QED BY <2>5, <4>1, <4>3, <4>5
    <3>2. Statement \in Schema BY <2>3, <3>1, MigrationFacts DEF Statement
    <3>3. \A i \in 1 .. step' - 1 :
            i <= Len(Migrations[Current]) => Migrations[Current][i] \in schema'
      <4>1. TAKE i \in 1 .. step' - 1
      <4>2. i \in 1 .. step - 1 \/ i = step BY <2>5, <3>1
      <4>3. QED BY <2>1, <2>5, <4>2 DEF Statement
    <3>4. QED BY <2>1, <2>2, <2>5, <3>1, <3>2, <3>3
  <2>6. QED BY <1>3, <2>4, <2>5 DEF Execute
<1>4. CASE Record
  <2>1. Current \in 1 .. 2 BY <1>1, <1>4, CurrentFacts DEF Record
  <2>2. ToSet(Migrations[Current]) \subseteq schema
    <3>1. SUFFICES ASSUME NEW x \in ToSet(Migrations[Current]) PROVE x \in schema OBVIOUS
    <3>2. PICK i \in 1 .. Len(Migrations[Current]) : x = Migrations[Current][i]
      BY <2>1, MigrationFacts
    <3>3. Len(Migrations[Current]) \in Nat BY <2>1, MigrationFacts
    <3>4. i \in 1 .. step - 1 BY <1>4, <3>3 DEF Record
    <3>5. QED BY <1>4, <3>2, <3>3, <3>4 DEF Record
  <2>3. applied' = applied \cup {Current} /\ step' = 1 /\ UNCHANGED <<schema, phase, faults>>
        /\ phase = "migrate"
    BY <1>4 DEF Record
  <2>4. QED BY <2>1, <2>2, <2>3, MigrationFacts
<1>5. CASE Serve
  <2>1. applied = 1 .. Len(Migrations) BY <1>5 DEF Serve, Unapplied
  <2>2. QED BY <1>5, <2>1 DEF Serve
<1>6. CASE Exit BY <1>6 DEF Exit
<1>7. CASE Stop BY <1>7, FaultAssumption DEF Stop
<1>8. CASE Die BY <1>8, FaultAssumption DEF Die
<1>9. CASE UNCHANGED startVars
  <2>1. UNCHANGED <<schema, applied, phase, step, faults>> BY <1>9 DEF startVars
  <2>2. Unapplied' = Unapplied /\ Current' = Current BY <2>1 DEF Unapplied, Current
  <2>3. QED BY <2>1, <2>2
<1>10. QED BY <1>2, <1>3, <1>4, <1>5, <1>6, <1>7, <1>8, <1>9 DEF StartStep

LEMMA WholeWhenServing == StartInv => ServesWholeSchema
BY MigrationFacts DEF StartInv, StartTypeOK, ServesWholeSchema

-----------------------------------------------------------------------------
(* Looking up *)

Reading == {"query", "row", "store"}

\* The names in the first n - 1 rows.
Before(n) == {RoleRows[i] : i \in 1 .. n - 1}

\* Of each request.
RequestInv(r) ==
    /\ pc[r] \in {"idle", "notFound", "check", "reset", "query"} => next[r] = 1
    /\ pc[r] = "store" => next[r] <= Len(RoleRows)
    /\ next[r] > 1 => filled
    /\ pc[r] = "look" /\ r \notin cut => filled

\* While readings never met: the slice is what the one reading has got to, and
\* the whole table when there is none.
ReadingInv ==
    /\ \A q, r \in Requests : pc[q] \in Reading /\ pc[r] \in Reading => q = r
    /\ filled /\ (\A r \in Requests : pc[r] \notin Reading) => cache = Roles
    /\ \A r \in Requests :
         /\ pc[r] \in Reading => cache = Before(next[r])
         /\ pc[r] = "store" => seen[r] = cache

IInv ==
    /\ TypeOK
    /\ StartInv
    /\ \A r \in Requests : RequestInv(r)
    /\ ~damaged => ReadingInv

LEMMA RoleRowFacts ==
  /\ Len(RoleRows) = 3 /\ Roles = Before(4) /\ Before(1) = {}
  /\ \A i \in 1 .. 3 : /\ RoleRows[i] \in Roles
                        /\ Before(i + 1) = Before(i) \cup {RoleRows[i]}
  /\ "none" \in Roles
<1>1. DOMAIN RoleRows = 1 .. 3 /\ Len(RoleRows) = 3 BY DEF RoleRows
<1>2. Roles = Before(4) BY <1>1 DEF Roles, ToSet, Before
<1>3. Before(1) = {} BY DEF Before
<1>4. ASSUME NEW i \in 1 .. 3 PROVE Before(i + 1) = Before(i) \cup {RoleRows[i]}
  <2>1. 1 .. (i + 1) - 1 = (1 .. i - 1) \cup {i} OBVIOUS
  <2>2. QED BY <2>1 DEF Before
<1>5. \A i \in 1 .. 3 : RoleRows[i] \in Roles BY <1>1 DEF Roles, ToSet
<1>6. RoleRows[1] = "none" BY DEF RoleRows
<1>7. QED BY <1>1, <1>2, <1>3, <1>4, <1>5, <1>6

\* A new process starts right.
LEMMA FreshInv ==
  ASSUME Fresh, StartInv'
  PROVE  IInv'
<1>1. AnyWanted \in Wanted /\ 1 \in 1 .. Len(RoleRows) + 1
  BY RoleRowFacts DEF AnyWanted, Wanted
<1>2. TypeOK' BY <1>1 DEF Fresh, TypeOK, StartInv
<1>3. \A r \in Requests : RequestInv(r)' BY DEF Fresh, RequestInv
<1>4. ReadingInv' BY DEF Fresh, ReadingInv, Reading
<1>5. QED BY <1>2, <1>3, <1>4 DEF IInv

LEMMA InitIInv == Init => IInv
<1> SUFFICES ASSUME Init PROVE IInv OBVIOUS
<1>1. AnyWanted \in Wanted /\ 1 \in 1 .. Len(RoleRows) + 1
  BY RoleRowFacts DEF AnyWanted, Wanted
<1>2. StartInv BY StartInitInv DEF Init
<1>3. TypeOK BY <1>1, <1>2 DEF Init, TypeOK, StartInv
<1>4. \A r \in Requests : RequestInv(r) BY DEF Init, RequestInv
<1>5. ReadingInv BY DEF Init, ReadingInv, Reading
<1>6. QED BY <1>2, <1>3, <1>4, <1>5 DEF IInv

\* A request leaves the types of its variables alone, and the process too.
LEMMA ServingType ==
  ASSUME IInv, NEW r \in Requests, Serving(r), UNCHANGED startVars
  PROVE  TypeOK'
<1>1. StartTypeOK' BY DEF IInv, TypeOK, StartTypeOK, startVars
<1>2. AnyWanted \in Wanted /\ 1 \in 1 .. Len(RoleRows) + 1
  BY RoleRowFacts DEF AnyWanted, Wanted
<1> SUFFICES /\ cache' \subseteq Roles /\ filled' \in BOOLEAN
             /\ pc' \in [Requests -> {"idle", "check", "look", "notFound"} \cup Fetching]
             /\ wanted' \in [Requests -> Wanted]
             /\ next' \in [Requests -> 1 .. Len(RoleRows) + 1]
             /\ seen' \in [Requests -> SUBSET Roles]
             /\ cut' \subseteq Requests /\ damaged' \in BOOLEAN
  BY <1>1 DEF TypeOK
<1> USE DEF IInv, TypeOK, Goto, Answer, Fetching
<1>4. CASE Receive(r) BY <1>4 DEF Receive
<1>5. CASE Check(r) BY <1>5 DEF Check
<1>6. CASE Reset(r) BY <1>6 DEF Reset
<1>7. CASE Query(r) BY <1>7 DEF Query
<1>8. CASE ReadRow(r) BY <1>8 DEF ReadRow
<1>9. CASE Store(r)
  <2>1. next[r] \in 1 .. 3 BY <1>9, RoleRowFacts DEF Store, RequestInv
  <2>2. next[r] + 1 \in 1 .. Len(RoleRows) + 1 BY <2>1, RoleRowFacts
  <2>3. RoleRows[next[r]] \in Roles BY <2>1, RoleRowFacts
  <2>4. QED BY <1>9, <2>2, <2>3 DEF Store
<1>10. CASE FailFetch(r) BY <1>2, <1>10 DEF FailFetch
<1>11. CASE BreakOff(r) BY <1>11 DEF BreakOff
<1>12. CASE Look(r) BY <1>2, <1>12 DEF Look
<1>13. QED BY <1>4, <1>5, <1>6, <1>7, <1>8, <1>9, <1>10, <1>11, <1>12 DEF Serving

\* A reading that ends has seen the whole table, because the server starts over
\* nothing less.
LEMMA EndOfTable ==
  ASSUME IInv, phase \in {"serving", "stopping"}, NEW r \in Requests,
         ~(next[r] <= Len(RoleRows) /\ RoleRows[next[r]] \in schema)
  PROVE  next[r] = 4
<1>1. Schema \subseteq schema BY WholeWhenServing DEF IInv, ServesWholeSchema
<1>2. \A i \in 1 .. 3 : RoleRows[i] \in Schema
  <2>1. \A i \in 1 .. 3 : Migrations[1][4 + i] = RoleRows[i] BY DEF Migrations, RoleRows
  <2>2. \A i \in 1 .. 3 : 4 + i \in 1 .. Len(Migrations[1]) BY MigrationFacts
  <2>3. QED BY <2>1, <2>2, MigrationFacts
<1>3. next[r] \in 1 .. 4 BY RoleRowFacts DEF IInv, TypeOK
<1>4. QED BY <1>1, <1>2, <1>3, RoleRowFacts

LEMMA ServingRequests ==
  ASSUME IInv, NEW r \in Requests, Serving(r), phase \in {"serving", "stopping"}
  PROVE  \A q \in Requests : RequestInv(q)'
<1> SUFFICES ASSUME NEW q \in Requests PROVE RequestInv(q)' OBVIOUS
<1> USE DEF IInv, TypeOK, Goto, Answer, RequestInv
<1>1. next[r] \in 1 .. 4 /\ next[q] \in 1 .. 4 /\ Len(RoleRows) = 3 BY RoleRowFacts
<1>2. CASE Receive(r) BY <1>2 DEF Receive
<1>3. CASE Check(r) BY <1>3 DEF Check
<1>4. CASE Reset(r) BY <1>4 DEF Reset
<1>5. CASE Query(r) BY <1>5 DEF Query
<1>6. CASE ReadRow(r)
  <2>1. CASE next[r] <= Len(RoleRows) /\ RoleRows[next[r]] \in schema
    BY <1>6, <2>1 DEF ReadRow
  <2>2. CASE ~(next[r] <= Len(RoleRows) /\ RoleRows[next[r]] \in schema)
    <3>1. next[r] = 4 BY <2>2, EndOfTable
    <3>2. filled BY <3>1
    <3>3. QED BY <1>6, <2>2, <3>2 DEF ReadRow
  <2>3. QED BY <2>1, <2>2
<1>7. CASE Store(r) BY <1>1, <1>7 DEF Store
<1>8. CASE FailFetch(r) BY <1>1, <1>8 DEF FailFetch
<1>9. CASE BreakOff(r) BY <1>9 DEF BreakOff
<1>10. CASE Look(r) BY <1>1, <1>10 DEF Look
<1>11. QED BY <1>2, <1>3, <1>4, <1>5, <1>6, <1>7, <1>8, <1>9, <1>10 DEF Serving

LEMMA ServingReadings ==
  ASSUME IInv, NEW r \in Requests, Serving(r), phase \in {"serving", "stopping"}, ~damaged'
  PROVE  ReadingInv'
<1>1. ~damaged
  BY DEF Serving, Receive, Check, Reset, Query, ReadRow, Store, FailFetch, BreakOff, Look
<1>2. ReadingInv BY <1>1 DEF IInv
<1> USE <1>2 DEF IInv, TypeOK, Goto, Answer, ReadingInv, Reading
<1>3. CASE Receive(r) BY <1>3 DEF Receive
<1>4. CASE Check(r) BY <1>4 DEF Check
<1>5. CASE Reset(r)
  <2>1. \A q \in Requests \ {r} : pc[q] \notin {"query", "row", "store"} BY <1>5 DEF Reset
  <2>2. next[r] = 1 /\ cache' = {} /\ UNCHANGED <<next, seen>> BY <1>5 DEF Reset, RequestInv
  <2>3. pc'[r] = "query" /\ \A q \in Requests \ {r} : pc'[q] = pc[q] BY <1>5 DEF Reset
  <2>4. QED BY <2>1, <2>2, <2>3, RoleRowFacts
<1>6. CASE Query(r) BY <1>6 DEF Query
<1>7. CASE ReadRow(r)
  <2>1. CASE next[r] <= Len(RoleRows) /\ RoleRows[next[r]] \in schema
    BY <1>7, <2>1 DEF ReadRow
  <2>2. CASE ~(next[r] <= Len(RoleRows) /\ RoleRows[next[r]] \in schema)
    <3>1. next[r] = 4 BY <2>2, EndOfTable
    <3>2. cache = Roles BY <1>7, <3>1, RoleRowFacts DEF ReadRow
    <3>3. QED BY <1>7, <2>2, <3>2 DEF ReadRow
  <2>3. QED BY <2>1, <2>2
<1>8. CASE Store(r)
  <2>1. next[r] \in 1 .. 3 BY <1>8, RoleRowFacts DEF Store, RequestInv
  <2>2. cache' = Before(next[r] + 1) BY <1>8, <2>1, RoleRowFacts DEF Store
  <2>3. next'[r] = next[r] + 1 /\ pc'[r] = "row"
        /\ \A q \in Requests \ {r} : pc'[q] = pc[q]
    BY <1>8 DEF Store
  <2>4. \A q \in Requests \ {r} : pc[q] \notin {"query", "row", "store"} BY <1>8 DEF Store
  <2>5. QED BY <2>2, <2>3, <2>4
<1>9. CASE FailFetch(r) BY <1>9 DEF FailFetch
<1>10. CASE BreakOff(r) BY <1>10 DEF BreakOff
<1>11. CASE Look(r) BY <1>11 DEF Look
<1>12. QED BY <1>3, <1>4, <1>5, <1>6, <1>7, <1>8, <1>9, <1>10, <1>11 DEF Serving

LEMMA NextIInv == IInv /\ [Next]_vars => IInv'
<1> SUFFICES ASSUME IInv, [Next]_vars PROVE IInv' OBVIOUS
<1>1. CASE StartStep /\ (IF phase' = "down" THEN Fresh ELSE UNCHANGED roleVars)
  <2>1. StartInv' BY <1>1, StartNextInv DEF IInv
  <2>2. CASE Fresh BY <2>1, <2>2, FreshInv
  <2>3. CASE UNCHANGED roleVars
    BY <2>1, <2>3 DEF IInv, TypeOK, StartInv, roleVars, RequestInv, ReadingInv
  <2>4. QED BY <1>1, <2>2, <2>3
<1>2. CASE Stop /\ UNCHANGED roleVars
  <2>1. StartInv' BY <1>2, StartNextInv DEF IInv
  <2>2. QED BY <1>2, <2>1 DEF IInv, TypeOK, StartInv, roleVars, RequestInv, ReadingInv
<1>3. CASE Die /\ Fresh
  <2>1. StartInv' BY <1>3, StartNextInv DEF IInv
  <2>2. QED BY <1>3, <2>1, FreshInv
<1>4. ASSUME NEW r \in Requests,
             phase \in {"serving", "stopping"} /\ Serving(r) /\ UNCHANGED startVars
      PROVE  IInv'
  <2>1. StartInv' BY <1>4, StartNextInv DEF IInv
  <2>2. QED BY <1>4, <2>1, ServingType, ServingRequests, ServingReadings DEF IInv
<1>5. CASE UNCHANGED vars
  <2>1. StartInv' BY <1>5, StartNextInv DEF IInv, vars
  <2>2. QED BY <1>5, <2>1 DEF vars, IInv, TypeOK, StartInv, roleVars, RequestInv, ReadingInv
<1>6. QED BY <1>1, <1>2, <1>3, <1>4, <1>5 DEF Next

-----------------------------------------------------------------------------

\* The inductive invariant holds in every state.
THEOREM Invariance == Spec => []IInv
BY InitIInv, NextIInv, PTL DEF Spec

\* The variables keep their types, for any number of requests and faults.
THEOREM TypeCorrect == Spec => []TypeOK
BY Invariance, PTL DEF IInv

\* However often starts were cut off, no request is served over a part of the
\* schema.
THEOREM WholeSchema == Spec => []ServesWholeSchema
<1>1. IInv => ServesWholeSchema BY WholeWhenServing DEF IInv
<1>2. QED BY <1>1, Invariance, PTL

\* Reading the table once, without a lock, refuses a role that exists only where
\* readings met or broke off.
THEOREM RefusalsExplained == Spec => RefusedOnlyWhenDisturbed
<1> DEFINE Explained(r) ==
      pc[r] = "look" /\ pc'[r] = "notFound" /\ Findable(r) =>
             \/ damaged \/ r \in cut
             \/ \E q \in Requests \ {r} : pc[q] \in Fetching
<1>1. ASSUME IInv, [Next]_vars, NEW r \in Requests PROVE Explained(r)
  <2> SUFFICES ASSUME pc[r] = "look", pc'[r] = "notFound", Findable(r),
                      ~damaged, r \notin cut,
                      \A q \in Requests \ {r} : pc[q] \notin Fetching
               PROVE  FALSE
    OBVIOUS
  <2>1. cache = Roles
    BY <1>1 DEF IInv, RequestInv, ReadingInv, Reading, Fetching
  <2>2. Look(r)
    <3>1. ~UNCHANGED pc OBVIOUS
    <3>2. ~Fresh BY DEF Fresh
    <3>3. PICK q \in Requests : Serving(q)
      BY <1>1, <3>1, <3>2 DEF Next, vars, roleVars
    <3>4. q = r
      BY <1>1, <3>3 DEF Serving, Receive, Check, Reset, Query, ReadRow, Store, FailFetch, BreakOff,
                        Look, Goto, Answer, IInv, TypeOK
    <3>5. QED
      BY <3>3, <3>4 DEF Serving, Receive, Check, Reset, Query, ReadRow, Store, FailFetch, BreakOff
  <2>3. ~Racing(r) BY DEF Racing, Fetching
  <2>4. wanted[r].role \in Roles BY <1>1 DEF IInv, TypeOK, Wanted
  <2>5. Answer(r, "idle") BY <2>1, <2>2, <2>3, <2>4 DEF Look
  <2>6. QED BY <1>1, <2>5 DEF Answer, Goto, IInv, TypeOK
<1>2. IInv /\ [Next]_vars => [\A r \in Requests : Explained(r)]_vars
  BY <1>1
<1>3. QED BY <1>2, Invariance, PTL DEF Spec, RefusedOnlyWhenDisturbed
=============================================================================
