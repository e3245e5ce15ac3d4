----------------------------- MODULE Alerts_proofs -----------------------------
(***************************************************************************)
(* Theorems about Alerts, for any accounts and quotas and for any requests,*)
(* infinitely many included.                                               *)
(***************************************************************************)
EXTENDS Alerts, FiniteSetTheorems, TLAPS

-----------------------------------------------------------------------------
(* The inductive invariant *)

\* The requests of an account that overran its quota.
Overran(a) == {r \in overran : who[r] = a}

\* What the checks of CreateStrategyAlert have found out stays true of the
\* request, as nothing in the server changes a role.
EntitlementInv ==
    /\ \A r \in Requests :
         /\ pc[r] \in {"plan", "count", "webhook", "create"} => role[who[r]] = "member"
         /\ pc[r] \in Running /\ webhooks[who[r]] > 0 => r \in hooked
         /\ pc[r] = "create" => r \in hooked
    /\ AlertsAreEntitled

\* A request that has counted, and is not stale, has still room for its alert.
Room(a) == Cardinality(alerts[a]) < Allowance(a) + Cardinality(Overran(a))

QuotaInv ==
    /\ IsFiniteSet(overran)
    /\ \A a \in Accounts : IsFiniteSet(alerts[a])
    /\ \A r \in Requests :
         /\ pc[r] \in {"idle", "role", "plan", "count", "webhook", "create"} => r \notin overran
         /\ pc[r] \in {"webhook", "create"} /\ Limited(who[r]) /\ r \notin stale => Room(who[r])
    /\ OverrunOnlyByOverlap

IInv == TypeOK /\ EntitlementInv /\ QuotaInv

-----------------------------------------------------------------------------
(* Lemmas *)

LEMMA QuotaType ==
  ASSUME TypeOK, NEW a \in Accounts
  PROVE  Quota(a) \in Int /\ Allowance(a) \in Nat /\ Quota(a) <= Allowance(a)
<1>1. Plan(a) \in Plans BY DEF TypeOK, Subscriptions, Plan, Plans
<1>2. DecodedMax \in Int BY DEF DecodedMax
<1>3. Quota(a) \in Int BY <1>1, <1>2, QuotaAssumption DEF Quota, Plans
<1>4. QED BY <1>3 DEF Allowance

\* No step changes a role, a subscription, or what they grant.
LEMMA ConfigKept ==
  ASSUME UNCHANGED config
  PROVE  /\ role' = role
         /\ \A a : Allowance(a)' = Allowance(a) /\ Limited(a)' = Limited(a)
BY DEF config, Quota, Allowance, Limited, Unlimited, Plan

LEMMA OverranFinite ==
  ASSUME IsFiniteSet(overran), NEW a
  PROVE  IsFiniteSet(Overran(a)) /\ Cardinality(Overran(a)) \in Nat
<1>1. Overran(a) \in SUBSET overran BY DEF Overran
<1>2. QED BY <1>1, FS_Subset, FS_CardinalityType

LEMMA InitIInv == Init => IInv
<1> SUFFICES ASSUME Init PROVE IInv OBVIOUS
<1>1. TypeOK BY QuotaAssumption DEF Init, TypeOK
<1>2. EntitlementInv BY DEF Init, EntitlementInv, AlertsAreEntitled, Running
<1>3. QuotaInv
  <2>1. \A a \in Accounts : alerts[a] = {} BY DEF Init
  <2>2. IsFiniteSet(overran) BY FS_EmptySet DEF Init
  <2>3. OverrunOnlyByOverlap
    <3> SUFFICES ASSUME NEW a \in Accounts
                 PROVE  Cardinality(alerts[a]) <= Allowance(a) + Cardinality(Overran(a))
      BY DEF OverrunOnlyByOverlap, Overran
    <3>1. Cardinality(alerts[a]) = 0 BY <2>1, FS_EmptySet
    <3>2. QED BY <1>1, <2>2, <3>1, QuotaType, OverranFinite
  <2>4. QED BY <2>1, <2>2, <2>3, FS_EmptySet DEF Init, QuotaInv
<1>4. QED BY <1>1, <1>2, <1>3 DEF IInv

\* A step of one request, whichever it is.
Step(r) ==
    \/ Receive(r) \/ CheckRole(r) \/ LookUpPlan(r) \/ CountAlerts(r)
    \/ CheckWebhooks(r) \/ Create(r) \/ Created(r) \/ Delete(r)
    \/ AddWebhook(r) \/ DropWebhook(r) \/ Fail(r)

LEMMA StepType ==
  ASSUME TypeOK, NEW r \in Requests, Step(r)
  PROVE  TypeOK' /\ UNCHANGED config /\ UNCHANGED <<kind, who>>
<1> USE DEF TypeOK, Goto, config, requests
<1>1. CASE Receive(r) BY <1>1 DEF Receive, Kinds, Running
<1>2. CASE CheckRole(r) BY <1>2 DEF CheckRole, Running, Answered
<1>3. CASE LookUpPlan(r) BY <1>3 DEF LookUpPlan, Running, Answered
<1>4. CASE CountAlerts(r) BY <1>4 DEF CountAlerts, Running, Answered
<1>5. CASE CheckWebhooks(r) BY <1>5 DEF CheckWebhooks, Running, Answered
<1>6. CASE Create(r) BY <1>6 DEF Create, Running, Answered
<1>7. CASE Created(r) BY <1>7 DEF Created, Running, Answered
<1>8. CASE Delete(r) BY <1>8 DEF Delete, Running, Answered
<1>9. CASE AddWebhook(r) BY <1>9 DEF AddWebhook, Running, Answered
<1>10. CASE DropWebhook(r) BY <1>10 DEF DropWebhook, Running, Answered
<1>11. CASE Fail(r) BY <1>11 DEF Fail, Running, Answered
<1>12. QED
  BY <1>1, <1>2, <1>3, <1>4, <1>5, <1>6, <1>7, <1>8, <1>9, <1>10, <1>11 DEF Step

LEMMA StepEntitlement ==
  ASSUME IInv, NEW r \in Requests, Step(r)
  PROVE  EntitlementInv'
<1>1. UNCHANGED config /\ UNCHANGED <<kind, who>> /\ role' = role
  BY StepType, ConfigKept DEF IInv
<1> USE <1>1 DEF IInv, TypeOK, Goto, EntitlementInv, AlertsAreEntitled, Running
<1>2. CASE Receive(r) BY <1>2 DEF Receive, Kinds
<1>3. CASE CheckRole(r) BY <1>3 DEF CheckRole, RoleOf
<1>4. CASE LookUpPlan(r) BY <1>4 DEF LookUpPlan
<1>5. CASE CountAlerts(r) BY <1>5 DEF CountAlerts
<1>6. CASE CheckWebhooks(r) BY <1>6 DEF CheckWebhooks
<1>7. CASE Create(r) BY <1>7 DEF Create
<1>8. CASE Created(r) BY <1>8 DEF Created
<1>9. CASE Delete(r) BY <1>9 DEF Delete
<1>10. CASE AddWebhook(r) BY <1>10 DEF AddWebhook
<1>11. CASE DropWebhook(r) BY <1>11 DEF DropWebhook
<1>12. CASE Fail(r) BY <1>12 DEF Fail
<1>13. QED
  BY <1>2, <1>3, <1>4, <1>5, <1>6, <1>7, <1>8, <1>9, <1>10, <1>11, <1>12 DEF Step

\* The steps that leave the alerts and the history of overruns alone.
LEMMA QuietQuota ==
  ASSUME IInv, NEW r \in Requests, Step(r), UNCHANGED <<alerts, overran>>
  PROVE  QuotaInv'
<1>1. UNCHANGED config /\ UNCHANGED <<kind, who>> /\ TypeOK' BY StepType DEF IInv
<1>2. \A a : Allowance(a)' = Allowance(a) /\ (Limited(a)' <=> Limited(a)) /\ Overran(a)' = Overran(a)
  BY <1>1, ConfigKept DEF Overran
<1>3. \A a : Room(a)' <=> Room(a) BY <1>2 DEF Room
<1>4. ASSUME NEW q \in Requests,
             pc'[q] \in {"idle", "role", "plan", "count", "webhook", "create"}
      PROVE  q \notin overran'
  <2>1. pc[q] \in {"idle", "role", "plan", "count", "webhook", "create"}
    BY <1>4 DEF Step, Receive, CheckRole, LookUpPlan, CountAlerts, CheckWebhooks, Create, Created,
                Delete, AddWebhook, DropWebhook, Fail, Goto, IInv, TypeOK
  <2>2. QED BY <2>1 DEF IInv, QuotaInv
<1>5. ASSUME NEW q \in Requests, pc'[q] \in {"webhook", "create"}, Limited(who[q]), q \notin stale'
      PROVE  Room(who[q])
  <2>1. CASE pc[q] \in {"webhook", "create"} /\ q \notin stale
    BY <1>5, <2>1 DEF IInv, QuotaInv
  <2>2. CASE ~(pc[q] \in {"webhook", "create"} /\ q \notin stale)
    <3>1. q = r /\ CountAlerts(r)
      BY <1>5, <2>2 DEF Step, Receive, CheckRole, LookUpPlan, CountAlerts, CheckWebhooks, Create,
                        Created, Delete, AddWebhook, DropWebhook, Fail, Goto, IInv, TypeOK, Limited, Kinds
    <3>2. /\ Cardinality(alerts[who[r]]) \in Nat /\ Quota(who[r]) \in Int
          /\ Allowance(who[r]) \in Nat /\ Quota(who[r]) <= Allowance(who[r])
      BY QuotaType, FS_CardinalityType DEF IInv, TypeOK, QuotaInv
    <3>3. Cardinality(alerts[who[r]]) < Quota(who[r])
      BY <1>5, <3>1, <3>2 DEF CountAlerts, Goto, IInv, TypeOK
    <3>4. QED BY <3>1, <3>2, <3>3, OverranFinite DEF Room, IInv, QuotaInv
  <2>3. QED BY <2>1, <2>2
<1>6. OverrunOnlyByOverlap' BY <1>2 DEF IInv, QuotaInv, OverrunOnlyByOverlap, Overran
<1>7. QED BY <1>1, <1>2, <1>3, <1>4, <1>5, <1>6 DEF IInv, QuotaInv

\* An alert that is created is one more; and either it is one more overrun, or
\* there was room for it.
LEMMA CreateQuota ==
  ASSUME IInv, NEW r \in Requests, Create(r)
  PROVE  QuotaInv'
<1> DEFINE a == who[r]
<1> USE DEF IInv, TypeOK, Goto
<1>1. /\ UNCHANGED config /\ UNCHANGED <<kind, who>> /\ Step(r)
      /\ a \in Accounts /\ pc[r] = "create"
      /\ alerts' = [alerts EXCEPT ![a] = @ \cup {r}]
      /\ pc' = [pc EXCEPT ![r] = "created"]
      /\ r \notin overran
  BY DEF Create, Step, config, requests, QuotaInv
<1>2. \A b : Allowance(b)' = Allowance(b) /\ (Limited(b)' <=> Limited(b)) BY <1>1, ConfigKept
<1>3. /\ IsFiniteSet(overran') /\ \A b \in Accounts : IsFiniteSet(alerts'[b])
  <2>1. IsFiniteSet(overran \cup {r}) BY FS_AddElement DEF QuotaInv
  <2>2. IsFiniteSet(alerts[a] \cup {r}) BY <1>1, FS_AddElement DEF QuotaInv
  <2>3. QED BY <1>1, <2>1, <2>2 DEF Create, QuotaInv
<1>4. ASSUME NEW b \in Accounts, b # a
      PROVE  alerts'[b] = alerts[b] /\ Overran(b)' = Overran(b)
  BY <1>1, <1>4 DEF Create, Overran
<1>5. ASSUME NEW b \in Accounts, b = a, Limited(b)
      PROVE  Cardinality(alerts'[b]) <= Allowance(b) + Cardinality(Overran(b)')
  <2>1. /\ Allowance(b) \in Nat /\ IsFiniteSet(Overran(b)) /\ Cardinality(Overran(b)) \in Nat
        /\ Cardinality(alerts[b]) \in Nat
    BY <1>1, <1>5, QuotaType, OverranFinite, FS_CardinalityType DEF QuotaInv
  <2>2. /\ Cardinality(alerts'[b]) \in Nat
        /\ Cardinality(alerts'[b]) <= Cardinality(alerts[b]) + 1
    <3>1. alerts'[b] = alerts[b] \cup {r} BY <1>1, <1>5
    <3>2. Cardinality(alerts'[b]) = IF r \in alerts[b] THEN Cardinality(alerts[b])
                                                      ELSE Cardinality(alerts[b]) + 1
      BY <1>1, <1>5, <3>1, FS_AddElement DEF QuotaInv
    <3>3. QED BY <2>1, <3>2
  <2>3. CASE r \in stale
    <3>1. Overran(b)' = Overran(b) \cup {r} BY <1>1, <1>5, <2>3 DEF Create, Overran
    <3>2. r \notin Overran(b) BY <1>1, <1>5 DEF Overran
    <3>3. Cardinality(Overran(b)') = Cardinality(Overran(b)) + 1
      BY <2>1, <3>1, <3>2, FS_AddElement
    <3>4. Cardinality(alerts[b]) <= Allowance(b) + Cardinality(Overran(b))
      BY <1>1, <1>5 DEF QuotaInv, OverrunOnlyByOverlap, Overran
    <3>5. QED BY <2>1, <2>2, <3>3, <3>4
  <2>4. CASE r \notin stale
    <3>1. Overran(b)' = Overran(b) BY <1>1, <1>5, <2>4 DEF Create, Overran
    <3>2. Cardinality(alerts[b]) < Allowance(b) + Cardinality(Overran(b))
      BY <1>1, <1>5, <2>4 DEF QuotaInv, Room
    <3>3. QED BY <2>1, <2>2, <3>1, <3>2
  <2>5. QED BY <2>3, <2>4
<1>6. OverrunOnlyByOverlap'
  <2> SUFFICES ASSUME NEW b \in Accounts, Limited(b)
               PROVE  Cardinality(alerts'[b]) <= Allowance(b) + Cardinality(Overran(b)')
    BY <1>2 DEF OverrunOnlyByOverlap, Overran
  <2>1. CASE b = a BY <1>5, <2>1
  <2>2. CASE b # a BY <1>4, <2>2 DEF QuotaInv, OverrunOnlyByOverlap, Overran
  <2>3. QED BY <2>1, <2>2
<1>7. ASSUME NEW q \in Requests, pc'[q] \in {"webhook", "create"}, Limited(who[q]), q \notin stale'
      PROVE  Room(who[q])'
  <2>1. q # r /\ pc[q] = pc'[q] BY <1>1, <1>7
  <2>2. who[q] # a /\ q \notin stale BY <1>7, <2>1 DEF Create
  <2>3. Room(who[q]) BY <1>7, <2>1, <2>2 DEF QuotaInv
  <2>4. QED BY <1>1, <1>2, <1>4, <2>2, <2>3 DEF Room
<1>8. ASSUME NEW q \in Requests,
             pc'[q] \in {"idle", "role", "plan", "count", "webhook", "create"}
      PROVE  q \notin overran'
  BY <1>1, <1>8 DEF Create, QuotaInv
<1>9. QED BY <1>1, <1>2, <1>3, <1>6, <1>7, <1>8 DEF QuotaInv

\* An alert that is deleted makes room.
LEMMA DeleteQuota ==
  ASSUME IInv, NEW r \in Requests, Delete(r)
  PROVE  QuotaInv'
<1> USE DEF IInv, TypeOK, Goto
<1>1. UNCHANGED config /\ UNCHANGED <<kind, who, stale, overran>> /\ Step(r)
  BY DEF Delete, Step, config, requests
<1>2. \A b : Allowance(b)' = Allowance(b) /\ (Limited(b)' <=> Limited(b)) /\ Overran(b)' = Overran(b)
  BY <1>1, ConfigKept DEF Overran
<1>3. ASSUME NEW b \in Accounts
      PROVE  /\ IsFiniteSet(alerts'[b])
             /\ Cardinality(alerts'[b]) \in Nat /\ Cardinality(alerts[b]) \in Nat
             /\ Cardinality(alerts'[b]) <= Cardinality(alerts[b])
  <2>1. alerts'[b] \in SUBSET alerts[b] BY DEF Delete
  <2>2. QED BY <2>1, FS_Subset, FS_CardinalityType DEF QuotaInv
<1>4. \A b \in Accounts : Allowance(b) \in Nat /\ Cardinality(Overran(b)) \in Nat
  BY QuotaType, OverranFinite DEF QuotaInv
<1>5. OverrunOnlyByOverlap'
  <2> SUFFICES ASSUME NEW b \in Accounts, Limited(b)
               PROVE  Cardinality(alerts'[b]) <= Allowance(b) + Cardinality(Overran(b))
    BY <1>2 DEF OverrunOnlyByOverlap, Overran
  <2>1. Cardinality(alerts[b]) <= Allowance(b) + Cardinality(Overran(b))
    BY DEF QuotaInv, OverrunOnlyByOverlap, Overran
  <2>2. QED BY <1>3, <1>4, <2>1
<1>6. ASSUME NEW q \in Requests
      PROVE  pc'[q] \in {"idle", "role", "plan", "count", "webhook", "create"} => pc'[q] = pc[q]
  BY DEF Delete
<1>7. ASSUME NEW q \in Requests, Room(who[q]) PROVE Room(who[q])'
  <2>1. who[q] \in Accounts OBVIOUS
  <2>2. Cardinality(alerts'[who[q]]) < Allowance(who[q]) + Cardinality(Overran(who[q]))
    BY <1>3, <1>4, <1>7, <2>1 DEF Room
  <2>3. QED BY <1>1, <1>2, <2>2 DEF Room
<1>8. QED BY <1>1, <1>2, <1>3, <1>5, <1>6, <1>7 DEF QuotaInv

LEMMA CrashStep ==
  ASSUME IInv, Crash
  PROVE  IInv'
<1> USE DEF IInv, Crash
<1>1. UNCHANGED config /\ UNCHANGED <<kind, who>> BY DEF requests
<1>2. \A b : /\ Allowance(b)' = Allowance(b) /\ (Limited(b)' <=> Limited(b)) /\ Overran(b)' = Overran(b)
             /\ (Room(b)' <=> Room(b))
  BY <1>1, ConfigKept DEF Overran, Room
<1>3. \A q \in Requests : pc'[q] \notin Running /\ (pc'[q] = "idle" => pc[q] = "idle")
  BY DEF Running
<1>4. TypeOK' BY DEF TypeOK, requests, config, Running, Answered
<1>5. EntitlementInv'
  BY <1>1, <1>3, ConfigKept DEF EntitlementInv, AlertsAreEntitled, Running
<1>6. QuotaInv' BY <1>1, <1>2, <1>3 DEF QuotaInv, OverrunOnlyByOverlap, Overran, Running
<1>7. QED BY <1>4, <1>5, <1>6

LEMMA NextIInv == IInv /\ [Next]_vars => IInv'
<1> SUFFICES ASSUME IInv, [Next]_vars PROVE IInv' OBVIOUS
<1>1. ASSUME NEW r \in Requests, Step(r) PROVE IInv'
  <2>1. TypeOK' BY <1>1, StepType DEF IInv
  <2>2. EntitlementInv' BY <1>1, StepEntitlement
  <2>3. QuotaInv'
    <3>1. CASE Create(r) BY <3>1, CreateQuota
    <3>2. CASE Delete(r) BY <3>2, DeleteQuota
    <3>3. CASE UNCHANGED <<alerts, overran>> BY <1>1, <3>3, QuietQuota
    <3>4. QED
      BY <1>1, <3>1, <3>2, <3>3 DEF Step, Receive, CheckRole, LookUpPlan, CountAlerts,
                                    CheckWebhooks, Created, AddWebhook, DropWebhook, Fail
  <2>4. QED BY <2>1, <2>2, <2>3 DEF IInv
<1>2. CASE Crash BY <1>2, CrashStep
<1>3. CASE UNCHANGED vars
  <2>1. UNCHANGED config BY <1>3 DEF vars
  <2>2. \A b : /\ Allowance(b)' = Allowance(b) /\ (Limited(b)' <=> Limited(b))
               /\ Overran(b)' = Overran(b) /\ (Room(b)' <=> Room(b))
    BY <1>3, <2>1, ConfigKept DEF Overran, Room, vars, requests
  <2>3. QED
    BY <1>3, <2>2 DEF vars, config, requests, IInv, TypeOK, EntitlementInv, AlertsAreEntitled,
                      QuotaInv, OverrunOnlyByOverlap, Overran
<1>4. QED BY <1>1, <1>2, <1>3 DEF Next, Step

-----------------------------------------------------------------------------

\* The inductive invariant holds in every state.
THEOREM Invariance == Spec => []IInv
BY InitIInv, NextIInv, PTL DEF Spec

\* The variables keep their types; above all, no account gets a negative
\* number of webhooks.
THEOREM TypeCorrect == Spec => []TypeOK
BY Invariance, PTL DEF IInv

\* However many requests count and create at once, fail or are cut off, only
\* those that counted before another alert was created overrun the quota.
THEOREM BoundedOverrun == Spec => []OverrunOnlyByOverlap
<1>1. IInv => OverrunOnlyByOverlap BY DEF IInv, QuotaInv
<1>2. QED BY <1>1, Invariance, PTL

\* No interleaving of the checks with changes of the webhooks lets an account
\* have an alert it was never entitled to.
THEOREM EntitledAlerts == Spec => []AlertsAreEntitled
<1>1. IInv => AlertsAreEntitled BY DEF IInv, EntitlementInv
<1>2. QED BY <1>1, Invariance, PTL
=============================================================================
