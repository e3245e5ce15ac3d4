------------------------------- MODULE Alerts -------------------------------
(***************************************************************************)
(* Trading alerts: the handlers CreateStrategyAlert and                    *)
(* DeleteStrategyAlert of internal/logic/http/strategy.go, and the webhook *)
(* handlers of internal/logic/http/profile.go as far as an alert depends   *)
(* on a webhook.  Creating an alert checks the role, the plan, the number  *)
(* of alerts and the webhooks of the account, one call after the other,    *)
(* and then asks the strategy service, a separate process, to store it.    *)
(***************************************************************************)
EXTENDS Integers, FiniteSets

CONSTANTS
    Accounts,
    Requests,      \* each is served once
    FreeQuota, ProQuota,
    MaxQuota,      \* a number, or anything else, such as "*"
    MaxLimit,      \* the largest limit that a call may name, a uint32
    MaxWebhooks    \* bound: webhooks an account has at the start

\* Nothing in the code keeps a quota from being 0 or negative.  None is so large
\* that the limit of CountAlerts wraps around.
ASSUME QuotaAssumption ==
    /\ FreeQuota \in Int /\ ProQuota \in Int
    /\ MaxLimit \in Nat /\ MaxWebhooks \in Nat
    /\ \A quota \in {FreeQuota, ProQuota, MaxQuota} : quota \in Int => quota < MaxLimit

Roles == {"none", "admin", "member"}
Plans == {"free", "pro", "max"}

\* No subscription at all, or one whose status may be other than "active".
Subscriptions == {"absent"} \cup (Plans \X BOOLEAN)

VARIABLES
    role, subscription,    \* of each account; nothing in the server changes them
    webhooks,      \* the number of webhooks of each account
    alerts,        \* in the strategy service: the alerts of each account, each
                   \* identified by the request that created it
    pc, kind, who, \* each request: where it is, what it asks for, its account
    target,        \* the alert it is to delete
    stale,         \* history: since these counted, another alert was created
    overran,       \* history: the requests that created an alert while stale
    hooked         \* history: the account had a webhook since these arrived

config == <<role, subscription>>
requests == <<kind, who, target>>
vars == <<config, webhooks, alerts, pc, requests, stale, overran, hooked>>

Kinds == {"create", "delete", "addWebhook", "dropWebhook"}
Running == {"role", "plan", "count", "webhook", "create", "created", "delete",
            "addWebhook", "dropWebhook"}
Answered == {"201", "204", "400", "402", "403", "404", "422", "500", "gone"}

TypeOK ==
    /\ role \in [Accounts -> Roles]
    /\ subscription \in [Accounts -> Subscriptions]
    /\ webhooks \in [Accounts -> Nat]
    /\ alerts \in [Accounts -> SUBSET Requests]
    /\ pc \in [Requests -> {"idle"} \cup Running \cup Answered]
    /\ kind \in [Requests -> Kinds]
    /\ who \in [Requests -> Accounts]
    /\ target \in [Requests -> Requests]
    /\ stale \subseteq Requests /\ overran \subseteq Requests /\ hooked \subseteq Requests

Init ==
    /\ role \in [Accounts -> Roles]
    /\ subscription \in [Accounts -> Subscriptions]
    /\ webhooks \in [Accounts -> 0 .. MaxWebhooks]
    /\ alerts = [a \in Accounts |-> {}]
    /\ pc = [r \in Requests |-> "idle"]
    /\ kind \in [Requests -> Kinds]
    /\ who \in [Requests -> Accounts]
    /\ target = [r \in Requests |-> r]
    /\ stale = {} /\ overran = {} /\ hooked = {}

Goto(r, there) == pc' = [pc EXCEPT ![r] = there]

\* The request arrives with a verified access token.
Receive(r) ==
    /\ pc[r] = "idle"
    /\ Goto(r, IF kind[r] = "create" THEN "role" ELSE kind[r])
    /\ IF kind[r] = "delete"
       THEN \E q \in Requests : target' = [target EXCEPT ![r] = q]
       ELSE UNCHANGED target
    /\ hooked' = IF webhooks[who[r]] > 0 THEN hooked \cup {r} ELSE hooked
    /\ UNCHANGED <<config, webhooks, alerts, kind, who, stale, overran>>

-----------------------------------------------------------------------------
(* CreateStrategyAlert *)

\* GetRoleByAccountId joins the two tables, and never looks into the slice of
\* the module Roles.
RoleOf(a) == role[a]

CheckRole(r) ==
    /\ pc[r] = "role"
    /\ Goto(r, IF RoleOf(who[r]) = "member" THEN "plan" ELSE "403")
    /\ UNCHANGED <<config, webhooks, alerts, requests, stale, overran, hooked>>

\* A missing or inactive subscription counts as the free plan.
Plan(a) ==
    IF subscription[a] # "absent" /\ subscription[a][2] THEN subscription[a][1] ELSE "free"

\* What is no number in the configuration is decoded to 0, and 0 is no limit;
\* but only for this plan.
DecodedMax == IF MaxQuota \in Int THEN MaxQuota ELSE 0

Unlimited(a) == Plan(a) = "max" /\ DecodedMax = 0
Quota(a) == [free |-> FreeQuota, pro |-> ProQuota, max |-> DecodedMax][Plan(a)]

LookUpPlan(r) ==
    /\ pc[r] = "plan"
    /\ Goto(r, IF Unlimited(who[r]) THEN "webhook" ELSE "count")
    /\ UNCHANGED <<config, webhooks, alerts, requests, stale, overran, hooked>>

\* Fault: off by one.
CountOneMore(r) ==
    LET quota == Quota(who[r]) IN
    /\ pc[r] = "count"
    /\ Goto(r, IF Cardinality(alerts[who[r]]) > quota THEN "402" ELSE "webhook")
    /\ stale' = stale \ {r}
    /\ UNCHANGED <<config, webhooks, alerts, requests, overran, hooked>>

\* It asks for one alert more than the quota, which is enough to compare.  A
\* negative quota makes a limit of its own, but refuses every request.
CountAlerts(r) ==
    LET quota == Quota(who[r])
        found == IF Cardinality(alerts[who[r]]) > quota
                 THEN quota + 1 ELSE Cardinality(alerts[who[r]])
    IN
    /\ pc[r] = "count"
    /\ Goto(r, IF found >= quota THEN "402" ELSE "webhook")
    /\ stale' = stale \ {r}
    /\ UNCHANGED <<config, webhooks, alerts, requests, overran, hooked>>

\* Fault: an empty list of webhooks is no obstacle.
CheckNoWebhooks(r) ==
    /\ pc[r] = "webhook"
    /\ Goto(r, "create") \/ Goto(r, "400")
    /\ UNCHANGED <<config, webhooks, alerts, requests, stale, overran, hooked>>

\* GetWebhooksByAccountId, with a limit of 1; its list is also empty when the
\* connection breaks before the row came.  The body is bound, and the operands
\* are converted and compared, after this check.
CheckWebhooks(r) ==
    /\ pc[r] = "webhook"
    /\ \/ Goto(r, "422")
       \/ webhooks[who[r]] > 0 /\ (Goto(r, "create") \/ Goto(r, "400"))
    /\ UNCHANGED <<config, webhooks, alerts, requests, stale, overran, hooked>>

\* The strategy service stores the alert.
Create(r) ==
    LET a == who[r] IN
    /\ pc[r] = "create"
    /\ alerts' = [alerts EXCEPT ![a] = @ \cup {r}]
    /\ stale' = stale \cup {q \in Requests \ {r} : who[q] = a /\ pc[q] \in {"webhook", "create"}}
    /\ overran' = IF r \in stale THEN overran \cup {r} ELSE overran
    /\ Goto(r, "created")
    /\ UNCHANGED <<config, webhooks, requests, hooked>>

\* Its answer arrives and is converted; otherwise (Fail) the request is
\* answered 500 though the alert exists.
Created(r) ==
    /\ pc[r] = "created"
    /\ Goto(r, "201")
    /\ UNCHANGED <<config, webhooks, alerts, requests, stale, overran, hooked>>

-----------------------------------------------------------------------------
(* DeleteStrategyAlert, CreateProfileWebhook, DeleteProfileWebhook *)

\* The service deletes the alert if it is one of this account; its answer may
\* be lost.
Delete(r) ==
    LET a == who[r] IN
    /\ pc[r] = "delete"
    /\ IF target[r] \in alerts[a]
       THEN /\ alerts' = [alerts EXCEPT ![a] = @ \ {target[r]}]
            /\ Goto(r, "204") \/ Goto(r, "500")
       ELSE UNCHANGED alerts /\ Goto(r, "500")
    /\ UNCHANGED <<config, webhooks, requests, stale, overran, hooked>>

\* The row is inserted, whether or not the answer arrives.
AddWebhook(r) ==
    LET a == who[r] IN
    /\ pc[r] = "addWebhook"
    /\ webhooks' = [webhooks EXCEPT ![a] = @ + 1]
    /\ hooked' = hooked \cup {q \in Requests : who[q] = a /\ pc[q] \in Running}
    /\ Goto(r, "201") \/ Goto(r, "500")
    /\ UNCHANGED <<config, alerts, requests, stale, overran>>

\* Fault: a webhook is deleted that is not there.
DropMissingWebhook(r) ==
    LET a == who[r] IN
    /\ pc[r] = "dropWebhook"
    /\ webhooks' = [webhooks EXCEPT ![a] = @ - 1] /\ Goto(r, "204")
    /\ UNCHANGED <<config, alerts, requests, stale, overran, hooked>>

\* One of the account's own webhooks, if it has any.
DropWebhook(r) ==
    LET a == who[r] IN
    /\ pc[r] = "dropWebhook"
    /\ IF webhooks[a] > 0
       THEN webhooks' = [webhooks EXCEPT ![a] = @ - 1] /\ (Goto(r, "204") \/ Goto(r, "500"))
       ELSE UNCHANGED webhooks /\ Goto(r, "404")
    /\ UNCHANGED <<config, alerts, requests, stale, overran, hooked>>

-----------------------------------------------------------------------------

\* The database or the strategy service fails, before the call took effect or,
\* in "created", after.
Fail(r) ==
    /\ pc[r] \in Running
    /\ Goto(r, "500")
    /\ UNCHANGED <<config, webhooks, alerts, requests, stale, overran, hooked>>

\* The server is killed; the database and the strategy service live on.
Crash ==
    /\ pc' = [r \in Requests |-> IF pc[r] \in Running THEN "gone" ELSE pc[r]]
    /\ UNCHANGED <<config, webhooks, alerts, requests, stale, overran, hooked>>

Next ==
    \/ \E r \in Requests :
         \/ Receive(r) \/ CheckRole(r) \/ LookUpPlan(r) \/ CountAlerts(r)
         \/ CheckWebhooks(r) \/ Create(r) \/ Created(r) \/ Delete(r)
         \/ AddWebhook(r) \/ DropWebhook(r) \/ Fail(r)
    \/ Crash

Spec == Init /\ [][Next]_vars

-----------------------------------------------------------------------------
(* Properties *)

Limited(a) == ~Unlimited(a)

\* A quota that is negative lets no more through than 0 does.
Allowance(a) == IF Quota(a) > 0 THEN Quota(a) ELSE 0

\* An account exceeds its quota by no more alerts than were created by
\* requests that counted before some other alert of the account was created:
\* requests served one after the other, whatever fails among them, never do.
OverrunOnlyByOverlap ==
    \A a \in Accounts : Limited(a) =>
        Cardinality(alerts[a]) <= Allowance(a) + Cardinality({r \in overran : who[r] = a})

\* Every alert was asked for by a member who had a webhook at some moment
\* while the request was served, though webhooks come and go meanwhile.
AlertsAreEntitled ==
    \A a \in Accounts : \A r \in alerts[a] :
        who[r] = a /\ role[a] = "member" /\ r \in hooked
=============================================================================
