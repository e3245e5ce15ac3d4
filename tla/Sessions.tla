------------------------------ MODULE Sessions ------------------------------
(***************************************************************************)
(* Refresh tokens: SignIn, RefreshToken and SignOut of                     *)
(* internal/logic/http/auth.go, the token store of                         *)
(* internal/dao/cache/refresh_token.go over Redis or over memory, and the  *)
(* cookie jars of the browsers.  RefreshToken rotates: it reads the old    *)
(* token, stores a new one and deletes the old one, three calls between    *)
(* which any other request may run, fail, or be cut off; the answer may be *)
(* lost on its way back.                                                   *)
(***************************************************************************)
EXTENDS Integers, FiniteSets

CONSTANTS
    Clients,       \* browsers
    Requests,      \* the requests they send, each served once
    AccountIds,
    MaxTokens,     \* bound: the tokens generated
    MaxTime,       \* bound: the clock
    TTL,           \* refreshTokenTTL, in ticks of the clock
    LongTTL,       \* refreshTokenLongTTL
    CacheTypes     \* the configured cache: a subset of {"ram", "redis"}

Tokens == 1 .. MaxTokens
NoToken == 0
Times == 0 .. MaxTime + LongTTL

ASSUME TimeAssumption ==
    /\ MaxTokens \in Nat /\ MaxTime \in Nat /\ TTL \in Nat /\ LongTTL \in Nat
    /\ TTL <= LongTTL
    /\ 0 \notin AccountIds
    /\ CacheTypes \subseteq {"ram", "redis"}

VARIABLES
    cacheType,   \* what the server is configured with
    now,
    issued,      \* the tokens generated so far are 1 .. issued
    live,        \* the tokens that have an entry in the store
    owner,       \* the account id in the entry of each token
    family,      \* the token of the sign-in that each token descends from
    until,       \* the time each entry expires at
    jar,         \* the refresh_token cookie of each client
    jarUntil,    \* the time that cookie expires at
    pc, op, who, \* each request: where it is, what it is, whose it is
    sent,        \* the cookie it came with
    fresh,       \* the token it generated
    removed,     \* history: the tokens that some request deleted, with that request
    lost,        \* history: the tokens that went with the memory of the process
    doubled,     \* history: the refreshes that read a token another one was rotating
    kept,        \* history: the refreshes that did not delete their old token
    ended        \* history: the sign-ins whose token a sign-out deleted while no
                 \* refresh was rotating it

store == <<live, owner, family, until, issued>>
cookies == <<jar, jarUntil>>
config == <<cacheType, op, who>>
requests == <<config, pc, sent, fresh>>
history == <<removed, lost, doubled, kept, ended>>
vars == <<now, store, cookies, requests, history>>

\* The in-memory cache ignores lifetimes and is lost with the process.
InMemory == cacheType = "ram"

\* A sign-in says isRememberMe = false, says it is true, or does not say.
Ops == {"signIn", "remember", "unsaid", "refresh", "signOut"}
Replies == {"200", "204", "400", "401", "500", "panic", "gone"}

TypeOK ==
    /\ cacheType \in CacheTypes
    /\ now \in 0 .. MaxTime
    /\ issued \in 0 .. MaxTokens
    /\ live \subseteq 1 .. issued
    /\ owner \in [Tokens -> AccountIds \cup {0}]
    /\ family \in [Tokens -> Tokens \cup {NoToken}]
    /\ until \in [Tokens -> Times]
    /\ jar \in [Clients -> Tokens \cup {NoToken}]
    /\ jarUntil \in [Clients -> Times]
    /\ pc \in [Requests -> {"idle", "get", "set", "del", "reply"} \cup Replies]
    /\ op \in [Requests -> Ops]
    /\ who \in [Requests -> Clients]
    /\ sent \in [Requests -> Tokens \cup {NoToken}]
    /\ fresh \in [Requests -> Tokens \cup {NoToken}]
    /\ removed \subseteq Tokens \X Requests
    /\ lost \subseteq Tokens
    /\ doubled \subseteq Requests /\ kept \subseteq Requests
    /\ ended \subseteq 1 .. issued

Init ==
    /\ cacheType \in CacheTypes
    /\ now = 0 /\ issued = 0 /\ live = {}
    /\ owner = [t \in Tokens |-> 0]
    /\ family = [t \in Tokens |-> NoToken]
    /\ until = [t \in Tokens |-> 0]
    /\ jar = [c \in Clients |-> NoToken]
    /\ jarUntil = [c \in Clients |-> 0]
    /\ pc = [r \in Requests |-> "idle"]
    /\ op \in [Requests -> Ops]
    /\ who \in [Requests -> Clients]
    /\ sent = [r \in Requests |-> NoToken]
    /\ fresh = [r \in Requests |-> NoToken]
    /\ removed = {} /\ lost = {} /\ doubled = {} /\ kept = {} /\ ended = {}

Goto(r, there) == pc' = [pc EXCEPT ![r] = there]

-----------------------------------------------------------------------------
(* The browser sends a request, with its cookie if that has not expired *)

Cookie(c) == IF now < jarUntil[c] THEN jar[c] ELSE NoToken

\* The credentials are right: checking them has no state of its own.
\* Before that SignIn dereferences the pointer to isRememberMe.
SendSignIn(r) ==
    /\ pc[r] = "idle" /\ op[r] \in {"signIn", "remember", "unsaid"}
    /\ Goto(r, IF op[r] = "unsaid" THEN "panic" ELSE "set")
    /\ UNCHANGED <<now, store, cookies, config, sent, fresh, history>>

\* RefreshToken and SignOut answer 400 when there is no cookie.
SendCookie(r) ==
    /\ pc[r] = "idle" /\ op[r] \in {"refresh", "signOut"}
    /\ sent' = [sent EXCEPT ![r] = Cookie(who[r])]
    /\ Goto(r, IF sent'[r] = NoToken THEN "400" ELSE IF op[r] = "refresh" THEN "get" ELSE "del")
    /\ UNCHANGED <<now, store, cookies, config, fresh, history>>

-----------------------------------------------------------------------------
(* The handlers *)

\* Another refresh has read the same token and not yet deleted it.
Rotating(t) == \E q \in Requests : op[q] = "refresh" /\ pc[q] \in {"set", "del"} /\ sent[q] = t

\* Fault: the old entry is taken out as it is read.
GetAndDelete(r) ==
    /\ pc[r] = "get"
    /\ \/ sent[r] \in live /\ Goto(r, "set") /\ live' = live \ {sent[r]}
       \/ Goto(r, "401") /\ UNCHANGED live
    /\ UNCHANGED <<now, owner, family, until, issued, cookies, config, sent, fresh, history>>

\* Fault: any token that was issued is good.
GetWithoutEntry(r) ==
    /\ pc[r] = "get"
    /\ \/ sent[r] <= issued /\ Goto(r, "set")
       \/ Goto(r, "401")
    /\ UNCHANGED <<now, store, cookies, config, sent, fresh, history>>

Get(r) ==
    /\ pc[r] = "get"
    /\ \/ /\ sent[r] \in live
          /\ Goto(r, "set")
          /\ doubled' = IF Rotating(sent[r]) THEN doubled \cup {r} ELSE doubled
       \/ Goto(r, "401") /\ UNCHANGED doubled    \* a miss, or the cache fails
    /\ UNCHANGED <<now, store, cookies, config, sent, fresh, removed, lost, kept,
                   ended>>

\* Fault: the account of a rotated token does not come from the old entry.
AnyAccount(r, a) == a

\* The account of the new entry: that of the credentials, or the one that
\* Get found in the old entry.
AccountOf(r, a) == IF op[r] = "refresh" THEN owner[sent[r]] ELSE a

\* Fault: the long lifetime is added to the other one.
LifetimeAdded(r) == IF op[r] = "remember" THEN LongTTL + TTL ELSE TTL

\* Only a sign-in with isRememberMe gets the long lifetime.
Lifetime(r) == IF op[r] = "remember" THEN LongTTL ELSE TTL

\* A new token is generated and stored.  Redis may do so and its answer be
\* lost: the handler answers 500 and nobody knows of the token.
Set(r) ==
    /\ pc[r] = "set" /\ issued < MaxTokens
    /\ \E a \in AccountIds :
         LET t == issued + 1 IN
         /\ issued' = t
         /\ live' = live \cup {t}
         /\ owner' = [owner EXCEPT ![t] = AccountOf(r, a)]
         /\ family' = [family EXCEPT ![t] = IF op[r] = "refresh" THEN family[sent[r]] ELSE t]
         /\ until' = [until EXCEPT ![t] = now + Lifetime(r)]
         /\ fresh' = [fresh EXCEPT ![r] = t]
    /\ \/ Goto(r, IF op[r] = "refresh" THEN "del" ELSE "reply")
       \/ ~InMemory /\ Goto(r, "500")
    /\ UNCHANGED <<now, cookies, config, sent, history>>

\* Generating a token or storing it fails.
SetFails(r) ==
    /\ pc[r] = "set"
    /\ Goto(r, "500")
    /\ UNCHANGED <<now, store, cookies, config, sent, fresh, history>>

\* Fault: the old token is not deleted.
DelNothing(r) ==
    /\ pc[r] = "del"
    /\ Goto(r, "reply")
    /\ UNCHANGED <<now, store, cookies, config, sent, fresh, history>>

\* Deleting an absent key succeeds too.  Here as well the answer may be lost,
\* which RefreshToken does not mind and SignOut answers 500 for.
Del(r) ==
    /\ pc[r] = "del"
    /\ live' = live \ {sent[r]}
    /\ removed' = removed \cup {<<sent[r], r>>}
    /\ ended' = IF op[r] = "signOut" /\ sent[r] \in live /\ ~Rotating(sent[r])
                THEN ended \cup {family[sent[r]]} ELSE ended
    /\ \/ Goto(r, "reply")
       \/ ~InMemory /\ op[r] = "signOut" /\ Goto(r, "500")
    /\ UNCHANGED <<now, owner, family, until, issued, cookies, config, sent, fresh, lost,
                   doubled, kept>>

\* RefreshToken drops the error and goes on, SignOut answers 500.
DelFails(r) ==
    /\ pc[r] = "del"
    /\ IF op[r] = "refresh"
       THEN Goto(r, "reply") /\ kept' = kept \cup {r}
       ELSE Goto(r, "500") /\ UNCHANGED kept
    /\ UNCHANGED <<now, store, cookies, config, sent, fresh, removed, lost, doubled,
                   ended>>

\* Fault: the cookie is always given the long lifetime.
ReplyLongCookie(r) ==
    /\ pc[r] = "reply"
    /\ jar' = [jar EXCEPT ![who[r]] = fresh[r]]
    /\ jarUntil' = [jarUntil EXCEPT ![who[r]] =
                      IF fresh[r] = NoToken THEN 0
                      ELSE until[fresh[r]] + (LongTTL - Lifetime(r))]
    /\ Goto(r, IF op[r] = "signOut" THEN "204" ELSE "200")
    /\ UNCHANGED <<now, store, config, sent, fresh, history>>

\* The answer arrives and its Set-Cookie takes effect.  The expiry of the
\* cookie was computed when the token was generated, always from
\* refreshTokenTTL.  SignIn reads the role after it set the cookie: its 500
\* carries the cookie as well.
Reply(r) ==
    /\ pc[r] = "reply"
    /\ jar' = [jar EXCEPT ![who[r]] = fresh[r]]
    /\ jarUntil' = [jarUntil EXCEPT ![who[r]] =
                      IF fresh[r] = NoToken THEN 0 ELSE until[fresh[r]] - (Lifetime(r) - TTL)]
    /\ \/ Goto(r, IF op[r] = "signOut" THEN "204" ELSE "200")
       \/ op[r] \in {"signIn", "remember"} /\ Goto(r, "500")
    /\ UNCHANGED <<now, store, config, sent, fresh, history>>

\* The answer is lost: the browser keeps the cookie it had.
ReplyLost(r) ==
    /\ pc[r] = "reply"
    /\ Goto(r, "gone")
    /\ UNCHANGED <<now, store, cookies, config, sent, fresh, history>>

-----------------------------------------------------------------------------
(* The rest of the system *)

\* Redis drops an entry when its lifetime is over; the in-memory cache was
\* given the lifetime but keeps the entry.
Tick ==
    /\ now < MaxTime
    /\ now' = now + 1
    /\ live' = IF InMemory THEN live ELSE {t \in live : now' < until[t]}
    /\ UNCHANGED <<owner, family, until, issued, cookies, requests, history>>

\* The server is killed: requests get no answer, memory is lost.
Crash ==
    /\ pc' = [r \in Requests |-> IF pc[r] \in {"get", "set", "del", "reply"}
                                 THEN "gone" ELSE pc[r]]
    /\ kept' = kept \cup {r \in Requests : pc[r] = "del" /\ op[r] = "refresh"}
    /\ IF InMemory THEN live' = {} /\ lost' = lost \cup live ELSE UNCHANGED <<live, lost>>
    /\ UNCHANGED <<now, owner, family, until, issued, cookies, config, sent, fresh, removed,
                   doubled, ended>>

Next ==
    \/ \E r \in Requests :
         \/ SendSignIn(r) \/ SendCookie(r) \/ Get(r) \/ Set(r) \/ SetFails(r)
         \/ Del(r) \/ DelFails(r) \/ Reply(r) \/ ReplyLost(r)
    \/ Tick
    \/ Crash

Spec == Init /\ [][Next]_vars

-----------------------------------------------------------------------------
(* Properties *)

Expired(t) == ~InMemory /\ now >= until[t]

RemovedByOthers(t, r) == \E q \in Requests \ {r} : <<t, q>> \in removed

\* Rotation is in the safe order: at no moment of a refresh are both its old
\* and its new token without an entry, so that a crash between two of its
\* calls never signs the user out.  Only expiry, a lost memory or another
\* request can take a token away from it.
RotationKeepsOneToken ==
    \A r \in Requests :
        op[r] = "refresh" /\ pc[r] \in {"set", "del", "reply"} =>
            \E t \in {sent[r], fresh[r]} \ {NoToken} :
                t \in live \/ Expired(t) \/ t \in lost \/ RemovedByOthers(t, r)

\* Every token of a family opens the account its sign-in checked the
\* credentials of, however many rotations lie between.
FamilyKeepsItsAccount ==
    \A t \in 1 .. issued : family[t] <= t /\ owner[t] = owner[family[t]] /\ owner[t] # 0

\* The refreshes of a family that may have left a token too many: those that are
\* between storing and deleting, that were answered 500 once they had stored, that
\* failed to delete, or that read a token another refresh was already rotating.
Strays(f) ==
    {r \in Requests :
        /\ op[r] = "refresh" /\ fresh[r] # NoToken /\ family[fresh[r]] = f
        /\ pc[r] \in {"del", "500"} \/ r \in kept \cup doubled}

LiveTokens(f) == {t \in live : family[t] = f}

\* One sign-in has one live token, and at most one more for each stray refresh.
TokensPerSignIn ==
    \A f \in 1 .. issued : Cardinality(LiveTokens(f)) <= 1 + Cardinality(Strays(f))

\* Signing out ends the session, not just one token of it: once a sign-out has
\* deleted its token while no refresh was rotating it, that sign-in has no live
\* token but those of stray refreshes, and however many refreshes follow, it
\* never gets another one.
SignOutEndsSession ==
    \A f \in ended : Cardinality(LiveTokens(f)) <= Cardinality(Strays(f))

\* A cookie that has not expired is worth something: its token has an entry,
\* unless a request deleted it or the memory was lost.  (The lifetime of the
\* cookie and that of the entry are set apart from each other.)
CookieHasItsEntry ==
    \A c \in Clients :
        Cookie(c) # NoToken =>
            \/ jar[c] \in live
            \/ jar[c] \in lost
            \/ \E r \in Requests : <<jar[c], r>> \in removed

\* openapi.yml: signing out "Revokes the `refresh_token`".  Once it answered
\* 204, no refresh with that token is answered 200, unless it had read the
\* token before.
SignedOutTokenIsRefused ==
    [][\A r \in Requests, q \in Requests :
         (op[q] = "signOut" /\ pc[q] = "204" /\ sent[q] = sent[r] /\ Get(r))
           => pc'[r] = "401"]_vars
=============================================================================
