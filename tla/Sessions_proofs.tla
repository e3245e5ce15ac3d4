---------------------------- MODULE Sessions_proofs ----------------------------
(***************************************************************************)
(* Theorems about Sessions, for any browsers, requests (infinitely many    *)
(* included), accounts and lifetimes, and any bounds on the tokens and on  *)
(* the clock.                                                              *)
(***************************************************************************)
EXTENDS Sessions, FiniteSetTheorems, TLAPS

-----------------------------------------------------------------------------
(* The inductive invariant *)

\* What a request has at each place of its handler.
RequestOK(r) ==
    /\ sent[r] <= issued
    /\ fresh[r] # NoToken => fresh[r] <= issued /\ Lifetime(r) <= until[fresh[r]]
    /\ pc[r] \in {"idle", "get", "set"} => fresh[r] = NoToken
    /\ pc[r] = "get" => op[r] = "refresh"
    /\ pc[r] = "set" => op[r] \in {"signIn", "remember", "refresh"}
    /\ pc[r] = "del" => op[r] \in {"refresh", "signOut"}
    /\ op[r] = "signOut" => fresh[r] = NoToken
    /\ op[r] \in {"refresh", "signOut"} /\ pc[r] \in {"get", "set", "del", "reply", "204"}
         => sent[r] # NoToken
    /\ op[r] = "refresh" /\ pc[r] \in {"del", "reply"} => fresh[r] # NoToken
    /\ op[r] = "refresh" /\ fresh[r] # NoToken =>
         sent[r] # NoToken /\ sent[r] < fresh[r] /\ family[fresh[r]] = family[sent[r]]

RequestInv == \A r \in Requests : RequestOK(r)

\* A token without an entry has a reason to have none.
Accounted(t) == t \in live \/ t \in lost \/ Expired(t) \/ \E q \in Requests : <<t, q>> \in removed

TokenInv ==
    \A t \in 1 .. issued :
        /\ Accounted(t)
        /\ family[t] \in 1 .. t /\ owner[t] = owner[family[t]] /\ owner[t] # 0

\* No cookie outlives the entry of its token.
CookieInv ==
    \A c \in Clients :
        jar[c] # NoToken => jar[c] <= issued /\ jarUntil[c] <= until[jar[c]]

\* The token is there, or something other than r took it away.
Good(t, r) == t \in live \/ Expired(t) \/ t \in lost \/ RemovedByOthers(t, r)

\* Before it stored a new token, a refresh has the old one; from then on the
\* new one.
RotationInv ==
    \A r \in Requests : op[r] = "refresh" =>
        /\ pc[r] = "set" => Good(sent[r], r)
        /\ pc[r] \in {"del", "reply"} => Good(fresh[r], r)

\* A token that was signed out has no entry.
SignedOutInv ==
    \A q \in Requests : op[q] = "signOut" /\ pc[q] \in {"reply", "204"} => sent[q] \notin live

\* The refreshes that read a token nobody was rotating, and have not finished.
Sole(r) == op[r] = "refresh" /\ pc[r] \in {"set", "del"} /\ r \notin doubled

\* The tokens of a family that count: those with an entry, and those that a
\* refresh has still to delete, even if their entry is gone already.
Counted(f) ==
    {t \in 1 .. issued :
        family[t] = f /\ (t \in live \/ \E r \in Requests : Sole(r) /\ sent[r] = t)}

\* The token a sign-in is due besides those of its stray refreshes: one, until a
\* sign-out ends it.
Allowed(f) == IF f \in ended THEN 0 ELSE 1

Stored == {r \in Requests : fresh[r] # NoToken}

CountInv ==
    /\ IsFiniteSet(Stored)
    /\ \A q, r \in Requests : q # r /\ Sole(q) /\ Sole(r) => sent[q] # sent[r]
    /\ \A f \in 1 .. issued : Cardinality(Counted(f)) <= Allowed(f) + Cardinality(Strays(f))

IInv == TypeOK /\ RequestInv /\ TokenInv /\ CookieInv /\ RotationInv /\ SignedOutInv /\ CountInv

-----------------------------------------------------------------------------
(* Lemmas *)

\* Every token number is a natural, and there are at most MaxTokens.
LEMMA TypeFacts ==
  ASSUME IInv
  PROVE  /\ issued \in Nat /\ 1 .. issued \subseteq Tokens
         /\ \A r \in Requests : sent[r] \in Nat /\ fresh[r] \in Nat
         /\ \A r \in Requests : sent[r] # NoToken => sent[r] \in 1 .. issued
         /\ \A r \in Requests : fresh[r] # NoToken => fresh[r] \in 1 .. issued
BY TimeAssumption DEF IInv, TypeOK, RequestInv, RequestOK, Tokens, NoToken

LEMMA LifetimeType ==
  ASSUME NEW r
  PROVE  Lifetime(r) \in Nat /\ TTL <= Lifetime(r) /\ Lifetime(r) <= LongTTL
BY TimeAssumption DEF Lifetime

\* The sets that are counted are finite.
LEMMA CountedFinite ==
  ASSUME IInv, NEW f
  PROVE  IsFiniteSet(Counted(f)) /\ IsFiniteSet(Strays(f))
<1>1. IsFiniteSet(1 .. issued) BY TypeFacts, FS_Interval
<1>2. Counted(f) \subseteq 1 .. issued BY DEF Counted
<1>3. IsFiniteSet(Stored) /\ Strays(f) \subseteq Stored BY DEF IInv, CountInv, Strays, Stored
<1>4. QED BY <1>1, <1>2, <1>3, FS_Subset

\* A bound on what is counted stays when less is counted and more is allowed.
LEMMA BoundKept ==
  ASSUME NEW k \in Nat, NEW A, NEW E, NEW B, NEW F, IsFiniteSet(A), IsFiniteSet(F),
         B \subseteq A, E \subseteq F, Cardinality(A) <= k + Cardinality(E)
  PROVE  Cardinality(B) <= k + Cardinality(F)
<1>1. IsFiniteSet(B) /\ Cardinality(B) <= Cardinality(A) BY FS_Subset
<1>2. IsFiniteSet(E) /\ Cardinality(E) <= Cardinality(F) BY FS_Subset
<1>3. /\ Cardinality(A) \in Nat /\ Cardinality(B) \in Nat
      /\ Cardinality(E) \in Nat /\ Cardinality(F) \in Nat
  BY <1>1, <1>2, FS_CardinalityType
<1>4. QED BY <1>1, <1>2, <1>3

\* ... and when one more is counted and one more is allowed ...
LEMMA BoundAdd ==
  ASSUME NEW k \in Nat, NEW A, NEW E, NEW B, NEW F, NEW t, NEW r, IsFiniteSet(A), IsFiniteSet(F),
         B \subseteq A \cup {t}, E \cup {r} \subseteq F, r \notin E,
         Cardinality(A) <= k + Cardinality(E)
  PROVE  Cardinality(B) <= k + Cardinality(F)
<1>1. /\ IsFiniteSet(A \cup {t})
      /\ Cardinality(A \cup {t}) = IF t \in A THEN Cardinality(A) ELSE Cardinality(A) + 1
  BY FS_AddElement
<1>2. IsFiniteSet(E) BY FS_Subset
<1>3. Cardinality(E \cup {r}) = Cardinality(E) + 1 BY <1>2, FS_AddElement
<1>4. Cardinality(A) \in Nat /\ Cardinality(E) \in Nat BY <1>2, FS_CardinalityType
<1>5. Cardinality(A \cup {t}) <= k + Cardinality(E \cup {r}) BY <1>1, <1>3, <1>4
<1>6. QED BY <1>1, <1>5, BoundKept

\* ... and when one less of each ...
LEMMA BoundRemove ==
  ASSUME NEW k \in Nat, NEW A, NEW E, NEW B, NEW F, NEW t, NEW r, IsFiniteSet(A), IsFiniteSet(E), IsFiniteSet(F),
         B \subseteq A \ {t}, t \in A, E \ {r} \subseteq F,
         Cardinality(A) <= k + Cardinality(E)
  PROVE  Cardinality(B) <= k + Cardinality(F)
<1>1. IsFiniteSet(A \ {t}) /\ Cardinality(A \ {t}) = Cardinality(A) - 1 BY FS_RemoveElement
<1>2. Cardinality(E \ {r}) = IF r \in E THEN Cardinality(E) - 1 ELSE Cardinality(E)
  BY FS_RemoveElement
<1>3. Cardinality(A) \in Nat /\ Cardinality(E) \in Nat BY FS_CardinalityType
<1>4. Cardinality(A \ {t}) <= k + Cardinality(E \ {r}) BY <1>1, <1>2, <1>3
<1>5. QED BY <1>1, <1>4, BoundKept

\* ... and when one less is counted because the family has ended.
LEMMA BoundEnd ==
  ASSUME NEW k \in {0, 1}, NEW A, NEW E, NEW B, NEW F, NEW t, IsFiniteSet(A), IsFiniteSet(F),
         B \subseteq A \ {t}, t \in A, E \subseteq F, Cardinality(A) <= k + Cardinality(E)
  PROVE  Cardinality(B) <= 0 + Cardinality(F)
<1>1. IsFiniteSet(A \ {t}) /\ Cardinality(A \ {t}) = Cardinality(A) - 1 BY FS_RemoveElement
<1>2. IsFiniteSet(E) BY FS_Subset
<1>3. Cardinality(A) \in Nat /\ Cardinality(E) \in Nat BY <1>2, FS_CardinalityType
<1>4. Cardinality(A \ {t}) <= 0 + Cardinality(E) BY <1>1, <1>3
<1>5. QED BY <1>1, <1>4, BoundKept

\* The count stays in its bound when no token is stored, no refresh begins and
\* none that is allowed for ceases to be.
LEMMA CountKept ==
  ASSUME IInv, UNCHANGED <<issued, family, op, fresh, ended>>, live' \subseteq live,
         \A q \in Requests : Sole(q)' => Sole(q) /\ sent'[q] = sent[q],
         \A q \in Requests :
            op[q] = "refresh" /\ (pc[q] \in {"del", "500"} \/ q \in kept \cup doubled)
              => pc'[q] \in {"del", "500"} \/ q \in kept' \cup doubled'
  PROVE  CountInv'
<1> USE DEF IInv
<1>1. Stored' = Stored BY DEF Stored
<1>2. IsFiniteSet(Stored)' BY <1>1 DEF CountInv
<1>3. \A q, r \in Requests : q # r /\ Sole(q)' /\ Sole(r)' => sent'[q] # sent'[r]
  BY DEF CountInv
<1>4. ASSUME NEW f \in 1 .. issued
      PROVE  Cardinality(Counted(f)') <= Allowed(f)' + Cardinality(Strays(f)')
  <2>1. Counted(f)' \subseteq Counted(f) BY DEF Counted
  <2>2. Strays(f) \subseteq Strays(f)' BY DEF Strays
  <2>3. IsFiniteSet(Strays(f)')
    <3>1. Strays(f)' \subseteq Stored BY <1>1 DEF Strays, Stored
    <3>2. QED BY <3>1, FS_Subset DEF CountInv
  <2>4. Cardinality(Counted(f)) <= Allowed(f) + Cardinality(Strays(f)) BY DEF CountInv
  <2>5. Allowed(f)' = Allowed(f) /\ Allowed(f) \in Nat BY DEF Allowed
  <2>6. QED BY <2>1, <2>2, <2>3, <2>4, <2>5, CountedFinite, BoundKept
<1>5. QED BY <1>2, <1>3, <1>4 DEF CountInv

\* The tokens stay accounted for when none is stored and every entry that
\* goes leaves a reason behind.
LEMMA TokensKept ==
  ASSUME IInv, UNCHANGED <<issued, family, owner, until, cacheType>>,
         now \in Nat, now' \in Nat, now <= now',
         lost \subseteq lost', removed \subseteq removed',
         \A t \in live : Accounted(t)'
  PROVE  TokenInv'
<1>1. ASSUME NEW t \in 1 .. issued PROVE Accounted(t)'
  <2>1. Accounted(t) BY DEF IInv, TokenInv
  <2>2. until[t] \in Nat BY TypeFacts, TimeAssumption DEF IInv, TypeOK, Times
  <2>3. Expired(t) => Expired(t)' BY <2>2 DEF Expired, InMemory
  <2>4. QED BY <2>1, <2>3 DEF Accounted
<1>2. QED BY <1>1 DEF IInv, TokenInv

\* The same of the token that a refresh has.
LEMMA RotationKept ==
  ASSUME IInv, UNCHANGED <<op, until, cacheType>>,
         now \in Nat, now' \in Nat, now <= now',
         lost \subseteq lost', removed \subseteq removed',
         \A q \in Requests : op[q] = "refresh" =>
            /\ pc'[q] = "set" => pc[q] = "set" /\ sent'[q] = sent[q]
            /\ pc'[q] \in {"del", "reply"} => pc[q] \in {"del", "reply"} /\ fresh'[q] = fresh[q],
         \A q \in Requests, t \in live :
            /\ op[q] = "refresh"
            /\ \/ pc'[q] = "set" /\ t = sent[q]
               \/ pc'[q] \in {"del", "reply"} /\ t = fresh[q]
            => Good(t, q)'
  PROVE  RotationInv'
<1>1. ASSUME NEW t \in 1 .. issued, NEW q \in Requests, Good(t, q), t \in live => Good(t, q)'
      PROVE  Good(t, q)'
  <2>1. until[t] \in Nat BY TypeFacts, TimeAssumption DEF IInv, TypeOK, Times
  <2>2. Expired(t) => Expired(t)' BY <2>1 DEF Expired, InMemory
  <2>3. RemovedByOthers(t, q) => RemovedByOthers(t, q)' BY DEF RemovedByOthers
  <2>4. QED BY <1>1, <2>2, <2>3 DEF Good
<1>2. ASSUME NEW q \in Requests, op[q] = "refresh", pc'[q] = "set"
      PROVE  Good(sent[q], q)'
  <2>1. pc[q] = "set" /\ sent'[q] = sent[q] BY <1>2
  <2>2. Good(sent[q], q) BY <1>2, <2>1 DEF IInv, RotationInv
  <2>3. sent[q] \in 1 .. issued BY <1>2, <2>1, TypeFacts DEF IInv, RequestInv, RequestOK
  <2>4. \A t \in 1 .. issued : t = sent[q] => Good(t, q)' BY <1>1, <1>2, <2>2
  <2>5. QED BY <2>1, <2>3, <2>4 DEF Good, Expired, InMemory, RemovedByOthers
<1>3. ASSUME NEW q \in Requests, op[q] = "refresh", pc'[q] \in {"del", "reply"}
      PROVE  Good(fresh[q], q)'
  <2>1. pc[q] \in {"del", "reply"} /\ fresh'[q] = fresh[q] BY <1>3
  <2>2. Good(fresh[q], q) BY <1>3, <2>1 DEF IInv, RotationInv
  <2>3. fresh[q] \in 1 .. issued BY <1>3, <2>1, TypeFacts DEF IInv, RequestInv, RequestOK
  <2>4. \A t \in 1 .. issued : t = fresh[q] => Good(t, q)' BY <1>1, <1>3, <2>2
  <2>5. QED BY <2>1, <2>3, <2>4 DEF Good, Expired, InMemory, RemovedByOthers
<1>4. QED BY <1>2, <1>3 DEF RotationInv

LEMMA InitIInv == Init => IInv
<1> SUFFICES ASSUME Init PROVE IInv OBVIOUS
<1>1. TypeOK
  <2>1. issued = 0 /\ 1 .. issued = {} /\ 0 \in Times /\ now = 0 BY TimeAssumption DEF Init, Times
  <2>2. QED BY <2>1, TimeAssumption DEF Init, TypeOK
<1>2. RequestInv BY DEF Init, RequestInv, RequestOK, NoToken
<1>3. TokenInv BY DEF Init, TokenInv
<1>4. CookieInv /\ RotationInv /\ SignedOutInv BY DEF Init, CookieInv, RotationInv, SignedOutInv
<1>5. CountInv
  <2>1. Stored = {} BY DEF Init, Stored
  <2>2. \A r \in Requests : ~Sole(r) BY DEF Init, Sole
  <2>3. 1 .. issued = {} BY DEF Init
  <2>4. QED BY <2>1, <2>2, <2>3, FS_EmptySet DEF CountInv
<1>6. QED BY <1>1, <1>2, <1>3, <1>4, <1>5 DEF IInv
-----------------------------------------------------------------------------
(* One lemma per action *)

LEMMA SendSignInStep ==
  ASSUME IInv, NEW r \in Requests, SendSignIn(r)
  PROVE  IInv'
<1> USE DEF IInv, Goto, SendSignIn, store, cookies, config, history
<1>1. TypeOK' BY DEF TypeOK, Replies
<1>2. now \in Nat BY TimeAssumption DEF TypeOK
<1>3. RequestInv' BY DEF RequestInv, RequestOK, Lifetime, TypeOK
<1>4. TokenInv' BY <1>2, TokensKept DEF Accounted
<1>5. CookieInv' BY DEF CookieInv
<1>6. RotationInv' BY <1>2, RotationKept DEF Good, TypeOK
<1>7. SignedOutInv' BY DEF SignedOutInv, TypeOK
<1>8. CountInv' BY CountKept DEF Sole, TypeOK
<1>9. QED BY <1>1, <1>3, <1>4, <1>5, <1>6, <1>7, <1>8

\* The cookie that is sent was issued.
LEMMA SendCookieStep ==
  ASSUME IInv, NEW r \in Requests, SendCookie(r)
  PROVE  IInv'
<1> USE DEF IInv, Goto, store, cookies, config, history
<1>1. /\ pc[r] = "idle" /\ op[r] \in {"refresh", "signOut"}
      /\ sent' = [sent EXCEPT ![r] = Cookie(who[r])]
      /\ UNCHANGED <<now, store, cookies, config, fresh, history>>
  BY DEF SendCookie
<1>2. Cookie(who[r]) \in 0 .. issued
  BY TypeFacts DEF TypeOK, CookieInv, Cookie, NoToken, Tokens
<1>3. sent'[r] = Cookie(who[r]) /\ \A q \in Requests \ {r} : sent'[q] = sent[q]
  BY <1>1 DEF TypeOK
<1>4. /\ pc' = [pc EXCEPT ![r] =
           IF sent'[r] = NoToken THEN "400" ELSE IF op[r] = "refresh" THEN "get" ELSE "del"]
      /\ pc'[r] \in {"400", "get", "del"}
      /\ \A q \in Requests \ {r} : pc'[q] = pc[q]
  BY DEF SendCookie, TypeOK
<1>5. now \in Nat BY TimeAssumption DEF TypeOK
<1>6. TypeOK'
  <2>1. Cookie(who[r]) \in Tokens \cup {NoToken} BY DEF TypeOK, Cookie
  <2>2. QED BY <1>1, <1>4, <2>1 DEF TypeOK, Replies
<1>7. RequestInv'
  <2>1. pc'[r] = "get" => op[r] = "refresh" BY <1>1, <1>4 DEF TypeOK
  <2>2. pc'[r] = "del" => op[r] = "signOut" BY <1>1, <1>3, <1>4 DEF TypeOK
  <2>3. pc'[r] # "400" => sent'[r] # NoToken BY <1>1, <1>4 DEF TypeOK
  <2>4. fresh[r] = NoToken BY <1>1 DEF RequestInv, RequestOK
  <2>5. \A q \in Requests : Lifetime(q)' = Lifetime(q) BY <1>1 DEF Lifetime
  <2>6. sent'[r] <= issued BY <1>2, <1>3, TypeFacts
  <2>7. QED BY <1>1, <1>3, <1>4, <2>1, <2>2, <2>3, <2>4, <2>5, <2>6 DEF RequestInv, RequestOK
<1>8. TokenInv' BY <1>1, <1>5, TokensKept DEF Accounted
<1>9. CookieInv' BY <1>1 DEF CookieInv
<1>10. RotationInv'
  <2>1. \A q \in Requests, t \in live : Good(t, q)' BY <1>1 DEF Good
  <2>2. QED BY <1>1, <1>3, <1>4, <1>5, <2>1, RotationKept
<1>11. SignedOutInv' BY <1>1, <1>3, <1>4 DEF SignedOutInv
<1>12. CountInv'
  <2>1. \A q \in Requests : Sole(q)' => Sole(q) /\ sent'[q] = sent[q]
    BY <1>1, <1>3, <1>4 DEF Sole, RequestInv, RequestOK, TypeOK
  <2>2. QED BY <1>1, <1>4, <2>1, CountKept
<1>13. QED BY <1>6, <1>7, <1>8, <1>9, <1>10, <1>11, <1>12

\* Of two refreshes with one token only the first is Sole.
LEMMA GetStep ==
  ASSUME IInv, NEW r \in Requests, Get(r)
  PROVE  IInv'
<1> USE DEF IInv, Goto, store, cookies, config
<1>1. /\ pc[r] = "get"
      /\ UNCHANGED <<now, store, cookies, config, sent, fresh, removed, lost, kept, ended>>
      /\ \/ /\ sent[r] \in live /\ pc' = [pc EXCEPT ![r] = "set"]
            /\ doubled' = IF Rotating(sent[r]) THEN doubled \cup {r} ELSE doubled
         \/ pc' = [pc EXCEPT ![r] = "401"] /\ UNCHANGED doubled
  BY DEF Get
<1>2. /\ \A q \in Requests \ {r} : pc'[q] = pc[q] /\ (q \in doubled' <=> q \in doubled)
      /\ doubled \subseteq doubled' /\ doubled' \subseteq Requests
  BY <1>1 DEF TypeOK
<1>3. \/ pc'[r] = "set" /\ sent[r] \in live /\ (Rotating(sent[r]) => r \in doubled')
      \/ pc'[r] = "401"
  BY <1>1 DEF TypeOK
<1>4. op[r] = "refresh" /\ sent[r] # NoToken /\ fresh[r] = NoToken BY <1>1 DEF RequestInv, RequestOK
<1>5. now \in Nat BY TimeAssumption DEF TypeOK
<1>6. TypeOK' BY <1>1, <1>2 DEF TypeOK, Replies
<1>7. RequestInv' BY <1>1, <1>2, <1>3, <1>4 DEF RequestInv, RequestOK, Lifetime
<1>8. TokenInv' BY <1>1, <1>5, TokensKept DEF Accounted
<1>9. CookieInv' BY <1>1 DEF CookieInv
<1>10. RotationInv'
  <2>1. \A t, q : Good(t, q)' <=> Good(t, q)
    BY <1>1 DEF Good, Expired, InMemory, RemovedByOthers
  <2>2. pc'[r] = "set" => Good(sent[r], r) BY <1>3 DEF Good
  <2>3. QED BY <1>1, <1>2, <1>3, <2>1, <2>2 DEF RotationInv
<1>11. SignedOutInv' BY <1>1, <1>2, <1>3 DEF SignedOutInv
<1>12. CountInv'
  <2>1. \A q \in Requests \ {r} : Sole(q)' <=> Sole(q) BY <1>1, <1>2 DEF Sole
  <2>2. Stored' = Stored BY <1>1 DEF Stored
  <2>3. ASSUME NEW q \in Requests \ {r}, Sole(q), Sole(r)' PROVE sent[q] # sent[r]
    BY <1>3, <2>3 DEF Sole, Rotating
  <2>4. Sole(r)' => sent[r] \in live BY <1>3 DEF Sole
  <2>5. \A p, q \in Requests : p # q /\ Sole(p)' /\ Sole(q)' => sent'[p] # sent'[q]
    BY <1>1, <2>1, <2>3 DEF CountInv
  <2>6. ASSUME NEW f \in 1 .. issued
        PROVE  Cardinality(Counted(f)') <= Allowed(f)' + Cardinality(Strays(f)')
    <3>1. Counted(f)' \subseteq Counted(f) BY <1>1, <2>1, <2>4 DEF Counted
    <3>2. Strays(f) \subseteq Strays(f)' BY <1>1, <1>2, <1>4 DEF Strays
    <3>3. IsFiniteSet(Strays(f)')
      <4>1. Strays(f)' \subseteq Stored BY <2>2 DEF Strays, Stored
      <4>2. QED BY <4>1, FS_Subset DEF CountInv
    <3>4. Cardinality(Counted(f)) <= Allowed(f) + Cardinality(Strays(f)) BY DEF CountInv
    <3>5. Allowed(f)' = Allowed(f) /\ Allowed(f) \in Nat BY <1>1 DEF Allowed
    <3>6. QED BY <3>1, <3>2, <3>3, <3>4, <3>5, CountedFinite, BoundKept
  <2>7. QED BY <1>1, <2>2, <2>5, <2>6 DEF CountInv
<1>13. QED BY <1>6, <1>7, <1>8, <1>9, <1>10, <1>11, <1>12

\* A refresh that stores a token is counted once more and allowed for once
\* more; a sign-in begins a family of one token.
LEMMA SetStep ==
  ASSUME IInv, NEW r \in Requests, Set(r)
  PROVE  IInv'
<1> USE DEF IInv, Goto, cookies, config, history
<1>0. PICK t \in Nat : t = issued + 1 BY TypeFacts
<1>1. PICK a \in AccountIds :
        /\ issued' = t /\ live' = live \cup {t}
        /\ owner' = [owner EXCEPT ![t] = AccountOf(r, a)]
        /\ family' = [family EXCEPT ![t] = IF op[r] = "refresh" THEN family[sent[r]] ELSE t]
        /\ until' = [until EXCEPT ![t] = now + Lifetime(r)]
        /\ fresh' = [fresh EXCEPT ![r] = t]
  BY <1>0 DEF Set
<1>2. pc[r] = "set" /\ issued < MaxTokens /\ UNCHANGED <<now, cookies, config, sent, history>>
  BY DEF Set
<1>3. /\ \A q \in Requests \ {r} : pc'[q] = pc[q] /\ fresh'[q] = fresh[q]
      /\ fresh'[r] = t
      /\ pc' \in [Requests -> {"idle", "get", "set", "del", "reply"} \cup Replies]
      /\ IF op[r] = "refresh" THEN pc'[r] \in {"del", "500"} ELSE pc'[r] \in {"reply", "500"}
  BY <1>1 DEF Set, TypeOK, Replies
<1>4. issued \in Nat /\ t \in Nat /\ t \in Tokens /\ 1 .. t = 1 .. issued \cup {t}
  <2>1. issued \in Nat /\ MaxTokens \in Nat BY TypeFacts, TimeAssumption
  <2>2. QED BY <1>0, <1>2, <2>1 DEF Tokens
<1>5. /\ \A u \in 1 .. issued : owner'[u] = owner[u] /\ family'[u] = family[u]
                                /\ until'[u] = until[u]
      /\ owner'[t] = AccountOf(r, a) /\ until'[t] = now + Lifetime(r)
      /\ family'[t] = IF op[r] = "refresh" THEN family[sent[r]] ELSE t
  BY <1>0, <1>1, <1>4, TypeFacts DEF TypeOK
<1>6. /\ op[r] \in {"signIn", "remember", "refresh"} /\ fresh[r] = NoToken
      /\ op[r] = "refresh" => sent[r] \in 1 .. issued
  BY <1>2, TypeFacts DEF RequestInv, RequestOK
<1>7. now \in Nat /\ now + Lifetime(r) \in Times /\ Lifetime(r) \in Nat
  BY TimeAssumption, LifetimeType DEF TypeOK, Times
<1>8. \A q \in Requests : Lifetime(q)' = Lifetime(q) BY <1>2 DEF Lifetime
<1>9. TypeOK'
  <2>1. AccountOf(r, a) \in AccountIds \cup {0} BY <1>4, <1>6, TypeFacts DEF AccountOf, TypeOK
  <2>2. op[r] = "refresh" => family[sent[r]] \in Tokens \cup {NoToken}
    BY <1>6, TypeFacts DEF TypeOK
  <2>3. live' \subseteq 1 .. issued' BY <1>1, <1>4 DEF TypeOK
  <2>4. issued' \in 0 .. MaxTokens BY <1>1, <1>4 DEF Tokens
  <2>5. QED BY <1>1, <1>2, <1>3, <1>4, <1>7, <2>1, <2>2, <2>3, <2>4 DEF TypeOK
<1>10. RequestInv'
  <2> SUFFICES ASSUME NEW q \in Requests PROVE RequestOK(q)' BY DEF RequestInv
  <2> USE DEF RequestOK
  <2>1. sent'[q] = sent[q] /\ op'[q] = op[q] /\ sent[q] \in Nat /\ sent[q] <= issued /\ issued' = issued + 1
    BY <1>0, <1>1, <1>2, TypeFacts DEF RequestInv, RequestOK
  <2>2. CASE q = r
    <3>1. t # NoToken /\ now + Lifetime(r) >= Lifetime(r) BY <1>4, <1>7 DEF NoToken
    <3>2. op[r] = "refresh" => sent[r] # NoToken /\ sent[r] < t /\ family'[sent[r]] = family[sent[r]]
      BY <1>0, <1>4, <1>5, <1>6 DEF NoToken
    <3>3. QED BY <1>3, <1>4, <1>5, <1>6, <1>8, <2>1, <2>2, <3>1, <3>2
  <2>3. CASE q # r
    <3>1. fresh'[q] = fresh[q] /\ pc'[q] = pc[q] BY <1>3, <2>3
    <3>2. fresh[q] # NoToken => fresh[q] \in 1 .. issued BY TypeFacts
    <3>3. sent[q] # NoToken => sent[q] \in 1 .. issued BY TypeFacts
    <3>4. fresh[q] # NoToken => until'[fresh[q]] = until[fresh[q]] /\ family'[fresh[q]] = family[fresh[q]]
      BY <1>5, <3>2
    <3>5. sent[q] # NoToken => family'[sent[q]] = family[sent[q]] BY <1>5, <3>3
    <3>6. QED BY <1>4, <1>8, <2>1, <3>1, <3>2, <3>4, <3>5 DEF RequestInv, RequestOK
  <2>4. QED BY <2>2, <2>3
<1>11. TokenInv'
  <2>1. ASSUME NEW u \in 1 .. issued
        PROVE  Accounted(u)' /\ family'[u] \in 1 .. u /\ owner'[u] = owner'[family'[u]] /\ owner'[u] # 0
    <3>1. Accounted(u) /\ family[u] \in 1 .. u /\ owner[u] = owner[family[u]] /\ owner[u] # 0
      BY DEF TokenInv
    <3>2. family[u] \in 1 .. issued BY <1>4, <3>1
    <3>3. Accounted(u)' BY <1>1, <1>2, <1>5, <3>1 DEF Accounted, Expired, InMemory
    <3>4. QED BY <1>5, <3>1, <3>2, <3>3
  <2>2. Accounted(t)' BY <1>1 DEF Accounted
  <2>3. family'[t] \in 1 .. t /\ owner'[t] = owner'[family'[t]] /\ owner'[t] # 0
    <3>1. CASE op[r] = "refresh"
      <4>1. sent[r] \in 1 .. issued BY <1>6, <3>1
      <4>2. family[sent[r]] \in 1 .. sent[r] /\ owner[sent[r]] = owner[family[sent[r]]] /\ owner[sent[r]] # 0
        BY <4>1 DEF TokenInv
      <4>3. family[sent[r]] \in 1 .. issued BY <1>4, <4>1, <4>2
      <4>4. QED BY <1>4, <1>5, <3>1, <4>1, <4>2, <4>3 DEF AccountOf
    <3>2. CASE op[r] # "refresh" BY <1>4, <1>5, <3>2, TimeAssumption DEF AccountOf
    <3>3. QED BY <3>1, <3>2
  <2>4. QED BY <1>1, <1>4, <2>1, <2>2, <2>3 DEF TokenInv
<1>12. CookieInv'
  <2>1. \A c \in Clients : jar[c] # NoToken => jar[c] \in 1 .. issued
    BY <1>4 DEF CookieInv, TypeOK, Tokens, NoToken
  <2>2. QED BY <1>1, <1>2, <1>4, <1>5, <2>1 DEF CookieInv
<1>13. RotationInv'
  <2>1. ASSUME NEW q \in Requests, NEW u \in 1 .. issued, Good(u, q)
        PROVE  Good(u, q)'
    BY <1>1, <1>2, <1>5, <2>1 DEF Good, Expired, InMemory, RemovedByOthers
  <2>2. Good(t, r)' BY <1>1 DEF Good
  <2>3. ASSUME NEW q \in Requests, op[q] = "refresh", pc'[q] = "set"
        PROVE  Good(sent[q], q)'
    <3>1. q # r /\ pc[q] = "set" BY <1>3, <2>3
    <3>2. sent[q] \in 1 .. issued /\ Good(sent[q], q)
      BY <2>3, <3>1, TypeFacts DEF RequestInv, RequestOK, RotationInv
    <3>3. \A u \in 1 .. issued : u = sent[q] => Good(u, q)' BY <2>1, <3>2
    <3>4. QED BY <1>2, <3>2, <3>3 DEF Good, Expired, InMemory, RemovedByOthers
  <2>4. ASSUME NEW q \in Requests, op[q] = "refresh", pc'[q] \in {"del", "reply"}
        PROVE  Good(fresh[q], q)'
    <3>1. CASE q = r BY <1>3, <2>2, <3>1 DEF Good, Expired, InMemory, RemovedByOthers
    <3>2. CASE q # r
      <4>1. pc[q] \in {"del", "reply"} /\ fresh'[q] = fresh[q] BY <1>3, <2>4, <3>2
      <4>2. fresh[q] \in 1 .. issued /\ Good(fresh[q], q)
        BY <2>4, <4>1, TypeFacts DEF RequestInv, RequestOK, RotationInv
      <4>3. \A u \in 1 .. issued : u = fresh[q] => Good(u, q)' BY <2>1, <4>2
      <4>4. QED BY <4>1, <4>2, <4>3 DEF Good, Expired, InMemory, RemovedByOthers
    <3>3. QED BY <3>1, <3>2
  <2>5. QED BY <1>2, <2>3, <2>4 DEF RotationInv
<1>14. SignedOutInv'
  <2>1. \A q \in Requests : sent[q] # t BY <1>0, <1>4, TypeFacts DEF RequestInv, RequestOK
  <2>2. op[r] # "signOut" BY <1>6
  <2>3. QED BY <1>1, <1>2, <1>3, <2>1, <2>2 DEF SignedOutInv
<1>15. CountInv'
  <2>1. \A q \in Requests : Sole(q)' => Sole(q) BY <1>2, <1>3 DEF Sole
  <2>2. IsFiniteSet(Stored)'
    <3>1. Stored' \subseteq Stored \cup {r} BY <1>3 DEF Stored
    <3>2. IsFiniteSet(Stored \cup {r}) BY FS_AddElement DEF CountInv
    <3>3. QED BY <3>1, <3>2, FS_Subset
  <2>3. \A p, q \in Requests : p # q /\ Sole(p)' /\ Sole(q)' => sent'[p] # sent'[q]
    BY <1>2, <2>1 DEF CountInv
  <2>4. ASSUME NEW f PROVE IsFiniteSet(Strays(f)')
    <3>1. Strays(f)' \subseteq Stored' BY DEF Strays, Stored
    <3>2. QED BY <2>2, <3>1, FS_Subset
  <2>5. ASSUME NEW f \in 1 .. issued
        PROVE  Cardinality(Counted(f)') <= Allowed(f)' + Cardinality(Strays(f)')
    <3>1. Counted(f)' \subseteq Counted(f) \cup {t} /\ (family'[t] # f => Counted(f)' \subseteq Counted(f))
      BY <1>1, <1>2, <1>4, <1>5, <2>1 DEF Counted
    <3>2. Strays(f) \subseteq Strays(f)'
      <4> SUFFICES ASSUME NEW q \in Strays(f) PROVE q \in Strays(f)' OBVIOUS
      <4>1. q \in Requests /\ q # r BY <1>6 DEF Strays
      <4>2. fresh[q] \in 1 .. issued BY <4>1, TypeFacts DEF Strays
      <4>3. QED BY <1>2, <1>3, <1>5, <4>1, <4>2 DEF Strays
    <3>3. Cardinality(Counted(f)) <= Allowed(f) + Cardinality(Strays(f)) BY DEF CountInv
    <3>4. Allowed(f)' = Allowed(f) /\ Allowed(f) \in Nat BY <1>2 DEF Allowed
    <3>5. CASE family'[t] # f BY <2>4, <3>1, <3>2, <3>3, <3>4, <3>5, CountedFinite, BoundKept
    <3>6. CASE family'[t] = f
      <4>1. op[r] = "refresh" BY <1>0, <1>4, <1>5, <3>6
      <4>2. r \in Strays(f)' /\ r \notin Strays(f)
        BY <1>2, <1>3, <1>4, <1>6, <3>6, <4>1 DEF Strays, NoToken
      <4>3. ASSUME NEW A, NEW E, NEW B, NEW F,
                   A = Counted(f), E = Strays(f), B = Counted(f)', F = Strays(f)',
                   NEW k \in Nat, k = Allowed(f)
            PROVE  Cardinality(B) <= k + Cardinality(F)
        <5>1. /\ IsFiniteSet(A) /\ IsFiniteSet(F)
              /\ B \subseteq A \cup {t} /\ E \cup {r} \subseteq F /\ r \notin E
              /\ Cardinality(A) <= k + Cardinality(E)
          BY <2>4, <3>1, <3>2, <3>3, <4>2, <4>3, CountedFinite
        <5>2. QED BY <5>1, BoundAdd
      <4>4. QED BY <3>4, <4>3
    <3>7. QED BY <3>5, <3>6
  <2>6. Cardinality(Counted(t)') <= Allowed(t)' + Cardinality(Strays(t)')
    <3>1. \A u \in 1 .. issued : family'[u] # t BY <1>0, <1>4, <1>5 DEF TokenInv
    <3>2. Counted(t)' \subseteq {t} BY <1>1, <1>4, <3>1 DEF Counted
    <3>3. IsFiniteSet({t}) /\ Cardinality({t}) = 1 BY FS_Singleton
    <3>4. IsFiniteSet({}) /\ Cardinality({}) = 0 BY FS_EmptySet
    <3>5. Cardinality({t}) <= 1 + Cardinality({}) BY <3>3, <3>4
    <3>6. {} \subseteq Strays(t)' OBVIOUS
    <3>7. IsFiniteSet(Strays(t)') BY <2>4
    <3>8. Allowed(t)' = 1 BY <1>0, <1>2, <1>4 DEF Allowed, TypeOK
    <3>9. QED BY <3>2, <3>3, <3>5, <3>6, <3>7, <3>8, BoundKept
  <2>7. \A f \in 1 .. t : Cardinality(Counted(f)') <= Allowed(f)' + Cardinality(Strays(f)')
    BY <1>4, <2>5, <2>6
  <2>8. QED BY <1>1, <2>2, <2>3, <2>7 DEF CountInv
<1>16. QED BY <1>9, <1>10, <1>11, <1>12, <1>13, <1>14, <1>15

\* What is deleted is accounted for, and never the token that the refresh
\* itself stored.
LEMMA DelStep ==
  ASSUME IInv, NEW r \in Requests, Del(r)
  PROVE  IInv'
<1> USE DEF IInv, Goto, cookies, config
<1>1. /\ pc[r] = "del" /\ live' = live \ {sent[r]}
      /\ removed' = removed \cup {<<sent[r], r>>}
      /\ UNCHANGED <<now, owner, family, until, issued, cookies, config, sent, fresh, lost,
                     doubled, kept>>
      /\ \/ UNCHANGED ended
         \/ /\ op[r] = "signOut" /\ sent[r] \in live /\ ~Rotating(sent[r])
            /\ ended' = ended \cup {family[sent[r]]}
  BY DEF Del
<1>2. /\ \A q \in Requests \ {r} : pc'[q] = pc[q]
      /\ pc'[r] = "reply" \/ (op[r] = "signOut" /\ pc'[r] = "500")
      /\ pc' \in [Requests -> {"idle", "get", "set", "del", "reply"} \cup Replies]
  BY DEF Del, TypeOK, Replies
<1>3. op[r] \in {"refresh", "signOut"} /\ sent[r] \in 1 .. issued
  BY <1>1, TypeFacts DEF RequestInv, RequestOK
<1>4. op[r] = "refresh" =>
        fresh[r] \in 1 .. issued /\ sent[r] # fresh[r] /\ family[fresh[r]] = family[sent[r]]
  BY <1>1, TypeFacts DEF RequestInv, RequestOK
<1>5. now \in Nat BY TimeAssumption DEF TypeOK
<1>6. TypeOK'
  <2>1. <<sent[r], r>> \in Tokens \X Requests BY <1>3, TypeFacts
  <2>2. family[sent[r]] \in 1 .. issued BY <1>3, TypeFacts DEF TokenInv
  <2>3. QED BY <1>1, <1>2, <2>1, <2>2 DEF TypeOK
<1>7. RequestInv' BY <1>1, <1>2, <1>3, <1>4 DEF RequestInv, RequestOK, Lifetime, NoToken
<1>8. TokenInv'
  <2>1. \A t \in live : Accounted(t)' BY <1>1 DEF Accounted
  <2>2. QED BY <1>1, <1>5, <2>1, TokensKept
<1>9. CookieInv' BY <1>1 DEF CookieInv
<1>10. RotationInv'
  <2>1. ASSUME NEW q \in Requests, NEW t \in live, op[q] = "refresh",
               \/ pc'[q] = "set" /\ t = sent[q]
               \/ pc'[q] \in {"del", "reply"} /\ t = fresh[q]
        PROVE  Good(t, q)'
    <3>1. CASE t # sent[r] BY <1>1, <3>1 DEF Good
    <3>2. CASE t = sent[r] /\ q # r BY <1>1, <3>2 DEF Good, RemovedByOthers
    <3>3. CASE t = sent[r] /\ q = r BY <1>2, <1>4, <2>1, <3>3
    <3>4. QED BY <3>1, <3>2, <3>3
  <2>2. \A q \in Requests : op[q] = "refresh" =>
            /\ pc'[q] = "set" => pc[q] = "set"
            /\ pc'[q] \in {"del", "reply"} => pc[q] \in {"del", "reply"}
    BY <1>1, <1>2
  <2>3. QED BY <1>1, <1>5, <2>1, <2>2, RotationKept
<1>11. SignedOutInv' BY <1>1, <1>2 DEF SignedOutInv
<1>12. CountInv'
  <2>1. \A q \in Requests : Sole(q)' => Sole(q) /\ q # r BY <1>1, <1>2 DEF Sole
  <2>2. CASE op[r] = "refresh" /\ r \notin kept \cup doubled
    <3>1. Stored' = Stored BY <1>1 DEF Stored
    <3>2. \A p, q \in Requests : p # q /\ Sole(p)' /\ Sole(q)' => sent'[p] # sent'[q]
      BY <1>1, <2>1 DEF CountInv
    <3>3. Sole(r) BY <1>1, <2>2 DEF Sole
    <3>4. \A q \in Requests : Sole(q)' => sent[q] # sent[r] BY <2>1, <3>3 DEF CountInv
    <3>5. ASSUME NEW f \in 1 .. issued
          PROVE  Cardinality(Counted(f)') <= Allowed(f)' + Cardinality(Strays(f)')
      <4>1. Counted(f)' \subseteq Counted(f) BY <1>1, <2>1 DEF Counted
      <4>2. Cardinality(Counted(f)) <= Allowed(f) + Cardinality(Strays(f)) BY DEF CountInv
      <4>3. IsFiniteSet(Strays(f)')
        <5>1. Strays(f)' \subseteq Stored BY <3>1 DEF Strays, Stored
        <5>2. QED BY <5>1, FS_Subset DEF CountInv
      <4>4. IsFiniteSet(Counted(f)) /\ IsFiniteSet(Strays(f)) BY CountedFinite
      <4>5. Strays(f) \ {r} \subseteq Strays(f)' BY <1>1, <1>2 DEF Strays
      <4>6. Allowed(f)' = Allowed(f) /\ Allowed(f) \in Nat BY <1>1, <2>2 DEF Allowed
      <4>7. CASE family[fresh[r]] = f
        <5>1. sent[r] \in Counted(f) BY <1>3, <1>4, <2>2, <3>3, <4>7 DEF Counted
        <5>2. Counted(f)' \subseteq Counted(f) \ {sent[r]}
          BY <1>1, <3>4, <4>1 DEF Counted
        <5>3. ASSUME NEW A, NEW E, NEW B, NEW F,
                     A = Counted(f), E = Strays(f), B = Counted(f)', F = Strays(f)',
                     NEW k \in Nat, k = Allowed(f)
              PROVE  Cardinality(B) <= k + Cardinality(F)
          <6>1. /\ IsFiniteSet(A) /\ IsFiniteSet(E) /\ IsFiniteSet(F)
                /\ B \subseteq A \ {sent[r]} /\ sent[r] \in A /\ E \ {r} \subseteq F
                /\ Cardinality(A) <= k + Cardinality(E)
            BY <4>2, <4>3, <4>4, <4>5, <5>1, <5>2, <5>3
          <6>2. QED BY <6>1, BoundRemove
        <5>4. QED BY <4>6, <5>3
      <4>8. CASE family[fresh[r]] # f
        <5>1. r \notin Strays(f) BY <4>8 DEF Strays
        <5>2. Strays(f) \subseteq Strays(f)' BY <4>5, <5>1
        <5>3. QED BY <4>6, <4>1, <4>2, <4>3, <4>4, <5>2, BoundKept
      <4>9. QED BY <4>7, <4>8
    <3>6. QED BY <1>1, <3>1, <3>2, <3>5 DEF CountInv
  <2>3. CASE ended' = ended /\ (op[r] # "refresh" \/ r \in kept \cup doubled)
    <3>1. \A q \in Requests :
            op[q] = "refresh" /\ (pc[q] \in {"del", "500"} \/ q \in kept \cup doubled)
              => pc'[q] \in {"del", "500"} \/ q \in kept' \cup doubled'
      BY <1>1, <1>2, <2>3
    <3>2. \A q \in Requests : Sole(q)' => Sole(q) /\ sent'[q] = sent[q] BY <1>1, <2>1
    <3>3. live' \subseteq live /\ UNCHANGED <<issued, family, op, fresh, ended>> BY <1>1, <2>3
    <3>4. QED BY <3>1, <3>2, <3>3, CountKept
  <2>4. CASE /\ op[r] = "signOut" /\ sent[r] \in live /\ ~Rotating(sent[r])
             /\ ended' = ended \cup {family[sent[r]]}
    <3>1. Stored' = Stored BY <1>1 DEF Stored
    <3>2. \A p, q \in Requests : p # q /\ Sole(p)' /\ Sole(q)' => sent'[p] # sent'[q]
      BY <1>1, <2>1 DEF CountInv
    <3>3. \A q \in Requests : Sole(q)' => sent[q] # sent[r] BY <2>1, <2>4 DEF Sole, Rotating
    <3>4. ASSUME NEW f \in 1 .. issued
          PROVE  Cardinality(Counted(f)') <= Allowed(f)' + Cardinality(Strays(f)')
      <4>1. Counted(f)' \subseteq Counted(f) BY <1>1, <2>1 DEF Counted
      <4>2. Cardinality(Counted(f)) <= Allowed(f) + Cardinality(Strays(f)) BY DEF CountInv
      <4>3. Strays(f) \subseteq Strays(f)' BY <1>1, <1>2, <2>4 DEF Strays
      <4>4. IsFiniteSet(Strays(f)')
        <5>1. Strays(f)' \subseteq Stored BY <3>1 DEF Strays, Stored
        <5>2. QED BY <5>1, FS_Subset DEF CountInv
      <4>5. IsFiniteSet(Counted(f)) BY CountedFinite
      <4>6. Allowed(f) \in {0, 1} /\ Allowed(f) \in Nat BY DEF Allowed
      <4>7. CASE f = family[sent[r]]
        <5>1. sent[r] \in Counted(f) BY <1>3, <2>4, <4>7 DEF Counted
        <5>2. Counted(f)' \subseteq Counted(f) \ {sent[r]} BY <1>1, <3>3, <4>1 DEF Counted
        <5>3. Allowed(f)' = 0 BY <2>4, <4>7 DEF Allowed
        <5>4. ASSUME NEW A, NEW E, NEW B, NEW F,
                     A = Counted(f), E = Strays(f), B = Counted(f)', F = Strays(f)',
                     NEW k \in {0, 1}, k = Allowed(f)
              PROVE  Cardinality(B) <= 0 + Cardinality(F)
          <6>1. /\ IsFiniteSet(A) /\ IsFiniteSet(F)
                /\ B \subseteq A \ {sent[r]} /\ sent[r] \in A /\ E \subseteq F
                /\ Cardinality(A) <= k + Cardinality(E)
            BY <4>2, <4>3, <4>4, <4>5, <5>1, <5>2, <5>4
          <6>2. QED BY <6>1, BoundEnd
        <5>5. QED BY <4>6, <5>3, <5>4
      <4>8. CASE f # family[sent[r]]
        <5>1. Allowed(f)' = Allowed(f) BY <2>4, <4>8 DEF Allowed
        <5>2. QED BY <4>1, <4>2, <4>3, <4>4, <4>5, <4>6, <5>1, BoundKept
      <4>9. QED BY <4>7, <4>8
    <3>5. QED BY <1>1, <3>1, <3>2, <3>4 DEF CountInv
  <2>5. QED BY <1>1, <2>2, <2>3, <2>4
<1>13. QED BY <1>6, <1>7, <1>8, <1>9, <1>10, <1>11, <1>12

\* The steps that change no entry.
LEMMA SetFailsStep ==
  ASSUME IInv, NEW r \in Requests, SetFails(r)
  PROVE  IInv'
<1> USE DEF IInv, Goto, SetFails, store, cookies, config, history
<1>1. TypeOK' BY DEF TypeOK, Replies
<1>2. now \in Nat BY TimeAssumption DEF TypeOK
<1>3. RequestInv' BY DEF RequestInv, RequestOK, Lifetime, TypeOK
<1>4. TokenInv' BY <1>2, TokensKept DEF Accounted
<1>5. CookieInv' BY DEF CookieInv
<1>6. RotationInv' BY <1>2, RotationKept DEF Good, TypeOK
<1>7. SignedOutInv' BY DEF SignedOutInv, TypeOK
<1>8. CountInv' BY CountKept DEF Sole, TypeOK
<1>9. QED BY <1>1, <1>3, <1>4, <1>5, <1>6, <1>7, <1>8

LEMMA ReplyLostStep ==
  ASSUME IInv, NEW r \in Requests, ReplyLost(r)
  PROVE  IInv'
<1> USE DEF IInv, Goto, ReplyLost, store, cookies, config, history
<1>1. TypeOK' BY DEF TypeOK, Replies
<1>2. now \in Nat BY TimeAssumption DEF TypeOK
<1>3. RequestInv' BY DEF RequestInv, RequestOK, Lifetime, TypeOK
<1>4. TokenInv' BY <1>2, TokensKept DEF Accounted
<1>5. CookieInv' BY DEF CookieInv
<1>6. RotationInv' BY <1>2, RotationKept DEF Good, TypeOK
<1>7. SignedOutInv' BY DEF SignedOutInv, TypeOK
<1>8. CountInv' BY CountKept DEF Sole, TypeOK
<1>9. QED BY <1>1, <1>3, <1>4, <1>5, <1>6, <1>7, <1>8

LEMMA DelFailsStep ==
  ASSUME IInv, NEW r \in Requests, DelFails(r)
  PROVE  IInv'
<1> USE DEF IInv, Goto, store, cookies, config
<1>1. /\ pc[r] = "del"
      /\ UNCHANGED <<now, store, cookies, config, sent, fresh, removed, lost, doubled, ended>>
      /\ \/ /\ op[r] = "refresh" /\ pc' = [pc EXCEPT ![r] = "reply"]
            /\ kept' = kept \cup {r}
         \/ op[r] = "signOut" /\ pc' = [pc EXCEPT ![r] = "500"] /\ UNCHANGED kept
  BY DEF DelFails, RequestInv, RequestOK
<1>2. \A q \in Requests \ {r} : pc'[q] = pc[q] BY <1>1 DEF TypeOK
<1>3. pc'[r] \in {"reply", "500"} /\ (pc'[r] = "reply" => op[r] = "refresh")
  BY <1>1 DEF TypeOK
<1>4. now \in Nat BY TimeAssumption DEF TypeOK
<1>5. TypeOK' BY <1>1 DEF TypeOK, Replies
<1>6. RequestInv' BY <1>1, <1>2, <1>3 DEF RequestInv, RequestOK, Lifetime
<1>7. TokenInv' BY <1>1, <1>4, TokensKept DEF Accounted
<1>8. CookieInv' BY <1>1 DEF CookieInv
<1>9. RotationInv'
  <2>1. \A q \in Requests, t \in live : Good(t, q)' BY <1>1 DEF Good
  <2>2. QED BY <1>1, <1>2, <1>3, <1>4, <2>1, RotationKept
<1>10. SignedOutInv' BY <1>1, <1>2, <1>3 DEF SignedOutInv
<1>11. CountInv'
  <2>1. \A q \in Requests : Sole(q)' => Sole(q) /\ sent'[q] = sent[q]
    BY <1>1, <1>2, <1>3 DEF Sole
  <2>2. \A q \in Requests :
            op[q] = "refresh" /\ (pc[q] \in {"del", "500"} \/ q \in kept \cup doubled)
              => pc'[q] \in {"del", "500"} \/ q \in kept' \cup doubled'
    BY <1>1, <1>2
  <2>3. QED BY <1>1, <2>1, <2>2, CountKept
<1>12. QED BY <1>5, <1>6, <1>7, <1>8, <1>9, <1>10, <1>11

\* The lifetime of a cookie is at most that of the entry of its token.
LEMMA ReplyStep ==
  ASSUME IInv, NEW r \in Requests, Reply(r)
  PROVE  IInv'
<1> DEFINE end == IF fresh[r] = NoToken THEN 0 ELSE until[fresh[r]] - (Lifetime(r) - TTL)
<1> USE DEF IInv, Goto, store, config, history
<1>1. /\ pc[r] = "reply"
      /\ jar' = [jar EXCEPT ![who[r]] = fresh[r]]
      /\ jarUntil' = [jarUntil EXCEPT ![who[r]] = end]
      /\ UNCHANGED <<now, store, config, sent, fresh, history>>
  BY DEF Reply
<1>2. /\ \A q \in Requests \ {r} : pc'[q] = pc[q]
      /\ pc'[r] \in {"200", "204", "500"}
      /\ pc'[r] = "204" => op[r] = "signOut"
      /\ pc'[r] = "500" => op[r] # "refresh"
      /\ pc' \in [Requests -> {"idle", "get", "set", "del", "reply"} \cup Replies]
  BY DEF Reply, TypeOK, Replies
<1>3. now \in Nat BY TimeAssumption DEF TypeOK
<1>4. fresh[r] # NoToken => until[fresh[r]] \in Times /\ Lifetime(r) <= until[fresh[r]]
  BY <1>1, TypeFacts DEF RequestInv, RequestOK, TypeOK
<1>5. end \in Times /\ (fresh[r] # NoToken => end <= until[fresh[r]])
  BY <1>4, LifetimeType, TimeAssumption DEF Times
<1>6. TypeOK' BY <1>1, <1>2, <1>5 DEF TypeOK
<1>7. RequestInv' BY <1>1, <1>2 DEF RequestInv, RequestOK, Lifetime
<1>8. TokenInv' BY <1>1, <1>3, TokensKept DEF Accounted
<1>9. CookieInv'
  <2> SUFFICES ASSUME NEW c \in Clients, jar'[c] # NoToken
               PROVE  jar'[c] <= issued /\ jarUntil'[c] <= until[jar'[c]]
    BY <1>1 DEF CookieInv
  <2>1. CASE c = who[r]
    <3>1. jar'[c] = fresh[r] /\ jarUntil'[c] = end BY <1>1, <2>1 DEF TypeOK
    <3>2. QED BY <1>5, <3>1 DEF RequestInv, RequestOK
  <2>2. CASE c # who[r]
    <3>1. jar'[c] = jar[c] /\ jarUntil'[c] = jarUntil[c] BY <1>1, <2>2 DEF TypeOK
    <3>2. QED BY <3>1 DEF CookieInv
  <2>3. QED BY <2>1, <2>2
<1>10. RotationInv'
  <2>1. \A q \in Requests, t \in live : Good(t, q)' BY <1>1 DEF Good
  <2>2. QED BY <1>1, <1>2, <1>3, <2>1, RotationKept
<1>11. SignedOutInv' BY <1>1, <1>2 DEF SignedOutInv
<1>12. CountInv'
  <2>1. \A q \in Requests : Sole(q)' => Sole(q) /\ sent'[q] = sent[q]
    BY <1>1, <1>2 DEF Sole
  <2>2. \A q \in Requests :
            op[q] = "refresh" /\ (pc[q] \in {"del", "500"} \/ q \in kept \cup doubled)
              => pc'[q] \in {"del", "500"} \/ q \in kept' \cup doubled'
    BY <1>1, <1>2
  <2>3. QED BY <1>1, <2>1, <2>2, CountKept
<1>13. QED BY <1>6, <1>7, <1>8, <1>9, <1>10, <1>11, <1>12

\* What Redis drops has expired.
LEMMA TickStep ==
  ASSUME IInv, Tick
  PROVE  IInv'
<1> USE DEF IInv, cookies, requests, config, history
<1>1. /\ now < MaxTime /\ now' = now + 1
      /\ live' = IF InMemory THEN live ELSE {t \in live : now' < until[t]}
      /\ UNCHANGED <<owner, family, until, issued, cookies, requests, history>>
  BY DEF Tick
<1>2. now \in Nat /\ now' \in Nat /\ now <= now' /\ now' \in 0 .. MaxTime
  BY <1>1, TimeAssumption DEF TypeOK
<1>3. live' \subseteq live BY <1>1
<1>4. \A t \in live : t \in live' \/ Expired(t)'
  <2> SUFFICES ASSUME NEW t \in live, t \notin live' PROVE Expired(t)' OBVIOUS
  <2>1. until[t] \in Nat BY TypeFacts, TimeAssumption DEF TypeOK, Times
  <2>2. QED BY <1>1, <1>2, <2>1 DEF Expired, InMemory
<1>5. TypeOK' BY <1>1, <1>2, <1>3 DEF TypeOK
<1>6. RequestInv' BY <1>1 DEF RequestInv, RequestOK, Lifetime
<1>7. TokenInv' BY <1>1, <1>2, <1>4, TokensKept DEF Accounted
<1>8. CookieInv' BY <1>1 DEF CookieInv
<1>9. RotationInv'
  <2>1. \A q \in Requests, t \in live : Good(t, q)' BY <1>4 DEF Good
  <2>2. QED BY <1>1, <1>2, <2>1, RotationKept
<1>10. SignedOutInv' BY <1>1, <1>3 DEF SignedOutInv
<1>11. CountInv'
  <2>1. \A q \in Requests : Sole(q)' => Sole(q) /\ sent'[q] = sent[q] BY <1>1 DEF Sole
  <2>2. QED BY <1>1, <1>3, <2>1, CountKept
<1>12. QED BY <1>5, <1>6, <1>7, <1>8, <1>9, <1>10, <1>11

\* What goes with the memory is recorded as lost.
LEMMA CrashStep ==
  ASSUME IInv, Crash
  PROVE  IInv'
<1> USE DEF IInv, cookies, config
<1>1. /\ kept' = kept \cup {r \in Requests : pc[r] = "del" /\ op[r] = "refresh"}
      /\ \/ live' = {} /\ lost' = lost \cup live
         \/ UNCHANGED <<live, lost>>
      /\ UNCHANGED <<now, owner, family, until, issued, cookies, config, sent, fresh, removed,
                     doubled, ended>>
  BY DEF Crash
<1>2. /\ \A r \in Requests : IF pc[r] \in {"get", "set", "del", "reply"}
                             THEN pc'[r] = "gone" ELSE pc'[r] = pc[r]
      /\ pc' \in [Requests -> {"idle", "get", "set", "del", "reply"} \cup Replies]
  BY DEF Crash, TypeOK, Replies
<1>3. now \in Nat BY TimeAssumption DEF TypeOK
<1>4. live' \subseteq live /\ \A t \in live : t \in live' \/ t \in lost' BY <1>1
<1>5. TypeOK'
  <2>1. live \subseteq Tokens BY TypeFacts DEF TypeOK
  <2>2. QED BY <1>1, <1>2, <2>1 DEF TypeOK
<1>6. RequestInv' BY <1>1, <1>2 DEF RequestInv, RequestOK, Lifetime
<1>7. TokenInv'
  <2>1. \A t \in live : Accounted(t)' BY <1>4 DEF Accounted
  <2>2. QED BY <1>1, <1>3, <2>1, TokensKept
<1>8. CookieInv' BY <1>1 DEF CookieInv
<1>9. RotationInv' BY <1>2 DEF RotationInv
<1>10. SignedOutInv' BY <1>1, <1>2, <1>4 DEF SignedOutInv
<1>11. CountInv'
  <2>1. \A q \in Requests : Sole(q)' => Sole(q) /\ sent'[q] = sent[q] BY <1>1, <1>2 DEF Sole
  <2>2. \A q \in Requests :
            op[q] = "refresh" /\ (pc[q] \in {"del", "500"} \/ q \in kept \cup doubled)
              => pc'[q] \in {"del", "500"} \/ q \in kept' \cup doubled'
    BY <1>1, <1>2
  <2>3. QED BY <1>1, <1>4, <2>1, <2>2, CountKept
<1>12. QED BY <1>5, <1>6, <1>7, <1>8, <1>9, <1>10, <1>11

LEMMA NextIInv == IInv /\ [Next]_vars => IInv'
<1> SUFFICES ASSUME IInv, [Next]_vars PROVE IInv' OBVIOUS
<1>1. ASSUME NEW r \in Requests,
             \/ SendSignIn(r) \/ SendCookie(r) \/ Get(r) \/ Set(r) \/ SetFails(r)
             \/ Del(r) \/ DelFails(r) \/ Reply(r) \/ ReplyLost(r)
      PROVE  IInv'
  BY <1>1, SendSignInStep, SendCookieStep, GetStep, SetStep, SetFailsStep, DelStep,
     DelFailsStep, ReplyStep, ReplyLostStep
<1>2. CASE Tick BY <1>2, TickStep
<1>3. CASE Crash BY <1>3, CrashStep
<1>4. CASE UNCHANGED vars
  <2> USE <1>4 DEF vars, store, cookies, requests, config, history, IInv
  <2>1. TypeOK' BY DEF TypeOK
  <2>2. RequestInv' BY DEF RequestInv, RequestOK, Lifetime
  <2>3. TokenInv' BY DEF TokenInv, Accounted, Expired, InMemory
  <2>4. CookieInv' /\ SignedOutInv' BY DEF CookieInv, SignedOutInv
  <2>5. RotationInv' BY DEF RotationInv, Good, Expired, InMemory, RemovedByOthers
  <2>6. CountInv' BY CountKept DEF Sole
  <2>7. QED BY <2>1, <2>2, <2>3, <2>4, <2>5, <2>6
<1>5. QED BY <1>1, <1>2, <1>3, <1>4 DEF Next

-----------------------------------------------------------------------------

\* The inductive invariant holds in every state.
THEOREM Invariance == Spec => []IInv
BY InitIInv, NextIInv, PTL DEF Spec

\* The variables keep their types: neither an entry nor a cookie is ever given
\* an expiry out of range, and only issued tokens have entries.
THEOREM TypeCorrect == Spec => []TypeOK
<1>1. IInv => TypeOK BY DEF IInv
<1>2. QED BY <1>1, Invariance, PTL

\* A refresh stores before it deletes: whenever it is cut off, its user has a
\* token that is good, unless time, the memory or another request took it.
THEOREM SafeRotation == Spec => []RotationKeepsOneToken
<1>1. ASSUME IInv PROVE RotationKeepsOneToken
  <2> SUFFICES ASSUME NEW r \in Requests, op[r] = "refresh", pc[r] \in {"set", "del", "reply"}
               PROVE  \E t \in {sent[r], fresh[r]} \ {NoToken} : Good(t, r)
    BY DEF RotationKeepsOneToken, Good
  <2>1. CASE pc[r] = "set"
    BY <1>1, <2>1 DEF IInv, RotationInv, RequestInv, RequestOK
  <2>2. CASE pc[r] \in {"del", "reply"}
    BY <1>1, <2>2 DEF IInv, RotationInv, RequestInv, RequestOK
  <2>3. QED BY <2>1, <2>2
<1>2. QED BY <1>1, Invariance, PTL

\* However often it is rotated, a token opens the account of its sign-in.
THEOREM OneAccountPerFamily == Spec => []FamilyKeepsItsAccount
<1>1. ASSUME IInv PROVE FamilyKeepsItsAccount
  <2>1. issued \in Nat BY <1>1, TypeFacts
  <2>2. QED BY <1>1, <2>1 DEF IInv, TokenInv, FamilyKeepsItsAccount
<1>2. QED BY <1>1, Invariance, PTL

\* What is counted takes in the live tokens.
LEMMA LiveBound ==
  ASSUME IInv, NEW f \in 1 .. issued
  PROVE  Cardinality(LiveTokens(f)) <= Allowed(f) + Cardinality(Strays(f))
<1>1. LiveTokens(f) \subseteq Counted(f) BY DEF IInv, TypeOK, LiveTokens, Counted
<1>2. Cardinality(Counted(f)) <= Allowed(f) + Cardinality(Strays(f)) BY DEF IInv, CountInv
<1>3. IsFiniteSet(Counted(f)) /\ IsFiniteSet(Strays(f)) BY CountedFinite
<1>4. Allowed(f) \in Nat BY DEF Allowed
<1>5. QED BY <1>1, <1>2, <1>3, <1>4, BoundKept

\* The live tokens of a sign-in are bounded by the refreshes that overlapped
\* or were cut off.
THEOREM BoundedFamily == Spec => []TokensPerSignIn
<1>1. ASSUME IInv, NEW f \in 1 .. issued
      PROVE  Cardinality(LiveTokens(f)) <= 1 + Cardinality(Strays(f))
  <2>1. IsFiniteSet(LiveTokens(f))
    <3>1. LiveTokens(f) \subseteq Counted(f) BY <1>1 DEF IInv, TypeOK, LiveTokens, Counted
    <3>2. QED BY <1>1, <3>1, CountedFinite, FS_Subset
  <2>2. Cardinality(LiveTokens(f)) \in Nat /\ Cardinality(Strays(f)) \in Nat
    BY <1>1, <2>1, CountedFinite, FS_CardinalityType
  <2>3. Allowed(f) \in {0, 1} BY DEF Allowed
  <2>4. Cardinality(LiveTokens(f)) <= Allowed(f) + Cardinality(Strays(f)) BY <1>1, LiveBound
  <2>5. QED BY <2>2, <2>3, <2>4
<1>2. IInv => TokensPerSignIn BY <1>1 DEF TokensPerSignIn
<1>3. QED BY <1>2, Invariance, PTL

\* A sign-out that nobody was rotating under ends the whole session: what its
\* sign-in has left, or ever gets again, are the tokens of stray refreshes.
THEOREM SessionEnded == Spec => []SignOutEndsSession
<1>1. ASSUME IInv, NEW f \in ended
      PROVE  Cardinality(LiveTokens(f)) <= Cardinality(Strays(f))
  <2>1. f \in 1 .. issued /\ Allowed(f) = 0 BY <1>1 DEF IInv, TypeOK, Allowed
  <2>2. Cardinality(LiveTokens(f)) <= 0 + Cardinality(Strays(f)) BY <1>1, <2>1, LiveBound
  <2>3. Cardinality(Strays(f)) \in Nat BY <1>1, CountedFinite, FS_CardinalityType
  <2>4. QED BY <2>2, <2>3
<1>2. IInv => SignOutEndsSession BY <1>1 DEF SignOutEndsSession
<1>3. QED BY <1>2, Invariance, PTL

\* No browser holds an unexpired cookie whose token expired in the store.
THEOREM CookieIsWorthSomething == Spec => []CookieHasItsEntry
<1>1. ASSUME IInv PROVE CookieHasItsEntry
  <2> SUFFICES ASSUME NEW c \in Clients, Cookie(c) # NoToken
               PROVE  jar[c] \in live \/ jar[c] \in lost \/ \E r \in Requests : <<jar[c], r>> \in removed
    BY DEF CookieHasItsEntry
  <2>1. now < jarUntil[c] /\ jar[c] # NoToken BY DEF Cookie
  <2>2. jar[c] \in 1 .. issued /\ jarUntil[c] <= until[jar[c]]
    BY <1>1, <2>1 DEF IInv, TypeOK, CookieInv, Tokens, NoToken
  <2>3. now \in Nat /\ jarUntil[c] \in Nat /\ until[jar[c]] \in Nat
    BY <1>1, <2>2, TypeFacts, TimeAssumption DEF IInv, TypeOK, Times
  <2>4. ~Expired(jar[c]) BY <2>1, <2>2, <2>3 DEF Expired
  <2>5. Accounted(jar[c]) BY <1>1, <2>2 DEF IInv, TokenInv
  <2>6. QED BY <2>4, <2>5 DEF Accounted
<1>2. QED BY <1>1, Invariance, PTL

\* After a sign-out is answered, its token refreshes nothing.
THEOREM SignOutIsFinal == Spec => SignedOutTokenIsRefused
<1> DEFINE Refused ==
      \A r \in Requests, q \in Requests :
         (op[q] = "signOut" /\ pc[q] = "204" /\ sent[q] = sent[r] /\ Get(r)) => pc'[r] = "401"
<1>1. ASSUME IInv, NEW r \in Requests, NEW q \in Requests,
             op[q] = "signOut", pc[q] = "204", sent[q] = sent[r], Get(r)
      PROVE  pc'[r] = "401"
  <2>1. sent[r] \notin live BY <1>1 DEF IInv, SignedOutInv
  <2>2. QED BY <1>1, <2>1 DEF Get, Goto, IInv, TypeOK
<1>2. IInv => [Refused]_vars BY <1>1
<1>3. QED BY <1>2, Invariance, PTL DEF SignedOutTokenIsRefused
=============================================================================
