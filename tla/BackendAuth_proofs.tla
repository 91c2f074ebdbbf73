-------------------------- MODULE BackendAuth_proofs --------------------------
(***************************************************************************)
(* TLAPS proofs about BackendAuth, for any tenants, keys, lifetimes and     *)
(* number of requests under way: the types, that a sign-in ages, that an    *)
(* ended key is never bound again, and that a refused _disable can be sent  *)
(* again.                                                                   *)
(***************************************************************************)
EXTENDS BackendAuth, TLAPS

UniqueIds == \A k, l \in keys : k.id = l.id => k = l

\* A key an answer called ended is gone, or not active.
EndedInactive == \A k \in keys : k.id \in ended => ~k.active

KeyPart ==
    /\ keys \subseteq Key /\ lists \subseteq Tenants
    /\ made \subseteq KeyIds /\ told \subseteq made /\ ended \subseteq made
    /\ UniqueIds
    /\ \A k \in keys : k.id \in made
    /\ EndedInactive

\* An id token ends within its time of the end of its code.
TokensBounded ==
    /\ \A c \in codes : c.exp >= CodeTtl
    /\ \A i \in idTokens : i.exp <= i.since + CodeTtl + IdTtl

TokenPart ==
    /\ now \in 0..MaxNow
    /\ bindings \subseteq Binding
    /\ codes \subseteq Code /\ idTokens \subseteq IdToken /\ access \subseteq AccessToken
    /\ TokensBounded
    /\ SignInBounded

AuthInv == KeyPart /\ TokenPart /\ open \subseteq Request

keyVars == <<keys, lists, made, told, ended>>
tokenVars == <<now, bindings, codes, idTokens, access>>

LEMMA InvType == AuthInv => AuthTypeOK
BY DEF AuthInv, KeyPart, TokenPart, AuthTypeOK, UniqueIds

LEMMA KeyPartRests == KeyPart /\ UNCHANGED keyVars => KeyPart'
BY DEF KeyPart, keyVars, UniqueIds, EndedInactive

LEMMA TokenPartRests == TokenPart /\ UNCHANGED tokenVars => TokenPart'
BY DEF TokenPart, tokenVars, TokensBounded, SignInBounded

LEMMA OpenFits ==
    ASSUME open \subseteq Request, NEW t \in Tenants, NEW action \in Actions,
           Begin(t, action) \/ Finish(t, action)
    PROVE  (open \subseteq Request)'
BY DEF Begin, Finish, Request

-----------------------------------------------------------------------------
(* API keys.                                                               *)

\* Fresh ids make new keys.
LEMMA AddedKeys ==
    ASSUME KeyPart, NEW t \in Tenants, NEW emails \in Bodies(Emails),
           NEW ids \in FreshIds(Len(emails)),
           keys' = keys \cup NewKeys(t, emails, ids) \/ keys' = keys,
           made' = made \cup {ids[i] : i \in DOMAIN ids},
           told \subseteq told', told' \subseteq told \cup {ids[i] : i \in DOMAIN ids},
           lists' \subseteq Tenants, UNCHANGED ended
    PROVE  KeyPart'
<1>1. DOMAIN emails = 1..Len(emails) /\ \A i \in DOMAIN emails : emails[i] \in Emails
  BY DEF Bodies
<1>2. /\ ids \in [DOMAIN emails -> KeyIds \ made]
      /\ \A i, j \in DOMAIN emails : ids[i] = ids[j] => i = j
  BY <1>1 DEF FreshIds
<1>3. \A k \in NewKeys(t, emails, ids) :
          \E i \in DOMAIN emails :
              k = [id |-> ids[i], tenant |-> t, email |-> emails[i], active |-> TRUE]
  BY DEF NewKeys
<1>4. ASSUME NEW k \in NewKeys(t, emails, ids)
      PROVE  k \in Key /\ k.id \in made' /\ k.id \notin made
  <2>1. PICK i \in DOMAIN emails :
            k = [id |-> ids[i], tenant |-> t, email |-> emails[i], active |-> TRUE]
    BY <1>3
  <2>2. ids[i] \in KeyIds \ made /\ i \in DOMAIN ids /\ emails[i] \in Emails
    BY <1>1, <1>2
  <2>3. k \in Key
    BY <2>1, <2>2 DEF Key
  <2>4. k.id = ids[i]
    BY <2>1
  <2>5. QED
    BY <2>2, <2>3, <2>4
<1>5. ASSUME NEW k \in NewKeys(t, emails, ids), NEW l \in NewKeys(t, emails, ids), k.id = l.id
      PROVE  k = l
  <2>1. PICK i \in DOMAIN emails :
            k = [id |-> ids[i], tenant |-> t, email |-> emails[i], active |-> TRUE]
    BY <1>3
  <2>2. PICK j \in DOMAIN emails :
            l = [id |-> ids[j], tenant |-> t, email |-> emails[j], active |-> TRUE]
    BY <1>3
  <2>3. ids[i] = ids[j]
    BY <1>5, <2>1, <2>2
  <2>4. i = j
    BY <1>2, <2>3
  <2>5. QED
    BY <2>1, <2>2, <2>4
<1>6. keys' \subseteq Key /\ \A k \in keys' : k.id \in made'
  BY <1>4 DEF KeyPart
<1>7. UniqueIds'
  BY <1>4, <1>5 DEF KeyPart, UniqueIds
<1>8. EndedInactive'
  BY <1>4 DEF KeyPart, EndedInactive
<1>9. made' \subseteq KeyIds /\ told' \subseteq made' /\ ended' \subseteq made'
  BY <1>2 DEF KeyPart
<1>10. QED
  BY <1>6, <1>7, <1>8, <1>9 DEF KeyPart

LEMMA MutatedIs ==
    ASSUME NEW ks \in SUBSET Key, NEW t, NEW action, NEW sels
    PROVE  /\ Touched(ks, t, action, sels) \subseteq ks
           /\ \A k \in Mutated(ks, t, action, sels) :
                 \/ k \in ks \ Touched(ks, t, action, sels)
                 \/ \E l \in Touched(ks, t, action, sels) :
                       /\ k = [l EXCEPT !.active = FALSE]
                       /\ k \in Key /\ k.id = l.id /\ ~k.active
<1>1. Touched(ks, t, action, sels) \subseteq ks
  BY DEF Touched, Matching
<1>2. \A l \in Key : /\ [l EXCEPT !.active = FALSE] \in Key
                     /\ [l EXCEPT !.active = FALSE].id = l.id
                     /\ [l EXCEPT !.active = FALSE].active = FALSE
  BY DEF Key
<1>3. QED
  BY <1>1, <1>2 DEF Mutated

\* What a selector hit is gone or inactive afterwards; the rest is as it was.
LEMMA MutatedKeys ==
    ASSUME KeyPart, NEW t \in Tenants, NEW action, NEW sels,
           keys' = Mutated(keys, t, action, sels),
           \/ UNCHANGED ended
           \/ ended' = ended \cup {k.id : k \in Touched(keys, t, action, sels)},
           lists' \subseteq Tenants, UNCHANGED <<made, told>>
    PROVE  KeyPart'
<1> DEFINE hit == Touched(keys, t, action, sels)
<1>1. keys \in SUBSET Key /\ hit \subseteq keys
  BY MutatedIs DEF KeyPart
<1>2. ASSUME NEW k \in keys'
      PROVE  \/ k \in keys \ hit
             \/ \E l \in hit : /\ k = [l EXCEPT !.active = FALSE]
                               /\ k \in Key /\ k.id = l.id /\ ~k.active
  BY <1>1, MutatedIs
<1> HIDE DEF hit
<1>3. keys' \subseteq Key /\ \A k \in keys' : k.id \in made'
  BY <1>1, <1>2 DEF KeyPart
<1>4. UniqueIds'
  <2> SUFFICES ASSUME NEW k \in keys', NEW l \in keys', k.id = l.id
               PROVE  k = l
    BY DEF UniqueIds
  <2>1. PICK m \in keys : /\ m.id = k.id
                          /\ \/ k = m /\ m \notin hit
                             \/ k = [m EXCEPT !.active = FALSE] /\ m \in hit
    BY <1>1, <1>2
  <2>2. PICK n \in keys : /\ n.id = l.id
                          /\ \/ l = n /\ n \notin hit
                             \/ l = [n EXCEPT !.active = FALSE] /\ n \in hit
    BY <1>1, <1>2
  <2>3. m = n
    BY <2>1, <2>2 DEF KeyPart, UniqueIds
  <2>4. QED
    BY <2>1, <2>2, <2>3
<1>5. EndedInactive'
  <2> SUFFICES ASSUME NEW k \in keys', k.id \in ended'
               PROVE  ~k.active
    BY DEF EndedInactive
  <2>1. CASE k \in keys \ hit
    <3>1. \A l \in hit : l.id # k.id
      BY <1>1, <2>1 DEF KeyPart, UniqueIds
    <3>2. k.id \in ended
      BY <3>1 DEF hit
    <3>3. QED
      BY <2>1, <3>2 DEF KeyPart, EndedInactive
  <2>2. CASE ~k.active
    BY <2>2
  <2>3. QED
    BY <1>2, <2>1, <2>2
<1>6. ended' \subseteq made'
  BY <1>1 DEF KeyPart, hit
<1>7. QED
  BY <1>3, <1>4, <1>5, <1>6 DEF KeyPart

LEMMA SearchKeeps ==
    ASSUME KeyPart, NEW t \in Tenants, Search(t)
    PROVE  KeyPart'
<1>1. \A k \in keys : k.id \in ended' => k.id \in ended \/ ~k.active
  BY DEF Search, KeyPart, UniqueIds
<1>2. ended' \subseteq made
  BY DEF Search, KeyPart
<1>3. QED
  BY <1>1, <1>2 DEF Search, KeyPart, UniqueIds, EndedInactive

\* What _disable leaves behind: every key it hit, switched off.
LEMMA DisabledMatches ==
    ASSUME NEW ks \in SUBSET Key, NEW t, NEW sels, NEW i \in DOMAIN sels
    PROVE  LET hit == Touched(ks, t, "_disable", sels)
               after == Mutated(ks, t, "_disable", sels)
           IN  Matching(after, t, sels[i]) =
                   (Matching(ks, t, sels[i]) \ hit)
                       \cup {[k EXCEPT !.active = FALSE] : k \in Matching(ks, t, sels[i]) \cap hit}
<1> DEFINE hit == Touched(ks, t, "_disable", sels)
           after == Mutated(ks, t, "_disable", sels)
           off(k) == [k EXCEPT !.active = FALSE]
<1>1. hit \subseteq ks
  BY MutatedIs
<1>2. \A k \in Key : off(k).id = k.id /\ off(k).tenant = k.tenant /\ off(k).email = k.email
  BY DEF Key
<1>3. after = (ks \ hit) \cup {off(k) : k \in hit}
  BY DEF Mutated
<1> HIDE DEF hit, after, off
<1>4. \A k \in hit : off(k) \in Matching(after, t, sels[i]) <=> k \in Matching(ks, t, sels[i])
  BY <1>1, <1>2, <1>3 DEF Matching
<1>5. Matching(after, t, sels[i]) =
          (Matching(ks, t, sels[i]) \ hit) \cup {off(k) : k \in Matching(ks, t, sels[i]) \cap hit}
  BY <1>1, <1>3, <1>4 DEF Matching
<1>6. QED
  BY <1>5 DEF hit, after, off

LEMMA DisabledAgain ==
    ASSUME NEW ks \in SUBSET Key, NEW t, NEW sels \in Bodies(Selectors)
    PROVE  LET after == Mutated(ks, t, "_disable", sels)
           IN  /\ Applied(after, t, "_disable", sels) = Applied(ks, t, "_disable", sels)
               /\ Mutated(after, t, "_disable", sels) = after
<1> DEFINE hit == Touched(ks, t, "_disable", sels)
           after == Mutated(ks, t, "_disable", sels)
           again == Touched(after, t, "_disable", sels)
           off(k) == [k EXCEPT !.active = FALSE]
<1>1. ASSUME NEW i \in DOMAIN sels
      PROVE  Matching(after, t, sels[i]) =
                 (Matching(ks, t, sels[i]) \ hit) \cup {off(k) : k \in Matching(ks, t, sels[i]) \cap hit}
  BY DisabledMatches
<1>2. after \subseteq Key /\ hit \subseteq Key
  BY MutatedIs
<1>3. \A k \in Key : off(off(k)) = off(k)
  BY DEF Key
<1>4. Mutated(after, t, "_disable", sels) = (after \ again) \cup {off(k) : k \in again}
  BY DEF Mutated
<1>5. again \subseteq after
  BY DEF Touched, Matching
<1> HIDE DEF after, off
<1>6. ASSUME NEW i \in DOMAIN sels
      PROVE  Finds(after, t, "_disable", sels, i) <=> Finds(ks, t, "_disable", sels, i)
  <2> DEFINE old == Matching(ks, t, sels[i])
             new == Matching(after, t, sels[i])
  <2>1. new = (old \ hit) \cup {off(k) : k \in old \cap hit}
    BY <1>1
  <2>2. Finds(after, t, "_disable", sels, i) <=> new # {}
    BY DEF Finds
  <2>3. Finds(ks, t, "_disable", sels, i) <=> old # {}
    BY DEF Finds
  <2> HIDE DEF old, new, hit
  <2>4. QED
    BY <2>1, <2>2, <2>3
<1>7. Applied(after, t, "_disable", sels) = Applied(ks, t, "_disable", sels)
  <2>1. \A i \in DOMAIN sels : 1..i \subseteq DOMAIN sels
    BY DEF Bodies
  <2>2. \A i \in DOMAIN sels : \A k \in 1..i :
            Finds(after, t, "_disable", sels, k) <=> Finds(ks, t, "_disable", sels, k)
    BY <1>6, <2>1
  <2>3. QED
    BY <2>2 DEF Applied
<1>8. ASSUME NEW h \in again
      PROVE  off(h) = h
  <2>1. PICK i \in Applied(ks, t, "_disable", sels) : h \in Matching(after, t, sels[i])
    BY <1>7 DEF Touched
  <2>2. i \in DOMAIN sels /\ Matching(ks, t, sels[i]) \subseteq hit
    BY DEF Applied, Touched
  <2>3. PICK k \in hit : h = off(k)
    BY <1>1, <2>1, <2>2
  <2>4. QED
    BY <1>2, <1>3, <2>3
<1> HIDE DEF again
<1>9. Mutated(after, t, "_disable", sels) = after
  BY <1>4, <1>5, <1>8
<1>10. QED
  BY <1>7, <1>9 DEF after

-----------------------------------------------------------------------------
(* Signing in.                                                             *)

LEMMA CodeKeeps ==
    ASSUME TokenPart, NEW t \in Tenants, NEW c \in KeyIds, IssueCode(t, c)
    PROVE  TokenPart'
<1> DEFINE code == [tenant |-> t, client |-> c, exp |-> now + CodeTtl]
<1>1. code \in Code /\ code.exp >= CodeTtl
  BY AuthAssumption DEF TokenPart, Code
<1> HIDE DEF code
<1>2. codes' = codes \cup {code}
  BY DEF IssueCode, code
<1>3. QED
  BY <1>1, <1>2 DEF IssueCode, TokenPart, TokensBounded, SignInBounded

\* A code that is alive was given at most its lifetime ago.
LEMMA IdTokenKeeps ==
    ASSUME TokenPart, NEW t \in Tenants, NEW code \in codes, IssueIdToken(t, code)
    PROVE  TokenPart'
<1> DEFINE tok == [tenant |-> t, client |-> code.client, exp |-> now + IdTtl,
                   since |-> code.exp - CodeTtl]
<1>1. code \in Code /\ code.exp \in Nat /\ code.exp >= CodeTtl /\ code.exp >= now
  BY DEF TokenPart, TokensBounded, IssueIdToken, Alive, Code
<1>2. now \in Nat /\ CodeTtl \in Nat /\ IdTtl \in Nat
  BY AuthAssumption DEF TokenPart
<1>3. code.exp - CodeTtl \in Nat /\ now + IdTtl \in Nat
  BY <1>1, <1>2
<1>4. tok \in IdToken
  BY <1>1, <1>3 DEF IdToken, Code
<1>5. tok.exp <= tok.since + CodeTtl + IdTtl
  BY <1>1, <1>2
<1> HIDE DEF tok
<1>6. idTokens' = idTokens \cup {tok}
  BY DEF IssueIdToken, tok
<1>7. QED
  BY <1>4, <1>5, <1>6 DEF IssueIdToken, TokenPart, TokensBounded, SignInBounded

LEMMA ExchangeKeeps ==
    ASSUME TokenPart, NEW t \in Tenants, NEW tok \in idTokens, ExchangeIdToken(t, tok)
    PROVE  TokenPart'
<1> DEFINE a == IssuedAccess(t, tok.client, tok.since)
<1>1. tok \in IdToken /\ tok.exp >= now /\ tok.exp <= tok.since + CodeTtl + IdTtl
  BY DEF TokenPart, TokensBounded, ExchangeIdToken, Alive
<1>2. tok.exp \in Nat /\ tok.since \in Nat /\ tok.client \in KeyIds
  BY <1>1 DEF IdToken
<1>3. now \in Nat /\ CodeTtl \in Nat /\ IdTtl \in Nat /\ AccessTtl \in Nat
  BY AuthAssumption DEF TokenPart
<1>4. a \in AccessToken
  BY <1>2, <1>3 DEF AccessToken, IssuedAccess
<1>5. a.exp <= a.since + CodeTtl + IdTtl + AccessTtl
  BY <1>1, <1>2, <1>3 DEF IssuedAccess
<1> HIDE DEF a
<1>6. access' = access \cup {a}
  BY DEF ExchangeIdToken, a
<1>7. QED
  BY <1>4, <1>5, <1>6 DEF ExchangeIdToken, TokenPart, TokensBounded, SignInBounded

LEMMA BootstrapKeeps ==
    ASSUME TokenPart, NEW t \in Tenants, ExchangeBootstrap(t)
    PROVE  TokenPart'
<1> DEFINE a == IssuedAccess(t, NoClient, now)
<1>1. a \in AccessToken /\ a.client = NoClient
  BY AuthAssumption DEF TokenPart, AccessToken, IssuedAccess
<1> HIDE DEF a
<1>2. access' = access \cup {a}
  BY DEF ExchangeBootstrap, a
<1>3. QED
  BY <1>1, <1>2 DEF ExchangeBootstrap, TokenPart, TokensBounded, SignInBounded

LEMMA BindKeeps ==
    ASSUME TokenPart, NEW t \in Tenants, NEW c \in KeyIds, NEW jwk \in Jwks, BindDcr(t, c, jwk)
    PROVE  TokenPart'
<1>1. bindings' \subseteq Binding
  BY DEF BindDcr, TokenPart, Binding
<1>2. QED
  BY <1>1 DEF BindDcr, TokenPart, TokensBounded, SignInBounded

-----------------------------------------------------------------------------
(* The invariant.                                                          *)

LEMMA AuthInvInit == AuthInit => AuthInv
<1> SUFFICES ASSUME AuthInit
             PROVE  AuthInv
  OBVIOUS
<1>1. KeyPart
  BY DEF AuthInit, KeyPart, UniqueIds, EndedInactive
<1>2. access \subseteq AccessToken /\ \A a \in access : a.client = NoClient
  BY AuthAssumption DEF AuthInit, AccessToken
<1>3. TokenPart
  BY <1>2, AuthAssumption DEF AuthInit, TokenPart, TokensBounded, SignInBounded
<1>4. QED
  BY <1>1, <1>3 DEF AuthInit, AuthInv

LEMMA AuthInvNext == AuthInv /\ [AuthNext]_authVars => AuthInv'
<1> SUFFICES ASSUME AuthInv, [AuthNext]_authVars
             PROVE  AuthInv'
  OBVIOUS
<1> USE DEF AuthInv
<1>1. ASSUME NEW t \in Tenants, NEW action \in Actions, Begin(t, action) \/ Refused(t, action)
      PROVE  AuthInv'
  <2>1. UNCHANGED keyVars /\ UNCHANGED tokenVars
    BY <1>1 DEF Begin, Refused, keyVars, tokenVars
  <2>2. (open \subseteq Request)'
    BY <1>1, OpenFits DEF Refused
  <2>3. QED
    BY <2>1, <2>2, KeyPartRests, TokenPartRests
<1>2. ASSUME NEW t \in Tenants, NEW emails \in Bodies(Emails), NEW ids \in FreshIds(Len(emails)),
             Create(t, emails, ids) \/ CreateRefused(t, emails, ids)
      PROVE  AuthInv'
  <2>1. KeyPart'
    BY <1>2, AddedKeys DEF Create, CreateRefused, KeyPart
  <2>2. TokenPart'
    BY <1>2, TokenPartRests DEF Create, CreateRefused, tokenVars
  <2>3. (open \subseteq Request)'
    BY <1>2 DEF Create, CreateRefused, Finish
  <2>4. QED
    BY <2>1, <2>2, <2>3
<1>3. ASSUME NEW t \in Tenants, NEW action \in {"_disable", "_remove"},
             NEW sels \in Bodies(Selectors), Mutate(t, action, sels) \/ MutateRefused(t, action, sels)
      PROVE  AuthInv'
  <2>1. KeyPart'
    BY <1>3, MutatedKeys DEF Mutate, MutateRefused, KeyPart
  <2>2. TokenPart'
    BY <1>3, TokenPartRests DEF Mutate, MutateRefused, tokenVars
  <2>3. (open \subseteq Request)'
    BY <1>3 DEF Mutate, MutateRefused, Finish
  <2>4. QED
    BY <2>1, <2>2, <2>3
<1>4. ASSUME NEW t \in Tenants, Search(t)
      PROVE  AuthInv'
  <2>1. TokenPart'
    BY <1>4, TokenPartRests DEF Search, tokenVars
  <2>2. QED
    BY <1>4, <2>1, SearchKeeps DEF Search, Finish
<1>5. ASSUME NEW t \in Tenants,
             \/ \E c \in KeyIds : IssueCode(t, c) \/ \E jwk \in Jwks : BindDcr(t, c, jwk)
             \/ \E code \in codes : IssueIdToken(t, code)
             \/ \E tok \in idTokens : ExchangeIdToken(t, tok)
             \/ ExchangeBootstrap(t)
      PROVE  AuthInv'
  <2>1. TokenPart'
    BY <1>5, CodeKeeps, BindKeeps, IdTokenKeeps, ExchangeKeeps, BootstrapKeeps
  <2>2. UNCHANGED keyVars
    BY <1>5 DEF IssueCode, BindDcr, IssueIdToken, ExchangeIdToken, ExchangeBootstrap, keyVars
  <2>3. (open \subseteq Request)'
    BY <1>5 DEF IssueCode, BindDcr, IssueIdToken, ExchangeIdToken, ExchangeBootstrap, Finish
  <2>4. QED
    BY <2>1, <2>2, <2>3, KeyPartRests
<1>6. CASE AuthTick
  <2>1. now' \in 0..MaxNow
    BY <1>6, AuthAssumption DEF AuthTick, TokenPart
  <2>2. UNCHANGED <<keyVars, bindings, codes, idTokens, access, open>>
    BY <1>6 DEF AuthTick, keyVars
  <2>3. QED
    BY <2>1, <2>2, KeyPartRests DEF TokenPart, TokensBounded, SignInBounded
<1>7. CASE AuthRestart
  <2>1. KeyPart'
    BY <1>7 DEF AuthRestart, KeyPart, UniqueIds, EndedInactive
  <2>2. TokenPart'
    BY <1>7 DEF AuthRestart, TokenPart, TokensBounded, SignInBounded
  <2>3. QED
    BY <1>7, <2>1, <2>2 DEF AuthRestart
<1>8. CASE UNCHANGED authVars
  <2>1. UNCHANGED <<keyVars, tokenVars, open>>
    BY <1>8 DEF authVars, keyVars, tokenVars
  <2>2. QED
    BY <2>1, KeyPartRests, TokenPartRests
<1>9. QED
  BY <1>1, <1>2, <1>3, <1>4, <1>5, <1>6, <1>7, <1>8 DEF AuthNext

-----------------------------------------------------------------------------
(* The promises.                                                           *)

\* The variables keep their types, a keyId names one key, and whatever was told
\* or ended had been made.
THEOREM AuthTypeCorrect == AuthSpec => []AuthTypeOK
BY InvType, AuthInvInit, AuthInvNext, PTL DEF AuthSpec

\* Whatever their lifetimes, an access token ends at most the three lifetimes
\* after the code it descends from was given.
THEOREM SignInAges == AuthSpec => []SignInBounded
<1>1. AuthInv => SignInBounded
  BY DEF AuthInv, TokenPart
<1>2. QED
  BY <1>1, AuthInvInit, AuthInvNext, PTL DEF AuthSpec

\* Whatever selectors a _disable has, and wherever it is refused, sending it again
\* finds the same keys and changes nothing more.
THEOREM DisableCanBeRepeated == AuthSpec => []DisableRepeatable
<1>1. AuthInv => DisableRepeatable
  <2> SUFFICES ASSUME AuthInv, NEW t \in Tenants, NEW sels \in Bodies(Selectors)
               PROVE  LET after == Mutated(keys, t, "_disable", sels)
                      IN  /\ Applied(after, t, "_disable", sels) = Applied(keys, t, "_disable", sels)
                          /\ Mutated(after, t, "_disable", sels) = after
    BY DEF DisableRepeatable
  <2>1. keys \in SUBSET Key
    BY DEF AuthInv, KeyPart
  <2>2. QED
    BY <2>1, DisabledAgain
<1>2. QED
  BY <1>1, AuthInvInit, AuthInvNext, PTL DEF AuthSpec

LEMMA StepBindsNoEnded ==
    AuthInv /\ [AuthNext]_authVars =>
        [\A b \in bindings' : b.client \in ended => b \in bindings]_authVars
<1> SUFFICES ASSUME AuthInv, AuthNext, NEW b \in bindings', b.client \in ended, b \notin bindings
             PROVE  FALSE
  BY DEF authVars
<1>1. PICK t \in Tenants, c \in KeyIds, jwk \in Jwks : BindDcr(t, c, jwk)
  BY DEF AuthNext, Begin, Refused, Create, CreateRefused, Mutate, MutateRefused, Search,
         IssueCode, IssueIdToken, ExchangeIdToken, ExchangeBootstrap, AuthTick, AuthRestart
<1>2. b = [tenant |-> t, client |-> c, jwk |-> jwk]
  BY <1>1 DEF BindDcr
<1>3. PICK k \in keys : k.id = c /\ k.active
  BY <1>1 DEF BindDcr, Policy
<1>4. QED
  BY <1>2, <1>3 DEF AuthInv, KeyPart, EndedInactive

\* Whatever requests are under way, no _dcr binds a client whose key an answer
\* has reported as ended.
THEOREM EndedStaysUnbound == AuthSpec => EndedNeverRebound
<1>1. AuthSpec => []AuthInv
  BY AuthInvInit, AuthInvNext, PTL DEF AuthSpec
<1>2. QED
  BY <1>1, StepBindsNoEnded, PTL DEF AuthSpec, EndedNeverRebound

=============================================================================
