----------------------------- MODULE BackendAuth -----------------------------
(***************************************************************************)
(* The backend-authentication service and its request manager: provisioning *)
(* of API keys, binding of a client (_dcr), the PKCE steps _code, _token    *)
(* and _exchange, and the controller's exchange.  Everything is kept in     *)
(* Maps of one process; access tokens are signed and kept by the clients.   *)
(*                                                                          *)
(* submit checks the bearer, awaits the body, and runs the rest of the      *)
(* request in one callback, so a request is two steps: it begins, and it    *)
(* ends in the action of its kind, in a refusal or with the process.  A     *)
(* refusal that changes nothing is Refused.  The job that keeps the answer  *)
(* for the poll is module JobStore's; an answer is taken here as delivered. *)
(***************************************************************************)
EXTENDS Naturals, Sequences, FiniteSets

CONSTANTS
    Tenants, Emails,
    KeyIds,         \* the API keys that may ever be made; a key is its own secret
    Jwks,           \* controller public keys
    CodeTtl, IdTtl, \* 300 s each
    AccessTtl,      \* ICA_AUTH_ACCESS_TOKEN_TTL_SECONDS
    Skew,           \* the 60 s temporalClaimsValid forgives
    MaxCodes,       \* bound on the codes and on the id tokens
    MaxAccess,      \* bound on the access tokens
    MaxOpen,        \* bound on requests whose body is awaited
    MaxNow,         \* bound on the clock
    NoClient        \* an access token without client_id

ASSUME AuthAssumption ==
    /\ CodeTtl \in Nat /\ IdTtl \in Nat /\ AccessTtl \in Nat /\ Skew \in Nat
    /\ MaxCodes \in Nat /\ MaxAccess \in Nat /\ MaxOpen \in Nat /\ MaxNow \in Nat
    /\ NoClient \notin KeyIds

VARIABLES
    now,        \* the clock, in seconds
    keys,       \* apiKeysByTenant, the records of every list
    lists,      \* the tenants with a list in apiKeysByTenant
    bindings,   \* bindingsByTenant
    codes,      \* pkceCodes
    idTokens,   \* idTokens
    access,     \* the access tokens clients hold
    open,       \* requests whose bearer was accepted and whose body is awaited
    made,       \* keys ever made: a keyId or a secret does not come twice
    told,       \* keys whose secret an answer carried
    ended       \* keys an answer of _disable, _remove or _search reported as ended
authVars == <<now, keys, lists, bindings, codes, idTokens, access, open, made, told, ended>>

Actions == {"_create", "_disable", "_remove", "_search", "_dcr", "_code", "_token",
            "_exchange", "bootstrap"}

Key == [id : KeyIds, tenant : Tenants, email : Emails, active : BOOLEAN]
Binding == [tenant : Tenants, client : KeyIds, jwk : Jwks]
\* exp is the record's expiresAtEpoch; since, of an id or access token, is when
\* the _code it descends from was given (for the controller: its own time).
Code == [tenant : Tenants, client : KeyIds, exp : Nat]
IdToken == [tenant : Tenants, client : KeyIds, exp : Nat, since : Nat]
AccessToken == [tenant : Tenants, client : KeyIds \cup {NoClient}, exp : Nat, since : Nat]
Request == [tenant : Tenants, action : Actions]

AuthTypeOK ==
    /\ now \in 0..MaxNow
    /\ keys \subseteq Key /\ lists \subseteq Tenants
    /\ bindings \subseteq Binding
    /\ codes \subseteq Code /\ idTokens \subseteq IdToken /\ access \subseteq AccessToken
    /\ open \subseteq Request
    /\ made \subseteq KeyIds /\ told \subseteq made /\ ended \subseteq made
    \* a keyId names one key
    /\ \A k, l \in keys : k.id = l.id => k = l
    /\ {k.id : k \in keys} \subseteq made

\* Each tenant starts with a token its controller obtained elsewhere.
AuthInit ==
    /\ now = 0
    /\ keys = {} /\ lists = {} /\ bindings = {} /\ codes = {} /\ idTokens = {}
    /\ access = [tenant : Tenants, client : {NoClient}, exp : {AccessTtl}, since : {0}]
    /\ open = {} /\ made = {} /\ told = {} /\ ended = {}

-----------------------------------------------------------------------------
(* A request begins and ends.                                              *)

\* validateBearerAccess with signature checks on (not the demo mode).
BearerValid(t) == \E a \in access : a.tenant = t /\ a.exp + Skew >= now

Begin(t, action) ==
    /\ BearerValid(t)
    /\ Cardinality(open) < MaxOpen
    /\ open' = open \cup {[tenant |-> t, action |-> action]}
    /\ UNCHANGED <<now, keys, lists, bindings, codes, idTokens, access, made, told, ended>>

\* The callback after the body was read: the request leaves with its answer.
Finish(t, action) ==
    /\ [tenant |-> t, action |-> action] \in open
    /\ open' = open \ {[tenant |-> t, action |-> action]}

\* A body that does not parse, a missing field, an unknown client, code or
\* token, an expired one, or one of another tenant or client.
Refused(t, action) ==
    /\ Finish(t, action)
    /\ UNCHANGED <<now, keys, lists, bindings, codes, idTokens, access, made, told, ended>>

-----------------------------------------------------------------------------
(* API keys.                                                               *)

\* The records a list of emails yields, the i-th with the i-th fresh id.
NewKeys(t, emails, ids) ==
    {[id |-> ids[i], tenant |-> t, email |-> emails[i], active |-> TRUE] : i \in DOMAIN emails}

\* Altered: the id of a key made before may come again.
FreshIdsReused(n) == {ids \in [1..n -> KeyIds] :
                         \A i, j \in 1..n : ids[i] = ids[j] => i = j}

FreshIds(n) == {ids \in [1..n -> KeyIds \ made] :
                   \A i, j \in 1..n : ids[i] = ids[j] => i = j}

\* Every action of the body is valid.
Create(t, emails, ids) ==
    /\ Finish(t, "_create")
    /\ keys' = keys \cup NewKeys(t, emails, ids)
    /\ lists' = lists \cup {t}
    /\ made' = made \cup {ids[i] : i \in DOMAIN ids}
    /\ told' = told \cup {ids[i] : i \in DOMAIN ids}
    /\ UNCHANGED <<now, bindings, codes, idTokens, access, ended>>

\* An action without email or scope comes after valid ones: the request is
\* refused, and the records already pushed stay if the tenant's list is the
\* Map's own; a list made for this request is lost with it.
CreateRefused(t, emails, ids) ==
    /\ Finish(t, "_create")
    /\ keys' = IF t \in lists THEN keys \cup NewKeys(t, emails, ids) ELSE keys
    /\ made' = made \cup {ids[i] : i \in DOMAIN ids}
    /\ UNCHANGED <<now, lists, bindings, codes, idTokens, access, told, ended>>

\* A selector names a key by its identifier, by the hash of its email or by
\* either.
Selectors == {{x} : x \in KeyIds \cup Emails} \cup {{x, e} : x \in KeyIds, e \in Emails}

\* Altered: a key that is disabled already matches no selector.
MatchingActive(ks, t, s) ==
    {k \in ks : k.tenant = t /\ k.active /\ (k.id \in s \/ k.email \in s)}

Matching(ks, t, s) == {k \in ks : k.tenant = t /\ (k.id \in s \/ k.email \in s)}

\* Selector i finds a key, given that _remove took those before it away.
Finds(ks, t, action, sels, i) ==
    \E k \in Matching(ks, t, sels[i]) :
        action = "_remove" => \A j \in 1..(i - 1) : k \notin Matching(ks, t, sels[j])

\* The selectors that take effect: all before the first that finds nothing.
Applied(ks, t, action, sels) ==
    {i \in DOMAIN sels : \A j \in 1..i : Finds(ks, t, action, sels, j)}

Touched(ks, t, action, sels) ==
    UNION {Matching(ks, t, sels[i]) : i \in Applied(ks, t, action, sels)}

\* The lists after mutateApiKeys, which works in place.
Mutated(ks, t, action, sels) ==
    LET hit == Touched(ks, t, action, sels)
    IN  IF action = "_remove" THEN ks \ hit
        ELSE (ks \ hit) \cup {[k EXCEPT !.active = FALSE] : k \in hit}

\* Every selector found a key: the answer lists the keys.
Mutate(t, action, sels) ==
    /\ Finish(t, action)
    /\ Applied(keys, t, action, sels) = DOMAIN sels
    /\ keys' = Mutated(keys, t, action, sels)
    /\ lists' = lists \cup {t}
    /\ ended' = ended \cup {k.id : k \in Touched(keys, t, action, sels)}
    /\ UNCHANGED <<now, bindings, codes, idTokens, access, made, told>>

\* A selector found none: the request is refused, and what the selectors
\* before it did stays.
MutateRefused(t, action, sels) ==
    /\ Finish(t, action)
    /\ Applied(keys, t, action, sels) # DOMAIN sels
    /\ keys' = Mutated(keys, t, action, sels)
    /\ UNCHANGED <<now, lists, bindings, codes, idTokens, access, made, told, ended>>

\* listApiKeysWithBindings: the answer tells of every key of the list whether it
\* is active (and which clients are bound to it).
Search(t) ==
    /\ Finish(t, "_search")
    /\ ended' = ended \cup {k.id : k \in {l \in keys : l.tenant = t /\ ~l.active}}
    /\ UNCHANGED <<now, keys, lists, bindings, codes, idTokens, access, made, told>>

-----------------------------------------------------------------------------
(* Identity: _dcr, _code, _token, _exchange.                               *)

\* Altered: a key in the list is enough.
PolicyAny(t, c) == \E k \in keys : k.tenant = t /\ k.id = c

\* The key whose hash is that of client_id is in the tenant's list and active.
Policy(t, c) == \E k \in keys : k.tenant = t /\ k.id = c /\ k.active

BindDcr(t, c, jwk) ==
    /\ Finish(t, "_dcr")
    /\ c \in told /\ Policy(t, c)
    /\ bindings' = {b \in bindings : ~(b.tenant = t /\ b.client = c)}
                      \cup {[tenant |-> t, client |-> c, jwk |-> jwk]}
    /\ UNCHANGED <<now, keys, lists, codes, idTokens, access, made, told, ended>>

\* assertBoundClient
Bound(t, c) == \E b \in bindings : b.tenant = t /\ b.client = c

IssueCode(t, c) ==
    /\ Finish(t, "_code")
    /\ Bound(t, c)
    /\ Cardinality(codes) < MaxCodes
    /\ codes' = codes \cup {[tenant |-> t, client |-> c, exp |-> now + CodeTtl]}
    /\ UNCHANGED <<now, keys, lists, bindings, idTokens, access, made, told, ended>>

\* Altered: the expiry is compared the wrong way round.
AliveReversed(r) == r.exp <= now

\* expiresAtEpoch < now refuses: a record lives through its last second.
Alive(r) == r.exp >= now

\* The code stays in the Map; the verifier is the client's own.
IssueIdToken(t, code) ==
    /\ Finish(t, "_token")
    /\ code \in codes /\ code.tenant = t /\ Alive(code)
    /\ Bound(t, code.client)
    /\ Cardinality(idTokens) < MaxCodes
    /\ idTokens' = idTokens \cup
          {[tenant |-> t, client |-> code.client, exp |-> now + IdTtl,
            since |-> code.exp - CodeTtl]}
    /\ UNCHANGED <<now, keys, lists, bindings, codes, access, made, told, ended>>

IssuedAccess(t, c, since) ==
    [tenant |-> t, client |-> c, exp |-> now + AccessTtl, since |-> since]

ExchangeIdToken(t, tok) ==
    /\ Finish(t, "_exchange")
    /\ tok \in idTokens /\ tok.tenant = t /\ Alive(tok)
    /\ Bound(t, tok.client)
    /\ Cardinality(access) < MaxAccess
    /\ access' = access \cup {IssuedAccess(t, tok.client, tok.since)}
    /\ UNCHANGED <<now, keys, lists, bindings, codes, idTokens, made, told, ended>>

\* exchangeControllerBootstrap: the bearer alone is asked for.
ExchangeBootstrap(t) ==
    /\ Finish(t, "bootstrap")
    /\ Cardinality(access) < MaxAccess
    /\ access' = access \cup {IssuedAccess(t, NoClient, now)}
    /\ UNCHANGED <<now, keys, lists, bindings, codes, idTokens, made, told, ended>>

-----------------------------------------------------------------------------
AuthTick ==
    /\ now < MaxNow
    /\ now' = now + 1
    /\ UNCHANGED <<keys, lists, bindings, codes, idTokens, access, open, made, told, ended>>

\* The process ends and starts: its Maps and requests are gone, the tokens and
\* the secrets clients hold are not.
AuthRestart ==
    /\ keys # {} \/ open # {}
    /\ keys' = {} /\ lists' = {} /\ bindings' = {} /\ codes' = {} /\ idTokens' = {}
    /\ open' = {}
    /\ UNCHANGED <<now, access, made, told, ended>>

\* Bodies name at most two emails or selectors.
Bodies(S) == {<<s>> : s \in S} \cup (S \X S)

AuthNext ==
    \/ \E t \in Tenants :
        \/ \E action \in Actions : Begin(t, action) \/ Refused(t, action)
        \/ \E emails \in Bodies(Emails) : \E ids \in FreshIds(Len(emails)) :
              Create(t, emails, ids) \/ CreateRefused(t, emails, ids)
        \/ \E action \in {"_disable", "_remove"}, sels \in Bodies(Selectors) :
              Mutate(t, action, sels) \/ MutateRefused(t, action, sels)
        \/ \E c \in KeyIds : IssueCode(t, c) \/ \E jwk \in Jwks : BindDcr(t, c, jwk)
        \/ \E code \in codes : IssueIdToken(t, code)
        \/ \E tok \in idTokens : ExchangeIdToken(t, tok)
        \/ Search(t) \/ ExchangeBootstrap(t)
    \/ AuthTick
    \/ AuthRestart

AuthSpec == AuthInit /\ [][AuthNext]_authVars

-----------------------------------------------------------------------------
(* What the service promises.                                              *)

\* Once an answer reported a key as disabled or removed, no later _dcr makes or
\* replaces a binding of its client, whatever was in flight when it was ended,
\* whether the request that ended it was itself refused, and whatever list it is
\* looked up in (mutateApiKeys and listApiKeysWithBindings against bindDcr).
EndedNeverRebound ==
    [][\A b \in bindings' : b.client \in ended => b \in bindings]_authVars

\* The steps of the sign-in bound its age: a client's access token is dead for
\* every bearer check once a code, an id token and an access token issued one
\* after the other, each at the last moment, are past (issuePkceCode,
\* issuePkceIdToken, exchangeIdentityToken, temporalClaimsValid).
SignInBounded ==
    \A a \in access : a.client # NoClient =>
        a.exp <= a.since + CodeTtl + IdTtl + AccessTtl

\* A _disable that was refused half way can be sent again, whole or mended: on
\* the lists it left behind the same selectors find the same keys, so the
\* second request ends where one request on the old lists would have
\* (mutateApiKeys works in place and throws at the first selector without key).
DisableRepeatable ==
    \A t \in Tenants, sels \in Bodies(Selectors) :
        LET after == Mutated(keys, t, "_disable", sels)
        IN  /\ Applied(after, t, "_disable", sels) = Applied(keys, t, "_disable", sels)
            /\ Mutated(after, t, "_disable", sels) = after

=============================================================================
