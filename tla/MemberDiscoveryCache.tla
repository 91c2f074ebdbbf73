------------------------ MODULE MemberDiscoveryCache ------------------------
(***************************************************************************)
(* Member autodiscovery: a GET of members/_discover lists the members in   *)
(* force and, for each, takes the cached answer or assembles a new one    *)
(* from what the member publishes: its DID document, its participant        *)
(* credential, then the optional artifacts (two service offerings and a     *)
(* catalog), one fetch after the other.  Requests overlap at every fetch,   *)
(* and each writes the cache when it ends.                                  *)
(*                                                                          *)
(* What a member publishes is a version number that only grows; a fetch     *)
(* returns the version of that moment.  A call is one request's work on one *)
(* member: the members of a request are resolved independently.             *)
(***************************************************************************)
EXTENDS Naturals

CONSTANTS
    Members,        \* DIDs of members
    Calls,          \* slots of overlapping requests
    MaxAge,         \* maxAgeSeconds
    MaxVersion,     \* bound on what members publish
    MaxClock,       \* bound on the clock
    Absent          \* no document, no entry, no call, no time

Versions == 0..MaxVersion
MaybeVersion == Versions \cup {Absent}

\* Where a DID document comes from, and the versions an answer is made of.
Value == [origin : {"fetched", "local"}, did : Versions, participant : MaybeVersion,
          optional : SUBSET Versions]
NoValue == [origin |-> "fetched", did |-> 0, participant |-> Absent,
            optional |-> {}]

Entry == [value : Value, expires : Nat]

\* start is the `now` of resolve; overtaken, whether the member's entry was
\* written since the call was made.
Call == [member : Members, stage : {"listed", "did", "participant", "optional", "store"},
         start : Nat, value : Value, overtaken : BOOLEAN]

ASSUME CacheAssumption ==
    /\ MaxAge \in Nat \ {0} /\ MaxVersion \in Nat /\ MaxClock \in Nat
    /\ Absent \notin Nat /\ Absent \notin Call

VARIABLES
    clock,      \* Date.now() of the process
    published,  \* the version each member publishes
    replaced,   \* when a version ceased to be published
    cache,      \* the Map: publisherDid -> entry
    calls       \* the calls under way
cacheVars == <<clock, published, replaced, cache, calls>>

CacheTypeOK ==
    /\ clock \in 0..MaxClock
    /\ published \in [Members -> Versions]
    /\ replaced \in [Members -> [Versions -> Nat \cup {Absent}]]
    /\ cache \in [Members -> Entry \cup {Absent}]
    /\ calls \in [Calls -> Call \cup {Absent}]

CacheInit ==
    /\ clock = 0
    /\ published = [m \in Members |-> 0]
    /\ replaced = [m \in Members |-> [v \in Versions |-> Absent]]
    /\ cache = [m \in Members |-> Absent]
    /\ calls = [c \in Calls |-> Absent]

-----------------------------------------------------------------------------
Publish(m) ==
    /\ published[m] < MaxVersion
    /\ published' = [published EXCEPT ![m] = @ + 1]
    /\ replaced' = [replaced EXCEPT ![m][published[m]] = clock]
    /\ UNCHANGED <<clock, cache, calls>>

-----------------------------------------------------------------------------
(* resolve                                                                 *)

At(c, stage) == calls[c] # Absent /\ calls[c].stage = stage

\* The datasets, credentials and documents are listed before the members are
\* resolved: what changes from here on is not seen.
ListMembers(c, m) ==
    /\ calls[c] = Absent
    /\ calls' = [calls EXCEPT ![c] =
          [member |-> m, stage |-> "listed", start |-> clock,
           value |-> NoValue, overtaken |-> FALSE]]
    /\ UNCHANGED <<clock, published, replaced, cache>>

Fresh(m) == cache[m] # Absent /\ cache[m].expires > clock

\* The cached value, unless the request asks for a refresh.
Hit(c) ==
    /\ At(c, "listed")
    /\ Fresh(calls[c].member)
    /\ calls' = [calls EXCEPT ![c] = Absent]
    /\ UNCHANGED <<clock, published, replaced, cache>>

Advance(c, stage, value) ==
    /\ calls' = [calls EXCEPT ![c].stage = stage, ![c].value = value]
    /\ UNCHANGED <<clock, published, replaced, cache>>

\* No entry, an old one, or refresh=true: the first fetch is sent.
Miss(c, forceRefresh) ==
    /\ At(c, "listed")
    /\ forceRefresh \/ ~Fresh(calls[c].member)
    /\ calls' = [calls EXCEPT ![c].stage = "did", ![c].start = clock]
    /\ UNCHANGED <<clock, published, replaced, cache>>

Source(c) == published[calls[c].member]

\* Altered: the fetch may be answered with an older copy of the document.
FetchDidStale(c) ==
    /\ At(c, "did")
    /\ \E v \in 0..Source(c) : Advance(c, "participant", [NoValue EXCEPT !.did = v])

FetchDid(c) ==
    /\ At(c, "did")
    /\ Advance(c, "participant", [NoValue EXCEPT !.did = Source(c)])

\* The fetch failed: the newest confirmed document among the records listed,
\* which was the member's own at some time, takes its place.
FallBack(c) ==
    /\ At(c, "did")
    /\ \E v \in 0..Source(c) :
          Advance(c, "participant", [NoValue EXCEPT !.did = v, !.origin = "local"])

\* Altered: the participant credential of the old entry is taken over.
FetchParticipantCached(c) ==
    /\ At(c, "participant")
    /\ LET m == calls[c].member
           v == IF cache[m] # Absent THEN cache[m].value.participant ELSE Source(c)
       IN  Advance(c, "optional", [calls[c].value EXCEPT !.participant = v])

\* The participant credential is not optional.
FetchParticipant(c) ==
    /\ At(c, "participant")
    /\ Advance(c, "optional", [calls[c].value EXCEPT !.participant = Source(c)])

\* One more of the optional artifacts, or the last of them is past.
FetchOptional(c) ==
    /\ At(c, "optional")
    /\ \/ Advance(c, "optional", [calls[c].value EXCEPT !.optional = @ \cup {Source(c)}])
       \/ Advance(c, "store", calls[c].value)

\* The member has no OrganizationCredential among the credentials listed, its
\* DID document cannot be had and no record stands in, or its participant
\* credential cannot be had or is of another kind: an issue of the answer.
Fails(c) ==
    /\ At(c, "listed") \/ At(c, "did") \/ At(c, "participant")
    /\ calls' = [calls EXCEPT ![c] = Absent]
    /\ UNCHANGED <<clock, published, replaced, cache>>

\* Altered: an entry lives for its age after it was written.
ExpiryAtEnd(c) == clock + MaxAge

\* The age is counted from the time the call began.
Expiry(c) == calls[c].start + MaxAge

\* The other calls on the member now hold something older than the cache.
Overtake(c) ==
    [d \in Calls |-> IF d = c THEN Absent
                     ELSE IF calls[d] # Absent /\ calls[d].member = calls[c].member
                          THEN [calls[d] EXCEPT !.overtaken = TRUE]
                          ELSE calls[d]]

StoreAnswer(c) ==
    /\ At(c, "store")
    /\ cache' = [cache EXCEPT ![calls[c].member] =
          [value |-> calls[c].value, expires |-> Expiry(c)]]
    /\ calls' = Overtake(c)
    /\ UNCHANGED <<clock, published, replaced>>

-----------------------------------------------------------------------------
CacheTick ==
    /\ clock < MaxClock
    /\ clock' = clock + 1
    /\ UNCHANGED <<published, replaced, cache, calls>>

CacheRestart ==
    /\ \E m \in Members : cache[m] # Absent
    /\ cache' = [m \in Members |-> Absent]
    /\ calls' = [c \in Calls |-> Absent]
    /\ UNCHANGED <<clock, published, replaced>>

CacheNext ==
    \/ \E m \in Members : Publish(m)
    \/ \E c \in Calls :
        \/ \E m \in Members : ListMembers(c, m)
        \/ Hit(c) \/ \E forceRefresh \in BOOLEAN : Miss(c, forceRefresh)
        \/ FetchDid(c) \/ FallBack(c) \/ FetchParticipant(c)
        \/ FetchOptional(c) \/ Fails(c) \/ StoreAnswer(c)
    \/ CacheTick
    \/ CacheRestart

CacheSpec == CacheInit /\ [][CacheNext]_cacheVars

-----------------------------------------------------------------------------
(* What discovery promises.                                                *)

Fetched(value) ==
    {value.participant} \cup value.optional
        \cup (IF value.origin = "fetched" THEN {value.did} ELSE {})

\* Nothing in the value was replaced a full age before time t.
WithinAge(m, value, t) ==
    \A v \in Fetched(value) \ {Absent} :
        replaced[m][v] = Absent \/ replaced[m][v] + MaxAge > t

\* However long a refresh took and however refreshes overlapped, an answer
\* holds nothing its member had replaced a full age before it was asked for,
\* whether it comes from the cache now or from the fetches of a call: an entry
\* ages from the start of its call, not from its end.  The record ICA falls
\* back on is of any age and not covered (Hit and StoreAnswer).
NothingOlderThanAge ==
    /\ \A m \in Members : Fresh(m) => WithinAge(m, cache[m].value, clock)
    /\ \A c \in Calls : At(c, "store") => WithinAge(calls[c].member, calls[c].value, calls[c].start)

\* An answer is assembled over time but never backwards: the parts fetched
\* later are at least as new, so no artifact is older than the DID document
\* that advertises it (the order of the awaits in resolve).
PartsFollowDid ==
    \A c \in Calls : At(c, "store") =>
        LET value == calls[c].value
        IN  /\ value.did <= value.participant
            /\ \A v \in value.optional : value.participant <= v

\* The cache goes back to an older document only where two refreshes overlap:
\* the call that writes it had begun when the newer one was written (or it
\* fell back on ICA's own record).
OlderOnlyByOverlap ==
    [][\A c \in Calls :
         LET m == calls[c].member
         IN  (/\ calls[c] # Absent /\ calls'[c] = Absent
              /\ cache[m] # Absent /\ cache'[m] # Absent
              /\ cache'[m].value.origin = "fetched"
              /\ cache'[m].value.did < cache[m].value.did)
             => calls[c].overtaken]_cacheVars

=============================================================================
