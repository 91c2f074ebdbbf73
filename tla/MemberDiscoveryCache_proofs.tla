--------------------- MODULE MemberDiscoveryCache_proofs ---------------------
(***************************************************************************)
(* TLAPS proofs about MemberDiscoveryCache, for any members, overlapping    *)
(* calls, age, versions and clock: the types, the age of what an answer     *)
(* holds, the order of its parts, and where the cache may go backwards.     *)
(***************************************************************************)
EXTENDS MemberDiscoveryCache, TLAPS

Late == {"participant", "optional", "store"}

\* What a call has fetched was the member's own when the call began or later.
CallFits(call) ==
    /\ call.start <= clock
    /\ call.stage \in Late =>
        /\ \A v \in Fetched(call.value) \ {Absent} :
              replaced[call.member][v] = Absent \/ replaced[call.member][v] >= call.start
        /\ call.value.did <= published[call.member]
        /\ call.value.origin = "fetched" /\ ~call.overtaken /\ cache[call.member] # Absent =>
              cache[call.member].value.did <= call.value.did
    /\ call.stage = "participant" => call.value.participant = Absent /\ call.value.optional = {}
    /\ call.stage \in {"optional", "store"} =>
        /\ call.value.participant \in Versions
        /\ call.value.did <= call.value.participant
        /\ call.value.participant <= published[call.member]
        /\ \A v \in call.value.optional : call.value.participant <= v

CallsFit == \A c \in Calls : calls[c] # Absent => CallFits(calls[c])

\* An entry expires before anything in it was replaced for its age.
EntryFits(m, entry) ==
    /\ entry.expires <= clock + MaxAge
    /\ entry.value.did <= published[m]
    /\ \A v \in Fetched(entry.value) \ {Absent} :
          replaced[m][v] = Absent \/ replaced[m][v] + MaxAge >= entry.expires

EntriesFit == \A m \in Members : cache[m] # Absent => EntryFits(m, cache[m])

\* The version a member publishes, and those to come, were not replaced.
CurrentStands ==
    \A m \in Members, v \in Versions : v >= published[m] => replaced[m][v] = Absent

CacheInv ==
    /\ CacheTypeOK
    /\ CallsFit
    /\ EntriesFit
    /\ CurrentStands

LEMMA FetchedAreVersions ==
    ASSUME NEW value \in Value
    PROVE  Fetched(value) \ {Absent} \subseteq Versions
BY DEF Fetched, Value, MaybeVersion

LEMMA NoValueIsValue == NoValue \in Value
BY CacheAssumption DEF NoValue, Value, Versions, MaybeVersion

-----------------------------------------------------------------------------
(* One call changes, or ends.                                              *)

LEMMA OneCall ==
    ASSUME CacheInv, NEW c \in Calls, NEW call \in Call \cup {Absent},
           calls' = [calls EXCEPT ![c] = call],
           UNCHANGED <<clock, published, replaced, cache>>,
           call # Absent => CallFits(call)
    PROVE  CacheInv'
<1>1. calls' \in [Calls -> Call \cup {Absent}]
  BY DEF CacheInv, CacheTypeOK
<1>2. CacheTypeOK'
  BY <1>1 DEF CacheInv, CacheTypeOK
<1>3. \A d \in Calls : calls'[d] # Absent => CallFits(calls'[d])
  BY DEF CacheInv, CacheTypeOK, CallsFit
<1>4. CallsFit'
  BY <1>3 DEF CallsFit, CallFits
<1>5. EntriesFit' /\ CurrentStands'
  BY DEF CacheInv, EntriesFit, EntryFits, CurrentStands
<1>6. QED
  BY <1>2, <1>4, <1>5 DEF CacheInv

LEMMA AdvanceIs ==
    ASSUME CacheInv, NEW c \in Calls, calls[c] # Absent, NEW stage, NEW value, Advance(c, stage, value)
    PROVE  /\ calls[c] \in Call /\ CallFits(calls[c])
           /\ calls' = [calls EXCEPT ![c] = [calls[c] EXCEPT !.stage = stage, !.value = value]]
<1>1. calls[c] \in Call
  BY DEF CacheInv, CacheTypeOK
<1>2. QED
  BY <1>1 DEF Advance, CacheInv, CallsFit

\* An answer a call goes on with fits the call.
LEMMA AdvanceKeeps ==
    ASSUME CacheInv, NEW c \in Calls, calls[c] # Absent,
           NEW stage \in Late, NEW value \in Value, Advance(c, stage, value),
           CallFits([calls[c] EXCEPT !.stage = stage, !.value = value])
    PROVE  CacheInv'
<1> DEFINE call == [calls[c] EXCEPT !.stage = stage, !.value = value]
<1>1. calls[c] \in Call
  BY DEF CacheInv, CacheTypeOK
<1>2. call \in Call
  BY <1>1 DEF Call, Late
<1>3. calls' = [calls EXCEPT ![c] = call]
  BY AdvanceIs
<1>4. UNCHANGED <<clock, published, replaced, cache>>
  BY DEF Advance
<1> HIDE DEF call
<1>5. CallFits(call)
  BY DEF call
<1>6. QED
  BY <1>2, <1>3, <1>4, <1>5, OneCall

\* What is published now was not replaced.
LEMMA SourceStands ==
    ASSUME CacheInv, NEW c \in Calls, calls[c] # Absent
    PROVE  /\ calls[c] \in Call /\ calls[c].member \in Members /\ CallFits(calls[c])
           /\ Source(c) \in Versions /\ Source(c) \in Nat /\ Source(c) # Absent
           /\ Source(c) = published[calls[c].member]
           /\ replaced[calls[c].member][Source(c)] = Absent
<1>1. calls[c] \in Call /\ CallFits(calls[c])
  BY DEF CacheInv, CacheTypeOK, CallsFit
<1>2. calls[c].member \in Members
  BY <1>1 DEF Call
<1>3. Source(c) = published[calls[c].member] /\ Source(c) \in Versions
  BY <1>2 DEF Source, CacheInv, CacheTypeOK
<1>4. Source(c) \in Nat /\ Source(c) # Absent
  BY <1>3, CacheAssumption DEF Versions
<1>5. QED
  BY <1>1, <1>2, <1>3, <1>4 DEF CacheInv, CurrentStands

LEMMA FetchDidKeeps ==
    ASSUME CacheInv, NEW c \in Calls, FetchDid(c)
    PROVE  CacheInv'
<1> DEFINE value == [NoValue EXCEPT !.did = Source(c)]
           call == [calls[c] EXCEPT !.stage = "participant", !.value = value]
<1>1. calls[c] # Absent /\ Advance(c, "participant", value)
  BY DEF FetchDid, At
<1>2. value = [origin |-> "fetched", did |-> Source(c), participant |-> Absent, optional |-> {}]
  BY DEF NoValue
<1>3. value \in Value
  BY <1>1, <1>2, SourceStands DEF Value, MaybeVersion
<1>4. Fetched(value) \ {Absent} = {Source(c)}
  BY <1>1, <1>2, SourceStands DEF Fetched
<1>5. /\ call.start = calls[c].start /\ call.member = calls[c].member
      /\ call.value = value /\ call.stage = "participant"
      /\ call.overtaken = calls[c].overtaken
  BY <1>1, SourceStands DEF Call
<1>6. cache[calls[c].member] # Absent => cache[calls[c].member].value.did <= Source(c)
  BY <1>1, SourceStands DEF CacheInv, EntriesFit, EntryFits
<1>7. calls[c].start <= clock /\ Source(c) <= published[calls[c].member]
  BY <1>1, SourceStands DEF CallFits
<1>8. replaced[calls[c].member][Source(c)] = Absent
  BY <1>1, SourceStands
<1> HIDE DEF value, call
<1>9. /\ value.did = Source(c) /\ value.participant = Absent /\ value.optional = {}
  BY <1>2
<1>10. CallFits(call)
  BY <1>4, <1>5, <1>6, <1>7, <1>8, <1>9 DEF CallFits, Late
<1>11. QED
  BY <1>1, <1>3, <1>10, AdvanceKeeps DEF call, Late

LEMMA FallBackKeeps ==
    ASSUME CacheInv, NEW c \in Calls, FallBack(c)
    PROVE  CacheInv'
<1>1. PICK v \in 0..Source(c) :
          Advance(c, "participant", [NoValue EXCEPT !.did = v, !.origin = "local"])
  BY DEF FallBack
<1> DEFINE value == [NoValue EXCEPT !.did = v, !.origin = "local"]
           call == [calls[c] EXCEPT !.stage = "participant", !.value = value]
<1>2. calls[c] # Absent
  BY DEF FallBack, At
<1>3. value = [origin |-> "local", did |-> v, participant |-> Absent, optional |-> {}]
  <2>1. PICK w : w = [NoValue EXCEPT !.did = v]
    OBVIOUS
  <2>2. w = [origin |-> "fetched", did |-> v, participant |-> Absent, optional |-> {}]
    BY <2>1 DEF NoValue
  <2>3. value = [w EXCEPT !.origin = "local"]
    BY <2>1
  <2>4. QED
    BY <2>2, <2>3
<1>4. v \in Versions /\ v <= published[calls[c].member]
  BY <1>2, SourceStands, CacheAssumption DEF Versions
<1>5. value \in Value
  BY <1>3, <1>4 DEF Value, MaybeVersion
<1>6. Fetched(value) \ {Absent} = {}
  BY <1>3 DEF Fetched
<1>7. /\ call.start = calls[c].start /\ call.member = calls[c].member
      /\ call.value = value /\ call.stage = "participant"
  BY <1>2, SourceStands DEF Call
<1>8. calls[c].start <= clock
  BY <1>2, SourceStands DEF CallFits
<1> HIDE DEF value, call
<1>9. value.did = v /\ value.origin = "local" /\ value.participant = Absent /\ value.optional = {}
  BY <1>3
<1>10. CallFits(call)
  BY <1>4, <1>6, <1>7, <1>8, <1>9 DEF CallFits, Late
<1>11. QED
  BY <1>1, <1>2, <1>5, <1>10, AdvanceKeeps DEF call, value, Late

LEMMA FetchParticipantKeeps ==
    ASSUME CacheInv, NEW c \in Calls, FetchParticipant(c)
    PROVE  CacheInv'
<1> DEFINE value == [calls[c].value EXCEPT !.participant = Source(c)]
           call == [calls[c] EXCEPT !.stage = "optional", !.value = value]
<1>1. calls[c] # Absent /\ calls[c].stage = "participant" /\ Advance(c, "optional", value)
  BY DEF FetchParticipant, At
<1>2. calls[c].value \in Value
  BY <1>1, SourceStands DEF Call
<1>3. /\ value \in Value
      /\ value.origin = calls[c].value.origin /\ value.did = calls[c].value.did
      /\ value.participant = Source(c) /\ value.optional = calls[c].value.optional
  BY <1>1, <1>2, SourceStands DEF Value, MaybeVersion
<1>4. /\ call.start = calls[c].start /\ call.member = calls[c].member
      /\ call.value = value /\ call.stage = "optional"
      /\ call.overtaken = calls[c].overtaken
  BY <1>1, SourceStands DEF Call
<1>5. CallFits(calls[c]) /\ Source(c) = published[calls[c].member] /\ Source(c) \in Versions
  BY <1>1, SourceStands
<1>6. replaced[calls[c].member][Source(c)] = Absent /\ Source(c) \in Nat
  BY <1>1, SourceStands
<1> HIDE DEF value, call
<1>7. calls[c].value.optional = {}
  BY <1>1, <1>5 DEF CallFits
<1>8. \A v \in Fetched(value) \ {Absent} : v = Source(c) \/ v \in Fetched(calls[c].value) \ {Absent}
  BY <1>3 DEF Fetched
<1>9. CallFits(call)
  BY <1>1, <1>3, <1>4, <1>5, <1>6, <1>7, <1>8 DEF CallFits, Late
<1>10. QED
  BY <1>1, <1>3, <1>9, AdvanceKeeps DEF call, Late

LEMMA FetchOptionalKeeps ==
    ASSUME CacheInv, NEW c \in Calls, FetchOptional(c)
    PROVE  CacheInv'
<1>1. calls[c] # Absent /\ calls[c].stage = "optional"
  BY DEF FetchOptional, At
<1>2. calls[c].value \in Value /\ CallFits(calls[c])
  BY <1>1, SourceStands DEF Call
<1>3. ASSUME Advance(c, "optional", [calls[c].value EXCEPT !.optional = @ \cup {Source(c)}])
      PROVE  CacheInv'
  <2> DEFINE value == [calls[c].value EXCEPT !.optional = @ \cup {Source(c)}]
             call == [calls[c] EXCEPT !.stage = "optional", !.value = value]
  <2>1. /\ value \in Value
        /\ value.origin = calls[c].value.origin /\ value.did = calls[c].value.did
        /\ value.participant = calls[c].value.participant
        /\ value.optional = calls[c].value.optional \cup {Source(c)}
    BY <1>1, <1>2, SourceStands DEF Value
  <2>2. /\ call.start = calls[c].start /\ call.member = calls[c].member
        /\ call.value = value /\ call.stage = "optional"
        /\ call.overtaken = calls[c].overtaken
    BY <1>1, SourceStands DEF Call
  <2>3. Source(c) = published[calls[c].member] /\ replaced[calls[c].member][Source(c)] = Absent
    BY <1>1, SourceStands
  <2> HIDE DEF value, call
  <2>4. \A v \in Fetched(value) \ {Absent} : v = Source(c) \/ v \in Fetched(calls[c].value) \ {Absent}
    BY <2>1 DEF Fetched
  <2>5. CallFits(call)
    BY <1>1, <1>2, <2>1, <2>2, <2>3, <2>4 DEF CallFits, Late
  <2>6. QED
    BY <1>1, <1>3, <2>1, <2>5, AdvanceKeeps DEF call, value, Late
<1>4. ASSUME Advance(c, "store", calls[c].value)
      PROVE  CacheInv'
  <2> DEFINE call == [calls[c] EXCEPT !.stage = "store", !.value = calls[c].value]
  <2>1. /\ call.start = calls[c].start /\ call.member = calls[c].member
        /\ call.value = calls[c].value /\ call.stage = "store"
        /\ call.overtaken = calls[c].overtaken
    BY <1>1, SourceStands DEF Call
  <2> HIDE DEF call
  <2>2. CallFits(call)
    BY <1>1, <1>2, <2>1 DEF CallFits, Late
  <2>3. QED
    BY <1>1, <1>2, <1>4, <2>2, AdvanceKeeps DEF call, Late
<1>5. QED
  BY <1>3, <1>4 DEF FetchOptional

LEMMA BeginOrEndKeeps ==
    ASSUME CacheInv, NEW c \in Calls, NEW m \in Members,
           ListMembers(c, m) \/ Hit(c) \/ (\E forceRefresh \in BOOLEAN : Miss(c, forceRefresh)) \/ Fails(c)
    PROVE  CacheInv'
<1>1. UNCHANGED <<clock, published, replaced, cache>> /\ clock \in Nat
  BY CacheAssumption DEF ListMembers, Hit, Miss, Fails, CacheInv, CacheTypeOK
<1>2. CASE ListMembers(c, m)
  <2> DEFINE call == [member |-> m, stage |-> "listed", start |-> clock,
                      value |-> NoValue, overtaken |-> FALSE]
  <2>1. call \in Call
    BY <1>1, NoValueIsValue DEF Call
  <2>2. CallFits(call)
    BY <1>1 DEF CallFits, Late
  <2>3. calls' = [calls EXCEPT ![c] = call]
    BY <1>2 DEF ListMembers
  <2> HIDE DEF call
  <2>4. QED
    BY <1>1, <2>1, <2>2, <2>3, OneCall
<1>3. CASE Hit(c) \/ Fails(c)
  <2>1. calls' = [calls EXCEPT ![c] = Absent]
    BY <1>3 DEF Hit, Fails
  <2>2. QED
    BY <1>1, <2>1, OneCall
<1>4. ASSUME NEW forceRefresh, Miss(c, forceRefresh)
      PROVE  CacheInv'
  <2> DEFINE call == [calls[c] EXCEPT !.stage = "did", !.start = clock]
  <2>1. calls[c] \in Call
    BY <1>4 DEF Miss, At, CacheInv, CacheTypeOK
  <2>2. call \in Call /\ call.stage = "did" /\ call.start = clock
    BY <1>1, <2>1 DEF Call
  <2>3. calls' = [calls EXCEPT ![c] = call]
    BY <1>4, <2>1 DEF Miss, CacheInv, CacheTypeOK
  <2> HIDE DEF call
  <2>4. CallFits(call)
    BY <1>1, <2>2 DEF CallFits, Late
  <2>5. QED
    BY <1>1, <2>2, <2>3, <2>4, OneCall
<1>5. QED
  BY <1>2, <1>3, <1>4

\* What overtakes a call is at least as new as what the call was told of.
LEMMA StoreAnswerKeeps ==
    ASSUME CacheInv, NEW c \in Calls, StoreAnswer(c)
    PROVE  CacheInv'
<1> DEFINE m == calls[c].member
           entry == [value |-> calls[c].value, expires |-> Expiry(c)]
<1>1. calls[c] # Absent /\ calls[c].stage = "store"
  BY DEF StoreAnswer, At
<1>2. calls[c] \in Call /\ m \in Members /\ CallFits(calls[c]) /\ calls[c].value \in Value
  BY <1>1, SourceStands DEF Call
<1>3. calls[c].start \in Nat /\ MaxAge \in Nat /\ clock \in Nat
  BY <1>2, CacheAssumption DEF Call, CacheInv, CacheTypeOK
<1>4. Expiry(c) = calls[c].start + MaxAge /\ Expiry(c) \in Nat
  BY <1>3 DEF Expiry
<1>5. entry \in Entry /\ entry.value = calls[c].value /\ entry.expires = calls[c].start + MaxAge
  BY <1>2, <1>4 DEF Entry
<1>6. cache' = [cache EXCEPT ![m] = entry] /\ UNCHANGED <<clock, published, replaced>>
  BY DEF StoreAnswer
<1>7. EntryFits(m, entry)
  <2>1. entry.expires <= clock + MaxAge
    BY <1>2, <1>3, <1>5 DEF CallFits
  <2>2. entry.value.did <= published[m]
    BY <1>1, <1>2, <1>5 DEF CallFits, Late
  <2>3. ASSUME NEW v \in Fetched(entry.value) \ {Absent}
        PROVE  replaced[m][v] = Absent \/ replaced[m][v] + MaxAge >= entry.expires
    <3>1. v \in Versions
      BY <1>2, <1>5, FetchedAreVersions
    <3>2. replaced[m][v] \in Nat \cup {Absent}
      BY <1>2, <3>1 DEF CacheInv, CacheTypeOK
    <3>3. replaced[m][v] = Absent \/ replaced[m][v] >= calls[c].start
      BY <1>1, <1>2, <1>5 DEF CallFits, Late
    <3>4. QED
      BY <1>3, <1>5, <3>2, <3>3
  <2>4. QED
    BY <2>1, <2>2, <2>3 DEF EntryFits
<1> HIDE DEF entry
<1>8. cache' \in [Members -> Entry \cup {Absent}]
  BY <1>2, <1>5, <1>6 DEF CacheInv, CacheTypeOK
<1>9. EntriesFit'
  <2> SUFFICES ASSUME NEW n \in Members, cache'[n] # Absent
               PROVE  EntryFits(n, cache[n])'
    BY DEF EntriesFit
  <2>1. EntryFits(n, cache'[n])
    BY <1>2, <1>6, <1>7 DEF CacheInv, CacheTypeOK, EntriesFit
  <2>2. QED
    BY <1>6, <2>1 DEF EntryFits
<1>10. ASSUME NEW d \in Calls, calls'[d] # Absent
       PROVE  /\ d # c /\ calls[d] \in Call /\ CallFits(calls[d])
              /\ \/ /\ calls[d].member = m
                    /\ calls'[d] = [calls[d] EXCEPT !.overtaken = TRUE]
                 \/ calls[d].member # m /\ calls'[d] = calls[d]
  BY <1>10 DEF StoreAnswer, Overtake, CacheInv, CacheTypeOK, CallsFit
<1>11. ASSUME NEW d \in Calls
       PROVE  calls'[d] \in Call \cup {Absent}
  <2>1. \A call \in Call : [call EXCEPT !.overtaken = TRUE] \in Call
    BY DEF Call
  <2>2. QED
    BY <1>10, <2>1
<1>12. calls' \in [Calls -> Call \cup {Absent}]
  BY <1>11 DEF StoreAnswer, Overtake
<1>13. CallsFit'
  <2> SUFFICES ASSUME NEW d \in Calls, calls'[d] # Absent
               PROVE  CallFits(calls[d])'
    BY DEF CallsFit
  <2>1. CASE calls[d].member = m
    <3>1. calls'[d] = [calls[d] EXCEPT !.overtaken = TRUE] /\ calls[d] \in Call /\ CallFits(calls[d])
      BY <1>10, <2>1
    <3>2. /\ calls'[d].start = calls[d].start /\ calls'[d].stage = calls[d].stage
          /\ calls'[d].value = calls[d].value /\ calls'[d].member = calls[d].member
          /\ calls'[d].overtaken = TRUE
      BY <3>1 DEF Call
    <3>3. QED
      BY <1>6, <3>1, <3>2 DEF CallFits
  <2>2. CASE calls[d].member # m
    <3>1. calls'[d] = calls[d] /\ calls[d] \in Call /\ CallFits(calls[d])
      BY <1>10, <2>2
    <3>2. cache'[calls[d].member] = cache[calls[d].member]
      BY <1>6, <2>2, <3>1 DEF Call, CacheInv, CacheTypeOK
    <3>3. QED
      BY <1>6, <3>1, <3>2 DEF CallFits
  <2>3. QED
    BY <2>1, <2>2
<1>14. CacheTypeOK' /\ CurrentStands'
  BY <1>6, <1>8, <1>12 DEF CacheInv, CacheTypeOK, CurrentStands
<1>15. QED
  BY <1>9, <1>13, <1>14 DEF CacheInv

-----------------------------------------------------------------------------
(* The world moves on.                                                     *)

\* What is replaced now is replaced after the calls began.
LEMMA WorldMoves ==
    ASSUME CacheInv, CacheTypeOK', UNCHANGED <<cache, calls>>, clock <= clock',
           \A n \in Members : published[n] <= published'[n],
           \A n \in Members, v \in Versions :
               replaced'[n][v] = replaced[n][v] \/ replaced'[n][v] = clock
    PROVE  CallsFit' /\ EntriesFit'
<1>1. clock \in Nat /\ clock' \in Nat /\ MaxAge \in Nat /\ clock # Absent
  BY CacheAssumption DEF CacheInv, CacheTypeOK
<1>2. ASSUME NEW n \in Members
      PROVE  published[n] \in Nat /\ published'[n] \in Nat /\ published[n] <= published'[n]
  BY CacheAssumption DEF CacheInv, CacheTypeOK, Versions
<1>3. ASSUME NEW c \in Calls, calls[c] # Absent
      PROVE  CallFits(calls[c])'
  <2>1. PICK call \in Call : call = calls[c] /\ CallFits(call) /\ calls'[c] = call
    BY <1>3 DEF CacheInv, CacheTypeOK, CallsFit
  <2>2. call.member \in Members /\ call.start \in Nat /\ call.value \in Value
    BY <2>1 DEF Call
  <2>3. call.value.did \in Nat
    BY <2>2, CacheAssumption DEF Value, Versions
  <2>4. call.start <= clock'
    BY <1>1, <2>1, <2>2 DEF CallFits
  <2>5. ASSUME call.stage \in Late, NEW v \in Fetched(call.value) \ {Absent}
        PROVE  replaced'[call.member][v] = Absent \/ replaced'[call.member][v] >= call.start
    <3>1. v \in Versions
      BY <2>2, FetchedAreVersions
    <3>2. replaced[call.member][v] = Absent \/ replaced[call.member][v] >= call.start
      BY <2>1, <2>5 DEF CallFits
    <3>3. clock >= call.start
      BY <1>1, <2>1, <2>2 DEF CallFits
    <3>4. QED
      BY <2>2, <3>1, <3>2, <3>3
  <2>6. call.stage \in Late => call.value.did <= published'[call.member]
    BY <1>2, <2>1, <2>2, <2>3 DEF CallFits
  <2>7. call.stage \in {"optional", "store"} => call.value.participant <= published'[call.member]
    <3>1. call.stage \in {"optional", "store"} =>
              call.value.participant \in Nat /\ call.value.participant <= published[call.member]
      BY <2>1, CacheAssumption DEF CallFits, Versions
    <3>2. QED
      BY <1>2, <2>2, <3>1
  <2>8. CallFits(call)'
    BY <2>1, <2>4, <2>5, <2>6, <2>7 DEF CallFits
  <2>9. QED
    BY <2>1, <2>8 DEF CallFits
<1>4. ASSUME NEW m \in Members, cache[m] # Absent
      PROVE  EntryFits(m, cache[m])'
  <2>1. PICK entry \in Entry : entry = cache[m] /\ EntryFits(m, entry) /\ cache'[m] = entry
    BY <1>4 DEF CacheInv, CacheTypeOK, EntriesFit
  <2>2. entry.value \in Value /\ entry.expires \in Nat
    BY <2>1 DEF Entry
  <2>3. entry.value.did \in Nat
    BY <2>2, CacheAssumption DEF Value, Versions
  <2>4. entry.expires <= clock + MaxAge
    BY <2>1 DEF EntryFits
  <2>5. entry.expires <= clock' + MaxAge /\ entry.value.did <= published'[m]
    BY <1>1, <1>2, <2>1, <2>2, <2>3 DEF EntryFits
  <2>6. ASSUME NEW v \in Fetched(entry.value) \ {Absent}
        PROVE  replaced'[m][v] = Absent \/ replaced'[m][v] + MaxAge >= entry.expires
    <3>1. v \in Versions
      BY <2>2, FetchedAreVersions
    <3>2. replaced[m][v] = Absent \/ replaced[m][v] + MaxAge >= entry.expires
      BY <2>1 DEF EntryFits
    <3>3. QED
      BY <1>1, <2>4, <3>1, <3>2
  <2>7. EntryFits(m, entry)'
    BY <2>1, <2>5, <2>6 DEF EntryFits
  <2>8. QED
    BY <2>1, <2>7 DEF EntryFits
<1>5. QED
  BY <1>3, <1>4 DEF CallsFit, EntriesFit

LEMMA PublishKeeps ==
    ASSUME CacheInv, NEW m \in Members, Publish(m)
    PROVE  CacheInv'
<1>1. clock \in Nat /\ published[m] \in Versions /\ published[m] < MaxVersion
  BY CacheAssumption DEF Publish, CacheInv, CacheTypeOK
<1>2. published[m] + 1 \in Versions
  BY <1>1, CacheAssumption DEF Versions
<1>3. \A n \in Members : published'[n] = IF n = m THEN published[m] + 1 ELSE published[n]
  BY DEF Publish, CacheInv, CacheTypeOK
<1>4. \A n \in Members, v \in Versions :
          replaced'[n][v] = IF n = m /\ v = published[m] THEN clock ELSE replaced[n][v]
  BY DEF Publish, CacheInv, CacheTypeOK
<1>5. replaced' \in [Members -> [Versions -> Nat \cup {Absent}]]
  BY <1>1 DEF Publish, CacheInv, CacheTypeOK
<1>6. CacheTypeOK'
  BY <1>2, <1>5 DEF Publish, CacheInv, CacheTypeOK
<1>7. \A n \in Members : published[n] \in Nat
  BY CacheAssumption DEF CacheInv, CacheTypeOK, Versions
<1>8. CallsFit' /\ EntriesFit'
  <2>1. \A n \in Members : published[n] <= published'[n]
    BY <1>3, <1>7
  <2>2. clock <= clock' /\ UNCHANGED <<cache, calls>>
    BY <1>1 DEF Publish
  <2>3. QED
    BY <1>4, <1>6, <2>1, <2>2, WorldMoves
<1>9. CurrentStands'
  <2> SUFFICES ASSUME NEW n \in Members, NEW v \in Versions, v >= published'[n]
               PROVE  replaced'[n][v] = Absent
    BY DEF CurrentStands
  <2>1. v \in Nat /\ published[n] \in Nat
    BY <1>7, CacheAssumption DEF Versions
  <2>2. v >= published[n] /\ ~(n = m /\ v = published[m])
    BY <1>3, <2>1
  <2>3. QED
    BY <1>4, <2>2 DEF CacheInv, CurrentStands
<1>10. QED
  BY <1>6, <1>8, <1>9 DEF CacheInv

LEMMA TickKeeps ==
    ASSUME CacheInv, CacheTick
    PROVE  CacheInv'
<1>1. clock \in Nat /\ clock' = clock + 1 /\ clock' \in 0..MaxClock
  BY CacheAssumption DEF CacheTick, CacheInv, CacheTypeOK
<1>2. CacheTypeOK' /\ CurrentStands'
  BY <1>1 DEF CacheTick, CacheInv, CacheTypeOK, CurrentStands
<1>3. \A n \in Members : published[n] \in Nat
  BY CacheAssumption DEF CacheInv, CacheTypeOK, Versions
<1>4. CallsFit' /\ EntriesFit'
  <2>1. UNCHANGED <<published, replaced, cache, calls>> /\ clock <= clock'
    BY <1>1 DEF CacheTick
  <2>2. \A n \in Members : published[n] <= published'[n]
    BY <1>3, <2>1
  <2>3. QED
    BY <1>2, <2>1, <2>2, WorldMoves
<1>5. QED
  BY <1>2, <1>4 DEF CacheInv

-----------------------------------------------------------------------------
(* The invariant.                                                          *)

LEMMA CacheInvInit == CacheInit => CacheInv
<1> SUFFICES ASSUME CacheInit
             PROVE  CacheInv
  OBVIOUS
<1>1. 0 \in Versions /\ 0 \in 0..MaxClock
  BY CacheAssumption DEF Versions
<1>2. CacheTypeOK
  BY <1>1 DEF CacheInit, CacheTypeOK
<1>3. QED
  BY <1>2 DEF CacheInit, CacheInv, CallsFit, EntriesFit, CurrentStands

LEMMA CacheInvNext == CacheInv /\ [CacheNext]_cacheVars => CacheInv'
<1> SUFFICES ASSUME CacheInv, [CacheNext]_cacheVars
             PROVE  CacheInv'
  OBVIOUS
<1>1. ASSUME NEW c \in Calls,
             \/ \E m \in Members : ListMembers(c, m)
             \/ Hit(c) \/ \E forceRefresh \in BOOLEAN : Miss(c, forceRefresh)
             \/ Fails(c)
      PROVE  CacheInv'
  <2>1. CASE \E m \in Members : ListMembers(c, m)
    BY <2>1, BeginOrEndKeeps
  <2>2. CASE Hit(c) \/ (\E forceRefresh \in BOOLEAN : Miss(c, forceRefresh)) \/ Fails(c)
    <3>1. calls[c].member \in Members
      BY <2>2 DEF Hit, Miss, Fails, At, CacheInv, CacheTypeOK, Call
    <3>2. QED
      BY <2>2, <3>1, BeginOrEndKeeps
  <2>3. QED
    BY <1>1, <2>1, <2>2
<1>2. ASSUME NEW c \in Calls,
             FetchDid(c) \/ FallBack(c) \/ FetchParticipant(c) \/ FetchOptional(c) \/ StoreAnswer(c)
      PROVE  CacheInv'
  BY <1>2, FetchDidKeeps, FallBackKeeps, FetchParticipantKeeps, FetchOptionalKeeps, StoreAnswerKeeps
<1>3. CASE (\E m \in Members : Publish(m)) \/ CacheTick
  BY <1>3, PublishKeeps, TickKeeps
<1>4. CASE CacheRestart
  <2>1. \A m \in Members : cache'[m] = Absent
    BY <1>4 DEF CacheRestart
  <2>2. \A c \in Calls : calls'[c] = Absent
    BY <1>4 DEF CacheRestart
  <2>3. CacheTypeOK'
    BY <1>4 DEF CacheRestart, CacheInv, CacheTypeOK
  <2>4. CallsFit' /\ EntriesFit'
    BY <2>1, <2>2 DEF CallsFit, EntriesFit
  <2>5. CurrentStands'
    BY <1>4 DEF CacheRestart, CacheInv, CurrentStands
  <2>6. QED
    BY <2>3, <2>4, <2>5 DEF CacheInv
<1>5. CASE UNCHANGED cacheVars
  BY <1>5
  DEF cacheVars, CacheInv, CacheTypeOK, CallsFit, CallFits, EntriesFit, EntryFits, CurrentStands
<1>6. QED
  BY <1>1, <1>2, <1>3, <1>4, <1>5 DEF CacheNext

-----------------------------------------------------------------------------
(* The promises.                                                           *)

\* The variables keep their types: an answer has a version of the DID document,
\* at most one of the participant's credential, and any of the others.
THEOREM CacheTypeCorrect == CacheSpec => []CacheTypeOK
<1>1. CacheInv => CacheTypeOK
  BY DEF CacheInv
<1>2. QED
  BY <1>1, CacheInvInit, CacheInvNext, PTL DEF CacheSpec

\* Whatever the age, however many calls overlap and however long they take, an
\* answer holds nothing replaced a full age before it was asked for.
THEOREM AnswersWithinAge == CacheSpec => []NothingOlderThanAge
<1>1. ASSUME CacheInv, NEW m \in Members, Fresh(m)
      PROVE  WithinAge(m, cache[m].value, clock)
  <2>1. cache[m] \in Entry /\ EntryFits(m, cache[m]) /\ cache[m].expires > clock
    BY <1>1 DEF Fresh, CacheInv, CacheTypeOK, EntriesFit
  <2>2. cache[m].value \in Value /\ cache[m].expires \in Nat /\ clock \in Nat /\ MaxAge \in Nat
    BY <1>1, <2>1, CacheAssumption DEF Entry, CacheInv, CacheTypeOK
  <2> SUFFICES ASSUME NEW v \in Fetched(cache[m].value) \ {Absent}
               PROVE  replaced[m][v] = Absent \/ replaced[m][v] + MaxAge > clock
    BY DEF WithinAge
  <2>3. replaced[m][v] \in Nat \cup {Absent}
    BY <1>1, <2>2, FetchedAreVersions DEF CacheInv, CacheTypeOK
  <2>4. replaced[m][v] = Absent \/ replaced[m][v] + MaxAge >= cache[m].expires
    BY <2>1 DEF EntryFits
  <2>5. QED
    BY <2>1, <2>2, <2>3, <2>4
<1>2. ASSUME CacheInv, NEW c \in Calls, At(c, "store")
      PROVE  WithinAge(calls[c].member, calls[c].value, calls[c].start)
  <2> DEFINE m == calls[c].member
  <2>1. calls[c] \in Call /\ m \in Members /\ CallFits(calls[c])
    BY <1>2, SourceStands DEF At
  <2>2. calls[c].value \in Value /\ calls[c].start \in Nat
    BY <2>1 DEF Call
  <2> SUFFICES ASSUME NEW v \in Fetched(calls[c].value) \ {Absent}
               PROVE  replaced[m][v] = Absent \/ replaced[m][v] + MaxAge > calls[c].start
    BY DEF WithinAge
  <2>3. replaced[m][v] \in Nat \cup {Absent}
    BY <1>2, <2>1, <2>2, FetchedAreVersions DEF CacheInv, CacheTypeOK
  <2>4. replaced[m][v] = Absent \/ replaced[m][v] >= calls[c].start
    BY <1>2, <2>1 DEF CallFits, At, Late
  <2>5. QED
    BY <2>2, <2>3, <2>4, CacheAssumption
<1>3. CacheInv => NothingOlderThanAge
  BY <1>1, <1>2 DEF NothingOlderThanAge
<1>4. QED
  BY <1>3, CacheInvInit, CacheInvNext, PTL DEF CacheSpec

\* No artifact of an assembled answer is older than those fetched before it.
THEOREM PartsInOrder == CacheSpec => []PartsFollowDid
<1>1. CacheInv => PartsFollowDid
  BY DEF CacheInv, CallsFit, CallFits, PartsFollowDid, At
<1>2. QED
  BY <1>1, CacheInvInit, CacheInvNext, PTL DEF CacheSpec

\* A call that ends leaves every cache entry alone, empties it, or writes what it
\* fetched over an entry no newer, unless it was overtaken.
LEMMA StepGoesBackOnlyOvertaken ==
    ASSUME CacheInv, CacheNext, NEW c \in Calls,
           calls[c] # Absent, calls'[c] = Absent,
           cache[calls[c].member] # Absent, cache'[calls[c].member] # Absent,
           cache'[calls[c].member].value.origin = "fetched",
           cache'[calls[c].member].value.did < cache[calls[c].member].value.did
    PROVE  calls[c].overtaken
<1> DEFINE m == calls[c].member
<1>1. calls[c] \in Call /\ m \in Members /\ CallFits(calls[c])
  BY SourceStands
<1>2. cache[m] \in Entry /\ cache[m].value.did \in Nat
  BY <1>1, CacheAssumption DEF CacheInv, CacheTypeOK, Entry, Value, Versions
<1>3. cache' # cache
  BY <1>2
<1>4. ~CacheRestart
  BY <1>1 DEF CacheRestart
<1>5. PICK d \in Calls : StoreAnswer(d)
  BY <1>3, <1>4 DEF CacheNext, Publish, ListMembers, Hit, Miss, FetchDid, FallBack,
     FetchParticipant, FetchOptional, Fails, Advance, CacheTick
<1>6. d = c
  <2>1. \A call \in Call : [call EXCEPT !.overtaken = TRUE] # Absent
    <3>1. \A call \in Call : [call EXCEPT !.overtaken = TRUE] \in Call
      BY DEF Call
    <3>2. QED
      BY <3>1, CacheAssumption
  <2>2. d # c => calls'[c] # Absent
    BY <1>1, <1>5, <2>1 DEF StoreAnswer, Overtake
  <2>3. QED
    BY <2>2
<1>7. cache'[m].value = calls[c].value /\ calls[c].stage = "store"
  BY <1>1, <1>5, <1>6 DEF StoreAnswer, At, CacheInv, CacheTypeOK
<1>8. calls[c].value.did \in Nat
  BY <1>1, CacheAssumption DEF Call, Value, Versions
<1>9. CASE ~calls[c].overtaken
  <2>1. cache[m].value.did <= calls[c].value.did
    BY <1>1, <1>7, <1>9 DEF CallFits, Late
  <2>2. QED
    BY <1>2, <1>7, <1>8, <2>1
<1>10. QED
  BY <1>9

\* Only a call that another one overtook, or that fell back on ICA's own record,
\* takes the cache back to an older document.
THEOREM BackwardsOnlyByOverlap == CacheSpec => OlderOnlyByOverlap
<1>1. CacheSpec => []CacheInv
  BY CacheInvInit, CacheInvNext, PTL DEF CacheSpec
<1>2. CacheInv /\ [CacheNext]_cacheVars =>
          [\A c \in Calls :
             LET m == calls[c].member
             IN  (/\ calls[c] # Absent /\ calls'[c] = Absent
                  /\ cache[m] # Absent /\ cache'[m] # Absent
                  /\ cache'[m].value.origin = "fetched"
                  /\ cache'[m].value.did < cache[m].value.did)
                 => calls[c].overtaken]_cacheVars
  BY StepGoesBackOnlyOvertaken DEF cacheVars
<1>3. QED
  BY <1>1, <1>2, PTL DEF CacheSpec, OlderOnlyByOverlap

=============================================================================
