---------------------------- MODULE Services_proofs ----------------------------
(***************************************************************************)
(* TLAPS proofs about Migration, for any records, objects and editions:     *)
(* the types, that the target only ever holds references that can be        *)
(* followed, and that the comparison of a run that reaches it succeeds.     *)
(*                                                                         *)
(* And about Services: side by side each of the four services behaves as    *)
(* it does alone, so what was proved of it alone holds of the whole.        *)
(***************************************************************************)
EXTENDS Services, BackendAuth_proofs, MemberDiscoveryCache_proofs,
        ActiveSigningKeys_proofs

\* The collections a run has stored when it is in a phase.
Stored(c) ==
    \/ phase = "compare"
    \/ phase = "documents" /\ c # "documents"
    \/ phase = "bindings" /\ c \in {"credentials", "evidence"}
    \/ phase = "evidence" /\ c = "credentials"

Writing == phase \in Collections \cup {"compare"}

\* What a reference needs to be followed.
Resolvable(content) ==
    content # Missing /\ content.object # NoObject =>
        content.at = "ipfs" /\ content.object \in pinned

\* A run that writes has read all there is, and can follow what it read.
ReadAll ==
    Writing => \A r \in Records :
        /\ Resolvable(transformed[r])
        /\ transformed[r] = Missing <=> source[r] = Missing

\* The source never loses a record, so the target has no other.
TargetKnown == \A r \in Records : target[r] # Missing => source[r] # Missing

StoredIsRead == \A r \in Records : Stored(CollectionOf[r]) => target[r] = transformed[r]

MigrationInv ==
    /\ MigrationTypeOK
    /\ mappings \subseteq pinned
    /\ TargetResolvable
    /\ TargetKnown
    /\ ReadAll
    /\ StoredIsRead

-----------------------------------------------------------------------------
(* The types.                                                              *)

LEMMA RewriteType ==
    ASSUME NEW content \in Content \cup {Missing}
    PROVE  Rewrite(content) \in Content \cup {Missing}
BY DEF Rewrite, Content

LEMMA WrittenType ==
    ASSUME MigrationTypeOK, NEW r \in Records, NEW object \in Objects \cup {NoObject},
           WriteSource(r, object)
    PROVE  source' \in Table /\ source'[r] \in Content
<1> DEFINE edition == IF source[r] = Missing THEN 0 ELSE source[r].edition + 1
<1> DEFINE content == [edition |-> edition, object |-> object, at |-> "gcs"]
<1>1. source \in [Records -> Content \cup {Missing}]
  BY DEF MigrationTypeOK, Table
<1>2. edition \in 0..MaxEdition
  <2>1. CASE source[r] = Missing
    BY <2>1, MigrationAssumption
  <2>2. CASE source[r] # Missing
    <3>1. source[r].edition \in 0..MaxEdition /\ source[r].edition < MaxEdition
      BY <1>1, <2>2 DEF WriteSource, Content
    <3>2. QED
      BY <2>2, <3>1, MigrationAssumption
  <2>3. QED
    BY <2>1, <2>2
<1>3. content \in Content
  BY <1>2 DEF Content
<1>4. source' = [source EXCEPT ![r] = content]
  BY DEF WriteSource
<1> HIDE DEF content
<1>5. QED
  BY <1>1, <1>3, <1>4 DEF Table

LEMMA MigrationTypeInit == MigrationInit => MigrationTypeOK
BY DEF MigrationInit, MigrationTypeOK, NoRecords, Table, Phases

LEMMA MigrationTypeNext == MigrationTypeOK /\ [MigrationNext]_migrationVars => MigrationTypeOK'
<1> SUFFICES ASSUME MigrationTypeOK, [MigrationNext]_migrationVars
             PROVE  MigrationTypeOK'
  OBVIOUS
<1> USE DEF MigrationTypeOK
<1>1. ASSUME NEW r \in Records, NEW object \in Objects \cup {NoObject}, WriteSource(r, object)
      PROVE  MigrationTypeOK'
  BY <1>1, WrittenType DEF WriteSource
<1>2. ASSUME NEW o \in Objects, Export(o) \/ Upload(o)
      PROVE  MigrationTypeOK'
  BY <1>2 DEF Export, Upload
<1>3. CASE Start
  BY <1>3 DEF Start, NoRecords, Table, Phases
<1>4. CASE Uploaded \/ Compare \/ WriteOutput \/ Stop
  BY <1>4 DEF Uploaded, Compare, WriteOutput, Stop, Phases
<1>5. CASE ReadSource
  <2>1. transformed' \in Table
    BY <1>5, RewriteType DEF ReadSource, Table
  <2>2. QED
    BY <1>5, <2>1 DEF ReadSource, Phases, Collections
<1>6. ASSUME NEW c \in Collections, StoreCollection(c)
      PROVE  MigrationTypeOK'
  <2>1. target' \in Table
    BY <1>6 DEF StoreCollection, Upserted, Table
  <2>2. phase' \in Phases
    BY <1>6 DEF StoreCollection, FollowedBy, Collections, Phases
  <2>3. QED
    BY <1>6, <2>1, <2>2 DEF StoreCollection
<1>7. CASE UNCHANGED migrationVars
  BY <1>7 DEF migrationVars
<1>8. QED
  BY <1>1, <1>2, <1>3, <1>4, <1>5, <1>6, <1>7 DEF MigrationNext

\* The variables keep their types: a record has an edition within the bound and
\* a reference to at most one object, a run is in one of its phases.
THEOREM MigrationTypeCorrect == MigrationSpec => []MigrationTypeOK
BY MigrationTypeInit, MigrationTypeNext, PTL DEF MigrationSpec

-----------------------------------------------------------------------------
(* The invariant, action by action.                                        *)

LEMMA WriteSourceKeeps ==
    ASSUME MigrationInv, NEW r \in Records, NEW object \in Objects \cup {NoObject},
           WriteSource(r, object)
    PROVE  TargetResolvable' /\ TargetKnown' /\ ReadAll' /\ StoredIsRead'
<1>1. phase = "idle" /\ phase' = "idle"
  BY DEF WriteSource
<1>2. source'[r] # Missing
  BY WrittenType, MigrationAssumption DEF MigrationInv
<1>3. TargetKnown'
  BY <1>2 DEF WriteSource, MigrationInv, MigrationTypeOK, Table, TargetKnown
<1>4. QED
  BY <1>1, <1>3
  DEF WriteSource, MigrationInv, TargetResolvable, ReadAll, Writing, Collections, StoredIsRead, Stored

\* What is pinned stays pinned.
LEMMA UploadKeeps ==
    ASSUME MigrationInv, NEW o \in Objects, Export(o) \/ Upload(o)
    PROVE  TargetResolvable' /\ TargetKnown' /\ ReadAll' /\ StoredIsRead'
<1>1. phase \in {"idle", "upload"} /\ phase' = phase
  BY DEF Export, Upload
<1>2. pinned \subseteq pinned' /\ target' = target /\ source' = source
  BY DEF Export, Upload
<1>3. QED
  BY <1>1, <1>2
  DEF MigrationInv, TargetResolvable, TargetKnown, ReadAll, Writing, Collections, StoredIsRead, Stored

\* The steps that leave the collections alone and store nothing.
LEMMA PhaseKeeps ==
    ASSUME MigrationInv, Start \/ Uploaded \/ Compare \/ WriteOutput \/ Stop
    PROVE  TargetResolvable' /\ TargetKnown' /\ ReadAll' /\ StoredIsRead'
<1>1. phase' \in {"idle", "upload", "read", "manifest", "report"}
  BY DEF Start, Uploaded, Compare, WriteOutput, Stop
<1>2. UNCHANGED <<source, target, pinned>>
  BY DEF Start, Uploaded, Compare, WriteOutput, Stop
<1>3. QED
  BY <1>1, <1>2
  DEF MigrationInv, TargetResolvable, TargetKnown, ReadAll, Writing, Collections, StoredIsRead, Stored

\* With no reference unresolved, each has a mapping, and so a pinned object.
LEMMA ReadSourceKeeps ==
    ASSUME MigrationInv, ReadSource
    PROVE  TargetResolvable' /\ TargetKnown' /\ ReadAll' /\ StoredIsRead'
<1>1. UNCHANGED <<source, target, pinned, mappings>>
  BY DEF ReadSource
<1>2. phase' \in {"credentials", "idle"}
  BY DEF ReadSource
<1>3. TargetResolvable' /\ TargetKnown' /\ StoredIsRead'
  BY <1>1, <1>2 DEF MigrationInv, TargetResolvable, TargetKnown, StoredIsRead, Stored
<1>4. ASSUME NEW r \in Records, Unresolved = {}
      PROVE  /\ Resolvable(transformed[r])'
             /\ transformed'[r] = Missing <=> source[r] = Missing
  <2>1. transformed'[r] = Rewrite(source[r])
    BY DEF ReadSource
  <2>2. source[r] \in Content \cup {Missing}
    BY DEF MigrationInv, MigrationTypeOK, Table
  <2>3. CASE source[r] = Missing
    BY <2>1, <2>3 DEF Rewrite, Resolvable
  <2>4. CASE source[r] # Missing
    <3>1. source[r].object = NoObject \/ source[r].object \in mappings
      BY <1>4, <2>4 DEF Unresolved, References
    <3>2. transformed'[r] \in Content
      BY <2>1, <2>2, <2>4 DEF Rewrite, Content
    <3>3. transformed'[r].object = source[r].object
      BY <2>1, <2>2, <2>4 DEF Rewrite, Content
    <3>4. source[r].object \in mappings => transformed'[r].at = "ipfs"
      BY <2>1, <2>2, <2>4 DEF Rewrite, Content
    <3>5. mappings \subseteq pinned'
      BY <1>1 DEF MigrationInv
    <3>6. QED
      BY <2>4, <3>1, <3>2, <3>3, <3>4, <3>5, MigrationAssumption DEF Resolvable
  <2>5. QED
    BY <2>3, <2>4
<1>5. ReadAll'
  <2>1. Writing' => Unresolved = {}
    BY DEF ReadSource, Writing, Collections
  <2>2. QED
    BY <1>1, <1>4, <2>1 DEF ReadAll
<1>6. QED
  BY <1>3, <1>5

LEMMA StoreKeeps ==
    ASSUME MigrationInv, NEW c \in Collections, StoreCollection(c)
    PROVE  TargetResolvable' /\ TargetKnown' /\ ReadAll' /\ StoredIsRead'
<1>1. UNCHANGED <<source, pinned, transformed>> /\ phase = c
  BY DEF StoreCollection
<1>2. Writing
  BY <1>1 DEF Writing
<1>3. ReadAll'
  BY <1>1, <1>2 DEF MigrationInv, ReadAll, Resolvable
<1>4. ASSUME NEW r \in Records, CollectionOf[r] = c
      PROVE  target'[r] = transformed[r]
  <2>1. target'[r] = Upserted(r)
    BY <1>4 DEF StoreCollection
  <2>2. transformed[r] = Missing => target[r] = Missing
    BY <1>2 DEF MigrationInv, ReadAll, TargetKnown
  <2>3. QED
    BY <2>1, <2>2 DEF Upserted
<1>5. ASSUME NEW r \in Records, CollectionOf[r] # c
      PROVE  target'[r] = target[r]
  BY <1>5 DEF StoreCollection
<1>6. TargetResolvable'
  BY <1>1, <1>2, <1>4, <1>5 DEF MigrationInv, ReadAll, Resolvable, TargetResolvable
<1>7. TargetKnown'
  BY <1>1, <1>2, <1>4, <1>5 DEF MigrationInv, ReadAll, TargetKnown
<1>8. ASSUME NEW d \in Collections, Stored(d)'
      PROVE  d = c \/ Stored(d)
  BY <1>1, <1>8 DEF StoreCollection, FollowedBy, Stored, Collections
<1>9. StoredIsRead'
  <2>1. \A r \in Records : CollectionOf[r] \in Collections
    BY MigrationAssumption
  <2>2. QED
    BY <1>1, <1>4, <1>5, <1>8, <2>1 DEF MigrationInv, StoredIsRead
<1>10. QED
  BY <1>3, <1>6, <1>7, <1>9

LEMMA PinnedKeeps ==
    MigrationInv /\ [MigrationNext]_migrationVars => (mappings \subseteq pinned)'
BY DEF MigrationInv, MigrationNext, migrationVars, WriteSource, Export, Start, Upload, Uploaded,
       ReadSource, StoreCollection, Compare, WriteOutput, Stop

-----------------------------------------------------------------------------
LEMMA MigrationInvInit == MigrationInit => MigrationInv
<1> SUFFICES ASSUME MigrationInit
             PROVE  MigrationInv
  OBVIOUS
<1>1. phase = "idle" /\ mappings = {} /\ \A r \in Records : target[r] = Missing
  BY DEF MigrationInit, NoRecords
<1>2. QED
  BY <1>1, MigrationTypeInit
  DEF MigrationInv, TargetResolvable, TargetKnown, ReadAll, Writing, Collections, StoredIsRead, Stored

LEMMA MigrationInvNext == MigrationInv /\ [MigrationNext]_migrationVars => MigrationInv'
<1> SUFFICES ASSUME MigrationInv, [MigrationNext]_migrationVars
             PROVE  MigrationInv'
  OBVIOUS
<1>1. MigrationTypeOK' /\ (mappings \subseteq pinned)'
  BY MigrationTypeNext, PinnedKeeps DEF MigrationInv
<1>2. TargetResolvable' /\ TargetKnown' /\ ReadAll' /\ StoredIsRead'
  <2>1. CASE UNCHANGED migrationVars
    BY <2>1 DEF MigrationInv, migrationVars, TargetResolvable, TargetKnown, ReadAll, Writing,
                Resolvable, StoredIsRead, Stored
  <2>2. CASE MigrationNext
    BY <2>2, WriteSourceKeeps, UploadKeeps, PhaseKeeps, ReadSourceKeeps, StoreKeeps
    DEF MigrationNext
  <2>3. QED
    BY <2>1, <2>2
<1>3. QED
  BY <1>1, <1>2 DEF MigrationInv

\* In every state of every sequence of runs, whatever reference a record of the
\* target holds is an IPFS one and its object is pinned.
THEOREM TargetCanBeFollowed == MigrationSpec => []TargetResolvable
<1>1. MigrationInv => TargetResolvable
  BY DEF MigrationInv
<1>2. QED
  BY <1>1, MigrationInvInit, MigrationInvNext, PTL DEF MigrationSpec

\* A run that reaches the comparison finds what it read and nothing else in the
\* target, whatever earlier runs left there.
THEOREM RunReconciles == MigrationSpec => []ReconciliationHolds
<1>1. MigrationInv => ReconciliationHolds
  <2> SUFFICES ASSUME MigrationInv, phase = "compare"
               PROVE  target = transformed
    BY DEF ReconciliationHolds, Reconciled
  <2>1. \A r \in Records : target[r] = transformed[r]
    BY DEF MigrationInv, StoredIsRead, Stored
  <2>2. target \in Table /\ transformed \in Table
    BY DEF MigrationInv, MigrationTypeOK
  <2>3. QED
    BY <2>1, <2>2 DEF Table
<1>2. QED
  BY <1>1, MigrationInvInit, MigrationInvNext, PTL DEF MigrationSpec

-----------------------------------------------------------------------------
(* The services side by side.                                              *)

\* A step of one service is one of that service alone, and none of the others.
LEMMA ServicesStep ==
    [Next]_vars => /\ [AuthNext]_authVars
                   /\ [CacheNext]_cacheVars
                   /\ [SigningNext]_signingVars
                   /\ [MigrationNext]_migrationVars
<1>1. CASE UNCHANGED vars
  BY <1>1 DEF vars
<1>2. CASE Next
  BY <1>2 DEF Next
<1>3. QED
  BY <1>1, <1>2

\* Side by side each service keeps its own specification.
THEOREM ServicesAlone == Spec => AuthSpec /\ CacheSpec /\ SigningSpec /\ MigrationSpec
<1>1. Init => AuthInit /\ CacheInit /\ SigningInit /\ MigrationInit
  BY DEF Init
<1>2. QED
  BY <1>1, ServicesStep, PTL DEF Spec, AuthSpec, CacheSpec, SigningSpec, MigrationSpec

\* Every variable of the four services keeps its type.
THEOREM ServicesTypeCorrect == Spec => []TypeOK
<1>1. AuthTypeOK /\ CacheTypeOK /\ SigningTypeOK /\ MigrationTypeOK => TypeOK
  BY DEF TypeOK
<1>2. QED
  BY <1>1, ServicesAlone, AuthTypeCorrect, CacheTypeCorrect, SigningTypeCorrect,
     MigrationTypeCorrect, PTL

\* And what each service keeps alone it keeps beside the others: sign-in ends,
\* repeated disabling changes nothing more, no answer of discovery outlives its
\* age or goes back without an overlap, signatures stay verifiable, and a
\* migration leaves nothing that cannot be followed.
THEOREM ServicesCorrect ==
    Spec => /\ [](SignInBounded /\ DisableRepeatable)
            /\ EndedNeverRebound
            /\ [](NothingOlderThanAge /\ PartsFollowDid)
            /\ OlderOnlyByOverlap
            /\ [](SignerIsPublished /\ SignedStaysVerifiable)
            /\ [](TargetResolvable /\ ReconciliationHolds)
BY ServicesAlone, SignInAges, DisableCanBeRepeated, EndedStaysUnbound,
   AnswersWithinAge, PartsInOrder, BackwardsOnlyByOverlap,
   NextSignerIsPublished, SignaturesStayVerifiable,
   TargetCanBeFollowed, RunReconciles, PTL
=============================================================================
