------------------------------ MODULE Migration ------------------------------
(***************************************************************************)
(* The copy of the verification collections from Firestore and GCS to       *)
(* PostgreSQL and IPFS: every exported audit object is pinned, every record *)
(* is read, its reference to an object rewritten to the object's IPFS       *)
(* address, the four collections are stored one transaction after the       *)
(* other, the target is read back and compared, and the manifest and the    *)
(* report are written.  A run may end between any two of these steps, and   *)
(* the operator starts another one.                                         *)
(*                                                                          *)
(* The source is written and the export completed between runs only, as the *)
(* runbook asks; a run writes into an output directory of its own.          *)
(***************************************************************************)
EXTENDS Naturals

CONSTANTS
    Records,        \* ids of records
    CollectionOf,   \* the collection each is in
    Objects,        \* audit objects, by object key
    MaxEdition,     \* bound on the editions of a record
    Missing, NoObject

Collections == {"credentials", "evidence", "bindings", "documents"}

\* at is the provider of the reference.
Content == [edition : 0..MaxEdition, object : Objects \cup {NoObject}, at : {"gcs", "ipfs"}]

ASSUME MigrationAssumption ==
    /\ CollectionOf \in [Records -> Collections]
    /\ MaxEdition \in Nat
    /\ NoObject \notin Objects /\ Missing \notin Content

VARIABLES
    source,     \* the Firestore collections
    exported,   \* objects in the audit directory
    target,     \* the PostgreSQL tables
    pinned,     \* objects the IPFS node holds
    phase,      \* of the run under way, or "idle"
    mappings,   \* objects this run has pinned
    transformed \* the records this run has read and rewritten
migrationVars == <<source, exported, target, pinned, phase, mappings, transformed>>

Table == [Records -> Content \cup {Missing}]
Phases == {"idle", "upload", "read", "compare", "manifest", "report"} \cup Collections

MigrationTypeOK ==
    /\ source \in Table /\ target \in Table /\ transformed \in Table
    /\ exported \subseteq Objects /\ pinned \subseteq Objects /\ mappings \subseteq Objects
    /\ phase \in Phases

NoRecords == [r \in Records |-> Missing]

MigrationInit ==
    /\ source = NoRecords /\ target = NoRecords /\ transformed = NoRecords
    /\ exported = {} /\ pinned = {} /\ mappings = {}
    /\ phase = "idle"

-----------------------------------------------------------------------------
(* Between runs.                                                           *)

\* The service adds a record or writes a known one anew; none is deleted.  Only
\* credentials and evidence hold references to audit objects.
WriteSource(r, object) ==
    /\ phase = "idle"
    /\ object # NoObject => CollectionOf[r] \in {"credentials", "evidence"}
    /\ source[r] # Missing => source[r].edition < MaxEdition
    /\ source' = [source EXCEPT ![r] =
          [edition |-> IF @ = Missing THEN 0 ELSE @.edition + 1, object |-> object, at |-> "gcs"]]
    /\ UNCHANGED <<exported, target, pinned, phase, mappings, transformed>>

Export(o) ==
    /\ phase = "idle" /\ o \notin exported
    /\ exported' = exported \cup {o}
    /\ UNCHANGED <<source, target, pinned, phase, mappings, transformed>>

-----------------------------------------------------------------------------
(* A run.                                                                  *)

Start ==
    /\ phase = "idle"
    /\ phase' = "upload"
    /\ mappings' = {} /\ transformed' = NoRecords
    /\ UNCHANGED <<source, exported, target, pinned>>

\* migrateAuditObjectsToIpfs: objects are pinned one after the other.
Upload(o) ==
    /\ phase = "upload" /\ o \in exported \ mappings
    /\ pinned' = pinned \cup {o}
    /\ mappings' = mappings \cup {o}
    /\ UNCHANGED <<source, exported, target, phase, transformed>>

Uploaded ==
    /\ phase = "upload" /\ mappings = exported
    /\ phase' = "read"
    /\ UNCHANGED <<source, exported, target, pinned, mappings, transformed>>

References(table) == {table[r].object : r \in {q \in Records : table[q] # Missing}} \ {NoObject}

\* rewriteAuditReferences: a reference without mapping is left as it is.
Rewrite(content) ==
    IF content = Missing \/ content.object \notin mappings THEN content
    ELSE [content EXCEPT !.at = "ipfs"]

\* Altered: what has no mapping is not reported.
UnresolvedNone == {}

Unresolved == References(source) \ mappings

\* readCollections of the source; with a reference left unresolved the run ends
\* before anything is stored.
ReadSource ==
    /\ phase = "read"
    /\ transformed' = [r \in Records |-> Rewrite(source[r])]
    /\ phase' = IF Unresolved = {} THEN "credentials" ELSE "idle"
    /\ UNCHANGED <<source, exported, target, pinned, mappings>>

\* Altered: a record the table has already is kept.
UpsertedKeeping(r) == IF target[r] # Missing THEN target[r] ELSE transformed[r]

\* ON CONFLICT (id) DO UPDATE
Upserted(r) == IF transformed[r] = Missing THEN target[r] ELSE transformed[r]

\* The order of the four stores, and what follows the last.
FollowedBy == [credentials |-> "evidence", evidence |-> "bindings",
               bindings |-> "documents", documents |-> "compare"]

\* One collection is one transaction.
StoreCollection(c) ==
    /\ phase = c
    /\ target' = [r \in Records |-> IF CollectionOf[r] = c THEN Upserted(r) ELSE target[r]]
    /\ phase' = FollowedBy[c]
    /\ UNCHANGED <<source, exported, pinned, mappings, transformed>>

\* The digests of all that was read and of all the target holds.
Reconciled == target = transformed

Compare ==
    /\ phase = "compare"
    /\ phase' = IF Reconciled THEN "manifest" ELSE "idle"
    /\ UNCHANGED <<source, exported, target, pinned, mappings, transformed>>

WriteOutput ==
    /\ phase \in {"manifest", "report"}
    /\ phase' = IF phase = "manifest" THEN "report" ELSE "idle"
    /\ UNCHANGED <<source, exported, target, pinned, mappings, transformed>>

\* The process dies, or a call to Kubo, Firestore, PostgreSQL or the disk fails.
Stop ==
    /\ phase # "idle"
    /\ phase' = "idle"
    /\ UNCHANGED <<source, exported, target, pinned, mappings, transformed>>

MigrationNext ==
    \/ \E r \in Records, object \in Objects \cup {NoObject} : WriteSource(r, object)
    \/ \E o \in Objects : Export(o) \/ Upload(o)
    \/ Start \/ Uploaded \/ ReadSource
    \/ \E c \in Collections : StoreCollection(c)
    \/ Compare \/ WriteOutput \/ Stop

MigrationSpec == MigrationInit /\ [][MigrationNext]_migrationVars

-----------------------------------------------------------------------------
(* What a migration promises.                                              *)

\* At every moment, in every run, half finished or not, whatever reference a
\* record of the target holds can be followed: it is an IPFS one and its object
\* is pinned (the upload precedes the rewriting, an unresolved reference stops
\* the run before the first store).
TargetResolvable ==
    \A r \in Records :
        target[r] # Missing /\ target[r].object # NoObject =>
            target[r].at = "ipfs" /\ target[r].object \in pinned

\* Nothing an interrupted run left in the target, and no edition the source
\* wrote since, can make the comparison of a later run fail: every record left
\* behind is read and stored over again (upsertRecords, readCollections).
ReconciliationHolds == phase = "compare" => Reconciled

=============================================================================
