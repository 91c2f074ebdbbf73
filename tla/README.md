# A TLA+ model of the ICA service

This directory holds the verification project of the Dataspace ICA (identity and
credential authority) in `src/`: TLA+ modules translated from its TypeScript, TLC
configurations that check them on small instances, and TLAPS proofs.
`PROJECT.json` lists every run, the line of source each definition stands for, and
the altered definitions (operators whose comment starts with *Altered:*) that show
each property can fail.

Paths below are relative to `src/src/api/` unless they start with `docs/`.

## Inventory

The service is one Node process. Every endpoint is a pair: a *request manager* parses
the body, enqueues a job under the request's thread id (`thid`), schedules a worker
with `setImmediate` and answers 202; a *response manager* polls the job. State is kept
in process memory (jobs, caches, keys, tokens), in four collections behind one adapter
(memory, Firestore or PostgreSQL), on a credential ledger (Hyperledger Fabric through a
gateway) and at remote dataspaces that are told of every change.

| component | state | operations | hard behaviours |
|---|---|---|---|
| job stores (`job-store.ts`, `entity-job-store.ts`, `activation-job-store.ts`) | `Map` thid -> job | `enqueue`, `markRunning`, `markSucceeded`, `markFailed`, `get` (runs `cleanup`) | client-chosen keys shared by several submissions; cleanup inside reads; restart |
| request/response managers (`managers/`) | none of their own | `submit`, `poll` | worker awaits between reads and writes; two workers on one record; a poll that writes (`_verify-response`) |
| verification collections (`tools/verification-collections-storage.ts`, `verification-collections/adapters.ts`) | issued credentials, evidence, DID bindings, DID documents | list, store (upsert by id), `findIssuedCredential`, rebind policy | four writes with no transaction, `required` on or off, merge against replace, paging |
| organization lifecycle (`_verify`, `_create`, `_remove`) | binding and document of an organization | draft, confirm, remove, reopen | everything above at once |
| credential lifecycle (`_issue`, `_add-evidence`, `_status`, `_revoke`) | issued record, ledger asset, remote publications | store, sync, revoke | three places that must agree, each of which can fail |
| credential ledger (`tools/credential-ledger.ts`) | external asset per credential | record (read, then create), read, update status | check-then-create race, unavailable gateway, `required` on or off |
| dataspace sync (`tools/dataspace-sync.ts`) | publication status per target | `sync*Record` | late or lost event, partial failure |
| backend auth (`tools/backend-auth-service.ts`) | `Map`s: API keys by tenant, client bindings, PKCE codes, id tokens | `_create`, `_disable`, `_remove`, `_search`; `_dcr`, `_code`, `_token`, `_exchange`; the controller's exchange | the body awaited after the bearer check; lists changed in place by requests that are then refused; three expiries; restart |
| member discovery cache (`tools/member-discovery-cache.ts`) | `Map` publisher DID -> answer | read, refresh | overlapping refreshes, stale overwrite, slow fetches |
| active signing keys (`tools/active-signing-keys.ts`, `self-signing.ts`, `ica-identity.ts`) | keys by kid, active kid by algorithm | activate, sign, publish in DID document and JWKS | partial activation, one key under two algorithms, the environment's key, restart |
| storage migration (`migration/postgres-ipfs-migration.ts`) | target tables, pinned objects, manifest | upload, rewrite, store, compare | a stop anywhere, and the next run over what it left |
| DCAT catalog (`tools/dcat-catalog.ts`) | none | filter by newest confirmed document | ordering of documents |
| HTTP API (`server.ts`, `path.ts`, `request-parsing.ts`, `openapi.ts`) | none beside the jobs | dispatch, parse, submit, poll; the OpenAPI document | overlapping expressions, aliases and letter case, a thread id found differently by submission and poll, a document written by hand |
| validators, PDF/X.509 verifiers, document builders | none | pure or I/O | not state machines |

What makes each correct:

* job stores: a client is answered from its own submission, an accepted submission stays
  known until it ends, an outcome is final and kept for its TTL, no job pends for ever;
* organization lifecycle: the binding and the document agree; a controller key is replaced
  only by a governed step; a removed organization comes back only through verification;
  what the catalog publishes is backed by a credential and a key that was bound;
* credential lifecycle: a revocation is never undone by an older write, and `_status`
  tells what the ledger, where there is one, has decided;
* backend auth: a key reported as ended is never bound again, a sign-in has a bounded
  age, a refused `_disable` can be sent again;
* member discovery: nothing older than the cache's age is told, and no answer is
  assembled backwards;
* signing keys: what signs is published, and what was signed stays verifiable;
* migration: every reference in the target can be followed at every moment, and no
  earlier run can make a later one fail;
* HTTP API: no parser takes another's paths, an accepted job can be polled, a poll is
  told of its own path's jobs, and the API does what its document says.

## Modules

| module | models | from |
|---|---|---|
| `JobStore` | the job Map, workers, polls, clock, restart | `entity-job-store.ts`, the `_issue` managers as the pattern of all |
| `AsyncContract` | abstract: what the asynchronous API promises per submission | (specification) |
| `JobStoreRefinement` | the mapping of `JobStore` to `AsyncContract` | (specification) |
| `OrganizationLifecycle` | `_verify` polls, `_create`, `_remove` over the two records of an organization | `managers/verify-response-manager.ts`, `create-did-document-request-manager.ts`, `terms-remove-request-manager.ts`, `tools/verification-collections-storage.ts` |
| `CredentialRegistry` | anchoring, storing, revoking and asking for a credential's status, over its records and its ledger asset | `tools/credential-ledger.ts`, `managers/issue-credential-`, `credential-revoke-` and `credential-status-request-manager.ts`, the store half of `_verify` polls |
| `MembershipContract` | abstract: the lifecycle of a member organization as one record that each operation changes at one moment | (specification) |
| `MembershipRefinement` | the mapping of `OrganizationLifecycle` to `MembershipContract` | (specification) |
| `RevocationContract` | abstract: a credential's standing, what was reported revoked, what clients ask and are told | (specification) |
| `RevocationRefinement` | the mapping of `CredentialRegistry` to `RevocationContract` | (specification) |
| `BackendAuth` | API keys, bindings, codes, tokens, and requests between bearer check and body | `tools/backend-auth-service.ts`, `managers/backend-auth-request-manager.ts` |
| `MemberDiscoveryCache` | the cache and the overlapping calls of `resolve` | `tools/member-discovery-cache.ts` |
| `ActiveSigningKeys` | activation, the choice of a signer, the published documents | `tools/active-signing-keys.ts`, `self-signing.ts`, `ica-identity.ts`, `managers/activate-request-manager.ts` |
| `Migration` | runs of the migration, their stops, and the service between them | `migration/postgres-ipfs-migration.ts` |
| `Services` | composes the last four: the services that share no state, side by side | (composition) |
| `Routes` | route parsers, Locations, `sameRoute` | `path.ts`, the response managers |
| `RequestParsing` | transports, required parts, thread ids | `request-parsing.ts` |
| `ApiDocument` | the OpenAPI document: operations, media types, statuses | `openapi.ts` |
| `HttpApi` | composes the three: dispatch, handlers, jobs, polls | `server.ts`, the managers |
| `MCJobStore`, `MCOrganizationLifecycle`, `MCCredentialRegistry`, `MCServices`, `MCHttpApi` | instances for TLC | |
| the eight modules `*_proofs` | TLAPS proofs | |

The specifications meet where the code's parts do. `JobStore` is every manager
seen from its client: a worker there is anything that ends. `OrganizationLifecycle` and
`CredentialRegistry` are the workers and polls themselves, over disjoint state: the first
keeps of a `_verify` poll what it does to the bindings, the second what it does to the
credentials, and each treats the other's writes as a call that succeeds or throws.
`HttpApi` is the same boundary seen from outside: which request becomes a job of which
store, and which poll finds it. The four services in between share no state; `Services` lets any of them
run beside the others.

### JobStore

Node runs one callback at a time, so an action is the code between two awaits.
`Submit(s)` is the submit handler after its parse (`enqueue`, then `setImmediate`);
`WorkerStart`, `WorkerReturn` and `WorkerThrow` are the scheduled callback's beginning,
the end of its `try` and its `catch`; `Poll(t, r)` is `get` with the `cleanup` it runs
over the whole Map and the answer computed from what is left. A result is named by the
submission whose worker wrote it, which is what lets a property say that an answer is
somebody else's. `ThidOf` and `RouteOf` are constants: `MCJobStore` gives them once with
unique thread ids and once with two submissions, on different routes, sharing one.

### OrganizationLifecycle

For every organization the collections hold at most one DID binding (its id is tenant,
jurisdiction, sector and tax id) and one DID document (its id is the DID). `bindings`
and `docs` keep of them the status, the controller key, the controller's `sameAs` and the
superseded thumbprint (`prev`); `issued` says whether an organization credential is
stored. `verifs` are the `_verify` jobs whose worker succeeded, and `ops` the polls and
workers under way, each with the step it has reached and what it has read. One action is
one await: list, decide, store, store again. `life` is auxiliary: it remembers what was
bound in the current lifecycle so that the properties can speak of it.

`Provider` decides how operations interleave. With `mem` every await of a collection
resolves within the macrotask, so an operation is undisturbed between two *network*
awaits (`MayRun`); with `postgres` and `firestore` other callbacks run at each await,
and every access may throw, before or after the write took effect. Firestore merges a
record into the stored one (`Stored`); the others replace it. `Required` is
`ICA_COLLECTIONS_REQUIRED` (a failed write throws, or is logged and passed over),
`AllowRebind` is `ICA_ALLOW_CONTROLLER_REBIND_ON_REVERIFY`.

### CredentialRegistry

`store` is the collection of issued credentials. A credential has as many records as
operations wrote it, so the model keeps *batches*: the records one poll or `_issue` writes
together, numbered in the order in which `findIssuedCredential` meets them, which is that
of creation on `mem` and that of random ids elsewhere (`NewBatch`). `ledger` holds the
asset of each credential. `ops` are the operations under way, of four kinds; an action is
one await. A poll anchors its credentials one by one (`LedgerRead`, `LedgerCreate`),
stores its batch, waits for the dataspaces and stores the batch again (`StoreSynced`); an
`_issue` does the last three; a `_revoke` looks a record up, updates the ledger, waits for
the dataspaces and stores the record, for each credential in turn; a `_status` looks a
record up and asks the ledger. Each ledger call can fail before or after it took effect,
each collection access of a database too, and a dataspace in strict mode
(`ICA_SPACES_STRICT`). `Anchoring` holds whether the ledger is used for the network kind
in a `_verify` route, `Ledger` whether `NETWORK_MODE` makes `_status` and `_revoke` use
it: the code decides the two separately (`verify-response-manager.ts:558`,
`credential-ledger.ts:198`). `reported` is auxiliary: the credentials some `_revoke`
reported as revoked.

### BackendAuth

`submit` checks the bearer (`Begin`), awaits the body, and does the rest in one callback:
the action of its kind, or `Refused`. Between the two anything may happen to keys and
bindings. A refusal is not always without effect: `_create` pushes records into the
tenant's own list before a later action of the same body is found invalid
(`CreateRefused`), `_disable` and `_remove` work selector by selector in place
(`MutateRefused`). `Applied` is the selectors that took effect, `Mutated` the lists after
them. Secrets, signatures and verifiers are abstracted: a key is its own secret, and what
a client may hold is `told`, its codes and its tokens. `since` travels from a code to the
tokens made from it, so that the age of a sign-in can be stated. `ended` is what answers
reported; it and `made` survive a restart, the Maps do not.

### MemberDiscoveryCache

A call is one request's work on one member; an action is one await of `resolve`. What a
member publishes is a version that grows, and `replaced` remembers when one ceased. An
answer is the versions it was made of and where its DID document came from. A failed
fetch of it falls back on a record of any age (`FallBack`). `overtaken` is auxiliary.

### ActiveSigningKeys

`keyAlg` is `keysByKid` with the algorithm of each record, `active` and `algOrder` are
`activeByAlg` with the order of its keys, which decides where no preferred algorithm has
a key. A submission activates its keys in order up to the first that is refused. The
documents are built as the code does: the operator's file, then what it has not yet.

### Migration

A run goes through the phases of `migratePostgresIpfs`; `Stop` ends it at any of them and
stands for the death of the process and for every failing call. Between runs the service
writes records and the export grows. A record is its edition and its reference.

### HttpApi

A path is a record of its segments; `upper` holds the parts spelled in another letter
case. A route parser is its expression (`Matches`), its validation and the context it hands
on. A message is a record of what the parsers tell apart. A handler is the set of statuses it
may answer a request with: where the answer depends on stored data, or on a check that
another module or none models, every outcome is in the set. `Endpoint` is the order of
`server.ts`; `Accept` queues a job under the thread id the parser finds, `Serve` is every
other answer. `Following` is what a client does with a 202: it polls at the Location.
Two exceptions are part of the properties because the code makes them: eight endpoints
answer with a Location without thread id, so a job whose id the server made cannot be
polled; and `sameRoute` of `_remove` does not compare the network kind. `LeftOut` names
what the OpenAPI document leaves out of its operations (415, refusals of backend
authentication, refused paths); everything else it says is checked.

## Runs

Passing runs. Deadlock is checked in all but `Services` and `HttpApi`: where the clock of a
service is at its bound and nothing is under way, or no request of `Requests` is left to
follow, there is nothing more to do.

| run | question | bounds |
|---|---|---|
| `JobStoreUnique` | with unique thread ids, does the Map implement `AsyncContract`, and are answers own, outcomes final and kept? | 2 submissions on 2 threads and 2 routes, TTL 1, clock to 4 |
| `JobStoreShared` | with a shared thread id, does every pending job end? | 3 submissions, 2 threads, 2 routes, TTL 1, clock to 3, fairness |
| `LifecycleMem` | default deployment: consistent records, governed key, reopening; do the two records implement `MembershipContract`? | 1 organization, 2 keys, 2 jobs, 2 overlapping operations |
| `LifecyclePostgres` | failures at every access: is what is published backed? | 1 organization, 2 keys or none, 1 job slot, 2 operations |
| `LifecycleFirestore` | rebinding on, merging records, failed writes passed over: is the superseded key recorded, does every operation end? | 1 organization, 2 keys or none, 1 job slot, 1 operation, fairness |
| `Services` | the four services, one on in each behaviour (`OneAtATime`): the properties of each | auth: 1 tenant, 2 keys, 1 open request, 1 code, 2 access tokens, lifetimes 1, clock to 3; cache: 1 member, 2 calls, age 1, 2 versions, clock to 2; signing: 3 keys, 3 algorithms, an entry in each file; migration: 2 records of 2 collections, 2 objects, 2 editions |
| `HttpApi` | every template of a path, spelled four ways and in six scopes, and messages that differ in one or two parts: dispatch, jobs, polls, the document | 1 job at a time; requests that do not concern its store are not followed beside it (`Followed`) |
| `RegistryLedger` | with a required ledger, PostgreSQL, strict dataspaces and every call failing: is a reported revocation on the ledger, and what `_status` says? Does the registry implement `RevocationContract`? | 2 credentials, 2 batches, 2 operations |

Bounds. A clock beyond TTL + 1 lets a job end late, be kept for its TTL and expire, and a
second one start after that. Jobs and operations of `OrganizationLifecycle` are *slots*
that are used again, so histories are of any length; the bounds limit only what overlaps,
and the races are between two operations. `CredentialRegistry` is bounded by its batches,
since records are never deleted: two let a credential be found in a record other than
the one that was revoked (three were tried once, with the same result, in 3.5 million
states). Organizations do not share records, so one
suffices for every property (each speaks of one organization); the proofs are for any
number. `Services` needs two of whatever is compared: two keys for a list whose second
selector fails, two calls for an overlap, two algorithms of one key and a second key for
one of them, two records in two collections for a stop between two transactions; clocks
reach past the sum of the lifetimes. One open request is enough for `EndedNeverRebound`, for a
request acts on the state in which its body arrives and not on the one it began in; the
proof is for any number. One job at a time suffices in `HttpApi`, since jobs of different thread ids do not meet and
one that takes another's id replaces it. Two keys are what replacing one needs, and symmetry is used on keys, jobs and
slots only where no liveness property is checked.

Runs that must fail (each is a sentence of the documentation that the code does not keep;
`PROJECT.json` quotes it):

| run | what TLC shows |
|---|---|
| `LifecycleReturn` | polling an old `_verify` thread again reopens a removed organization |
| `LifecycleKeyless` | a keyless re-verification, then one with another key, replaces the key with rebinding off |
| `LifecycleRemoveRace` | on a database `_create` and `_remove` both succeed, leaving the binding removed and the document published |
| `RegistryRevived` | without a ledger, a poll that stores its records a second time undoes a revocation reported in between, and `_status` says "good" |

### What the code does not keep

Met while modelling, each from a trace of the model and then read again in the code.
The first four have a run; the others are consequences of the same definitions.

* A keyless re-verification replaces the stored binding unchecked
  (`verification-collections-storage.ts:348`), so a further one with any key is accepted.
* Every poll of a succeeded `_verify` job persists its binding again
  (`verify-response-manager.ts:563`), also after the organization was removed.
* On a database `_create` and `_remove` interleave between their reads and their two writes
  (`create-did-document-request-manager.ts:453`); the same race lets a `_create` that read
  before a `_remove` reopen the closed lifecycle, which `ReopenedByVerify` excludes on `mem`.
* A poll or `_issue` stores the records it built a second time after waiting for the
  dataspaces (`verification-collections-storage.ts:324`,
  `issue-credential-request-manager.ts:158`), over a revocation stored meanwhile. On
  Firestore the merge keeps the revocation, but there, as on PostgreSQL, a later poll may
  write a second record which lookups meet first. `StatusHonoursRevocation` holds only
  where the ledger is required.
* `_status` answers from the record also in Fabric mode, when the asset is absent, or
  unreadable and not required (`credential-status-request-manager.ts:88`), where
  `docs/06-architecture-and-reference/03-fabric-credential-registry.md:74` says that it
  does "only in non-Fabric mode".
* `_issue` never anchors what it stores, so with a required ledger its credentials cannot
  be revoked (`RevokeRead` has no step for an absent asset).
* Of two first polls of one contract that overlap, the second's create is refused and its
  job, already succeeded, becomes failed; the same document calls recording idempotent
  (line 65).
* `_remove` accepts a draft binding (`terms-remove-request-manager.ts:119`), where
  `docs/organization-terms-remove-v2.md:90` asks for a confirmed one.
* A `_create` without `controller.sameAs` drops the stored identity
  (`create-did-document-request-manager.ts:413`), and the next rebind is not compared with
  it, where `docs/organization-key-management.md:59` wants the same controller.
* Jobs are keyed by the client's thread id alone (`entity-job-store.ts:30`): with one id on
  two routes a poll on one route can return the other's result, and a terminal thread can
  go back to 202 when the second worker starts. `UniqueThids` is the assumption that
  excludes it; `"thid-auto"` ids are timestamps of one second's resolution and do not
  satisfy it.
* A `_remove` whose second write fails cannot be completed by a retry: the binding is
  already removed, and `RemoveAccepted` refuses.

Fairness. `JobStore!Fairness` is weak fairness of each worker: the event loop runs every
scheduled callback, and a worker's awaits settle (its network calls fail or return), after
which its `try` or its `catch` marks the job. `OrganizationLifecycle!Fairness` is the same
for each operation. No fairness is assumed of clients: nothing makes anyone submit, poll
or verify.

## Proofs

`JobStore_proofs` proves, for any submissions, threads, routes, TTL and clock bound:
the types; that no pending job is orphaned; that outcomes outlive their TTL, all three for
*any* choice of thread ids; and, assuming `UniqueThids`, that answers are own, outstanding
jobs are known, outcomes are final, and that `JobStore` implements `AsyncContract`. The
inductive invariant of the second group is `JobFollowsWorker`: a job is where its own
worker left it. It is needed because the mark operations do not look at who enqueued the
job: only that no other submission can have replaced it makes them act on their own. The
refinement maps a submission's outcome to its phase and job and a poll to `Ask`, or to
`AskInVain` where it answers "not found"; the outcomes `cleanup` drops are the ones the
poll expires.

`OrganizationLifecycle_proofs` proves `TypeOK` on every provider, and
`PublicationBacked` where `Required` holds. The inductive invariant `BackedInv` adds
that the stored key of a binding was bound, and, for each operation, that what it read,
or is about to write, is backed already: a worker between its checks and its
second write holds a document that a lost or failed write must not make unbacked. The
assumption is needed: with `Required` off a failed binding write is passed over and the
document is published with a key no record holds.

The same module proves `PublicationConsistent` for the default deployment: the memory
provider, rebinding off, a controller key in every `_verify` (`Default`; `Required` may be
either). `GovernedInv` says that a stored binding has a key (`KeyKept`), that the two records
agree except between the two writes of a worker (`SettledButMidway`), and what each
operation midway knows of the binding it read (`OpsFit`). The last is kept because on `mem`
an operation that looked at a binding waits for the network only before it looks or after it
wrote (`OthersFit`).

There it also proves that the lifecycle implements `MembershipContract`. The mapping takes
the standing of an organization from its document where that is published and from its
binding otherwise, and reads the second write of a worker midway as made already
(`DocumentOf`), so that `_create` and `_remove` act when they write the binding. `MembershipInv`
adds to `GovernedInv` that an organization with a credential has a binding, but between the
two writes of a poll (`CredentialsBound`), and what that gives an operation midway
(`OpsBound`): a `_create` finds a verified member, a `_remove` a published one. Each condition
of `Default` is needed: with another value of any, TLC finds a step that is no step of the
contract. On a database the records come apart (`LifecycleRemoveRace`), a `_verify` without a
key replaces one (`LifecycleKeyless`), and rebinding is meant to.

`RebindRecorded`, `KeyGoverned` and `ReopenedByVerify` need less. `Undisturbed` says that no other
operation runs between the reads of one and its writes: the memory provider, or one
operation at a time. `Keyed` says that no stored binding loses its key to a `_verify` without
one: there is no such `_verify`, or the provider is Firestore, whose write is a merge.

* `RebindRecorded`, with rebinding on or off, where both hold. `RecordingInv` adds to the types
  that, but on Firestore, a verification that succeeded has a key, that the key live in a
  lifecycle is the stored one (`LifeGoverned`), and that an operation which has decided what
  to write decided it on the binding that is still stored (`OpsRecord`), so that the key it
  supersedes is the key the lifecycle had. TLC shows that neither condition can go: on
  Firestore with two operations one replaces a key the other has just written and names the
  one before, and on PostgreSQL a `_verify` without a key empties the binding, so that the next
  key names none. `LifecycleFirestore` therefore runs one operation at a time.
* `KeyGoverned` by the same invariant, with rebinding off.
* `ReopenedByVerify` where operations are undisturbed, whatever the provider, the rebind policy
  and the keys of `_verify`. Its invariant is `OpsFresh`: a worker about to read the document or
  to write has read the binding that is still stored, and what it would confirm is not removed.

`CredentialRegistry_proofs` proves `TypeOK` on every provider and configuration; where the
ledger is required and every poll anchors, `AnchoredBeforeStored`; and where `_status` and
`_revoke` use a required ledger (`Governed`), whether or not polls anchor, `ReportedOnLedger`
and `StatusHonoursRevocation`, for any credentials, batches and operations. The
inductive invariant `RegistryInv` says that every operation is *honest*: what a poll that
anchors has done is on the ledger, what a `_revoke` has done is revoked there, and a
`_status` knows no more than was reported. It is kept because assets only grow (absent,
active, revoked: `Grows`), so that the moves of one operation cannot make another's
history untrue. That argument has no counterpart for the records, which can go back from
revoked to good; it is why the ledger has to be asked first.

Where `Governed` holds it also proves that the registry implements `RevocationContract`, in
which a revocation and an answer each happen at one moment. The mapping takes a credential's
standing from its asset alone and shows a `_status` that waits for the ledger as a pending
question. What has to be seen is that an answer taken from a record, where the asset is
absent, is true as well; for that `RegistryInv` has `RecordsBehind`: a record is
revoked only where the asset is. A record that says "good" of a revoked credential may
exist, and the contract does not mention records.

`BackendAuth_proofs` proves the types, `SignInBounded`, `DisableRepeatable` and
`EndedNeverRebound` for any tenants, keys, lifetimes and number of requests. The
inductive invariant `AuthInv` adds to the types that a key an answer reported as ended is
in no list as active (`EndedInactive`), and that an id token ends within its time of the end
of its code (`TokensBounded`): the first is kept because key ids are never made twice and nothing makes a
key active again, so a request that was under way finds the key ended whenever its body
arrives. `DisableRepeatable` needs no invariant of the behaviour but types: it is a fact
about `Mutated` on every list.

`MemberDiscoveryCache_proofs` proves the types, `NothingOlderThanAge`, `PartsFollowDid` and
`OlderOnlyByOverlap`. `CacheInv` says of every call that what it fetched was published at its
start or later and came in order, and, unless it was overtaken, that the entry in the cache
is not newer than it (`CallsFit`); of every entry, that it expires before anything in it was
replaced for an age (`EntriesFit`). The clock and the versions only
grow, which is what keeps the history of one call true under the steps of the others.

`ActiveSigningKeys_proofs` proves the types, `SignerIsPublished` and
`SignedStaysVerifiable` for any keys, algorithms, files and environment. `SigningInv` ties the
two Maps together: an active kid has a record, where there is a record `algOrder` is not
empty and its first algorithm has an active kid, and a key that signed and is not the
environment's has a record still. The first two make the code's fall-backs (the preferred
algorithm, ES384, the first set) end at a key exactly when there is one, which is the
condition by which the documents decide against the environment's key.

`Services_proofs` proves of `Migration` the types, `TargetResolvable` and `ReconciliationHolds` for
any records, collections and objects. `MigrationInv` says where a run stands: from the first
store on it has read all the source's records and can follow each reference (`ReadAll`), the
collections stored so far equal what it read (`StoredIsRead`), and the target never holds
a record the source does not have (`TargetKnown`). These need what the model takes from
the runbook and the code: the source is written between runs only, and no record is deleted.

The module then puts the four services together. A step of `Services` is a step of one of
them and leaves the variables of the others alone, so a behaviour of `Services` is one of each
(`ServicesAlone`), whichever services are on. Hence its `TypeOK` (`ServicesTypeCorrect`) and all
that the run `Services` checks hold of the four side by side (`ServicesCorrect`), and it is
enough that TLC runs them one at a time.

`HttpApi_proofs` proves all five invariants of `HttpApi`: `HttpTypeOK`, `NoShadow`,
`AcceptedCanBePolled`, `AnswersStayWithRoute` and `AnswersAsDocumented`, for any tenants,
jurisdictions, sectors, resource and media types, any requests and any number of jobs.
The names of this API are literals of the model; that no combination of the rest makes two
of them meet is what is proved. The assumption `RequestsAssumption` says what a request
is: the segments of its path are names, and a path that asks for a response has an action
(the code splits it off the last segment; a path compared as it is has neither). The
argument has three parts.

1. *Parsers.* For each parser a lemma says what a path it accepts looks like and what
   context it hands on. Two shapes that could meet differ in a fixed segment, the number of
   segments or the action, so at most one parser accepts a path (`UniqueParser`); `NoShadow`
   is thus a fact about every path and not about a behaviour, and the order in which
   `server.ts` asks them does not matter (`RoutedEndpoint`).
2. *Jobs.* `HttpInv` adds to the types that the jobs are finitely many and that each `JobFits`:
   its context is what the parser of its endpoint makes of the path it was submitted at. Then
   the Location of a job is parsed by the same endpoint to a context of the same route
   (`LocationOfAJob`), which gives `AcceptedCanBePolled`; and paths of which `sameRoute`
   finds the contexts equal are the same up to spelling (`OwnPathsAgree`), which gives
   `AnswersStayWithRoute`.
3. *Document.* For each handler a lemma bounds its answers by what the request lacks; for each
   of the 61 documented operations `Covers` says that its entry names them (`DocumentCovers`).

Only model-checked: the liveness properties `EventuallyAnswered` and `OperationsEnd`
(liveness and ENABLED are outside the prover's reach). Every other property of a passing
run is stated by a theorem.

## Not modelled, and why

* The content of PDFs, certificates, credentials and DID documents: a verification is an
  outcome, a key or identity a value compared for equality.
* A batch of several organizations in one request: its checks all precede its writes, and
  each collection is written in one transaction, so it acts as one on each of them.
* The random ids of the records of one batch: they are numbered alike, though a lookup of
  one credential and one of another may meet two batches in different orders. Every
  property of `CredentialRegistry` speaks of one credential at a time.
* A ledger transaction that commits after its call was given up: it acts as one that
  committed before, or, when the asset was created or revoked meanwhile, not at all.
* A credential issued with a `status` in its own `credentialStatus`.
* A thread id reused while a poll of it is midway (in `OrganizationLifecycle`; reuse itself
  is `JobStore`'s subject).
* The text of paths, headers and bodies: a segment, a media type and a part of a message is
  a name. Headers of answers, and bodies, are left out but for the Location.
* Signatures of bearers and id tokens, PKCE verifiers and nonces, scopes and the key's own
  expiry (`BackendAuth`): each is a refusal that may come at any request. The demo mode
  without signature checks is left out.
* The key material of an activation, and keys derived from a seed: a key is a name, used
  for one key only.
* Components with `not_modelled` in `PROJECT.json`: verifiers, validators, builders,
  scripts and storage clients keep no state that several steps could disagree on.

## Plan

What remains, in the order of what it adds:

1. `CredentialRegistry` further: the order of events at a remote dataspace, a half-done
   revocation completed by a retry, `_add-evidence`, and the hash a re-poll of an older
   contract computes from what is stored (`VerificationVersions`).
2. `Algorithms`: `dedupeTargets`, the catalog filter, DID rules against reference
   definitions.
