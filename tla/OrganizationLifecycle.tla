------------------------ MODULE OrganizationLifecycle ------------------------
(***************************************************************************)
(* The life of a member organization in one (tenant, jurisdiction, sector) *)
(* scope: polling a succeeded _verify job persists its credential and a    *)
(* draft controller binding, _create confirms the binding and publishes a  *)
(* DID document, _remove closes both.  The three operations read and write *)
(* the collections one await at a time, and nothing locks them.            *)
(*                                                                         *)
(* A submission carries one organization: a batch checks all of its items  *)
(* before it writes and writes each collection in one transaction.         *)
(*                                                                         *)
(* On "mem" every await of a collection resolves in the same macrotask, so *)
(* an operation runs undisturbed between two network awaits; on "postgres" *)
(* and "firestore" other callbacks run at each await and any access may    *)
(* fail.  Firestore merges a record into the stored one.                   *)
(***************************************************************************)
EXTENDS Naturals

CONSTANTS
    Orgs, Keys, Ids,    \* tax ids, controller JWKs, controller sameAs hashes
    None,               \* an absent one of them
    Verifs,             \* _verify jobs the store holds at a time
    Ops,                \* polls, _create and _remove workers running at a time
    VerifyKeys,         \* the controller keys _verify requests carry
    CreateKeys,         \* those _create requests carry
    ClientIds,          \* the sameAs _create and _remove requests carry
    Provider,           \* DB_PROVIDER
    Required,           \* ICA_COLLECTIONS_REQUIRED
    AllowRebind         \* ICA_ALLOW_CONTROLLER_REBIND_ON_REVERIFY

ASSUME InputsAssumption ==
    /\ None \notin Orgs \cup Keys \cup Ids \cup Verifs
    /\ VerifyKeys \subseteq Keys \cup {None}
    /\ CreateKeys \subseteq Keys \cup {None}
    /\ ClientIds \subseteq Ids \cup {None}
ASSUME ConfigAssumption ==
    /\ Provider \in {"mem", "postgres", "firestore"}
    /\ Required \in BOOLEAN /\ AllowRebind \in BOOLEAN

VARIABLES
    issued,     \* is there an organization credential?
    bindings,   \* DID binding record of each organization
    docs,       \* DID document record of each organization
    verifs,     \* _verify jobs, once their worker succeeded
    ops,        \* where each operation is, and what it has read
    life        \* auxiliary, of each organization's current lifecycle: the key
                \* bound in it and the _verify jobs submitted in it; and the
                \* keys bound in any lifecycle
vars == <<issued, bindings, docs, verifs, ops, life>>

NoBinding == [status |-> "absent", key |-> None, sameAs |-> None, prev |-> None]
NoDoc == [status |-> "absent", key |-> None]
NoVerif == [status |-> "absent", org |-> None, key |-> None, sameAs |-> None]
NewLife == [key |-> None, jobs |-> {}, bound |-> {}]

\* kind and step of the operation, its organization, the job a poll found, the
\* key and sameAs it carries, what it read, and what it will write.
IdleOp == [kind |-> "none", step |-> "idle", org |-> None, verif |-> None,
           key |-> None, sameAs |-> None, sawIssued |-> FALSE,
           seen |-> NoBinding, write |-> NoBinding, doc |-> NoDoc]

Ended == {"idle", "succeeded", "failed", "lost"}

\* The steps in which an operation waits for the network on every provider.
Network == {"ledger", "sync"}

\* May x take its next step?  On "mem" only if no other operation is midway
\* between two network awaits.
MayRun(x) == Provider = "mem" => \A y \in Ops \ {x} : ops[y].step \in Ended \cup Network

At(x, kind, step) == ops[x].kind = kind /\ ops[x].step = step /\ MayRun(x)

Goto(x, step) == ops' = [ops EXCEPT ![x].step = step]

\* Altered: what an operation throws is not caught.
EndUncaught(x, how) ==
    IF how = "failed" THEN UNCHANGED ops
    ELSE ops' = [ops EXCEPT ![x] = [IdleOp EXCEPT !.kind = ops[x].kind,
                                                  !.org = ops[x].org, !.step = how]]

\* An operation that is over keeps only what it was; a new one may take its place.
End(x, how) ==
    ops' = [ops EXCEPT ![x] = [IdleOp EXCEPT !.kind = ops[x].kind,
                                             !.org = ops[x].org, !.step = how]]

\* An operation whose checks passed keeps only what it is going to write.
Writing(op, step, binding, document) ==
    [IdleOp EXCEPT !.kind = op.kind, !.org = op.org, !.verif = op.verif,
                   !.step = step, !.write = binding, !.doc = document]

-----------------------------------------------------------------------------
(* The collections, one record of each for an organization.                *)

\* Altered: firestore documents set without merge.
StoredWithoutMerge(old, new) == new

\* What storing the binding new over old leaves (field by field on firestore).
Stored(old, new) ==
    IF Provider # "firestore" THEN new
    ELSE [new EXCEPT !.key = IF new.key = None THEN old.key ELSE new.key,
                     !.sameAs = IF new.sameAs = None THEN old.sameAs ELSE new.sameAs,
                     !.prev = IF new.prev = None THEN old.prev ELSE new.prev]

\* The auxiliary record of a lifecycle after its binding became b.
LifeAfter(l, b) ==
    IF b.status = "removed"
        THEN [l EXCEPT !.key = None, !.jobs = {}]
    ELSE IF b.key \in {None, l.key} THEN l
    ELSE [l EXCEPT !.key = b.key, !.bound = @ \cup {b.key}]

WriteBinding(o, b) ==
    /\ bindings' = [bindings EXCEPT ![o] = Stored(bindings[o], b)]
    /\ life' = [life EXCEPT ![o] = LifeAfter(life[o], Stored(bindings[o], b))]

WriteDoc(o, d) == docs' = [docs EXCEPT ![o] = d]

-----------------------------------------------------------------------------
(* _verify and the polls of its job.                                       *)

\* A _verify submission whose worker succeeded; k and i are the controller
\* key and identity its bundle binds.  (A thread id is not used again while a
\* poll of it is midway: JobStore has that case.)
Verify(v, o, k, i) ==
    /\ verifs[v] = NoVerif
    /\ \A x \in Ops : ops[x].verif # v
    /\ verifs' = [verifs EXCEPT ![v] = [status |-> "succeeded", org |-> o,
                                        key |-> k, sameAs |-> i]]
    /\ life' = [p \in Orgs |-> [life[p] EXCEPT
                                  !.jobs = IF p = o THEN @ \cup {v} ELSE @ \ {v}]]
    /\ UNCHANGED <<issued, bindings, docs, ops>>

\* A job outlives its TTL, and the next poll of any job drops it.
Expire(v) ==
    /\ verifs[v] # NoVerif
    /\ verifs' = [verifs EXCEPT ![v] = NoVerif]
    /\ UNCHANGED <<issued, bindings, docs, ops, life>>

\* A _verify-response poll finds the job succeeded.
PollStart(x, v) ==
    /\ ops[x].step \in Ended
    /\ verifs[v].status = "succeeded"
    /\ ops' = [ops EXCEPT ![x] =
                [IdleOp EXCEPT !.kind = "verify", !.step = "ledger", !.verif = v,
                               !.org = verifs[v].org, !.key = verifs[v].key,
                               !.sameAs = verifs[v].sameAs]]
    /\ UNCHANGED <<issued, bindings, docs, verifs, life>>

\* The catch block of the poll: markFailed of the job, if the store still has
\* it, and the failed answer.
PollFailed(x) ==
    LET v == ops[x].verif
    IN  /\ verifs' = IF verifs[v] = NoVerif THEN verifs
                     ELSE [verifs EXCEPT ![v].status = "failed"]
        /\ End(x, "failed")

\* A write of the poll threw: only if the collections are required does the
\* poll fail, else it goes on with the given step.
PollWriteFailed(x, step) ==
    IF Required THEN PollFailed(x) ELSE Goto(x, step) /\ UNCHANGED verifs

LedgerRecorded(x) ==
    /\ At(x, "verify", "ledger")
    /\ Goto(x, "readBindings")
    /\ UNCHANGED <<issued, bindings, docs, verifs, life>>

\* The ledger refuses the credentials or cannot be reached, or a read fails.
PollRefused(x) ==
    /\ \/ At(x, "verify", "ledger")
       \/ Provider # "mem" /\ At(x, "verify", "readBindings")
    /\ PollFailed(x)
    /\ UNCHANGED <<issued, bindings, docs, life>>

\* applyControllerRebindPolicy.
KeyChanges(old, new) ==
    old.key # None /\ new.key # None /\ old.key # new.key

\* Altered: only a change of identity is refused.
RebindRefusedForIdentity(old, new) ==
    /\ KeyChanges(old, new)
    /\ old.sameAs # None /\ new.sameAs # None /\ old.sameAs # new.sameAs

RebindRefused(old, new) ==
    /\ KeyChanges(old, new)
    /\ \/ old.sameAs # None /\ new.sameAs # None /\ old.sameAs # new.sameAs
       \/ old.status # "removed" /\ ~AllowRebind

Rebound(old, new) ==
    IF KeyChanges(old, new) THEN [new EXCEPT !.prev = old.key] ELSE new

\* extractDidBindingRecords.
Incoming(op) ==
    [status |-> "draft", key |-> op.key, sameAs |-> op.sameAs, prev |-> None]

PollDecide(x) ==
    LET old == bindings[ops[x].org]
        new == Incoming(ops[x])
    IN  /\ At(x, "verify", "readBindings")
        /\ IF RebindRefused(old, new)
               THEN PollFailed(x)
               ELSE /\ ops' = [ops EXCEPT ![x] =
                                 Writing(@, "storeIssued", Rebound(old, new), NoDoc)]
                    /\ UNCHANGED verifs
        /\ UNCHANGED <<issued, bindings, docs, life>>

PollStoreIssued(x) ==
    /\ At(x, "verify", "storeIssued")
    /\ issued' = [issued EXCEPT ![ops[x].org] = TRUE]
    /\ Goto(x, "storeBindings")
    /\ UNCHANGED <<bindings, docs, verifs, life>>

PollStoreBinding(x) ==
    /\ At(x, "verify", "storeBindings")
    /\ WriteBinding(ops[x].org, ops[x].write)
    /\ Goto(x, "sync")
    /\ UNCHANGED <<issued, docs, verifs>>

\* The first or the second write of persistRecords throws, the record written
\* or not; the rest of its writes is skipped.
PollStoreIssuedFails(x) ==
    /\ Provider # "mem"
    /\ At(x, "verify", "storeIssued")
    /\ issued' \in {issued, [issued EXCEPT ![ops[x].org] = TRUE]}
    /\ PollWriteFailed(x, "sync")
    /\ UNCHANGED <<bindings, docs, life>>

PollStoreBindingFails(x) ==
    /\ Provider # "mem"
    /\ At(x, "verify", "storeBindings")
    /\ \/ WriteBinding(ops[x].org, ops[x].write)
       \/ UNCHANGED <<bindings, life>>
    /\ PollWriteFailed(x, "sync")
    /\ UNCHANGED <<issued, docs>>

\* The records are published to the dataspaces and stored once more.
PollSynced(x) ==
    /\ At(x, "verify", "sync")
    /\ issued' = [issued EXCEPT ![ops[x].org] = TRUE]
    /\ End(x, "succeeded")
    /\ UNCHANGED <<bindings, docs, verifs, life>>

PollSyncFails(x) ==
    /\ At(x, "verify", "sync")
    /\ issued' \in {issued, [issued EXCEPT ![ops[x].org] = TRUE]}
    /\ IF Required THEN PollFailed(x) ELSE End(x, "succeeded") /\ UNCHANGED verifs
    /\ UNCHANGED <<bindings, docs, life>>

-----------------------------------------------------------------------------
(* _create and _remove: the worker reads, checks, writes the binding, then *)
(* the document.                                                           *)

StartWorker(x, op) ==
    /\ ops[x].step \in Ended /\ MayRun(x)
    /\ ops' = [ops EXCEPT ![x] = op]
    /\ UNCHANGED <<issued, bindings, docs, verifs, life>>

\* The worker of a _create starts by listing the issued credentials.
CreateStart(x, o, k, i) ==
    StartWorker(x, [IdleOp EXCEPT !.kind = "create", !.step = "readBindings",
                                  !.org = o, !.key = k, !.sameAs = i,
                                  !.sawIssued = issued[o]])

RemoveStart(x, o, k, i) ==
    /\ k # None
    /\ StartWorker(x, [IdleOp EXCEPT !.kind = "remove", !.step = "readBindings",
                                     !.org = o, !.key = k, !.sameAs = i])

ReadBinding(x) ==
    /\ At(x, "create", "readBindings") \/ At(x, "remove", "readBindings")
    /\ ops' = [ops EXCEPT ![x].step = "readDocs", ![x].seen = bindings[ops[x].org]]
    /\ UNCHANGED <<issued, bindings, docs, verifs, life>>

\* resolveStoredControllerPublicKeyJwk || the requested key.
ChosenKey(op) == IF op.key # None THEN op.key ELSE op.seen.key

\* Altered: the binding of a closed lifecycle is not refused.
CreateAcceptedRemoved(op) ==
    /\ op.sawIssued
    /\ op.key # None /\ op.seen.key # None => op.key = op.seen.key
    /\ ChosenKey(op) # None

\* Altered: the requested key is not compared with the stored one.
CreateAcceptedAnyKey(op) ==
    /\ op.seen.status # "removed"
    /\ op.sawIssued
    /\ ChosenKey(op) # None

\* Altered: the issued credential is not looked for.
CreateAcceptedUnverified(op) ==
    /\ op.seen.status # "removed"
    /\ op.key # None /\ op.seen.key # None => op.key = op.seen.key
    /\ ChosenKey(op) # None

CreateAccepted(op) ==
    /\ op.seen.status # "removed"
    /\ op.sawIssued
    /\ op.key # None /\ op.seen.key # None => op.key = op.seen.key
    /\ ChosenKey(op) # None

RemoveAccepted(op, doc) ==
    /\ op.seen.status \notin {"absent", "removed"}
    /\ doc.status \notin {"absent", "removed"}
    /\ op.key = op.seen.key
    /\ op.sameAs # None /\ op.seen.sameAs # None => op.sameAs = op.seen.sameAs

\* The documents are listed and the checks made.
CreateDecide(x) ==
    LET op == ops[x]
    IN  /\ At(x, "create", "readDocs")
        /\ CreateAccepted(op)
        /\ ops' = [ops EXCEPT ![x] =
             Writing(op, "storeBindings",
                     [status |-> "confirmed", key |-> ChosenKey(op),
                      sameAs |-> op.sameAs, prev |-> None],
                     [status |-> "confirmed", key |-> ChosenKey(op)])]
        /\ UNCHANGED <<issued, bindings, docs, verifs, life>>

\* Altered: the binding is marked "revoked", as in the response of the document.
RemoveDecideRevoked(x) ==
    LET op == ops[x]
        doc == docs[op.org]
    IN  /\ At(x, "remove", "readDocs")
        /\ RemoveAccepted(op, doc)
        /\ ops' = [ops EXCEPT ![x] =
             Writing(op, "storeBindings", [op.seen EXCEPT !.status = "revoked"],
                     [doc EXCEPT !.status = "removed"])]
        /\ UNCHANGED <<issued, bindings, docs, verifs, life>>

RemoveDecide(x) ==
    LET op == ops[x]
        doc == docs[op.org]
    IN  /\ At(x, "remove", "readDocs")
        /\ RemoveAccepted(op, doc)
        /\ ops' = [ops EXCEPT ![x] =
             Writing(op, "storeBindings", [op.seen EXCEPT !.status = "removed"],
                     [doc EXCEPT !.status = "removed"])]
        /\ UNCHANGED <<issued, bindings, docs, verifs, life>>

\* A check fails, one of those above or one that looks at what the model does
\* not keep (DID syntax, key sets, the organization's key); or a read fails.
WorkerRefused(x) ==
    /\ \E kind \in {"create", "remove"} :
           \/ At(x, kind, "readDocs")
           \/ Provider # "mem" /\ At(x, kind, "readBindings")
    /\ End(x, "failed")
    /\ UNCHANGED <<issued, bindings, docs, verifs, life>>

StoreBinding(x) ==
    /\ At(x, "create", "storeBindings") \/ At(x, "remove", "storeBindings")
    /\ WriteBinding(ops[x].org, ops[x].write)
    /\ Goto(x, "storeDocs")
    /\ UNCHANGED <<issued, docs, verifs>>

StoreDoc(x) ==
    /\ At(x, "create", "storeDocs") \/ At(x, "remove", "storeDocs")
    /\ WriteDoc(ops[x].org, ops[x].doc)
    /\ End(x, "succeeded")
    /\ UNCHANGED <<issued, bindings, verifs, life>>

\* A write throws, the record written or not: the job fails if the
\* collections are required, and goes on otherwise.
StoreBindingFails(x) ==
    /\ Provider # "mem"
    /\ At(x, "create", "storeBindings") \/ At(x, "remove", "storeBindings")
    /\ \/ WriteBinding(ops[x].org, ops[x].write)
       \/ UNCHANGED <<bindings, life>>
    /\ IF Required THEN End(x, "failed") ELSE Goto(x, "storeDocs")
    /\ UNCHANGED <<issued, docs, verifs>>

StoreDocFails(x) ==
    /\ Provider # "mem"
    /\ At(x, "create", "storeDocs") \/ At(x, "remove", "storeDocs")
    /\ WriteDoc(ops[x].org, ops[x].doc) \/ UNCHANGED docs
    /\ End(x, IF Required THEN "failed" ELSE "succeeded")
    /\ UNCHANGED <<issued, bindings, verifs, life>>

-----------------------------------------------------------------------------
Midway(x) == ops[x].step \notin Ended

\* The process restarts: jobs and operations midway are gone, and with "mem"
\* so are the collections.
Restart ==
    /\ ops' = [x \in Ops |-> IF Midway(x)
                   THEN [IdleOp EXCEPT !.kind = ops[x].kind, !.org = ops[x].org,
                                       !.step = "lost"]
                   ELSE ops[x]]
    /\ verifs' = [v \in Verifs |-> NoVerif]
    /\ IF Provider = "mem"
           THEN /\ issued' = [o \in Orgs |-> FALSE]
                /\ bindings' = [o \in Orgs |-> NoBinding]
                /\ docs' = [o \in Orgs |-> NoDoc]
                /\ life' = [o \in Orgs |-> NewLife]
           ELSE UNCHANGED <<issued, bindings, docs, life>>

Init ==
    /\ issued = [o \in Orgs |-> FALSE]
    /\ bindings = [o \in Orgs |-> NoBinding]
    /\ docs = [o \in Orgs |-> NoDoc]
    /\ verifs = [v \in Verifs |-> NoVerif]
    /\ ops = [x \in Ops |-> IdleOp]
    /\ life = [o \in Orgs |-> NewLife]

PollStep(x) ==
    \/ LedgerRecorded(x) \/ PollRefused(x) \/ PollDecide(x)
    \/ PollStoreIssued(x) \/ PollStoreIssuedFails(x)
    \/ PollStoreBinding(x) \/ PollStoreBindingFails(x)
    \/ PollSynced(x) \/ PollSyncFails(x)

WorkerStep(x) ==
    \/ ReadBinding(x) \/ CreateDecide(x) \/ RemoveDecide(x) \/ WorkerRefused(x)
    \/ StoreBinding(x) \/ StoreBindingFails(x)
    \/ StoreDoc(x) \/ StoreDocFails(x)

Request ==
    \/ \E v \in Verifs :
        \/ \E o \in Orgs, k \in VerifyKeys, i \in Ids : Verify(v, o, k, i)
        \/ Expire(v)
        \/ \E x \in Ops : PollStart(x, v)
    \/ \E x \in Ops, o \in Orgs, k \in CreateKeys, i \in ClientIds :
        CreateStart(x, o, k, i) \/ RemoveStart(x, o, k, i)

Next ==
    \/ Request
    \/ \E x \in Ops : PollStep(x) \/ WorkerStep(x)
    \/ Restart

Spec == Init /\ [][Next]_vars

\* Every await of an operation settles and its continuation runs.
Fairness == \A x \in Ops : WF_vars(PollStep(x) \/ WorkerStep(x))
FairSpec == Spec /\ Fairness

-----------------------------------------------------------------------------
KeyOrNone == Keys \cup {None}
IdOrNone == Ids \cup {None}

Binding == [status : {"absent", "draft", "confirmed", "removed"},
            key : KeyOrNone, sameAs : IdOrNone, prev : KeyOrNone]

Doc == [status : {"absent", "confirmed", "removed"}, key : KeyOrNone]

Verification == [status : {"absent", "succeeded", "failed"},
                 org : Orgs \cup {None}, key : KeyOrNone, sameAs : IdOrNone]

Steps == {"idle", "ledger", "readBindings", "readDocs", "storeIssued",
          "storeBindings", "storeDocs", "sync", "succeeded", "failed", "lost"}

Operation == [kind : {"none", "verify", "create", "remove"}, step : Steps,
              org : Orgs \cup {None}, verif : Verifs \cup {None},
              key : KeyOrNone, sameAs : IdOrNone, sawIssued : BOOLEAN,
              seen : Binding, write : Binding, doc : Doc]

Life == [key : KeyOrNone, jobs : SUBSET Verifs, bound : SUBSET Keys]

VerifsOK ==
    /\ verifs \in [Verifs -> Verification]
    /\ \A v \in Verifs : verifs[v].status = "succeeded" => verifs[v].org \in Orgs

OpsOK ==
    /\ ops \in [Ops -> Operation]
    /\ \A x \in Ops : Midway(x) =>
           ops[x].org \in Orgs /\ (ops[x].kind = "verify" => ops[x].verif \in Verifs)

\* The types, with this much of the control: an operation midway has an
\* organization, a poll midway a job, and a job that succeeded an organization.
TypeOK ==
    /\ issued \in [Orgs -> BOOLEAN]
    /\ bindings \in [Orgs -> Binding]
    /\ docs \in [Orgs -> Doc]
    /\ life \in [Orgs -> Life]
    /\ VerifsOK
    /\ OpsOK

\* No operation of organization o is between its reads and its last write.
Quiet(o) == \A x \in Ops : ops[x].org = o => ops[x].step \in Ended \cup Network

Published(o) == docs[o].status = "confirmed"

\* The two records of an organization agree whenever nothing is being written:
\* a published document stands on a live binding of the same key, a confirmed
\* binding has its document, and a removed one has none published.
PublicationConsistent ==
    \A o \in Orgs : Quiet(o) =>
        /\ Published(o) => /\ bindings[o].status \in {"draft", "confirmed"}
                           /\ bindings[o].key = docs[o].key
        /\ bindings[o].status = "confirmed" => Published(o)

\* The key bound in a lifecycle stays its key until the lifecycle is closed by
\* a removal (or the process forgets everything): no sequence of verifications
\* and creations replaces it.
KeyGovernedStep ==
    \A o \in Orgs : life[o].key # None => life'[o].key \in {life[o].key, None}
KeyGoverned == [][KeyGovernedStep]_vars

\* A closed lifecycle is reopened only by a verification.
ReopenedByVerifyStep ==
    \A o \in Orgs :
        bindings[o].status = "removed" /\ bindings'[o].status # "removed"
            => \/ Restart
               \/ \E x \in Ops : PollStoreBinding(x) \/ PollStoreBindingFails(x)
ReopenedByVerify == [][ReopenedByVerifyStep]_vars

\* Where re-verification may replace the key, the record that binds the new key
\* names the one it supersedes, be it the key of the record it replaces or the
\* one the lifecycle last had.
RebindRecordedStep ==
    \A o \in Orgs :
        /\ KeyChanges(bindings[o], bindings'[o]) => bindings'[o].prev = bindings[o].key
        /\ KeyChanges(life[o], life'[o]) => bindings'[o].prev = life[o].key
RebindRecorded == [][RebindRecordedStep]_vars

\* Whatever overlaps, fails or is lost, a published document belongs to an
\* organization with an issued credential, and its key was at some time the
\* stored controller key of that organization.
PublicationBacked ==
    \A o \in Orgs : Published(o) => issued[o] /\ docs[o].key \in life[o].bound

\* An operation that started ends: no poll or job hangs on a failed write, a
\* refused check or a job that expired under it.
OperationsEnd == \A x \in Ops : Midway(x) ~> ~Midway(x)

-----------------------------------------------------------------------------
(* What the documents of the repository say, which the code does not keep. *)

\* organization-key-binding-v2.md: "Repeating _verify with the same contract and
\* a different controller binding key must be rejected".
ReverifyKeepsKey ==
    [][\A x \in Ops :
        PollStoreBinding(x) => ~KeyChanges(life[ops[x].org], life'[ops[x].org])]_vars

\* organization-terms-remove-v2.md: an organization that returns "must submit a
\* new _verify", one submitted after the removal.
ReturnNeedsNewVerify ==
    [][\A x \in Ops :
        PollStoreBinding(x) /\ bindings[ops[x].org].status = "removed"
            => ops[x].verif \in life[ops[x].org].jobs]_vars

\* organization-terms-remove-v2.md: after a _remove "the organization must no
\* longer appear in the active ICA catalog".  Stated where every operation of
\* the organization reported success and its binding is removed.
RemovedIsUnpublished ==
    \A o \in Orgs :
        LET mine == {x \in Ops : ops[x].org = o}
        IN  (/\ bindings[o].status = "removed"
             /\ \A x \in mine : ops[x].step = "succeeded"
             /\ \E x \in mine : ops[x].kind = "remove")
                => ~Published(o)
=============================================================================
