------------------------- MODULE CredentialRegistry -------------------------
(***************************************************************************)
(* The life of credentials after they are signed.  A _verify poll anchors  *)
(* the credentials of its bundle on the ledger, one after another, and     *)
(* stores a record of each; _issue stores records only; _revoke updates    *)
(* the ledger and then the record, one credential after another; _status   *)
(* asks the ledger, or else the record.                                    *)
(*                                                                         *)
(* A credential may have several records, since every poll and every       *)
(* _issue writes new ones.  A *batch* is the records one operation writes  *)
(* together, and batches are numbered in the order in which a lookup meets *)
(* them: of creation on "mem", of their random ids on the others.         *)
(***************************************************************************)
EXTENDS Naturals, FiniteSets

CONSTANTS
    Creds,          \* credential ids
    None,           \* "no credential"
    Batches,        \* bound on the batches of records ever stored
    Ops,            \* operations running at a time
    Provider,       \* DB_PROVIDER
    Required,       \* ICA_COLLECTIONS_REQUIRED
    Strict,         \* ICA_SPACES_STRICT
    Anchoring,      \* does the network kind of a _verify route use the ledger?
    Ledger,         \* does NETWORK_MODE, for _status and _revoke?
    LedgerRequired  \* ICA_CREDENTIAL_LEDGER_REQUIRED

ASSUME InputsAssumption == None \notin Creds /\ Batches \in Nat
ASSUME ConfigAssumption ==
    /\ Provider \in {"mem", "firestore", "postgres"}
    /\ Required \in BOOLEAN /\ Strict \in BOOLEAN
    /\ Anchoring \subseteq BOOLEAN
    /\ Ledger \in BOOLEAN /\ LedgerRequired \in BOOLEAN

VARIABLES
    store,      \* the record of each credential in each batch
    ledger,     \* the asset of each credential
    ops,        \* where each operation is, and what it has read
    reported    \* auxiliary: credentials a _revoke has reported as revoked
vars == <<store, ledger, ops, reported>>

\* kind and step of the operation, the credentials it is about, those it has
\* yet to do, the one it is doing, the batch it writes to, the record it saw,
\* the revocations reported when it began, and a status's answer.
IdleOp == [kind |-> "none", step |-> "idle", items |-> {}, todo |-> {},
           cur |-> None, batch |-> 0, seen |-> "absent", known |-> {},
           answer |-> "none"]

Ended == {"idle", "succeeded", "failed", "lost"}
Midway(x) == ops[x].step \notin Ended

\* The steps in which an operation waits for the network on every provider.
Network == {"read", "create", "sync", "readRevoke", "update", "syncRevoke", "readStatus"}

\* On "mem" an operation runs undisturbed between two network awaits.
MayRun(x) == Provider = "mem" => \A y \in Ops \ {x} : ops[y].step \in Ended \cup Network

At(x, step) == ops[x].step = step /\ MayRun(x)

Goto(x, step) == ops' = [ops EXCEPT ![x].step = step]

End(x, how) ==
    ops' = [ops EXCEPT ![x] = [IdleOp EXCEPT !.kind = ops[x].kind, !.step = how]]

Start(x, op) ==
    /\ ~Midway(x) /\ MayRun(x)
    /\ ops' = [ops EXCEPT ![x] = op]
    /\ UNCHANGED <<store, ledger, reported>>

-----------------------------------------------------------------------------
(* The collection.                                                         *)

Free == {n \in 1..Batches :
            /\ \A c \in Creds : store[n][c] = "absent"
            /\ \A x \in Ops : ops[x].batch # n}

\* Bound: an operation that will store a batch begins only if there is room.
Storing(x) == Midway(x) /\ ops[x].kind \in {"verify", "issue"}
Room == Cardinality(Free) > Cardinality({x \in Ops : Storing(x) /\ ops[x].batch = 0})

\* The batch a first store writes.
NewBatch(n) == n \in Free /\ (Provider = "mem" => \A m \in Free : n <= m)

\* Firestore merges a record into the stored one, and one that does not speak
\* of revocation leaves a revocation as it is.  The others replace it.
Stored(old, s) == IF Provider = "firestore" /\ old = "revoked" THEN old ELSE s

\* Writing a record of status s for each credential of C into batch n.
Written(n, C, s) ==
    [store EXCEPT ![n] =
        [c \in Creds |-> IF c \in C THEN Stored(store[n][c], s) ELSE store[n][c]]]

\* findIssuedCredential by credential id: n holds the first record of c.
Holding(c) == {n \in 1..Batches : store[n][c] # "absent"}
Found(n, c) == n \in Holding(c) /\ \A m \in Holding(c) : n <= m

-----------------------------------------------------------------------------
(* _verify polls and _issue.                                               *)

\* A poll builds its bundle; anchored says if its route's network kind has a
\* ledger.
PollStart(x, C, anchored) ==
    /\ Room
    /\ Start(x, [IdleOp EXCEPT !.kind = "verify", !.items = C, !.todo = C,
                               !.step = IF anchored THEN "read" ELSE "store"])

IssueStart(x, C) ==
    /\ Room
    /\ Start(x, [IdleOp EXCEPT !.kind = "issue", !.items = C, !.step = "store"])

\* The operation is done with credential c on the ledger.
Anchored(x, c) ==
    LET rest == ops[x].todo \ {c}
    IN  ops' = [ops EXCEPT ![x].todo = rest, ![x].cur = None,
                           ![x].step = IF rest = {} THEN "store" ELSE "read"]

\* recordIssuedCredential reads the asset: present, and equal, it is skipped.
LedgerRead(x, c) ==
    /\ At(x, "read") /\ c \in ops[x].todo
    /\ IF ledger[c] # "absent"
           THEN Anchored(x, c)
           ELSE ops' = [ops EXCEPT ![x].step = "create", ![x].cur = c]
    /\ UNCHANGED <<store, ledger, reported>>

\* The ledger takes a new asset only under an id it does not have.
LedgerCreate(x) ==
    LET c == ops[x].cur
    IN  /\ At(x, "create") /\ ledger[c] = "absent"
        /\ ledger' = [ledger EXCEPT ![c] = "active"]
        /\ Anchored(x, c)
        /\ UNCHANGED <<store, reported>>

\* Altered: nobody looks at ICA_CREDENTIAL_LEDGER_REQUIRED.
LedgerThrewTolerated(x, c) == Anchored(x, c)

\* A ledger call of recordIssuedCredential threw.
LedgerThrew(x, c) == IF LedgerRequired THEN End(x, "failed") ELSE Anchored(x, c)

\* The read fails or finds another content, or the create fails: refused since
\* the id is taken, or without an answer, committed or not.
LedgerFails(x) ==
    /\ \/ \E c \in ops[x].todo : At(x, "read") /\ LedgerThrew(x, c) /\ UNCHANGED ledger
       \/ LET c == ops[x].cur
          IN  /\ At(x, "create") /\ LedgerThrew(x, c)
              /\ \/ UNCHANGED ledger
                 \/ ledger[c] = "absent" /\ ledger' = [ledger EXCEPT ![c] = "active"]
    /\ UNCHANGED <<store, reported>>

\* storeIssuedCredentials of the new records.
Store(x) ==
    /\ At(x, "store")
    /\ \E n \in 1..Batches :
        /\ NewBatch(n)
        /\ store' = Written(n, ops[x].items, "good")
        /\ ops' = [ops EXCEPT ![x].step = "sync", ![x].batch = n]
    /\ UNCHANGED <<ledger, reported>>

\* The write throws, the records written or not.
StoreFails(x) ==
    /\ Provider # "mem" /\ At(x, "store")
    /\ \E n \in 1..Batches :
        /\ NewBatch(n)
        /\ store' \in {store, Written(n, ops[x].items, "good")}
        /\ IF Required THEN End(x, "failed")
           ELSE ops' = [ops EXCEPT ![x].step = "sync", ![x].batch = n]
    /\ UNCHANGED <<ledger, reported>>

\* The dataspaces were told; the same records, as they were built, are stored
\* again with the publications.
StoreSynced(x) ==
    /\ At(x, "sync")
    /\ store' = Written(ops[x].batch, ops[x].items, "good")
    /\ End(x, "succeeded")
    /\ UNCHANGED <<ledger, reported>>

\* A dataspace refuses in strict mode, or a write throws.
SyncFails(x) ==
    /\ At(x, "sync")
    /\ \/ /\ Strict
          /\ UNCHANGED store
          /\ End(x, IF ops[x].kind = "verify" /\ ~Required THEN "succeeded" ELSE "failed")
       \/ /\ Provider # "mem"
          /\ store' \in {store, Written(ops[x].batch, ops[x].items, "good")}
          /\ End(x, IF Required THEN "failed" ELSE "succeeded")
    /\ UNCHANGED <<ledger, reported>>

-----------------------------------------------------------------------------
(* _revoke.                                                                *)

RevokeStart(x, C) ==
    Start(x, [IdleOp EXCEPT !.kind = "revoke", !.items = C, !.todo = C, !.step = "find"])

RevokeFind(x, c) ==
    /\ At(x, "find") /\ c \in ops[x].todo
    /\ \E n \in 1..Batches :
        /\ Found(n, c)
        /\ ops' = [ops EXCEPT ![x].cur = c, ![x].batch = n,
                              ![x].step = IF Ledger THEN "readRevoke" ELSE "syncRevoke"]
    /\ UNCHANGED <<store, ledger, reported>>

\* No record, or the collection cannot be read.
RevokeNotFound(x, c) ==
    /\ At(x, "find") /\ c \in ops[x].todo
    /\ Holding(c) = {} \/ Provider # "mem"
    /\ End(x, "failed")
    /\ UNCHANGED <<store, ledger, reported>>

\* Altered: a credential the ledger does not know needs no revocation there.
RevokeReadLenient(x) ==
    /\ At(x, "readRevoke")
    /\ Goto(x, IF ledger[ops[x].cur] = "active" THEN "update" ELSE "syncRevoke")
    /\ UNCHANGED <<store, ledger, reported>>

\* revokeCredential reads the asset, which must exist; one already revoked is
\* skipped, so that a retry goes on to the record.
RevokeRead(x) ==
    /\ At(x, "readRevoke") /\ ledger[ops[x].cur] # "absent"
    /\ Goto(x, IF ledger[ops[x].cur] = "revoked" THEN "syncRevoke" ELSE "update")
    /\ UNCHANGED <<store, ledger, reported>>

RevokeUpdate(x) ==
    /\ At(x, "update")
    /\ ledger' = [ledger EXCEPT ![ops[x].cur] = "revoked"]
    /\ Goto(x, "syncRevoke")
    /\ UNCHANGED <<store, reported>>

\* The asset does not exist or cannot be read, or the update fails without an
\* answer, committed or not.
RevokeLedgerFails(x) ==
    /\ \/ At(x, "readRevoke") /\ UNCHANGED ledger
       \/ /\ At(x, "update")
          /\ ledger' \in {ledger, [ledger EXCEPT ![ops[x].cur] = "revoked"]}
    /\ IF LedgerRequired THEN End(x, "failed") ELSE Goto(x, "syncRevoke")
    /\ UNCHANGED <<store, reported>>

\* One credential is done; after the last the job succeeds.
Revoked(x) ==
    LET rest == ops[x].todo \ {ops[x].cur}
    IN  IF rest = {}
            THEN End(x, "succeeded") /\ reported' = reported \cup ops[x].items
            ELSE /\ ops' = [ops EXCEPT ![x].todo = rest, ![x].cur = None,
                                       ![x].batch = 0, ![x].step = "find"]
                 /\ UNCHANGED reported

\* The dataspaces were told, and the record is stored.
RevokeStore(x) ==
    /\ At(x, "syncRevoke")
    /\ store' = Written(ops[x].batch, {ops[x].cur}, "revoked")
    /\ Revoked(x)
    /\ UNCHANGED ledger

RevokeStoreFails(x) ==
    /\ At(x, "syncRevoke")
    /\ \/ Strict /\ UNCHANGED <<store, reported>> /\ End(x, "failed")
       \/ /\ Provider # "mem"
          /\ store' \in {store, Written(ops[x].batch, {ops[x].cur}, "revoked")}
          /\ IF Required THEN End(x, "failed") /\ UNCHANGED reported ELSE Revoked(x)
    /\ UNCHANGED ledger

-----------------------------------------------------------------------------
(* _status.                                                                *)

\* Altered: the ledger's own word is the answer.
StatusUntranslated(asset) == asset

\* The ledger says "active" where _status says "good".
StatusOf(asset) == IF asset = "active" THEN "good" ELSE asset

Answer(x, a) == ops' = [ops EXCEPT ![x].step = "succeeded", ![x].answer = a]

\* The lookup; the answer is at hand unless the ledger is to be asked.
StatusStart(x, c) ==
    LET op == [IdleOp EXCEPT !.kind = "status", !.cur = c, !.known = reported]
    IN  \/ /\ Holding(c) = {}
           /\ Start(x, [op EXCEPT !.step = "succeeded", !.answer = "unknown"])
        \/ \E n \in 1..Batches :
            /\ Found(n, c)
            /\ Start(x, IF Ledger
                            THEN [op EXCEPT !.step = "readStatus", !.seen = store[n][c]]
                            ELSE [op EXCEPT !.step = "succeeded", !.answer = store[n][c]])

\* The collection cannot be read.
StatusNotRead(x) ==
    /\ Provider # "mem"
    /\ Start(x, [IdleOp EXCEPT !.kind = "status", !.step = "failed"])

\* Altered: the record is believed where it says the credential is good.
StatusReadRecordFirst(x) ==
    LET asset == ledger[ops[x].cur]
    IN  /\ At(x, "readStatus")
        /\ Answer(x, IF asset = "absent" \/ ops[x].seen = "good"
                         THEN ops[x].seen ELSE StatusOf(asset))
        /\ UNCHANGED <<store, ledger, reported>>

StatusRead(x) ==
    LET asset == ledger[ops[x].cur]
    IN  /\ At(x, "readStatus")
        /\ Answer(x, IF asset = "absent" THEN ops[x].seen ELSE StatusOf(asset))
        /\ UNCHANGED <<store, ledger, reported>>

\* Altered: an unreadable asset is passed over although the ledger is required.
StatusFailureTolerated(x) ==
    /\ At(x, "readStatus")
    /\ Answer(x, ops[x].seen)
    /\ UNCHANGED <<store, ledger, reported>>

StatusReadFails(x) ==
    /\ At(x, "readStatus")
    /\ IF LedgerRequired THEN End(x, "failed") ELSE Answer(x, ops[x].seen)
    /\ UNCHANGED <<store, ledger, reported>>

-----------------------------------------------------------------------------
Absent == [c \in Creds |-> "absent"]

Init ==
    /\ store = [n \in 1..Batches |-> Absent]
    /\ ledger = Absent
    /\ ops = [x \in Ops |-> IdleOp]
    /\ reported = {}

\* The process restarts: operations are gone, and with "mem" the records.
Restart ==
    /\ ops' = [x \in Ops |-> IF Midway(x)
                   THEN [IdleOp EXCEPT !.kind = ops[x].kind, !.step = "lost"] ELSE ops[x]]
    /\ store' = IF Provider = "mem" THEN [n \in 1..Batches |-> Absent] ELSE store
    /\ UNCHANGED <<ledger, reported>>

Request(x) ==
    \/ \E C \in SUBSET Creds \ {{}} :
        \/ \E anchored \in Anchoring : PollStart(x, C, anchored)
        \/ IssueStart(x, C)
        \/ RevokeStart(x, C)
    \/ \E c \in Creds : StatusStart(x, c)
    \/ StatusNotRead(x)

RegisterStep(x) ==
    \/ \E c \in Creds : LedgerRead(x, c)
    \/ LedgerCreate(x) \/ LedgerFails(x)
    \/ Store(x) \/ StoreFails(x) \/ StoreSynced(x) \/ SyncFails(x)

RevokeStep(x) ==
    \/ \E c \in Creds : RevokeFind(x, c) \/ RevokeNotFound(x, c)
    \/ RevokeRead(x) \/ RevokeUpdate(x) \/ RevokeLedgerFails(x)
    \/ RevokeStore(x) \/ RevokeStoreFails(x)

StatusStep(x) == StatusRead(x) \/ StatusReadFails(x)

Next ==
    \/ \E x \in Ops : Request(x) \/ RegisterStep(x) \/ RevokeStep(x) \/ StatusStep(x)
    \/ Restart

Spec == Init /\ [][Next]_vars

-----------------------------------------------------------------------------
Steps == Ended \cup Network \cup {"store", "find"}

Operation == [kind : {"none", "verify", "issue", "revoke", "status"}, step : Steps,
              items : SUBSET Creds, todo : SUBSET Creds, cur : Creds \cup {None},
              batch : 0..Batches, seen : {"absent", "good", "revoked"},
              known : SUBSET Creds, answer : {"none", "good", "revoked", "unknown"}]

\* The steps in which an operation is busy with one credential.
Busy == {"create", "readRevoke", "update", "syncRevoke", "readStatus"}

\* The types, that an operation busy with a credential has one, and that a
\* _status which waits for the ledger found a record.
TypeOK ==
    /\ store \in [1..Batches -> [Creds -> {"absent", "good", "revoked"}]]
    /\ ledger \in [Creds -> {"absent", "active", "revoked"}]
    /\ ops \in [Ops -> Operation]
    /\ \A x \in Ops : /\ ops[x].step \in Busy => ops[x].cur \in Creds
                      /\ ops[x].step = "readStatus" => ops[x].seen # "absent"
    /\ reported \subseteq Creds

\* Where the ledger is required, a bundle is stored only after each of its
\* credentials is on it, whatever polls overlap and whatever call was answered
\* by an error.
AnchoredBeforeStored ==
    \A x \in Ops :
        (ops[x].kind = "verify" /\ ops[x].step \in {"store", "sync"})
            => \A c \in ops[x].items : ledger[c] # "absent"

\* Where the ledger is required, a revocation that was reported stands there,
\* also after retries, overlapping polls of the same contract and restarts.
ReportedOnLedger == \A c \in reported : ledger[c] = "revoked"

\* No _status that began after a _revoke of the credential was reported says
\* that the credential is good.
StatusHonoursRevocation ==
    \A x \in Ops :
        (ops[x].kind = "status" /\ ops[x].step = "succeeded" /\ ops[x].cur \in ops[x].known)
            => ops[x].answer # "good"
=============================================================================
