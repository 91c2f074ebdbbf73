-------------------- MODULE OrganizationLifecycle_proofs --------------------
(***************************************************************************)
(* TLAPS proofs about OrganizationLifecycle, for any organizations, keys,  *)
(* number of jobs and of overlapping operations, and every provider: the   *)
(* types; where ICA_COLLECTIONS_REQUIRED holds, that what is published is  *)
(* backed by a credential and a key that was bound; in the default         *)
(* deployment, that the records agree and that MembershipContract is       *)
(* implemented; and, where operations do not overlap between their reads   *)
(* and their writes, that a replaced key is recorded by its successor, or  *)
(* with rebinding off never replaced, and that only a verification reopens *)
(* a closed lifecycle.                                                     *)
(***************************************************************************)
EXTENDS MembershipRefinement, TLAPS

\* The empty records are records.
LEMMA EmptyTypes ==
    /\ NoBinding \in Binding
    /\ NoDoc \in Doc
    /\ NoVerif \in Verification
    /\ NewLife \in Life
    /\ IdleOp \in Operation
<1>1. NoBinding \in Binding /\ NoDoc \in Doc
  BY DEF NoBinding, Binding, NoDoc, Doc, KeyOrNone, IdOrNone
<1>2. NoVerif \in Verification /\ NewLife \in Life
  BY DEF NoVerif, Verification, NewLife, Life, KeyOrNone, IdOrNone
<1>3. IdleOp \in Operation
  BY <1>1 DEF IdleOp, Operation, Steps, KeyOrNone, IdOrNone
<1>4. QED
  BY <1>1, <1>2, <1>3

\* What a store leaves of two bindings is a binding.
LEMMA StoredType ==
    ASSUME NEW old \in Binding, NEW new \in Binding
    PROVE  Stored(old, new) \in Binding
BY DEF Stored, Binding

LEMMA LifeAfterType ==
    ASSUME NEW l \in Life, NEW b \in Binding
    PROVE  LifeAfter(l, b) \in Life
BY DEF LifeAfter, Life, Binding, KeyOrNone, IdOrNone

\* Storing a binding keeps the types of what it changes.
LEMMA WriteTypes ==
    ASSUME TypeOK, NEW o \in Orgs, NEW b \in Binding, WriteBinding(o, b)
    PROVE  bindings' \in [Orgs -> Binding] /\ life' \in [Orgs -> Life]
<1>1. bindings[o] \in Binding /\ life[o] \in Life
  BY DEF TypeOK
<1>2. Stored(bindings[o], b) \in Binding
  BY <1>1, StoredType
<1>3. LifeAfter(life[o], Stored(bindings[o], b)) \in Life
  BY <1>1, <1>2, LifeAfterType
<1>4. QED
  BY <1>2, <1>3 DEF WriteBinding, TypeOK

\* Moving an operation to another step, ending it or replacing it keeps OpsOK.
LEMMA GotoOps ==
    ASSUME TypeOK, NEW x \in Ops, NEW step \in Steps, Midway(x), Goto(x, step)
    PROVE  OpsOK'
<1>1. ops[x] \in Operation /\ [ops[x] EXCEPT !.step = step] \in Operation
  BY DEF TypeOK, OpsOK, Operation
<1>2. ops' \in [Ops -> Operation]
  BY <1>1 DEF TypeOK, OpsOK, Goto
<1>3. ASSUME NEW y \in Ops, Midway(y)'
      PROVE  ops'[y].org \in Orgs /\ (ops'[y].kind = "verify" => ops'[y].verif \in Verifs)
  <2>1. CASE y = x
    BY <1>1, <2>1 DEF TypeOK, OpsOK, Goto, Midway, Operation
  <2>2. CASE y # x
    BY <1>3, <2>2 DEF TypeOK, OpsOK, Goto, Midway
  <2>3. QED
    BY <2>1, <2>2
<1>4. QED
  BY <1>2, <1>3 DEF OpsOK

LEMMA ReplaceOps ==
    ASSUME TypeOK, NEW x \in Ops, NEW op \in Operation,
           op.step \notin Ended => op.org \in Orgs /\ (op.kind = "verify" => op.verif \in Verifs),
           ops' = [ops EXCEPT ![x] = op]
    PROVE  OpsOK'
<1>1. ops' \in [Ops -> Operation]
  BY DEF TypeOK, OpsOK
<1>2. ASSUME NEW y \in Ops, Midway(y)'
      PROVE  ops'[y].org \in Orgs /\ (ops'[y].kind = "verify" => ops'[y].verif \in Verifs)
  <2>1. CASE y = x
    BY <1>2, <2>1 DEF TypeOK, OpsOK, Midway
  <2>2. CASE y # x
    BY <1>2, <2>2 DEF TypeOK, OpsOK, Midway
  <2>3. QED
    BY <2>1, <2>2
<1>3. QED
  BY <1>1, <1>2 DEF OpsOK

LEMMA EndOps ==
    ASSUME TypeOK, NEW x \in Ops, NEW how \in Ended, End(x, how)
    PROVE  OpsOK'
<1> DEFINE op == [IdleOp EXCEPT !.kind = ops[x].kind, !.org = ops[x].org, !.step = how]
<1>1. ops[x] \in Operation
  BY DEF TypeOK, OpsOK
<1>2. op \in Operation /\ op.step \in Ended
  BY <1>1, EmptyTypes DEF Operation, Steps, Ended, IdleOp
<1>3. ops' = [ops EXCEPT ![x] = op]
  BY DEF End
<1>4. QED
  BY <1>2, <1>3, ReplaceOps

\* What an operation whose checks passed keeps.
LEMMA WritingType ==
    ASSUME NEW op \in Operation, NEW step \in Steps, NEW b \in Binding, NEW d \in Doc
    PROVE  /\ Writing(op, step, b, d) \in Operation
           /\ Writing(op, step, b, d).org = op.org
           /\ Writing(op, step, b, d).kind = op.kind
           /\ Writing(op, step, b, d).verif = op.verif
           /\ Writing(op, step, b, d).step = step
           /\ Writing(op, step, b, d).write = b
           /\ Writing(op, step, b, d).doc = d
BY EmptyTypes DEF Writing, Operation, IdleOp

LEMMA WritingOps ==
    ASSUME TypeOK, NEW x \in Ops, Midway(x), NEW step \in Steps,
           NEW b \in Binding, NEW d \in Doc,
           ops' = [ops EXCEPT ![x] = Writing(ops[x], step, b, d)]
    PROVE  OpsOK'
<1> DEFINE op == Writing(ops[x], step, b, d)
<1>1. /\ ops[x] \in Operation /\ ops[x].org \in Orgs
      /\ ops[x].kind = "verify" => ops[x].verif \in Verifs
  BY DEF TypeOK, OpsOK
<1>2. /\ op \in Operation /\ op.org \in Orgs
      /\ op.kind = "verify" => op.verif \in Verifs
  BY <1>1, WritingType
<1>3. ops' = [ops EXCEPT ![x] = op]
  OBVIOUS
<1> HIDE DEF op
<1>4. QED
  BY <1>2, <1>3, ReplaceOps

\* A failed poll leaves the jobs and the operations well typed.
LEMMA PollFailedTypes ==
    ASSUME TypeOK, NEW x \in Ops, Midway(x), ops[x].kind = "verify", PollFailed(x)
    PROVE  VerifsOK' /\ OpsOK'
<1>1. ops[x].verif \in Verifs
  BY DEF TypeOK, OpsOK
<1>2. VerifsOK'
  BY <1>1 DEF TypeOK, VerifsOK, Verification, PollFailed
<1>3. OpsOK'
  BY EndOps DEF PollFailed, Ended
<1>4. QED
  BY <1>2, <1>3

-----------------------------------------------------------------------------
\* Every action keeps the types, one lemma for the polls, the workers, and the
\* rest.
LEMMA PollTypes ==
    ASSUME TypeOK, NEW x \in Ops, PollStep(x)
    PROVE  TypeOK'
<1> USE DEF At
<1>1. CASE LedgerRecorded(x)
  <2>1. Midway(x) /\ "readBindings" \in Steps
    BY <1>1 DEF LedgerRecorded, Midway, Ended, Steps
  <2>2. OpsOK'
    BY <1>1, <2>1, GotoOps DEF LedgerRecorded
  <2>3. QED
    BY <1>1, <2>2 DEF LedgerRecorded, TypeOK, VerifsOK
<1>2. CASE PollRefused(x)
  <2>1. Midway(x) /\ ops[x].kind = "verify"
    BY <1>2 DEF PollRefused, Midway, Ended
  <2>2. QED
    BY <1>2, <2>1, PollFailedTypes DEF PollRefused, TypeOK
<1>3. CASE PollDecide(x)
  <2> DEFINE old == bindings[ops[x].org]
             new == Incoming(ops[x])
  <2>1. Midway(x) /\ ops[x].kind = "verify" /\ ops[x] \in Operation
    BY <1>3 DEF PollDecide, Midway, Ended, TypeOK, OpsOK
  <2>2. ops[x].org \in Orgs /\ ops[x].verif \in Verifs
    BY <2>1 DEF TypeOK, OpsOK
  <2>3. old \in Binding /\ new \in Binding
    BY <2>1, <2>2 DEF TypeOK, Incoming, Binding, Operation, KeyOrNone
  <2>4. CASE RebindRefused(old, new)
    <3>1. PollFailed(x)
      BY <1>3, <2>4 DEF PollDecide
    <3>2. QED
      BY <1>3, <2>1, <3>1, PollFailedTypes DEF PollDecide, TypeOK
  <2>5. CASE ~RebindRefused(old, new)
    <3>1. Rebound(old, new) \in Binding
      BY <2>3 DEF Rebound, Binding
    <3>2. /\ ops' = [ops EXCEPT ![x] =
                       Writing(ops[x], "storeIssued", Rebound(old, new), NoDoc)]
          /\ UNCHANGED <<issued, bindings, docs, verifs, life>>
      BY <1>3, <2>5 DEF PollDecide
    <3>3. "storeIssued" \in Steps /\ NoDoc \in Doc
      BY EmptyTypes DEF Steps
    <3>4. OpsOK'
      BY <2>1, <3>1, <3>2, <3>3, WritingOps
    <3>5. QED
      BY <3>2, <3>4 DEF TypeOK, VerifsOK
  <2>6. QED
    BY <2>4, <2>5
<1>4. CASE PollStoreIssued(x)
  <2>1. Midway(x) /\ "storeBindings" \in Steps
    BY <1>4 DEF PollStoreIssued, Midway, Ended, Steps
  <2>2. OpsOK'
    BY <1>4, <2>1, GotoOps DEF PollStoreIssued
  <2>3. QED
    BY <1>4, <2>2 DEF PollStoreIssued, TypeOK, VerifsOK
<1>5. CASE PollStoreBinding(x)
  <2>1. Midway(x) /\ "sync" \in Steps /\ ops[x] \in Operation
    BY <1>5 DEF PollStoreBinding, Midway, Ended, Steps, TypeOK, OpsOK
  <2>2. ops[x].org \in Orgs /\ ops[x].write \in Binding
    BY <2>1 DEF TypeOK, OpsOK, Operation
  <2>3. OpsOK'
    BY <1>5, <2>1, GotoOps DEF PollStoreBinding
  <2>4. bindings' \in [Orgs -> Binding] /\ life' \in [Orgs -> Life]
    BY <1>5, <2>2, WriteTypes DEF PollStoreBinding
  <2>5. QED
    BY <1>5, <2>3, <2>4 DEF PollStoreBinding, TypeOK, VerifsOK
<1>6. CASE PollStoreIssuedFails(x)
  <2>1. Midway(x) /\ "sync" \in Steps /\ ops[x].kind = "verify"
    BY <1>6 DEF PollStoreIssuedFails, Midway, Ended, Steps
  <2>2. VerifsOK' /\ OpsOK'
    BY <1>6, <2>1, GotoOps, PollFailedTypes
       DEF PollStoreIssuedFails, PollWriteFailed, TypeOK, VerifsOK
  <2>3. issued' \in [Orgs -> BOOLEAN]
    BY <1>6 DEF PollStoreIssuedFails, TypeOK
  <2>4. QED
    BY <1>6, <2>2, <2>3 DEF PollStoreIssuedFails, TypeOK
<1>7. CASE PollStoreBindingFails(x)
  <2>1. /\ Midway(x) /\ "sync" \in Steps /\ ops[x].kind = "verify"
        /\ ops[x] \in Operation
    BY <1>7 DEF PollStoreBindingFails, Midway, Ended, Steps, TypeOK, OpsOK
  <2>2. ops[x].org \in Orgs /\ ops[x].write \in Binding
    BY <2>1 DEF TypeOK, OpsOK, Operation
  <2>3. VerifsOK' /\ OpsOK'
    BY <1>7, <2>1, GotoOps, PollFailedTypes
       DEF PollStoreBindingFails, PollWriteFailed, TypeOK, VerifsOK
  <2>4. bindings' \in [Orgs -> Binding] /\ life' \in [Orgs -> Life]
    BY <1>7, <2>2, WriteTypes DEF PollStoreBindingFails, TypeOK
  <2>5. QED
    BY <1>7, <2>3, <2>4 DEF PollStoreBindingFails, TypeOK
<1>8. CASE PollSynced(x)
  <2>1. OpsOK'
    BY <1>8, EndOps DEF PollSynced, Ended
  <2>2. QED
    BY <1>8, <2>1 DEF PollSynced, TypeOK, VerifsOK
<1>9. CASE PollSyncFails(x)
  <2>1. Midway(x) /\ ops[x].kind = "verify"
    BY <1>9 DEF PollSyncFails, Midway, Ended
  <2>2. VerifsOK' /\ OpsOK'
    <3>1. CASE Required
      BY <1>9, <2>1, <3>1, PollFailedTypes DEF PollSyncFails
    <3>2. CASE ~Required
      BY <1>9, <3>2, EndOps DEF PollSyncFails, Ended, TypeOK, VerifsOK
    <3>3. QED
      BY <3>1, <3>2
  <2>3. issued' \in [Orgs -> BOOLEAN]
    BY <1>9 DEF PollSyncFails, TypeOK
  <2>4. QED
    BY <1>9, <2>2, <2>3 DEF PollSyncFails, TypeOK
<1>10. QED
  BY <1>1, <1>2, <1>3, <1>4, <1>5, <1>6, <1>7, <1>8, <1>9 DEF PollStep

LEMMA WorkerTypes ==
    ASSUME TypeOK, NEW x \in Ops, WorkerStep(x)
    PROVE  TypeOK'
<1> USE DEF At
<1>1. ops[x] \in Operation /\ (Midway(x) => ops[x].org \in Orgs)
  BY DEF TypeOK, OpsOK
<1>2. CASE ReadBinding(x)
  <2> DEFINE op == [ops[x] EXCEPT !.step = "readDocs", !.seen = bindings[ops[x].org]]
  <2>1. Midway(x) /\ ops[x].kind # "verify" /\ ops[x].org \in Orgs
    BY <1>1, <1>2 DEF ReadBinding, Midway, Ended
  <2>2. bindings[ops[x].org] \in Binding /\ "readDocs" \in Steps
    BY <2>1 DEF TypeOK, Steps
  <2>3. op \in Operation /\ op.org = ops[x].org /\ op.kind = ops[x].kind
    BY <1>1, <2>2 DEF Operation
  <2>4. ops' = [ops EXCEPT ![x] = op]
    BY <1>2 DEF ReadBinding, TypeOK, OpsOK
  <2> HIDE DEF op
  <2>5. OpsOK'
    BY <2>1, <2>3, <2>4, ReplaceOps
  <2>6. QED
    BY <1>2, <2>5 DEF ReadBinding, TypeOK, VerifsOK
<1>3. CASE CreateDecide(x)
  <2> DEFINE k == ChosenKey(ops[x])
             b == [status |-> "confirmed", key |-> k, sameAs |-> ops[x].sameAs,
                   prev |-> None]
             d == [status |-> "confirmed", key |-> k]
  <2>1. Midway(x) /\ ops[x].org \in Orgs /\ "storeBindings" \in Steps
    BY <1>1, <1>3 DEF CreateDecide, Midway, Ended, Steps
  <2>2. k \in KeyOrNone
    BY <1>1 DEF ChosenKey, Operation, Binding
  <2>3. b \in Binding /\ d \in Doc
    BY <1>1, <2>2 DEF Binding, Doc, Operation, KeyOrNone
  <2>4. ops' = [ops EXCEPT ![x] = Writing(ops[x], "storeBindings", b, d)]
    BY <1>3 DEF CreateDecide
  <2> HIDE DEF b, d
  <2>5. OpsOK'
    BY <2>1, <2>3, <2>4, WritingOps
  <2>6. QED
    BY <1>3, <2>5 DEF CreateDecide, TypeOK, VerifsOK
<1>4. CASE RemoveDecide(x)
  <2> DEFINE b == [ops[x].seen EXCEPT !.status = "removed"]
             d == [docs[ops[x].org] EXCEPT !.status = "removed"]
  <2>1. Midway(x) /\ ops[x].org \in Orgs /\ "storeBindings" \in Steps
    BY <1>1, <1>4 DEF RemoveDecide, Midway, Ended, Steps
  <2>2. b \in Binding /\ d \in Doc
    BY <1>1, <2>1 DEF Binding, Doc, Operation, TypeOK
  <2>3. ops' = [ops EXCEPT ![x] = Writing(ops[x], "storeBindings", b, d)]
    BY <1>4 DEF RemoveDecide
  <2> HIDE DEF b, d
  <2>4. OpsOK'
    BY <2>1, <2>2, <2>3, WritingOps
  <2>5. QED
    BY <1>4, <2>4 DEF RemoveDecide, TypeOK, VerifsOK
<1>5. CASE WorkerRefused(x)
  <2>1. OpsOK'
    BY <1>5, EndOps DEF WorkerRefused, Ended
  <2>2. QED
    BY <1>5, <2>1 DEF WorkerRefused, TypeOK, VerifsOK
<1>6. ASSUME Midway(x)
      PROVE  ops[x].org \in Orgs /\ ops[x].write \in Binding /\ ops[x].doc \in Doc
  BY <1>1, <1>6 DEF Operation
<1>7. CASE StoreBinding(x)
  <2>1. Midway(x) /\ "storeDocs" \in Steps
    BY <1>7 DEF StoreBinding, Midway, Ended, Steps
  <2>2. OpsOK'
    BY <1>7, <2>1, GotoOps DEF StoreBinding
  <2>3. bindings' \in [Orgs -> Binding] /\ life' \in [Orgs -> Life]
    BY <1>6, <1>7, <2>1, WriteTypes DEF StoreBinding
  <2>4. QED
    BY <1>7, <2>2, <2>3 DEF StoreBinding, TypeOK, VerifsOK
<1>8. CASE StoreBindingFails(x)
  <2>1. Midway(x) /\ "storeDocs" \in Steps /\ "failed" \in Ended
    BY <1>8 DEF StoreBindingFails, Midway, Ended, Steps
  <2>2. OpsOK'
    BY <1>8, <2>1, GotoOps, EndOps DEF StoreBindingFails
  <2>3. bindings' \in [Orgs -> Binding] /\ life' \in [Orgs -> Life]
    BY <1>6, <1>8, <2>1, WriteTypes DEF StoreBindingFails, TypeOK
  <2>4. QED
    BY <1>8, <2>2, <2>3 DEF StoreBindingFails, TypeOK, VerifsOK
<1>9. CASE StoreDoc(x)
  <2>1. Midway(x)
    BY <1>9 DEF StoreDoc, Midway, Ended
  <2>2. OpsOK'
    BY <1>9, EndOps DEF StoreDoc, Ended
  <2>3. docs' \in [Orgs -> Doc]
    BY <1>6, <1>9, <2>1 DEF StoreDoc, WriteDoc, TypeOK
  <2>4. QED
    BY <1>9, <2>2, <2>3 DEF StoreDoc, TypeOK, VerifsOK
<1>10. CASE StoreDocFails(x)
  <2>1. Midway(x)
    BY <1>10 DEF StoreDocFails, Midway, Ended
  <2>2. OpsOK'
    BY <1>10, EndOps DEF StoreDocFails, Ended
  <2>3. docs' \in [Orgs -> Doc]
    BY <1>6, <1>10, <2>1 DEF StoreDocFails, WriteDoc, TypeOK
  <2>4. QED
    BY <1>10, <2>2, <2>3 DEF StoreDocFails, TypeOK, VerifsOK
<1>11. QED
  BY <1>2, <1>3, <1>4, <1>5, <1>7, <1>8, <1>9, <1>10 DEF WorkerStep

LEMMA RequestTypes ==
    ASSUME TypeOK, Request
    PROVE  TypeOK'
<1> USE InputsAssumption
<1>1. ASSUME NEW v \in Verifs, NEW o \in Orgs, NEW k \in VerifyKeys, NEW i \in Ids,
             Verify(v, o, k, i)
      PROVE  TypeOK'
  <2>1. VerifsOK'
    BY <1>1 DEF Verify, TypeOK, VerifsOK, Verification, KeyOrNone, IdOrNone
  <2>2. life' \in [Orgs -> Life]
    BY <1>1 DEF Verify, TypeOK, Life
  <2>3. QED
    BY <1>1, <2>1, <2>2 DEF Verify, TypeOK, OpsOK, Midway
<1>2. ASSUME NEW v \in Verifs, Expire(v)
      PROVE  TypeOK'
  <2>1. VerifsOK'
    BY <1>2, EmptyTypes DEF Expire, TypeOK, VerifsOK, NoVerif
  <2>2. QED
    BY <1>2, <2>1 DEF Expire, TypeOK, OpsOK, Midway
<1>3. ASSUME NEW v \in Verifs, NEW x \in Ops, PollStart(x, v)
      PROVE  TypeOK'
  <2> DEFINE op == [IdleOp EXCEPT !.kind = "verify", !.step = "ledger", !.verif = v,
                                  !.org = verifs[v].org, !.key = verifs[v].key,
                                  !.sameAs = verifs[v].sameAs]
  <2>1. verifs[v] \in Verification /\ verifs[v].org \in Orgs
    BY <1>3 DEF PollStart, TypeOK, VerifsOK
  <2>2. /\ op \in Operation /\ op.kind = "verify"
        /\ op.verif \in Verifs /\ op.org \in Orgs
    BY <2>1, EmptyTypes DEF Operation, Steps, IdleOp, Verification
  <2>3. ops' = [ops EXCEPT ![x] = op]
    BY <1>3 DEF PollStart
  <2> HIDE DEF op
  <2>4. OpsOK'
    BY <2>2, <2>3, ReplaceOps
  <2>5. QED
    BY <1>3, <2>4 DEF PollStart, TypeOK, VerifsOK
<1>4. ASSUME NEW x \in Ops, NEW o \in Orgs, NEW k \in CreateKeys, NEW i \in ClientIds,
             CreateStart(x, o, k, i) \/ RemoveStart(x, o, k, i)
      PROVE  TypeOK'
  <2> DEFINE create == [IdleOp EXCEPT !.kind = "create", !.step = "readBindings",
                                      !.org = o, !.key = k, !.sameAs = i,
                                      !.sawIssued = issued[o]]
             remove == [IdleOp EXCEPT !.kind = "remove", !.step = "readBindings",
                                      !.org = o, !.key = k, !.sameAs = i]
  <2>1. issued[o] \in BOOLEAN /\ k \in KeyOrNone /\ i \in IdOrNone
    BY DEF TypeOK, KeyOrNone, IdOrNone
  <2>2. create \in Operation /\ create.kind = "create" /\ create.org = o
    BY <2>1, EmptyTypes DEF Operation, Steps, IdleOp
  <2>3. remove \in Operation /\ remove.kind = "remove" /\ remove.org = o
    BY <2>1, EmptyTypes DEF Operation, Steps, IdleOp
  <2>4. ops' = [ops EXCEPT ![x] = create] \/ ops' = [ops EXCEPT ![x] = remove]
    BY <1>4 DEF CreateStart, RemoveStart, StartWorker
  <2> HIDE DEF create, remove
  <2>5. OpsOK'
    BY <2>2, <2>3, <2>4, ReplaceOps
  <2>6. QED
    BY <1>4, <2>5 DEF CreateStart, RemoveStart, StartWorker, TypeOK, VerifsOK
<1>5. QED
  BY <1>1, <1>2, <1>3, <1>4 DEF Request

LEMMA RestartTypes ==
    ASSUME TypeOK, Restart
    PROVE  TypeOK'
<1>1. VerifsOK'
  BY EmptyTypes DEF Restart, VerifsOK, NoVerif
<1>2. OpsOK'
  <2>1. ASSUME NEW x \in Ops
        PROVE  ops'[x] \in Operation /\ ops'[x].step \in Ended
    BY EmptyTypes DEF Restart, TypeOK, OpsOK, Operation, IdleOp, Steps, Ended, Midway
  <2>2. ops' \in [Ops -> Operation]
    BY <2>1 DEF Restart
  <2>3. QED
    BY <2>1, <2>2 DEF OpsOK, Midway
<1>3. /\ issued' \in [Orgs -> BOOLEAN]
      /\ bindings' \in [Orgs -> Binding]
      /\ docs' \in [Orgs -> Doc]
      /\ life' \in [Orgs -> Life]
  BY EmptyTypes DEF Restart, TypeOK
<1>4. QED
  BY <1>1, <1>2, <1>3 DEF TypeOK

LEMMA TypeInit == Init => TypeOK
<1> SUFFICES ASSUME Init
             PROVE  TypeOK
  OBVIOUS
<1>1. VerifsOK
  BY EmptyTypes DEF Init, VerifsOK, NoVerif
<1>2. OpsOK
  <2>1. IdleOp.step \in Ended
    BY DEF IdleOp, Ended
  <2>2. QED
    BY <2>1, EmptyTypes DEF Init, OpsOK, Midway
<1>3. QED
  BY <1>1, <1>2, EmptyTypes DEF Init, TypeOK

LEMMA TypeStep == TypeOK /\ [Next]_vars => TypeOK'
<1> SUFFICES ASSUME TypeOK, [Next]_vars
             PROVE  TypeOK'
  OBVIOUS
<1>1. CASE Next
  BY <1>1, PollTypes, WorkerTypes, RequestTypes, RestartTypes DEF Next
<1>2. CASE UNCHANGED vars
  BY <1>2 DEF vars, TypeOK, VerifsOK, OpsOK, Midway
<1>3. QED
  BY <1>1, <1>2

\* The types hold, and an operation midway always knows its organization and,
\* if it is a poll, its job, however the operations overlap and fail.
THEOREM TypeCorrect == Spec => []TypeOK
<1>1. QED
  BY TypeInit, TypeStep, PTL DEF Spec

-----------------------------------------------------------------------------
(* PublicationBacked is about records that one operation read and another  *)
(* may have written since.  Two things make it inductive: what an          *)
(* operation midway carries is already backed, and what backs it is never  *)
(* taken away (a credential is never unissued, a bound key stays in the    *)
(* history) except by a restart that takes the operations away too.        *)

\* What x is about to publish or close is backed by what is stored.
OpBacked(x) ==
    LET op == ops[x]
    IN  /\ op.kind = "create" /\ Midway(x) =>
            /\ op.sawIssued => issued[op.org]
            /\ op.step \in {"storeBindings", "storeDocs"} =>
                   /\ issued[op.org]
                   /\ op.doc.key # None
                   /\ op.write.key = op.doc.key
                   /\ op.write.status = "confirmed"
            /\ op.step = "storeDocs" => op.doc.key \in life[op.org].bound
        /\ op.kind = "remove" /\ op.step \in {"storeBindings", "storeDocs"} =>
            op.doc.status = "removed"

\* The key of a lifecycle is one of the keys bound.
KeyInBound == \A o \in Orgs : life[o].key # None => life[o].key \in life[o].bound

BackedInv ==
    /\ PublicationBacked
    /\ KeyInBound
    /\ \A x \in Ops : OpBacked(x)

\* Nothing that backs a publication is taken away.
Grows == \A o \in Orgs : (issued[o] => issued'[o]) /\ life[o].bound \subseteq life'[o].bound

\* Under Grows an operation that does not move stays backed.
LEMMA UnmovedBacked ==
    ASSUME TypeOK, BackedInv, Grows, NEW y \in Ops, ops'[y] = ops[y]
    PROVE  OpBacked(y)'
<1>1. OpBacked(y)
  BY DEF BackedInv
<1>2. Midway(y)' <=> Midway(y)
  BY DEF Midway
<1>3. Midway(y) => ops[y].org \in Orgs
  BY DEF TypeOK, OpsOK
<1>4. QED
  BY <1>1, <1>2, <1>3 DEF OpBacked, Grows

\* So after a step of x that leaves it backed all operations are.
LEMMA StepBacked ==
    ASSUME TypeOK, BackedInv, Grows, NEW x \in Ops, OpBacked(x)',
           \A y \in Ops \ {x} : ops'[y] = ops[y]
    PROVE  \A y \in Ops : OpBacked(y)'
BY UnmovedBacked

\* A poll publishes nothing, and neither does an operation that is over.
LEMMA VerifyBacked ==
    ASSUME TypeOK, BackedInv, Grows, NEW x \in Ops, NEW op,
           ops' = [ops EXCEPT ![x] = op], op.kind = "verify" \/ op.step \in Ended
    PROVE  \A y \in Ops : OpBacked(y)'
<1>1. ops'[x] = op /\ \A y \in Ops \ {x} : ops'[y] = ops[y]
  BY DEF TypeOK, OpsOK
<1>2. OpBacked(x)'
  BY <1>1 DEF OpBacked, Midway, Ended
<1>3. QED
  BY <1>1, <1>2, StepBacked

LEMMA EndBacked ==
    ASSUME TypeOK, BackedInv, Grows, NEW x \in Ops, NEW how \in Ended, End(x, how)
    PROVE  \A y \in Ops : OpBacked(y)'
<1> DEFINE op == [IdleOp EXCEPT !.kind = ops[x].kind, !.org = ops[x].org, !.step = how]
<1>1. ops' = [ops EXCEPT ![x] = op] /\ op.step = how
  BY DEF End, IdleOp
<1> HIDE DEF op
<1>2. QED
  BY <1>1, VerifyBacked

\* A step of a poll that goes on or fails.
LEMMA PollBacked ==
    ASSUME TypeOK, BackedInv, Grows, NEW x \in Ops, NEW step, ops[x].kind = "verify",
           Goto(x, step) \/ PollFailed(x)
    PROVE  \A y \in Ops : OpBacked(y)'
<1>1. CASE Goto(x, step)
  <2> DEFINE op == [ops[x] EXCEPT !.step = step]
  <2>1. ops' = [ops EXCEPT ![x] = op] /\ op.kind = "verify"
    BY <1>1 DEF Goto, TypeOK, OpsOK, Operation
  <2> HIDE DEF op
  <2>2. QED
    BY <2>1, VerifyBacked
<1>2. CASE PollFailed(x)
  BY <1>2, EndBacked DEF PollFailed, Ended
<1>3. QED
  BY <1>1, <1>2

\* Storing a binding takes no bound key away and adds its own.
LEMMA WriteBound ==
    ASSUME TypeOK, BackedInv, NEW o \in Orgs, NEW b \in Binding, WriteBinding(o, b)
    PROVE  /\ KeyInBound'
           /\ \A p \in Orgs : life[p].bound \subseteq life'[p].bound
           /\ b.key # None /\ b.status # "removed" => b.key \in life'[o].bound
<1> DEFINE s == Stored(bindings[o], b)
           l == life[o]
<1>1. /\ bindings[o] \in Binding /\ l \in Life
      /\ l.key # None => l.key \in l.bound
  BY DEF TypeOK, BackedInv, KeyInBound
<1>2. /\ s.status = b.status
      /\ b.key # None => s.key = b.key
  BY <1>1 DEF Stored, Binding
<1>3. /\ LifeAfter(l, s).key # None => LifeAfter(l, s).key \in LifeAfter(l, s).bound
      /\ l.bound \subseteq LifeAfter(l, s).bound
      /\ b.key # None /\ b.status # "removed" => b.key \in LifeAfter(l, s).bound
  <2>1. CASE s.status = "removed"
    BY <1>1, <1>2, <2>1 DEF LifeAfter, Life
  <2>2. CASE s.status # "removed" /\ s.key \in {None, l.key}
    BY <1>1, <1>2, <2>2 DEF LifeAfter, Life
  <2>3. CASE s.status # "removed" /\ s.key \notin {None, l.key}
    BY <1>1, <1>2, <2>3 DEF LifeAfter, Life
  <2>4. QED
    BY <2>1, <2>2, <2>3
<1>4. /\ life'[o] = LifeAfter(l, s)
      /\ \A p \in Orgs \ {o} : life'[p] = life[p]
  BY DEF WriteBinding, TypeOK
<1> HIDE DEF s
<1>5. QED
  BY <1>3, <1>4 DEF BackedInv, KeyInBound

\* Under Grows what is published stays backed while the documents do not change.
LEMMA PublishedKept ==
    ASSUME TypeOK, BackedInv, Grows, UNCHANGED docs
    PROVE  PublicationBacked'
BY DEF BackedInv, PublicationBacked, Published, Grows

\* A write of a poll or a worker, whether it succeeded or threw.
LEMMA WriteGrows ==
    ASSUME TypeOK, BackedInv, NEW o \in Orgs, NEW b \in Binding,
           WriteBinding(o, b) \/ UNCHANGED <<bindings, life>>, UNCHANGED issued
    PROVE  Grows /\ KeyInBound'
<1>1. CASE WriteBinding(o, b)
  BY <1>1, WriteBound DEF Grows
<1>2. CASE UNCHANGED life
  BY <1>2 DEF Grows, BackedInv, KeyInBound
<1>3. QED
  BY <1>1, <1>2

\* The polls: they only add credentials and keys.
LEMMA PollStepBacked ==
    ASSUME TypeOK, BackedInv, NEW x \in Ops, PollStep(x)
    PROVE  BackedInv'
<1>1. ops[x] \in Operation /\ ops[x].kind = "verify" /\ Midway(x)
  BY DEF PollStep, LedgerRecorded, PollRefused, PollDecide, PollStoreIssued,
         PollStoreIssuedFails, PollStoreBinding, PollStoreBindingFails, PollSynced,
         PollSyncFails, At, Midway, Ended, TypeOK, OpsOK
<1>2. ops[x].org \in Orgs /\ ops[x].write \in Binding
  BY <1>1 DEF TypeOK, OpsOK, Operation
<1>3. UNCHANGED docs
  BY DEF PollStep, LedgerRecorded, PollRefused, PollDecide, PollStoreIssued,
         PollStoreIssuedFails, PollStoreBinding, PollStoreBindingFails, PollSynced,
         PollSyncFails
<1>4. Grows /\ KeyInBound'
  <2>1. CASE PollStoreBinding(x) \/ PollStoreBindingFails(x)
    BY <1>2, <2>1, WriteGrows DEF PollStoreBinding, PollStoreBindingFails
  <2>2. CASE ~(PollStoreBinding(x) \/ PollStoreBindingFails(x))
    <3>1. UNCHANGED life /\ \A o \in Orgs : issued[o] => issued'[o]
      BY <2>2 DEF PollStep, LedgerRecorded, PollRefused, PollDecide, PollStoreIssued,
                  PollStoreIssuedFails, PollSynced, PollSyncFails, TypeOK
    <3>2. QED
      BY <3>1 DEF Grows, BackedInv, KeyInBound
  <2>3. QED
    BY <2>1, <2>2
<1>5. \A y \in Ops : OpBacked(y)'
  <2>1. CASE PollDecide(x) /\ ~PollFailed(x)
    <3> DEFINE op == Writing(ops[x], "storeIssued",
                             Rebound(bindings[ops[x].org], Incoming(ops[x])), NoDoc)
    <3>1. ops' = [ops EXCEPT ![x] = op] /\ op.kind = "verify"
      BY <1>1, <2>1 DEF PollDecide, Writing, IdleOp
    <3> HIDE DEF op
    <3>2. QED
      BY <1>4, <3>1, VerifyBacked
  <2>2. CASE End(x, "succeeded")
    BY <1>4, <2>2, EndBacked DEF Ended
  <2>3. CASE \/ PollFailed(x)
             \/ \E step \in Steps : Goto(x, step)
    BY <1>1, <1>4, <2>3, PollBacked
  <2>4. QED
    BY <2>1, <2>2, <2>3
       DEF PollStep, LedgerRecorded, PollRefused, PollDecide, PollStoreIssued,
           PollStoreIssuedFails, PollStoreBinding, PollStoreBindingFails, PollSynced,
           PollSyncFails, PollWriteFailed, Steps
<1>6. QED
  BY <1>3, <1>4, <1>5, PublishedKept DEF BackedInv

\* The workers.  Only where a failed write of the binding stops the worker does
\* the document it goes on to publish have a bound key.
LEMMA WorkerStepBacked ==
    ASSUME TypeOK, BackedInv, Required, NEW x \in Ops, WorkerStep(x)
    PROVE  BackedInv'
<1> USE DEF At
<1>1. ops[x] \in Operation /\ ops[x].step \notin Ended /\ ops[x].org \in Orgs
  BY DEF WorkerStep, ReadBinding, CreateDecide, RemoveDecide, WorkerRefused,
         StoreBinding, StoreBindingFails, StoreDoc, StoreDocFails, TypeOK, OpsOK,
         Midway, Ended
<1>2. ops[x].write \in Binding /\ ops[x].doc \in Doc /\ ops[x].seen \in Binding
  BY <1>1 DEF Operation
<1>3. OpBacked(x) /\ Midway(x)
  BY <1>1 DEF BackedInv, Midway
<1>4. UNCHANGED issued
  BY DEF WorkerStep, ReadBinding, CreateDecide, RemoveDecide, WorkerRefused,
         StoreBinding, StoreBindingFails, StoreDoc, StoreDocFails
<1>5. ASSUME UNCHANGED life
      PROVE  Grows /\ KeyInBound'
  BY <1>4, <1>5 DEF Grows, BackedInv, KeyInBound
<1>6. CASE ReadBinding(x)
  <2> DEFINE op == [ops[x] EXCEPT !.step = "readDocs", !.seen = bindings[ops[x].org]]
  <2>1. ops' = [ops EXCEPT ![x] = op]
    BY <1>6 DEF ReadBinding, TypeOK, OpsOK
  <2>2. /\ op.kind = ops[x].kind /\ op.org = ops[x].org /\ op.step = "readDocs"
        /\ op.sawIssued = ops[x].sawIssued
    BY <1>1 DEF Operation
  <2> HIDE DEF op
  <2>3. ops'[x] = op /\ \A y \in Ops \ {x} : ops'[y] = ops[y]
    BY <2>1 DEF TypeOK, OpsOK
  <2>4. OpBacked(x)'
    BY <1>3, <1>4, <2>2, <2>3 DEF OpBacked
  <2>5. UNCHANGED <<docs, life>>
    BY <1>6 DEF ReadBinding
  <2>6. QED
    BY <1>5, <2>3, <2>4, <2>5, StepBacked, PublishedKept DEF BackedInv
<1>7. CASE CreateDecide(x)
  <2> DEFINE k == ChosenKey(ops[x])
             b == [status |-> "confirmed", key |-> k, sameAs |-> ops[x].sameAs,
                   prev |-> None]
             d == [status |-> "confirmed", key |-> k]
             op == Writing(ops[x], "storeBindings", b, d)
  <2>1. /\ ops[x].sawIssued /\ k # None
        /\ ops[x].kind = "create"
        /\ ops' = [ops EXCEPT ![x] = op]
        /\ UNCHANGED <<docs, life>>
    BY <1>7 DEF CreateDecide, CreateAccepted
  <2>2. issued[ops[x].org]
    BY <1>3, <2>1 DEF OpBacked
  <2>3. b \in Binding /\ d \in Doc /\ "storeBindings" \in Steps
    BY <1>1, <1>2 DEF ChosenKey, Binding, Doc, Operation, KeyOrNone, Steps
  <2>4. /\ op.kind = "create" /\ op.org = ops[x].org /\ op.step = "storeBindings"
        /\ op.write = b /\ op.doc = d
    BY <1>1, <2>1, <2>3, WritingType
  <2>5. b.status = "confirmed" /\ b.key = k /\ d.key = k
    OBVIOUS
  <2> HIDE DEF op, b, d, k
  <2>6. ops'[x] = op /\ \A y \in Ops \ {x} : ops'[y] = ops[y]
    BY <2>1 DEF TypeOK, OpsOK
  <2>7. OpBacked(x)'
    BY <1>4, <2>1, <2>2, <2>4, <2>5, <2>6 DEF OpBacked
  <2>8. QED
    BY <1>5, <2>1, <2>6, <2>7, StepBacked, PublishedKept DEF BackedInv
<1>8. CASE RemoveDecide(x)
  <2> DEFINE b == [ops[x].seen EXCEPT !.status = "removed"]
             d == [docs[ops[x].org] EXCEPT !.status = "removed"]
             op == Writing(ops[x], "storeBindings", b, d)
  <2>1. /\ ops[x].kind = "remove"
        /\ ops' = [ops EXCEPT ![x] = op]
        /\ UNCHANGED <<docs, life>>
    BY <1>8 DEF RemoveDecide
  <2>2. b \in Binding /\ d \in Doc /\ "storeBindings" \in Steps
    BY <1>1, <1>2 DEF Binding, Doc, TypeOK, Steps
  <2>3. d.status = "removed"
    BY <1>1 DEF Doc, TypeOK
  <2>4. op.kind = "remove" /\ op.doc = d
    BY <1>1, <2>1, <2>2, WritingType
  <2> HIDE DEF op, b, d
  <2>5. ops'[x] = op /\ \A y \in Ops \ {x} : ops'[y] = ops[y]
    BY <2>1 DEF TypeOK, OpsOK
  <2>6. OpBacked(x)'
    BY <2>3, <2>4, <2>5 DEF OpBacked
  <2>7. QED
    BY <1>5, <2>1, <2>5, <2>6, StepBacked, PublishedKept DEF BackedInv
<1>9. CASE WorkerRefused(x)
  <2>1. End(x, "failed") /\ UNCHANGED <<docs, life>>
    BY <1>9 DEF WorkerRefused
  <2>2. QED
    BY <1>5, <2>1, EndBacked, PublishedKept DEF BackedInv, Ended
<1>10. CASE StoreBinding(x)
  <2> DEFINE op == [ops[x] EXCEPT !.step = "storeDocs"]
  <2>1. /\ WriteBinding(ops[x].org, ops[x].write)
        /\ ops' = [ops EXCEPT ![x] = op]
        /\ ops[x].step = "storeBindings"
        /\ UNCHANGED docs
    BY <1>10 DEF StoreBinding, Goto, TypeOK, OpsOK
  <2>2. /\ op.kind = ops[x].kind /\ op.org = ops[x].org /\ op.step = "storeDocs"
        /\ op.sawIssued = ops[x].sawIssued /\ op.doc = ops[x].doc
        /\ op.write = ops[x].write
    BY <1>1 DEF Operation
  <2> HIDE DEF op
  <2>3. Grows /\ KeyInBound'
    BY <1>1, <1>2, <1>4, <2>1, WriteGrows
  <2>4. ops'[x] = op /\ \A y \in Ops \ {x} : ops'[y] = ops[y]
    BY <2>1 DEF TypeOK, OpsOK
  <2>5. OpBacked(x)'
    <3>1. CASE ops[x].kind = "create"
      <4>1. ops[x].write.key # None /\ ops[x].write.status # "removed"
        BY <1>3, <2>1, <3>1 DEF OpBacked
      <4>2. ops[x].write.key \in life'[ops[x].org].bound
        BY <1>1, <1>2, <2>1, <4>1, WriteBound
      <4>3. QED
        BY <1>3, <1>4, <2>1, <2>2, <2>4, <3>1, <4>2 DEF OpBacked
    <3>2. CASE ops[x].kind # "create"
      BY <1>3, <2>1, <2>2, <2>4, <3>2 DEF OpBacked
    <3>3. QED
      BY <3>1, <3>2
  <2>6. QED
    BY <2>1, <2>3, <2>4, <2>5, StepBacked, PublishedKept DEF BackedInv
<1>11. CASE StoreBindingFails(x)
  <2>1. /\ WriteBinding(ops[x].org, ops[x].write) \/ UNCHANGED <<bindings, life>>
        /\ End(x, "failed")
        /\ UNCHANGED docs
    BY <1>11 DEF StoreBindingFails
  <2>2. Grows /\ KeyInBound'
    BY <1>1, <1>2, <1>4, <2>1, WriteGrows
  <2>3. QED
    BY <2>1, <2>2, EndBacked, PublishedKept DEF BackedInv, Ended
<1>12. CASE StoreDoc(x) \/ StoreDocFails(x)
  <2>1. /\ WriteDoc(ops[x].org, ops[x].doc) \/ UNCHANGED docs
        /\ End(x, "succeeded") \/ End(x, "failed")
        /\ UNCHANGED life
        /\ ops[x].kind \in {"create", "remove"} /\ ops[x].step = "storeDocs"
    BY <1>12 DEF StoreDoc, StoreDocFails
  <2>2. Grows /\ KeyInBound'
    BY <1>5, <2>1
  <2>3. PublicationBacked'
    <3>1. CASE UNCHANGED docs
      BY <2>2, <3>1, PublishedKept
    <3>2. CASE WriteDoc(ops[x].org, ops[x].doc)
      <4>1. /\ docs'[ops[x].org] = ops[x].doc
            /\ \A o \in Orgs \ {ops[x].org} : docs'[o] = docs[o]
        BY <1>1, <3>2 DEF WriteDoc, TypeOK
      <4>2. ops[x].doc.status = "confirmed" =>
                issued[ops[x].org] /\ ops[x].doc.key \in life[ops[x].org].bound
        BY <1>3, <2>1 DEF OpBacked
      <4>3. QED
        BY <1>4, <2>1, <4>1, <4>2 DEF BackedInv, PublicationBacked, Published
    <3>3. QED
      BY <2>1, <3>1, <3>2
  <2>4. QED
    BY <2>1, <2>2, <2>3, EndBacked DEF BackedInv, Ended
<1>13. QED
  BY <1>6, <1>7, <1>8, <1>9, <1>10, <1>11, <1>12 DEF WorkerStep

\* The start of a worker: what it saw issued is issued.
LEMMA RequestBacked ==
    ASSUME TypeOK, BackedInv, Request
    PROVE  BackedInv'
<1>1. ASSUME NEW v \in Verifs, NEW o \in Orgs, NEW k \in VerifyKeys, NEW i \in Ids,
             Verify(v, o, k, i)
      PROVE  BackedInv'
  <2>1. \A p \in Orgs : life'[p].key = life[p].key /\ life'[p].bound = life[p].bound
    BY <1>1 DEF Verify, TypeOK, Life
  <2>2. Grows /\ KeyInBound'
    BY <1>1, <2>1 DEF Verify, Grows, BackedInv, KeyInBound
  <2>3. UNCHANGED <<docs, ops>>
    BY <1>1 DEF Verify
  <2>4. QED
    BY <2>2, <2>3, UnmovedBacked, PublishedKept DEF BackedInv
<1>2. ASSUME NEW v \in Verifs, Expire(v)
      PROVE  BackedInv'
  BY <1>2 DEF Expire, BackedInv, PublicationBacked, Published, KeyInBound, OpBacked, Midway
<1>3. ASSUME UNCHANGED <<issued, life>>
      PROVE  Grows /\ KeyInBound'
  BY <1>3 DEF Grows, BackedInv, KeyInBound
<1>4. ASSUME NEW v \in Verifs, NEW x \in Ops, PollStart(x, v)
      PROVE  BackedInv'
  <2> DEFINE op == [IdleOp EXCEPT !.kind = "verify", !.step = "ledger", !.verif = v,
                                  !.org = verifs[v].org, !.key = verifs[v].key,
                                  !.sameAs = verifs[v].sameAs]
  <2>1. ops' = [ops EXCEPT ![x] = op] /\ op.kind = "verify"
    BY <1>4 DEF PollStart, IdleOp
  <2> HIDE DEF op
  <2>2. UNCHANGED <<issued, life, docs>>
    BY <1>4 DEF PollStart
  <2>3. QED
    BY <1>3, <2>1, <2>2, VerifyBacked, PublishedKept DEF BackedInv
<1>5. ASSUME NEW x \in Ops, NEW o \in Orgs, NEW k \in CreateKeys, NEW i \in ClientIds,
             CreateStart(x, o, k, i) \/ RemoveStart(x, o, k, i)
      PROVE  BackedInv'
  <2>1. UNCHANGED <<issued, life, docs>>
    BY <1>5 DEF CreateStart, RemoveStart, StartWorker
  <2>2. PICK op : /\ ops' = [ops EXCEPT ![x] = op]
                  /\ op.step = "readBindings" /\ op.org = o
                  /\ op.kind = "create" => op.sawIssued = issued[o]
    <3>1. CASE CreateStart(x, o, k, i)
      <4> DEFINE create == [IdleOp EXCEPT !.kind = "create", !.step = "readBindings",
                                          !.org = o, !.key = k, !.sameAs = i,
                                          !.sawIssued = issued[o]]
      <4>1. /\ create.step = "readBindings" /\ create.org = o
            /\ create.sawIssued = issued[o]
        BY DEF IdleOp
      <4>2. ops' = [ops EXCEPT ![x] = create]
        BY <3>1 DEF CreateStart, StartWorker
      <4> HIDE DEF create
      <4>3. QED
        BY <4>1, <4>2
    <3>2. CASE RemoveStart(x, o, k, i)
      <4> DEFINE remove == [IdleOp EXCEPT !.kind = "remove", !.step = "readBindings",
                                          !.org = o, !.key = k, !.sameAs = i]
      <4>1. remove.step = "readBindings" /\ remove.org = o /\ remove.kind = "remove"
        BY DEF IdleOp
      <4>2. ops' = [ops EXCEPT ![x] = remove]
        BY <3>2 DEF RemoveStart, StartWorker
      <4> HIDE DEF remove
      <4>3. QED
        BY <4>1, <4>2
    <3>3. QED
      BY <1>5, <3>1, <3>2
  <2>3. ops'[x] = op /\ \A y \in Ops \ {x} : ops'[y] = ops[y]
    BY <2>2 DEF TypeOK, OpsOK
  <2>4. OpBacked(x)'
    BY <2>1, <2>2, <2>3 DEF OpBacked
  <2>5. QED
    BY <1>3, <2>1, <2>3, <2>4, StepBacked, PublishedKept DEF BackedInv
<1>6. QED
  BY <1>1, <1>2, <1>4, <1>5 DEF Request

\* A restart on "mem" forgets what is published with what backs it; on the
\* other providers it leaves both.
LEMMA RestartBacked ==
    ASSUME TypeOK, BackedInv, Restart
    PROVE  BackedInv'
<1>1. \A x \in Ops : ops'[x].step \in Ended
  BY DEF Restart, Midway, IdleOp, Ended
<1>2. \A x \in Ops : OpBacked(x)'
  BY <1>1 DEF OpBacked, Midway, Ended
<1>3. PublicationBacked' /\ KeyInBound'
  <2>1. CASE Provider = "mem"
    <3>1. NoDoc.status # "confirmed" /\ NewLife.key = None
      BY DEF NoDoc, NewLife
    <3>2. \A o \in Orgs : docs'[o] = NoDoc /\ life'[o] = NewLife
      BY <2>1 DEF Restart
    <3>3. QED
      BY <3>1, <3>2 DEF PublicationBacked, Published, KeyInBound
  <2>2. CASE Provider # "mem"
    BY <2>2 DEF Restart, BackedInv, PublicationBacked, Published, KeyInBound
  <2>3. QED
    BY <2>1, <2>2
<1>4. QED
  BY <1>2, <1>3 DEF BackedInv

LEMMA BackedInit == Init => BackedInv
BY DEF Init, BackedInv, PublicationBacked, Published, KeyInBound, OpBacked, Midway,
       Ended, NoDoc, NewLife, IdleOp

LEMMA BackedStep == Required /\ TypeOK /\ BackedInv /\ [Next]_vars => BackedInv'
<1> SUFFICES ASSUME Required, TypeOK, BackedInv, [Next]_vars
             PROVE  BackedInv'
  OBVIOUS
<1>1. CASE Next
  BY <1>1, PollStepBacked, WorkerStepBacked, RequestBacked, RestartBacked DEF Next
<1>2. CASE UNCHANGED vars
  BY <1>2 DEF vars, BackedInv, PublicationBacked, Published, KeyInBound, OpBacked, Midway
<1>3. QED
  BY <1>1, <1>2

\* Where the collections are required, on every provider and whatever overlaps,
\* fails or is lost: a published document has an issued credential behind it
\* and a key that was stored as the organization's controller key.
THEOREM BackedCorrect ==
    ASSUME Required
    PROVE  Spec => []PublicationBacked
<1>1. Init => TypeOK /\ BackedInv
  BY TypeInit, BackedInit
<1>2. TypeOK /\ BackedInv /\ [Next]_vars => (TypeOK /\ BackedInv)'
  BY TypeStep, BackedStep
<1>3. BackedInv => PublicationBacked
  BY DEF BackedInv
<1>4. QED
  BY <1>1, <1>2, <1>3, PTL DEF Spec

-----------------------------------------------------------------------------
(* The default deployment: the memory provider, rebinding off, and a        *)
(* controller key in every _verify.  For any organizations, keys, jobs and  *)
(* overlapping operations the two records agree.  LifecycleKeyless and      *)
(* LifecycleRemoveRace show that the conditions are needed.                 *)

\* The three conditions.
Default == Provider = "mem" /\ ~AllowRebind /\ None \notin VerifyKeys

\* Every stored binding has a key.
KeyKept == \A o \in Orgs : bindings[o].status = "absent" <=> bindings[o].key = None

VerifsKeyed == \A v \in Verifs : verifs[v].status = "succeeded" => verifs[v].key # None

\* The two records of o agree.
Settled(o) ==
    /\ Published(o) => /\ bindings[o].status \in {"draft", "confirmed"}
                       /\ bindings[o].key = docs[o].key
    /\ bindings[o].status = "confirmed" => Published(o)

\* They do, but between the two writes of a worker.
SettledButMidway ==
    \A o \in Orgs : Settled(o) \/ \E x \in Ops : ops[x].org = o /\ ops[x].step = "storeDocs"

\* The key to be written is the bound one, or there is none in force.
Continues(b, w) == w.key # None /\ (b.key = w.key \/ b.status = "absent")

\* What operation op knows of the binding b of its organization.
OpFits(op, b) ==
    /\ op.step \in {"ledger", "readBindings"} /\ op.kind = "verify" => op.key # None
    /\ op.step = "storeIssued" \/ (op.step = "storeBindings" /\ op.kind = "verify") =>
        /\ op.write.status = "draft"
        /\ Continues(b, op.write) \/ (b.status = "removed" /\ op.write.key # None)
    /\ op.step = "readDocs" => op.seen = b
    /\ op.step = "storeBindings" /\ op.kind = "create" =>
        /\ b.status # "removed" /\ Continues(b, op.write)
        /\ op.write.status = "confirmed"
        /\ op.doc.status = "confirmed" /\ op.doc.key = op.write.key
    /\ op.step = "storeBindings" /\ op.kind = "remove" =>
        /\ op.write.status = "removed" /\ op.write.key # None
        /\ op.doc.status = "removed"
    /\ op.step = "storeDocs" /\ op.kind = "create" =>
        /\ b.status = "confirmed" /\ op.doc.status = "confirmed" /\ op.doc.key = b.key
    /\ op.step = "storeDocs" /\ op.kind = "remove" =>
        b.status = "removed" /\ op.doc.status = "removed"

OpsFit == \A x \in Ops : Midway(x) => OpFits(ops[x], bindings[ops[x].org])

GovernedInv == KeyKept /\ VerifsKeyed /\ SettledButMidway /\ OpsFit

-----------------------------------------------------------------------------
(* An operation takes a step.                                              *)

\* The others wait for the network or are over: they know nothing of a binding.
LEMMA OthersFit ==
    ASSUME Default, OpsFit, NEW x \in Ops, NEW y \in Ops \ {x}, MayRun(x),
           ops'[y] = ops[y]
    PROVE  (Midway(y) => OpFits(ops[y], bindings[ops[y].org]))'
<1>1. ops[y].step \in Ended \cup Network
  BY DEF MayRun, Default
<1>2. ops[y].step \in Network => OpFits(ops[y], bindings[ops[y].org])
  BY DEF OpsFit, Midway, Ended, Network
<1>3. QED
  BY <1>1, <1>2 DEF OpFits, Midway, Network

LEMMA OneStep ==
    ASSUME Default, TypeOK, OpsFit, NEW x \in Ops, MayRun(x), NEW op,
           ops' = [ops EXCEPT ![x] = op],
           op.step \notin Ended => OpFits(op, bindings'[op.org])
    PROVE  OpsFit'
<1>1. ops'[x] = op /\ \A y \in Ops \ {x} : ops'[y] = ops[y]
  BY DEF TypeOK, OpsOK
<1>2. (Midway(x) => OpFits(ops[x], bindings[ops[x].org]))'
  BY <1>1 DEF Midway
<1>3. QED
  BY <1>1, <1>2, OthersFit DEF OpsFit

\* Steps that write none of the records.
LEMMA RecordsRest ==
    ASSUME TypeOK, GovernedInv, UNCHANGED <<bindings, docs>>, NEW x \in Ops, NEW op,
           ops[x].step # "storeDocs", ops' = [ops EXCEPT ![x] = op]
    PROVE  (KeyKept /\ SettledButMidway)'
<1>1. \A y \in Ops \ {x} : ops'[y] = ops[y]
  BY DEF TypeOK, OpsOK
<1>2. ASSUME NEW o \in Orgs, NEW y \in Ops, ops[y].org = o, ops[y].step = "storeDocs"
      PROVE  ops'[y].org = o /\ ops'[y].step = "storeDocs"
  BY <1>1, <1>2
<1>3. \A o \in Orgs : Settled(o) <=> Settled(o)'
  BY DEF Settled, Published
<1>4. SettledButMidway'
  BY <1>2, <1>3 DEF GovernedInv, SettledButMidway
<1>5. QED
  BY <1>4 DEF GovernedInv, KeyKept

\* A step of x that writes nothing and leaves it as op.
LEMMA ReadStep ==
    ASSUME Default, TypeOK, GovernedInv, UNCHANGED <<bindings, docs>>,
           NEW x \in Ops, MayRun(x), NEW op,
           ops[x].step # "storeDocs", ops' = [ops EXCEPT ![x] = op],
           op.step \notin Ended => OpFits(op, bindings[op.org]),
           VerifsKeyed'
    PROVE  GovernedInv'
<1>1. OpsFit'
  BY OneStep DEF GovernedInv
<1>2. QED
  BY <1>1, RecordsRest DEF GovernedInv

LEMMA EndStep ==
    ASSUME Default, TypeOK, GovernedInv, UNCHANGED <<bindings, docs>>,
           NEW x \in Ops, MayRun(x), NEW how \in Ended,
           ops[x].step # "storeDocs", End(x, how), VerifsKeyed'
    PROVE  GovernedInv'
<1> DEFINE op == [IdleOp EXCEPT !.kind = ops[x].kind, !.org = ops[x].org, !.step = how]
<1>1. op.step \in Ended /\ ops' = [ops EXCEPT ![x] = op]
  BY DEF End, IdleOp
<1> HIDE DEF op
<1>2. QED
  BY <1>1, ReadStep

LEMMA GotoStep ==
    ASSUME Default, TypeOK, GovernedInv, UNCHANGED <<bindings, docs>>,
           NEW x \in Ops, MayRun(x), NEW step, ops[x].step # "storeDocs", Goto(x, step),
           OpFits([ops[x] EXCEPT !.step = step], bindings[ops[x].org]), VerifsKeyed'
    PROVE  GovernedInv'
<1> DEFINE op == [ops[x] EXCEPT !.step = step]
<1>1. ops' = [ops EXCEPT ![x] = op]
  BY DEF Goto, TypeOK, OpsOK
<1>2. op.org = ops[x].org
  BY DEF TypeOK, OpsOK, Operation
<1>3. OpFits(op, bindings[op.org])
  BY <1>2
<1> HIDE DEF op
<1>4. QED
  BY <1>1, <1>3, ReadStep

LEMMA FailedStep ==
    ASSUME Default, TypeOK, GovernedInv, UNCHANGED <<bindings, docs>>,
           NEW x \in Ops, MayRun(x), Midway(x), ops[x].kind = "verify",
           ops[x].step # "storeDocs", PollFailed(x)
    PROVE  GovernedInv'
<1>1. ops[x].verif \in Verifs
  BY DEF TypeOK, OpsOK
<1>2. VerifsKeyed'
  BY <1>1 DEF PollFailed, TypeOK, VerifsOK, Verification, GovernedInv, VerifsKeyed
<1>3. QED
  BY <1>2, EndStep DEF PollFailed, Ended

\* A binding with a key is written.
LEMMA WriteKeyed ==
    ASSUME Default, TypeOK, GovernedInv, NEW o \in Orgs, NEW w \in Binding,
           w.key # None, w.status # "absent", WriteBinding(o, w)
    PROVE  /\ KeyKept'
           /\ bindings' = [bindings EXCEPT ![o] = w]
<1>1. bindings' = [bindings EXCEPT ![o] = w]
  BY DEF WriteBinding, Stored, Default
<1>2. QED
  BY <1>1 DEF GovernedInv, KeyKept, TypeOK

\* While x may run no other operation is between two writes.
LEMMA SettledNow ==
    ASSUME Default, GovernedInv, NEW x \in Ops, MayRun(x), ops[x].step # "storeDocs",
           NEW o \in Orgs
    PROVE  Settled(o)
<1>1. \A y \in Ops : ops[y].step # "storeDocs"
  BY DEF MayRun, Default, Ended, Network
<1>2. QED
  BY <1>1 DEF GovernedInv, SettledButMidway

-----------------------------------------------------------------------------
(* Each kind of step keeps the invariant.                                  *)

\* The write of a poll: the key of the live binding, or the first of a lifecycle.
LEMMA PollWriteGoverned ==
    ASSUME Default, TypeOK, GovernedInv, NEW x \in Ops, PollStoreBinding(x),
           NEW o \in Orgs, o = ops[x].org
    PROVE  GovernedInv'
<1> DEFINE w == ops[x].write
           op == [ops[x] EXCEPT !.step = "sync"]
<1>1. /\ ops[x] \in Operation /\ o \in Orgs /\ w \in Binding /\ MayRun(x)
      /\ ops[x].kind = "verify" /\ ops[x].step = "storeBindings"
      /\ WriteBinding(o, w) /\ UNCHANGED <<docs, verifs>>
  BY DEF PollStoreBinding, At, TypeOK, OpsOK, Midway, Ended, Operation
<1>2. /\ w.status = "draft" /\ w.key # None
      /\ Continues(bindings[o], w) \/ bindings[o].status = "removed"
  BY <1>1 DEF GovernedInv, OpsFit, OpFits, Midway, Ended, Continues
<1>3. /\ KeyKept'
      /\ bindings' = [bindings EXCEPT ![o] = w]
  BY <1>1, <1>2, WriteKeyed
<1>4. /\ ops' = [ops EXCEPT ![x] = op]
      /\ op.step = "sync"
  BY <1>1 DEF PollStoreBinding, Goto, TypeOK, OpsOK, Operation
<1>5. OpsFit'
  <2>1. OpFits(op, bindings'[op.org])
    BY <1>4 DEF OpFits
  <2> HIDE DEF op
  <2>2. QED
    BY <1>1, <1>4, <2>1, OneStep DEF GovernedInv
<1>6. \A p \in Orgs : Settled(p)
  BY <1>1, SettledNow
<1>7. Settled(o)'
  <2>1. bindings'[o] = w
    BY <1>1, <1>3 DEF TypeOK
  <2>2. Published(o) => bindings[o].status \in {"draft", "confirmed"} /\ bindings[o].key = docs[o].key
    BY <1>1, <1>6 DEF Settled
  <2>3. Published(o) => w.key = docs[o].key
    BY <1>2, <2>2 DEF Continues
  <2>4. QED
    BY <1>1, <1>2, <2>1, <2>3 DEF Settled, Published
<1>8. \A p \in Orgs \ {o} : Settled(p)'
  BY <1>1, <1>3, <1>6 DEF Settled, Published, TypeOK
<1>9. QED
  BY <1>1, <1>3, <1>5, <1>7, <1>8 DEF GovernedInv, SettledButMidway, VerifsKeyed

\* The first write of a worker: its document is to follow.
LEMMA StoreBindingGoverned ==
    ASSUME Default, TypeOK, GovernedInv, NEW x \in Ops, StoreBinding(x),
           NEW o \in Orgs, o = ops[x].org
    PROVE  GovernedInv'
<1> DEFINE w == ops[x].write
           op == [ops[x] EXCEPT !.step = "storeDocs"]
<1>1. /\ ops[x] \in Operation /\ o \in Orgs /\ w \in Binding /\ MayRun(x)
      /\ ops[x].kind \in {"create", "remove"} /\ ops[x].step = "storeBindings"
      /\ WriteBinding(o, w) /\ UNCHANGED <<docs, verifs>>
  BY DEF StoreBinding, At, TypeOK, OpsOK, Midway, Ended, Operation
<1>2. OpFits(ops[x], bindings[o])
  BY <1>1 DEF GovernedInv, OpsFit, Midway, Ended
<1>3. w.status \in {"confirmed", "removed"} /\ w.key # None
  BY <1>1, <1>2 DEF OpFits, Continues
<1>4. /\ KeyKept'
      /\ bindings' = [bindings EXCEPT ![o] = w]
  BY <1>1, <1>3, WriteKeyed
<1>5. bindings'[o] = w /\ \A p \in Orgs \ {o} : bindings'[p] = bindings[p]
  BY <1>1, <1>4 DEF TypeOK
<1>6. /\ ops' = [ops EXCEPT ![x] = op]
      /\ op.step = "storeDocs" /\ op.org = o /\ op.kind = ops[x].kind /\ op.doc = ops[x].doc
  BY <1>1 DEF StoreBinding, Goto, TypeOK, OpsOK, Operation
<1> HIDE DEF op
<1>7. OpFits(op, bindings'[op.org])
  BY <1>1, <1>2, <1>5, <1>6 DEF OpFits
<1>8. OpsFit'
  BY <1>1, <1>6, <1>7, OneStep DEF GovernedInv
<1>9. \A p \in Orgs : Settled(p)
  BY <1>1, SettledNow
<1>10. SettledButMidway'
  <2>1. ops'[x].org = o /\ ops'[x].step = "storeDocs"
    BY <1>6 DEF TypeOK, OpsOK
  <2>2. \A p \in Orgs \ {o} : Settled(p)'
    BY <1>1, <1>5, <1>9 DEF Settled, Published
  <2>3. QED
    BY <2>1, <2>2 DEF SettledButMidway
<1>11. QED
  BY <1>1, <1>4, <1>8, <1>10 DEF GovernedInv, VerifsKeyed

\* The second write of a worker: the records agree again.
LEMMA StoreDocGoverned ==
    ASSUME Default, TypeOK, GovernedInv, NEW x \in Ops, StoreDoc(x),
           NEW o \in Orgs, o = ops[x].org
    PROVE  GovernedInv'
<1> DEFINE op == [IdleOp EXCEPT !.kind = ops[x].kind, !.org = ops[x].org, !.step = "succeeded"]
<1>1. /\ o \in Orgs /\ MayRun(x)
      /\ ops[x].kind \in {"create", "remove"} /\ ops[x].step = "storeDocs"
      /\ WriteDoc(o, ops[x].doc) /\ UNCHANGED <<bindings, verifs>>
  BY DEF StoreDoc, At, TypeOK, OpsOK, Midway, Ended
<1>2. OpFits(ops[x], bindings[o])
  BY <1>1 DEF GovernedInv, OpsFit, Midway, Ended
<1>3. ops' = [ops EXCEPT ![x] = op] /\ op.step \in Ended
  BY DEF StoreDoc, End, IdleOp, Ended
<1> HIDE DEF op
<1>4. OpsFit'
  BY <1>1, <1>3, OneStep DEF GovernedInv
<1>5. docs'[o] = ops[x].doc /\ \A p \in Orgs \ {o} : docs'[p] = docs[p]
  BY <1>1 DEF WriteDoc, TypeOK
<1>6. Settled(o)'
  BY <1>1, <1>2, <1>5 DEF OpFits, Settled, Published
<1>7. ASSUME NEW p \in Orgs \ {o}
      PROVE  Settled(p)' \/ \E y \in Ops : ops'[y].org = p /\ ops'[y].step = "storeDocs"
  <2>1. CASE Settled(p)
    BY <1>1, <1>5, <2>1 DEF Settled, Published
  <2>2. CASE \E y \in Ops : ops[y].org = p /\ ops[y].step = "storeDocs"
    <3>1. PICK y \in Ops : ops[y].org = p /\ ops[y].step = "storeDocs"
      BY <2>2
    <3>2. y # x
      BY <3>1
    <3>3. ops'[y] = ops[y]
      BY <1>3, <3>2 DEF TypeOK, OpsOK
    <3>4. QED
      BY <3>1, <3>3
  <2>3. QED
    BY <2>1, <2>2 DEF GovernedInv, SettledButMidway
<1>8. SettledButMidway'
  BY <1>6, <1>7 DEF SettledButMidway
<1>9. QED
  BY <1>1, <1>4, <1>8 DEF GovernedInv, KeyKept, VerifsKeyed

-----------------------------------------------------------------------------
(* Every step keeps the invariant.                                         *)

\* What a poll decided to write.
LEMMA DecideGoverned ==
    ASSUME Default, TypeOK, GovernedInv, NEW x \in Ops, PollDecide(x)
    PROVE  GovernedInv'
<1> DEFINE old == bindings[ops[x].org]
           new == Incoming(ops[x])
           op == Writing(ops[x], "storeIssued", Rebound(old, new), NoDoc)
<1>1. /\ ops[x].kind = "verify" /\ ops[x].step = "readBindings" /\ MayRun(x) /\ Midway(x)
      /\ UNCHANGED <<bindings, docs>>
  BY DEF PollDecide, At, Midway, Ended
<1>2. ops[x].org \in Orgs /\ ops[x] \in Operation
  BY <1>1 DEF TypeOK, OpsOK
<1>3. ops[x].key # None
  BY <1>1 DEF GovernedInv, OpsFit, OpFits
<1>4. CASE RebindRefused(old, new)
  BY <1>1, <1>4, FailedStep DEF PollDecide
<1>5. CASE ~RebindRefused(old, new)
  <2>1. ops' = [ops EXCEPT ![x] = op] /\ UNCHANGED verifs
    BY <1>2, <1>5 DEF PollDecide, TypeOK, OpsOK
  <2>2. new.status = "draft" /\ new.key = ops[x].key
    BY DEF Incoming
  <2>3. /\ Rebound(old, new).status = "draft"
        /\ Rebound(old, new).key = ops[x].key
    BY <2>2 DEF Rebound, Incoming
  <2>4. op.step = "storeIssued" /\ op.org = ops[x].org /\ op.write = Rebound(old, new)
    BY DEF Writing, IdleOp
  <2>5. old.key = ops[x].key \/ old.status \in {"absent", "removed"}
    <3>1. CASE old.key = None
      BY <1>2, <3>1 DEF GovernedInv, KeyKept
    <3>2. CASE old.key # None
      BY <1>3, <1>5, <2>2, <3>2 DEF RebindRefused, KeyChanges, Default
    <3>3. QED
      BY <3>1, <3>2
  <2>6. OpFits(op, bindings[op.org])
    BY <1>3, <2>3, <2>4, <2>5 DEF OpFits, Continues
  <2>7. VerifsKeyed'
    BY <2>1 DEF GovernedInv, VerifsKeyed
  <2> HIDE DEF op
  <2>8. QED
    BY <1>1, <2>1, <2>6, <2>7, ReadStep
<1>6. QED
  BY <1>4, <1>5

LEMMA PollGoverned ==
    ASSUME Default, TypeOK, GovernedInv, NEW x \in Ops, PollStep(x)
    PROVE  GovernedInv'
<1>1. CASE LedgerRecorded(x)
  <2>1. OpFits([ops[x] EXCEPT !.step = "readBindings"], bindings[ops[x].org])
    <3>1. ops[x] \in Operation /\ ops[x].step = "ledger" /\ ops[x].kind = "verify"
      BY <1>1 DEF LedgerRecorded, At, TypeOK, OpsOK
    <3>2. ops[x].key # None
      BY <3>1 DEF GovernedInv, OpsFit, OpFits, Midway, Ended
    <3>3. QED
      BY <3>1, <3>2 DEF OpFits, Operation
  <2>2. VerifsKeyed'
    BY <1>1 DEF LedgerRecorded, GovernedInv, VerifsKeyed
  <2>3. QED
    BY <1>1, <2>1, <2>2, GotoStep DEF LedgerRecorded, At
<1>2. CASE PollRefused(x)
  <2>1. QED
    BY <1>2, FailedStep DEF PollRefused, At, Midway, Ended, Default
<1>3. CASE PollDecide(x)
  BY <1>3, DecideGoverned
<1>4. CASE PollStoreIssued(x)
  <2>1. OpFits([ops[x] EXCEPT !.step = "storeBindings"], bindings[ops[x].org])
    <3>1. ops[x] \in Operation /\ ops[x].step = "storeIssued" /\ ops[x].kind = "verify"
      BY <1>4 DEF PollStoreIssued, At, TypeOK, OpsOK
    <3>2. OpFits(ops[x], bindings[ops[x].org])
      BY <3>1 DEF GovernedInv, OpsFit, Midway, Ended
    <3>3. QED
      BY <3>1, <3>2 DEF OpFits, Operation
  <2>2. VerifsKeyed'
    BY <1>4 DEF PollStoreIssued, GovernedInv, VerifsKeyed
  <2>3. QED
    BY <1>4, <2>1, <2>2, GotoStep DEF PollStoreIssued, At
<1>5. CASE PollStoreBinding(x)
  <2>1. PICK o \in Orgs : o = ops[x].org
    BY <1>5 DEF PollStoreBinding, At, TypeOK, OpsOK, Midway, Ended
  <2>2. QED
    BY <1>5, <2>1, PollWriteGoverned
<1>6. CASE PollSynced(x)
  <2>1. VerifsKeyed'
    BY <1>6 DEF PollSynced, GovernedInv, VerifsKeyed
  <2>2. QED
    BY <1>6, <2>1, EndStep DEF PollSynced, At, Ended
<1>7. CASE PollSyncFails(x)
  <2>1. QED
    <3>1. CASE PollFailed(x)
      BY <1>7, <3>1, FailedStep DEF PollSyncFails, At, Midway, Ended
    <3>2. CASE End(x, "succeeded") /\ UNCHANGED verifs
      <4>1. VerifsKeyed'
        BY <3>2 DEF GovernedInv, VerifsKeyed
      <4>2. QED
        BY <1>7, <3>2, <4>1, EndStep DEF PollSyncFails, At, Ended
    <3>3. QED
      BY <1>7, <3>1, <3>2 DEF PollSyncFails
<1>8. QED
  BY <1>1, <1>2, <1>3, <1>4, <1>5, <1>6, <1>7
     DEF PollStep, PollStoreIssuedFails, PollStoreBindingFails, Default

LEMMA WorkerGoverned ==
    ASSUME Default, TypeOK, GovernedInv, NEW x \in Ops, WorkerStep(x)
    PROVE  GovernedInv'
<1>1. CASE ReadBinding(x)
  <2> DEFINE op == [ops[x] EXCEPT !.step = "readDocs", !.seen = bindings[ops[x].org]]
  <2>1. ops[x] \in Operation /\ ops[x].step = "readBindings" /\ MayRun(x)
    BY <1>1 DEF ReadBinding, At, TypeOK, OpsOK
  <2>2. ops[x].kind # "verify"
    BY <1>1 DEF ReadBinding, At
  <2>3. ops' = [ops EXCEPT ![x] = op]
    BY <1>1 DEF ReadBinding, TypeOK, OpsOK
  <2>4. op.step = "readDocs" /\ op.org = ops[x].org /\ op.seen = bindings[op.org]
    BY <2>1 DEF Operation
  <2> HIDE DEF op
  <2>5. OpFits(op, bindings[op.org])
    BY <2>4 DEF OpFits
  <2>6. VerifsKeyed'
    BY <1>1 DEF ReadBinding, GovernedInv, VerifsKeyed
  <2>7. QED
    BY <1>1, <2>1, <2>3, <2>5, <2>6, ReadStep DEF ReadBinding
<1>2. ASSUME CreateDecide(x) \/ RemoveDecide(x)
      PROVE  /\ ops[x].step = "readDocs" /\ MayRun(x) /\ ops[x].org \in Orgs
             /\ ops[x].seen = bindings[ops[x].org]
             /\ ops[x].seen.status = "absent" <=> ops[x].seen.key = None
             /\ UNCHANGED <<bindings, docs, verifs>>
             /\ VerifsKeyed'
  <2>1. /\ ops[x].step = "readDocs" /\ MayRun(x) /\ Midway(x)
        /\ UNCHANGED <<bindings, docs, verifs>>
    BY <1>2 DEF CreateDecide, RemoveDecide, At, Midway, Ended
  <2>2. ops[x].org \in Orgs /\ ops[x].seen = bindings[ops[x].org]
    BY <2>1 DEF TypeOK, OpsOK, GovernedInv, OpsFit, OpFits
  <2>3. QED
    BY <2>1, <2>2 DEF GovernedInv, KeyKept, VerifsKeyed
<1>3. CASE CreateDecide(x)
  <2> DEFINE k == ChosenKey(ops[x])
             op == Writing(ops[x], "storeBindings",
                           [status |-> "confirmed", key |-> k,
                            sameAs |-> ops[x].sameAs, prev |-> None],
                           [status |-> "confirmed", key |-> k])
  <2>1. ops' = [ops EXCEPT ![x] = op] /\ ops[x].kind = "create"
    BY <1>3 DEF CreateDecide, At
  <2>2. /\ op.step = "storeBindings" /\ op.org = ops[x].org /\ op.kind = "create"
        /\ op.write.status = "confirmed" /\ op.write.key = k
        /\ op.doc.status = "confirmed" /\ op.doc.key = k
    BY <2>1 DEF Writing, IdleOp
  <2>3. /\ ops[x].seen.status # "removed" /\ k # None
        /\ ops[x].seen.key = k \/ ops[x].seen.key = None
    BY <1>3 DEF CreateDecide, CreateAccepted, ChosenKey
  <2> HIDE DEF op, k
  <2>4. OpFits(op, bindings[op.org])
    BY <1>2, <1>3, <2>2, <2>3 DEF OpFits, Continues
  <2>5. QED
    BY <1>2, <1>3, <2>1, <2>4, ReadStep
<1>4. CASE RemoveDecide(x)
  <2> DEFINE w == [ops[x].seen EXCEPT !.status = "removed"]
             d == [docs[ops[x].org] EXCEPT !.status = "removed"]
             op == Writing(ops[x], "storeBindings", w, d)
  <2>1. ops' = [ops EXCEPT ![x] = op] /\ ops[x].kind = "remove"
    BY <1>4 DEF RemoveDecide, At
  <2>2. w.status = "removed" /\ w.key = ops[x].seen.key /\ d.status = "removed"
    BY <1>2, <1>4 DEF TypeOK, Binding, Doc
  <2>3. ops[x].seen.key # None
    BY <1>2, <1>4 DEF RemoveDecide, RemoveAccepted
  <2> HIDE DEF w, d
  <2>4. /\ op.step = "storeBindings" /\ op.org = ops[x].org /\ op.kind = "remove"
        /\ op.write = w /\ op.doc = d
    BY <2>1 DEF Writing, IdleOp
  <2> HIDE DEF op
  <2>5. OpFits(op, bindings[op.org])
    BY <2>2, <2>3, <2>4 DEF OpFits
  <2>6. QED
    BY <1>2, <1>4, <2>1, <2>5, ReadStep
<1>5. CASE WorkerRefused(x)
  <2>1. ops[x].step # "storeDocs" /\ MayRun(x) /\ End(x, "failed")
    BY <1>5 DEF WorkerRefused, At
  <2>2. VerifsKeyed'
    BY <1>5 DEF WorkerRefused, GovernedInv, VerifsKeyed
  <2>3. QED
    BY <1>5, <2>1, <2>2, EndStep DEF WorkerRefused, Ended
<1>6. CASE StoreBinding(x)
  <2>1. PICK o \in Orgs : o = ops[x].org
    BY <1>6 DEF StoreBinding, At, TypeOK, OpsOK, Midway, Ended
  <2>2. QED
    BY <1>6, <2>1, StoreBindingGoverned
<1>7. CASE StoreDoc(x)
  <2>1. PICK o \in Orgs : o = ops[x].org
    BY <1>7 DEF StoreDoc, At, TypeOK, OpsOK, Midway, Ended
  <2>2. QED
    BY <1>7, <2>1, StoreDocGoverned
<1>8. QED
  BY <1>1, <1>3, <1>4, <1>5, <1>6, <1>7
     DEF WorkerStep, StoreBindingFails, StoreDocFails, Default

\* The bindings, the documents and the operations stay as they are.
LEMMA JobsGoverned ==
    ASSUME Default, TypeOK, GovernedInv, UNCHANGED <<bindings, docs, ops>>,
           VerifsKeyed'
    PROVE  GovernedInv'
<1>1. KeyKept' /\ OpsFit'
  BY DEF GovernedInv, KeyKept, OpsFit, OpFits, Midway
<1>2. SettledButMidway'
  BY DEF GovernedInv, SettledButMidway, Settled, Published
<1>3. QED
  BY <1>1, <1>2 DEF GovernedInv

LEMMA RequestGoverned ==
    ASSUME Default, TypeOK, GovernedInv, Request
    PROVE  GovernedInv'
<1>1. ASSUME NEW v \in Verifs, NEW o \in Orgs, NEW k \in VerifyKeys, NEW i \in Ids,
             Verify(v, o, k, i)
      PROVE  GovernedInv'
  <2>2. VerifsKeyed'
    BY <1>1 DEF Verify, GovernedInv, VerifsKeyed, Default, TypeOK, VerifsOK
  <2>3. QED
    BY <1>1, <2>2, JobsGoverned DEF Verify
<1>2. ASSUME NEW v \in Verifs, Expire(v)
      PROVE  GovernedInv'
  <2>1. VerifsKeyed'
    BY <1>2 DEF Expire, NoVerif, GovernedInv, VerifsKeyed, TypeOK, VerifsOK
  <2>2. QED
    BY <1>2, <2>1, JobsGoverned DEF Expire
<1>3. ASSUME NEW v \in Verifs, NEW x \in Ops, PollStart(x, v)
      PROVE  GovernedInv'
  <2> DEFINE op == [IdleOp EXCEPT !.kind = "verify", !.step = "ledger", !.verif = v,
                                  !.org = verifs[v].org, !.key = verifs[v].key,
                                  !.sameAs = verifs[v].sameAs]
  <2>1. /\ ops' = [ops EXCEPT ![x] = op] /\ ops[x].step # "storeDocs"
        /\ UNCHANGED <<bindings, docs, verifs>>
    BY <1>3 DEF PollStart, Ended
  <2>2. op.step = "ledger" /\ op.key = verifs[v].key
    BY DEF IdleOp
  <2>3. op.key # None
    BY <1>3, <2>2 DEF PollStart, GovernedInv, VerifsKeyed
  <2> HIDE DEF op
  <2>4. (KeyKept /\ SettledButMidway)'
    BY <2>1, RecordsRest
  <2>5. OpsFit'
    <3>1. ops'[x] = op /\ \A y \in Ops \ {x} : ops'[y] = ops[y]
      BY <2>1 DEF TypeOK, OpsOK
    <3>2. (Midway(x) => OpFits(ops[x], bindings[ops[x].org]))'
      BY <2>2, <2>3, <3>1 DEF OpFits
    <3>3. ASSUME NEW y \in Ops \ {x}
          PROVE  (Midway(y) => OpFits(ops[y], bindings[ops[y].org]))'
      BY <2>1, <3>1, <3>3 DEF GovernedInv, OpsFit, OpFits, Midway
    <3>4. QED
      BY <3>2, <3>3 DEF OpsFit
  <2>6. VerifsKeyed'
    BY <2>1 DEF GovernedInv, VerifsKeyed
  <2>7. QED
    BY <2>4, <2>5, <2>6 DEF GovernedInv
<1>4. ASSUME NEW x \in Ops, NEW op, StartWorker(x, op), op.step = "readBindings",
             op.kind # "verify"
      PROVE  GovernedInv'
  <2>1. /\ ops' = [ops EXCEPT ![x] = op] /\ ops[x].step # "storeDocs" /\ MayRun(x)
        /\ UNCHANGED <<bindings, docs, verifs>>
    BY <1>4 DEF StartWorker, Ended
  <2>2. OpFits(op, bindings[op.org])
    BY <1>4 DEF OpFits
  <2>3. VerifsKeyed'
    BY <2>1 DEF GovernedInv, VerifsKeyed
  <2>4. QED
    BY <2>1, <2>2, <2>3, ReadStep
<1>5. ASSUME NEW x \in Ops, NEW o \in Orgs, NEW k \in CreateKeys, NEW i \in ClientIds,
             CreateStart(x, o, k, i) \/ RemoveStart(x, o, k, i)
      PROVE  GovernedInv'
  BY <1>4, <1>5 DEF CreateStart, RemoveStart, IdleOp
<1>6. QED
  BY <1>1, <1>2, <1>3, <1>5 DEF Request

LEMMA RestartGoverned ==
    ASSUME Default, TypeOK, GovernedInv, Restart
    PROVE  GovernedInv'
<1>1. \A o \in Orgs : bindings'[o] = NoBinding /\ docs'[o] = NoDoc
  BY DEF Restart, Default
<1>2. KeyKept' /\ SettledButMidway'
  BY <1>1 DEF KeyKept, SettledButMidway, Settled, Published, NoBinding, NoDoc
<1>3. VerifsKeyed'
  BY DEF Restart, VerifsKeyed, NoVerif
<1>4. \A x \in Ops : ~Midway(x)'
  BY DEF Restart, Midway, Ended, IdleOp
<1>5. QED
  BY <1>2, <1>3, <1>4 DEF GovernedInv, OpsFit

LEMMA NextGoverned ==
    ASSUME Default, TypeOK, GovernedInv, [Next]_vars
    PROVE  GovernedInv'
<1>1. CASE Request
  BY <1>1, RequestGoverned
<1>2. ASSUME NEW x \in Ops, PollStep(x) \/ WorkerStep(x)
      PROVE  GovernedInv'
  BY <1>2, PollGoverned, WorkerGoverned
<1>3. CASE Restart
  BY <1>3, RestartGoverned
<1>4. CASE UNCHANGED vars
  BY <1>4, JobsGoverned DEF vars, GovernedInv, VerifsKeyed
<1>5. QED
  BY <1>1, <1>2, <1>3, <1>4 DEF Next

LEMMA InitGoverned == Default /\ Init => GovernedInv
BY DEF Init, GovernedInv, KeyKept, VerifsKeyed, SettledButMidway, Settled,
       Published, OpsFit, Midway, Ended, NoBinding, NoDoc, NoVerif, IdleOp

LEMMA GovernedConsistent == GovernedInv => PublicationConsistent
<1> SUFFICES ASSUME GovernedInv, NEW o \in Orgs, Quiet(o)
             PROVE  Settled(o)
  BY DEF PublicationConsistent, Settled
<1>1. \A x \in Ops : ~(ops[x].org = o /\ ops[x].step = "storeDocs")
  BY DEF Quiet, Ended, Network
<1>2. QED
  BY <1>1 DEF GovernedInv, SettledButMidway

-----------------------------------------------------------------------------
\* The invariant of the default deployment.
THEOREM Governed == Default => (Spec => []GovernedInv)
<1>1. SUFFICES ASSUME Default
               PROVE  Spec => []GovernedInv
  OBVIOUS
<1>2. Init => GovernedInv
  BY <1>1, InitGoverned
<1>3. TypeOK /\ GovernedInv /\ [Next]_vars => GovernedInv'
  BY <1>1, NextGoverned
<1>4. QED
  BY <1>2, <1>3, TypeCorrect, PTL DEF Spec

\* In the default deployment the binding and the document of an organization
\* agree whenever none of its operations is between its reads and its writes.
THEOREM RecordsAgree == Default => (Spec => []PublicationConsistent)
BY Governed, GovernedConsistent, PTL

-----------------------------------------------------------------------------
(* In the default deployment the detailed operations implement              *)
(* MembershipContract.  A publication or a departure happens when a worker  *)
(* writes the binding: what makes it one the contract allows is that the    *)
(* checks it made before still hold, which GovernedInv and this invariant   *)
(* say.                                                                     *)

\* An organization with a credential has a binding, but while a poll that
\* stored the one is about to store the other.
CredentialsBound ==
    \A o \in Orgs : issued[o] =>
        \/ bindings[o].status # "absent"
        \/ \E x \in Ops : /\ ops[x].org = o /\ ops[x].kind = "verify"
                          /\ ops[x].step = "storeBindings"

\* What operation op knows of the binding b and the document d of its
\* organization, besides what OpFits says.
OpBound(op, b, d) ==
    /\ op.kind = "verify" /\ op.step = "sync" => b.status # "absent"
    /\ op.kind = "create" /\ op.step \in {"readBindings", "readDocs"} /\ op.sawIssued =>
        b.status # "absent"
    /\ op.kind = "create" /\ op.step = "storeBindings" => b.status # "absent"
    /\ op.kind = "remove" /\ op.step = "storeBindings" => d.status = "confirmed"

OpsBound == \A x \in Ops : Midway(x) => OpBound(ops[x], bindings[ops[x].org], docs[ops[x].org])

MembershipInv == GovernedInv /\ CredentialsBound /\ OpsBound

\* No binding disappears.
BindingsStay == \A o \in Orgs : bindings[o].status # "absent" => bindings'[o].status # "absent"

\* Operation x becomes op; what the others know stays true.
LEMMA OneBound ==
    ASSUME Default, TypeOK, MembershipInv, BindingsStay,
           NEW x \in Ops, NEW op, ops' = [ops EXCEPT ![x] = op],
           MayRun(x) \/ UNCHANGED <<bindings, docs>>,
           op.step \notin Ended => OpBound(op, bindings'[op.org], docs'[op.org]),
           \A o \in Orgs : issued'[o] =>
               \/ issued[o] \/ bindings'[o].status # "absent"
               \/ op.org = o /\ op.kind = "verify" /\ op.step = "storeBindings",
           ops[x].kind = "verify" /\ ops[x].step = "storeBindings" =>
               bindings'[ops[x].org].status # "absent"
    PROVE  CredentialsBound' /\ OpsBound'
<1>1. ops'[x] = op /\ \A y \in Ops \ {x} : ops'[y] = ops[y]
  BY DEF TypeOK, OpsOK
<1>2. ASSUME NEW o \in Orgs, issued'[o], bindings'[o].status = "absent"
      PROVE  \E y \in Ops : /\ ops'[y].org = o /\ ops'[y].kind = "verify"
                            /\ ops'[y].step = "storeBindings"
  <2>1. CASE op.org = o /\ op.kind = "verify" /\ op.step = "storeBindings"
    BY <1>1, <2>1
  <2>2. CASE issued[o]
    <3>1. PICK y \in Ops : /\ ops[y].org = o /\ ops[y].kind = "verify"
                           /\ ops[y].step = "storeBindings"
      BY <1>2, <2>2 DEF MembershipInv, CredentialsBound, BindingsStay
    <3>2. y # x
      BY <1>2, <3>1
    <3>3. QED
      BY <1>1, <3>1, <3>2
  <2>3. QED
    BY <1>2, <2>1, <2>2
<1>3. ASSUME NEW y \in Ops \ {x}, Midway(y)
      PROVE  OpBound(ops[y], bindings'[ops[y].org], docs'[ops[y].org])
  <2>1. OpBound(ops[y], bindings[ops[y].org], docs[ops[y].org]) /\ ops[y].org \in Orgs
    BY <1>3 DEF MembershipInv, OpsBound, TypeOK, OpsOK
  <2>2. CASE UNCHANGED <<bindings, docs>>
    BY <2>1, <2>2
  <2>3. CASE MayRun(x)
    <3>1. ops[y].step \in Network
      BY <1>3, <2>3 DEF MayRun, Default, Midway
    <3>2. QED
      BY <2>1, <3>1 DEF OpBound, Network, BindingsStay
  <2>4. QED
    BY <2>2, <2>3
<1>4. OpsBound'
  BY <1>1, <1>3 DEF OpsBound, Midway
<1>5. QED
  BY <1>2, <1>4 DEF CredentialsBound

\* Steps that write no record and no credential.
LEMMA QuietBound ==
    ASSUME Default, TypeOK, MembershipInv, UNCHANGED <<issued, bindings, docs>>,
           NEW x \in Ops, NEW op, ops' = [ops EXCEPT ![x] = op],
           op.step \notin Ended => OpBound(op, bindings[op.org], docs[op.org]),
           ~(ops[x].kind = "verify" /\ ops[x].step = "storeBindings")
    PROVE  CredentialsBound' /\ OpsBound'
<1>1. BindingsStay
  BY DEF BindingsStay
<1>2. QED
  BY <1>1, OneBound

LEMMA EndBound ==
    ASSUME Default, TypeOK, MembershipInv, BindingsStay, NEW x \in Ops, MayRun(x),
           NEW how \in Ended, End(x, how),
           \A o \in Orgs : issued'[o] => issued[o] \/ bindings'[o].status # "absent",
           ~(ops[x].kind = "verify" /\ ops[x].step = "storeBindings")
    PROVE  CredentialsBound' /\ OpsBound'
<1> DEFINE op == [IdleOp EXCEPT !.kind = ops[x].kind, !.org = ops[x].org, !.step = how]
<1>1. op.step \in Ended /\ ops' = [ops EXCEPT ![x] = op]
  BY DEF End, IdleOp
<1> HIDE DEF op
<1>2. QED
  BY <1>1, OneBound

LEMMA PollBound ==
    ASSUME Default, TypeOK, MembershipInv, NEW x \in Ops, PollStep(x)
    PROVE  CredentialsBound' /\ OpsBound'
<1>1. MayRun(x) /\ ops[x] \in Operation /\ ops[x].org \in Orgs /\ ops[x].kind = "verify"
  BY DEF PollStep, LedgerRecorded, PollRefused, PollDecide, PollStoreIssued, PollStoreIssuedFails,
         PollStoreBinding, PollStoreBindingFails, PollSynced, PollSyncFails, At, TypeOK, OpsOK,
         Midway, Ended
<1>2. ASSUME NEW step, step \in {"readBindings", "storeBindings", "sync"}, Goto(x, step)
      PROVE  LET op == [ops[x] EXCEPT !.step = step]
             IN  /\ ops' = [ops EXCEPT ![x] = op]
                 /\ op.step = step /\ op.kind = "verify" /\ op.org = ops[x].org
  BY <1>1, <1>2 DEF Goto, TypeOK, OpsOK, Operation
<1>3. CASE LedgerRecorded(x)
  <2> DEFINE op == [ops[x] EXCEPT !.step = "readBindings"]
  <2>1. /\ ops' = [ops EXCEPT ![x] = op] /\ op.step = "readBindings" /\ op.kind = "verify"
        /\ ops[x].step = "ledger" /\ UNCHANGED <<issued, bindings, docs>>
    BY <1>2, <1>3 DEF LedgerRecorded, At
  <2> HIDE DEF op
  <2>2. OpBound(op, bindings[op.org], docs[op.org])
    BY <2>1 DEF OpBound
  <2>3. QED
    BY <2>1, <2>2, QuietBound
<1>4. ASSUME PollFailed(x), UNCHANGED <<issued, bindings, docs>>, ops[x].step # "storeBindings"
      PROVE  CredentialsBound' /\ OpsBound'
  BY <1>1, <1>4, EndBound DEF PollFailed, BindingsStay, Ended
<1>5. CASE PollRefused(x)
  BY <1>4, <1>5 DEF PollRefused, At
<1>6. CASE PollDecide(x)
  <2> DEFINE old == bindings[ops[x].org]
             new == Incoming(ops[x])
             op == Writing(ops[x], "storeIssued", Rebound(old, new), NoDoc)
  <2>1. op.step = "storeIssued"
    BY DEF Writing, IdleOp
  <2>2. /\ ops[x].step = "readBindings" /\ UNCHANGED <<issued, bindings, docs>>
        /\ PollFailed(x) \/ ops' = [ops EXCEPT ![x] = op]
    BY <1>6 DEF PollDecide, At, TypeOK, OpsOK
  <2> HIDE DEF op
  <2>3. OpBound(op, bindings[op.org], docs[op.org])
    BY <2>1 DEF OpBound
  <2>4. QED
    BY <1>4, <2>2, <2>3, QuietBound
<1>7. CASE PollStoreIssued(x)
  <2> DEFINE op == [ops[x] EXCEPT !.step = "storeBindings"]
  <2>1. /\ ops' = [ops EXCEPT ![x] = op] /\ op.step = "storeBindings" /\ op.kind = "verify"
        /\ op.org = ops[x].org
        /\ ops[x].step = "storeIssued" /\ UNCHANGED <<bindings, docs>>
    BY <1>2, <1>7 DEF PollStoreIssued, At
  <2> HIDE DEF op
  <2>2. \A o \in Orgs : issued'[o] => issued[o] \/ op.org = o
    BY <1>7, <2>1 DEF PollStoreIssued, TypeOK
  <2>3. OpBound(op, bindings'[op.org], docs'[op.org])
    BY <2>1 DEF OpBound
  <2>4. QED
    BY <1>1, <2>1, <2>2, <2>3, OneBound DEF BindingsStay
<1>8. CASE PollStoreBinding(x)
  <2> DEFINE op == [ops[x] EXCEPT !.step = "sync"]
             w == ops[x].write
  <2>1. /\ ops' = [ops EXCEPT ![x] = op] /\ op.step = "sync" /\ op.kind = "verify"
        /\ op.org = ops[x].org /\ ops[x].step = "storeBindings"
        /\ bindings' = [bindings EXCEPT ![ops[x].org] = w] /\ UNCHANGED <<issued, docs>>
    BY <1>2, <1>8 DEF PollStoreBinding, At, WriteBinding, Stored, Default
  <2>2. w.status = "draft"
    BY <1>1, <2>1 DEF MembershipInv, GovernedInv, OpsFit, OpFits, Midway, Ended
  <2> HIDE DEF op, w
  <2>3. bindings'[ops[x].org].status # "absent" /\ BindingsStay
    BY <1>1, <2>1, <2>2 DEF BindingsStay, TypeOK
  <2>4. OpBound(op, bindings'[op.org], docs'[op.org])
    BY <2>1, <2>3 DEF OpBound
  <2>5. QED
    BY <1>1, <2>1, <2>3, <2>4, OneBound
<1>9. CASE PollSynced(x) \/ PollSyncFails(x)
  <2>1. /\ ops[x].step = "sync" /\ UNCHANGED <<bindings, docs>>
        /\ End(x, "succeeded") \/ End(x, "failed")
        /\ \A o \in Orgs : issued'[o] => issued[o] \/ o = ops[x].org
    BY <1>1, <1>9 DEF PollSynced, PollSyncFails, PollFailed, At, TypeOK
  <2>2. bindings'[ops[x].org].status # "absent" /\ BindingsStay
    BY <1>1, <2>1 DEF MembershipInv, OpsBound, OpBound, Midway, Ended, BindingsStay
  <2>3. QED
    BY <1>1, <2>1, <2>2, EndBound DEF Ended
<1>10. QED
  BY <1>3, <1>5, <1>6, <1>7, <1>8, <1>9
     DEF PollStep, PollStoreIssuedFails, PollStoreBindingFails, Default

LEMMA WorkerBound ==
    ASSUME Default, TypeOK, MembershipInv, NEW x \in Ops, WorkerStep(x)
    PROVE  CredentialsBound' /\ OpsBound'
<1>1. /\ MayRun(x) /\ ops[x] \in Operation /\ ops[x].org \in Orgs
      /\ ops[x].kind \in {"create", "remove"} /\ Midway(x) /\ UNCHANGED issued
  BY DEF WorkerStep, ReadBinding, CreateDecide, RemoveDecide, WorkerRefused, StoreBinding,
         StoreBindingFails, StoreDoc, StoreDocFails, At, TypeOK, OpsOK, Midway, Ended
<1>2. OpBound(ops[x], bindings[ops[x].org], docs[ops[x].org]) /\ OpFits(ops[x], bindings[ops[x].org])
  BY <1>1 DEF MembershipInv, OpsBound, GovernedInv, OpsFit
<1>3. CASE ReadBinding(x)
  <2> DEFINE op == [ops[x] EXCEPT !.step = "readDocs", !.seen = bindings[ops[x].org]]
  <2>1. /\ ops' = [ops EXCEPT ![x] = op] /\ UNCHANGED <<bindings, docs>>
        /\ ops[x].step = "readBindings"
    BY <1>1, <1>3 DEF ReadBinding, At, TypeOK, OpsOK
  <2>2. /\ op.step = "readDocs" /\ op.org = ops[x].org /\ op.kind = ops[x].kind
        /\ op.sawIssued = ops[x].sawIssued
    BY <1>1 DEF Operation
  <2> HIDE DEF op
  <2>3. OpBound(op, bindings[op.org], docs[op.org])
    BY <1>1, <1>2, <2>1, <2>2 DEF OpBound
  <2>4. QED
    BY <1>1, <2>1, <2>3, QuietBound
<1>4. CASE CreateDecide(x)
  <2> DEFINE k == ChosenKey(ops[x])
             op == Writing(ops[x], "storeBindings",
                           [status |-> "confirmed", key |-> k,
                            sameAs |-> ops[x].sameAs, prev |-> None],
                           [status |-> "confirmed", key |-> k])
  <2>1. /\ ops' = [ops EXCEPT ![x] = op] /\ UNCHANGED <<bindings, docs>>
        /\ ops[x].step = "readDocs" /\ ops[x].kind = "create" /\ ops[x].sawIssued
    BY <1>4 DEF CreateDecide, CreateAccepted, At
  <2>2. op.step = "storeBindings" /\ op.org = ops[x].org /\ op.kind = "create"
    BY <2>1 DEF Writing, IdleOp
  <2> HIDE DEF op
  <2>3. OpBound(op, bindings[op.org], docs[op.org])
    BY <1>2, <2>1, <2>2 DEF OpBound
  <2>4. QED
    BY <1>1, <2>1, <2>3, QuietBound
<1>5. CASE RemoveDecide(x)
  <2> DEFINE w == [ops[x].seen EXCEPT !.status = "removed"]
             d == [docs[ops[x].org] EXCEPT !.status = "removed"]
             op == Writing(ops[x], "storeBindings", w, d)
  <2>1. /\ ops' = [ops EXCEPT ![x] = op] /\ UNCHANGED <<bindings, docs>>
        /\ ops[x].step = "readDocs" /\ ops[x].kind = "remove"
    BY <1>5 DEF RemoveDecide, At
  <2>2. op.step = "storeBindings" /\ op.org = ops[x].org /\ op.kind = "remove"
    BY <2>1 DEF Writing, IdleOp
  <2>3. docs[ops[x].org].status = "confirmed"
    BY <1>1, <1>5 DEF RemoveDecide, RemoveAccepted, TypeOK, Doc
  <2> HIDE DEF op
  <2>4. OpBound(op, bindings[op.org], docs[op.org])
    BY <2>2, <2>3 DEF OpBound
  <2>5. QED
    BY <1>1, <2>1, <2>4, QuietBound
<1>6. CASE WorkerRefused(x)
  BY <1>1, <1>6, EndBound DEF WorkerRefused, BindingsStay, Ended
<1>7. CASE StoreBinding(x)
  <2> DEFINE op == [ops[x] EXCEPT !.step = "storeDocs"]
             w == ops[x].write
  <2>1. /\ ops' = [ops EXCEPT ![x] = op] /\ op.step = "storeDocs"
        /\ ops[x].step = "storeBindings"
        /\ bindings' = [bindings EXCEPT ![ops[x].org] = w] /\ UNCHANGED docs
    BY <1>1, <1>7 DEF StoreBinding, Goto, At, WriteBinding, Stored, Default, TypeOK, OpsOK, Operation
  <2>2. w.status \in {"confirmed", "removed"}
    BY <1>1, <1>2, <2>1 DEF OpFits
  <2> HIDE DEF op, w
  <2>3. BindingsStay
    BY <1>1, <2>1, <2>2 DEF BindingsStay, TypeOK
  <2>4. OpBound(op, bindings'[op.org], docs'[op.org])
    BY <2>1 DEF OpBound
  <2>5. QED
    BY <1>1, <2>1, <2>3, <2>4, OneBound
<1>8. CASE StoreDoc(x)
  BY <1>1, <1>8, EndBound DEF StoreDoc, BindingsStay, Ended
<1>9. QED
  BY <1>3, <1>4, <1>5, <1>6, <1>7, <1>8
     DEF WorkerStep, StoreBindingFails, StoreDocFails, Default

LEMMA RequestBound ==
    ASSUME Default, TypeOK, MembershipInv, Request
    PROVE  CredentialsBound' /\ OpsBound'
<1>1. UNCHANGED <<issued, bindings, docs>>
  BY DEF Request, Verify, Expire, PollStart, CreateStart, RemoveStart, StartWorker
<1>2. CASE UNCHANGED ops
  BY <1>1, <1>2 DEF MembershipInv, CredentialsBound, OpsBound, Midway
<1>3. ASSUME NEW v \in Verifs, NEW x \in Ops, PollStart(x, v)
      PROVE  CredentialsBound' /\ OpsBound'
  <2> DEFINE op == [IdleOp EXCEPT !.kind = "verify", !.step = "ledger", !.verif = v,
                                  !.org = verifs[v].org, !.key = verifs[v].key,
                                  !.sameAs = verifs[v].sameAs]
  <2>1. ops' = [ops EXCEPT ![x] = op] /\ op.step = "ledger" /\ ops[x].step # "storeBindings"
    BY <1>3 DEF PollStart, IdleOp, Ended
  <2> HIDE DEF op
  <2>2. OpBound(op, bindings[op.org], docs[op.org])
    BY <2>1 DEF OpBound
  <2>3. QED
    BY <1>1, <2>1, <2>2, QuietBound
<1>4. ASSUME NEW x \in Ops, NEW o \in Orgs, NEW k \in CreateKeys, NEW i \in ClientIds,
             CreateStart(x, o, k, i)
      PROVE  CredentialsBound' /\ OpsBound'
  <2> DEFINE op == [IdleOp EXCEPT !.kind = "create", !.step = "readBindings",
                                  !.org = o, !.key = k, !.sameAs = i, !.sawIssued = issued[o]]
  <2>1. /\ ops' = [ops EXCEPT ![x] = op] /\ ops[x].step \in Ended /\ MayRun(x)
        /\ op.step = "readBindings" /\ op.org = o /\ op.kind = "create" /\ op.sawIssued = issued[o]
    BY <1>4 DEF CreateStart, StartWorker, IdleOp
  <2> HIDE DEF op
  <2>2. issued[o] => bindings[o].status # "absent"
    BY <2>1 DEF MembershipInv, CredentialsBound, MayRun, Default, Ended, Network
  <2>3. OpBound(op, bindings[op.org], docs[op.org])
    BY <2>1, <2>2 DEF OpBound
  <2>4. QED
    BY <1>1, <2>1, <2>3, QuietBound DEF Ended
<1>5. ASSUME NEW x \in Ops, NEW o \in Orgs, NEW k \in CreateKeys, NEW i \in ClientIds,
             RemoveStart(x, o, k, i)
      PROVE  CredentialsBound' /\ OpsBound'
  <2> DEFINE op == [IdleOp EXCEPT !.kind = "remove", !.step = "readBindings",
                                  !.org = o, !.key = k, !.sameAs = i]
  <2>1. /\ ops' = [ops EXCEPT ![x] = op] /\ ops[x].step \in Ended
        /\ op.step = "readBindings" /\ op.kind = "remove"
    BY <1>5 DEF RemoveStart, StartWorker, IdleOp
  <2> HIDE DEF op
  <2>2. OpBound(op, bindings[op.org], docs[op.org])
    BY <2>1 DEF OpBound
  <2>3. QED
    BY <1>1, <2>1, <2>2, QuietBound DEF Ended
<1>6. QED
  BY <1>2, <1>3, <1>4, <1>5 DEF Request, Verify, Expire

LEMMA MembershipInvNext ==
    ASSUME Default, TypeOK, MembershipInv, [Next]_vars
    PROVE  MembershipInv'
<1>1. GovernedInv'
  BY NextGoverned DEF MembershipInv
<1>2. Restart => CredentialsBound' /\ OpsBound'
  BY DEF Restart, Default, CredentialsBound, OpsBound, Midway, Ended, IdleOp
<1>3. UNCHANGED vars => CredentialsBound' /\ OpsBound'
  BY DEF vars, MembershipInv, CredentialsBound, OpsBound, Midway
<1>4. CredentialsBound' /\ OpsBound'
  BY <1>2, <1>3, RequestBound, PollBound, WorkerBound DEF Next
<1>5. QED
  BY <1>1, <1>4 DEF MembershipInv

LEMMA MembershipInvariant == ASSUME Default PROVE Spec => []MembershipInv
<1>1. Init => MembershipInv
  BY InitGoverned DEF Init, MembershipInv, CredentialsBound, OpsBound, Midway, Ended, IdleOp
<1>2. TypeOK /\ MembershipInv /\ [Next]_vars => MembershipInv'
  BY MembershipInvNext
<1>3. QED
  BY <1>1, <1>2, TypeCorrect, PTL DEF Spec

-----------------------------------------------------------------------------
(* The mapped standing of the organizations, at a step and after it.       *)

Members == [o \in Orgs |-> MemberOf(o)]

\* Where the steps of the contract start and end.
LEMMA MappedSteps ==
    /\ \A o, k : Contract!Verify(o, k) <=>
          /\ Members[o].key \in {None, k}
          /\ Members' = [Members EXCEPT ![o] =
                 [standing |-> IF Members[o].standing = "published" THEN "published" ELSE "verified",
                  key |-> k]]
    /\ \A o : Contract!Publish(o) <=>
          /\ Members[o].standing = "verified"
          /\ Members' = [Members EXCEPT ![o] = [Members[o] EXCEPT !.standing = "published"]]
    /\ \A o : Contract!Leave(o) <=>
          /\ Members[o].standing = "published"
          /\ Members' = [Members EXCEPT ![o] = [standing |-> "left", key |-> None]]
    /\ Contract!Forget <=> Members' = [o \in Orgs |-> [standing |-> "unknown", key |-> None]]
    /\ UNCHANGED Members => UNCHANGED Contract!vars
BY DEF Contract!Verify, Contract!Publish, Contract!Leave, Contract!Forget, Contract!Outside,
       Contract!vars, Members

\* Where no worker of o is between its writes, the standing of o is that of its records.
LEMMA SettledMember ==
    ASSUME NEW o \in Orgs, Finishing(o) = {}
    PROVE  MemberOf(o) =
             IF docs[o].status = "confirmed"
                 THEN [standing |-> "published", key |-> docs[o].key]
             ELSE IF bindings[o].status = "removed" THEN [standing |-> "left", key |-> None]
             ELSE IF bindings[o].status = "absent" THEN [standing |-> "unknown", key |-> None]
             ELSE [standing |-> "verified", key |-> bindings[o].key]
BY DEF MemberOf, DocumentOf

\* Where one is, that of its binding and of what it will write.
LEMMA FinishingMember ==
    ASSUME NEW o \in Orgs, NEW x \in Ops, Finishing(o) = {x}
    PROVE  MemberOf(o) =
             IF ops[x].doc.status = "confirmed"
                 THEN [standing |-> "published", key |-> ops[x].doc.key]
             ELSE IF bindings[o].status = "removed" THEN [standing |-> "left", key |-> None]
             ELSE IF bindings[o].status = "absent" THEN [standing |-> "unknown", key |-> None]
             ELSE [standing |-> "verified", key |-> bindings[o].key]
<1>1. DocumentOf(o) = ops[x].doc
  BY DEF DocumentOf
<1>2. QED
  BY <1>1 DEF MemberOf

\* Nothing written, and the same workers between their writes.
LEMMA MembersRest ==
    ASSUME UNCHANGED <<bindings, docs>>,
           \A o \in Orgs : /\ Finishing(o)' = Finishing(o)
                           /\ \A x \in Finishing(o) : ops'[x].doc = ops[x].doc
    PROVE  UNCHANGED Members
<1>1. ASSUME NEW o \in Orgs
      PROVE  MemberOf(o)' = MemberOf(o)
  <2> DEFINE x == CHOOSE y \in Finishing(o) : TRUE
  <2>1. Finishing(o) # {} => x \in Finishing(o)
    OBVIOUS
  <2>2. DocumentOf(o)' = IF Finishing(o) = {} THEN docs[o] ELSE ops'[x].doc
    BY <1>1 DEF DocumentOf
  <2> HIDE DEF x
  <2>3. DocumentOf(o)' = IF Finishing(o) = {} THEN docs[o] ELSE ops[x].doc
    BY <1>1, <2>1, <2>2
  <2>4. DocumentOf(o)' = DocumentOf(o)
    BY <2>3 DEF DocumentOf, x
  <2>5. QED
    BY <1>1, <2>4 DEF MemberOf
<1>2. QED
  BY <1>1 DEF Members

\* A worker that may run is the only one between its writes, if it is.
LEMMA FinishingNow ==
    ASSUME Default, NEW x \in Ops, MayRun(x), NEW o \in Orgs
    PROVE  Finishing(o) = IF ops[x].step = "storeDocs" /\ ops[x].org = o THEN {x} ELSE {}
<1>1. \A y \in Ops \ {x} : ops[y].step # "storeDocs"
  BY DEF MayRun, Default, Ended, Network
<1>2. QED
  BY <1>1 DEF Finishing

LEMMA FinishingNext ==
    ASSUME Default, TypeOK, NEW x \in Ops, MayRun(x), NEW op, ops' = [ops EXCEPT ![x] = op],
           NEW o \in Orgs
    PROVE  Finishing(o)' = IF op.step = "storeDocs" /\ op.org = o THEN {x} ELSE {}
<1>1. \A y \in Ops \ {x} : ops[y].step # "storeDocs"
  BY DEF MayRun, Default, Ended, Network
<1>2. ops'[x] = op /\ \A y \in Ops \ {x} : ops'[y] = ops[y]
  BY DEF TypeOK, OpsOK
<1>3. QED
  BY <1>1, <1>2 DEF Finishing

\* A step that writes neither binding nor document is none of the contract.
LEMMA QuietMembers ==
    ASSUME Default, TypeOK, UNCHANGED <<bindings, docs>>, NEW x \in Ops, MayRun(x),
           ops[x].step # "storeDocs", NEW op, ops' = [ops EXCEPT ![x] = op],
           op.step # "storeDocs"
    PROVE  UNCHANGED Members
<1>1. \A o \in Orgs : Finishing(o) = {} /\ Finishing(o)' = {}
  BY FinishingNow, FinishingNext
<1>2. QED
  BY <1>1, MembersRest

\* A poll that writes the binding verifies the organization.
LEMMA PollStoreBindingVerifies ==
    ASSUME Default, TypeOK, MembershipInv, NEW x \in Ops, PollStoreBinding(x),
           NEW o \in Orgs, o = ops[x].org
    PROVE  Contract!Next
<1> DEFINE w == ops[x].write
           op == [ops[x] EXCEPT !.step = "sync"]
           b == bindings[o]
<1>1. /\ ops[x] \in Operation /\ w \in Binding /\ MayRun(x)
      /\ ops[x].kind = "verify" /\ ops[x].step = "storeBindings"
      /\ bindings' = [bindings EXCEPT ![o] = w] /\ UNCHANGED docs
  BY DEF PollStoreBinding, At, TypeOK, OpsOK, Operation, WriteBinding, Stored, Default
<1>2. /\ w.status = "draft" /\ w.key # None
      /\ Continues(b, w) \/ b.status = "removed"
  BY <1>1 DEF MembershipInv, GovernedInv, OpsFit, OpFits, Midway, Ended, Continues
<1>3. ops' = [ops EXCEPT ![x] = op] /\ op.step = "sync"
  BY <1>1 DEF PollStoreBinding, Goto, TypeOK, OpsOK, Operation
<1> HIDE DEF op
<1>4. \A p \in Orgs : Finishing(p) = {} /\ Finishing(p)' = {} /\ Settled(p)
  BY <1>1, <1>3, FinishingNow, FinishingNext, SettledNow DEF MembershipInv
<1>5. \A p \in Orgs \ {o} : MemberOf(p)' = MemberOf(p)
  BY <1>1, <1>4, SettledMember DEF TypeOK, MemberOf, DocumentOf
<1>6. b \in Binding /\ bindings'[o] = w /\ docs'[o] = docs[o]
  BY <1>1 DEF TypeOK
<1>7. CASE docs[o].status = "confirmed"
  <2>1. b.key = docs[o].key /\ docs[o].key = w.key
    BY <1>2, <1>4, <1>7 DEF Settled, Published, Continues
  <2>2. Members[o].standing = "published" /\ Members[o].key = w.key
    BY <1>4, <1>7, <2>1, SettledMember DEF Members
  <2>3. MemberOf(o)' = [standing |-> "published", key |-> w.key]
    BY <1>4, <1>6, <1>7, <2>1 DEF MemberOf, DocumentOf
  <2>4. Members' = [Members EXCEPT ![o] = [standing |-> "published", key |-> w.key]]
    BY <1>5, <2>3 DEF Members
  <2>5. Contract!Verify(o, w.key)
    BY <2>2, <2>4, MappedSteps
  <2>6. QED
    BY <1>1, <1>2, <2>5 DEF Contract!Next, Binding, KeyOrNone
<1>8. CASE docs[o].status # "confirmed"
  <2>1. Members[o].key \in {None, w.key} /\ Members[o].standing # "published"
    BY <1>2, <1>4, <1>8, SettledMember DEF Members, Continues
  <2>2. MemberOf(o)' = [standing |-> "verified", key |-> w.key]
    BY <1>2, <1>4, <1>6, <1>8 DEF MemberOf, DocumentOf
  <2>3. Members' = [Members EXCEPT ![o] = [standing |-> "verified", key |-> w.key]]
    BY <1>5, <2>2 DEF Members
  <2>4. Contract!Verify(o, w.key)
    BY <2>1, <2>3, MappedSteps
  <2>5. QED
    BY <1>1, <1>2, <2>4 DEF Contract!Next, Binding, KeyOrNone
<1>9. QED
  BY <1>7, <1>8

\* A _create that writes the binding publishes the organization, or confirms it
\* again; a _remove ends its membership.
LEMMA StoreBindingPublishesOrLeaves ==
    ASSUME Default, TypeOK, MembershipInv, NEW x \in Ops, StoreBinding(x),
           NEW o \in Orgs, o = ops[x].org
    PROVE  Contract!Next \/ UNCHANGED Contract!vars
<1> DEFINE w == ops[x].write
           d == ops[x].doc
           op == [ops[x] EXCEPT !.step = "storeDocs"]
           b == bindings[o]
<1>1. /\ ops[x] \in Operation /\ w \in Binding /\ MayRun(x)
      /\ ops[x].kind \in {"create", "remove"} /\ ops[x].step = "storeBindings"
      /\ bindings' = [bindings EXCEPT ![o] = w] /\ UNCHANGED docs
  BY DEF StoreBinding, At, TypeOK, OpsOK, Operation, WriteBinding, Stored, Default
<1>2. OpFits(ops[x], b) /\ OpBound(ops[x], b, docs[o])
  BY <1>1 DEF MembershipInv, GovernedInv, OpsFit, OpsBound, Midway, Ended
<1>3. /\ ops' = [ops EXCEPT ![x] = op] /\ op.step = "storeDocs" /\ op.org = o /\ op.doc = d
      /\ ops'[x] = op
  BY <1>1 DEF StoreBinding, Goto, TypeOK, OpsOK, Operation
<1> HIDE DEF op
<1>4. \A p \in Orgs : /\ Finishing(p) = {} /\ Settled(p)
                      /\ Finishing(p)' = IF p = o THEN {x} ELSE {}
  BY <1>1, <1>3, FinishingNow, FinishingNext, SettledNow DEF MembershipInv
<1>5. \A p \in Orgs \ {o} : MemberOf(p)' = MemberOf(p)
  BY <1>1, <1>4 DEF TypeOK, MemberOf, DocumentOf
<1>6. b \in Binding /\ bindings'[o] = w
  BY <1>1 DEF TypeOK
<1>7. DocumentOf(o)' = d
  BY <1>3, <1>4 DEF DocumentOf
<1>8. CASE ops[x].kind = "create"
  <2>1. /\ b.status \in {"draft", "confirmed"} /\ b.key = w.key
        /\ d.status = "confirmed" /\ d.key = w.key
    BY <1>1, <1>2, <1>6, <1>8 DEF OpFits, OpBound, Continues, Binding
  <2>2. MemberOf(o)' = [standing |-> "published", key |-> w.key]
    BY <1>7, <2>1 DEF MemberOf
  <2>3. MemberOf(o) = [standing |-> IF docs[o].status = "confirmed" THEN "published" ELSE "verified",
                       key |-> w.key]
    BY <1>4, <2>1, SettledMember DEF Settled, Published
  <2>4. Members' = [Members EXCEPT ![o] = [standing |-> "published", key |-> w.key]]
    BY <1>5, <2>2 DEF Members
  <2>5. CASE docs[o].status = "confirmed"
    <3>1. Members' = Members
      BY <1>5, <2>2, <2>3, <2>5 DEF Members
    <3>2. QED
      BY <3>1, MappedSteps
  <2>6. CASE docs[o].status # "confirmed"
    <3>1. Members[o] = [standing |-> "verified", key |-> w.key]
      BY <2>3, <2>6 DEF Members
    <3>2. /\ Members[o].standing = "verified"
          /\ [Members[o] EXCEPT !.standing = "published"] = [standing |-> "published", key |-> w.key]
      BY <3>1
    <3>3. Members' = [Members EXCEPT ![o] = [Members[o] EXCEPT !.standing = "published"]]
      BY <2>4, <3>2
    <3>4. Contract!Publish(o)
      BY <3>2, <3>3, MappedSteps
    <3>5. QED
      BY <3>4 DEF Contract!Next
  <2>7. QED
    BY <2>5, <2>6
<1>9. CASE ops[x].kind = "remove"
  <2>1. w.status = "removed" /\ d.status = "removed" /\ docs[o].status = "confirmed"
    BY <1>1, <1>2, <1>9 DEF OpFits, OpBound
  <2>2. MemberOf(o)' = [standing |-> "left", key |-> None]
    BY <1>6, <1>7, <2>1 DEF MemberOf
  <2>3. Members[o].standing = "published"
    BY <1>4, <2>1, SettledMember DEF Members
  <2>4. Members' = [Members EXCEPT ![o] = [standing |-> "left", key |-> None]]
    BY <1>5, <2>2 DEF Members
  <2>5. Contract!Leave(o)
    BY <2>3, <2>4, MappedSteps
  <2>6. QED
    BY <2>5 DEF Contract!Next
<1>10. QED
  BY <1>1, <1>8, <1>9

\* The second write was counted with the first.
LEMMA StoreDocStutters ==
    ASSUME Default, TypeOK, MembershipInv, NEW x \in Ops, StoreDoc(x),
           NEW o \in Orgs, o = ops[x].org
    PROVE  UNCHANGED Members
<1> DEFINE op == [IdleOp EXCEPT !.kind = ops[x].kind, !.org = ops[x].org, !.step = "succeeded"]
<1>1. /\ MayRun(x) /\ ops[x].step = "storeDocs"
      /\ docs' = [docs EXCEPT ![o] = ops[x].doc] /\ UNCHANGED bindings
  BY DEF StoreDoc, At, WriteDoc
<1>2. ops' = [ops EXCEPT ![x] = op] /\ op.step = "succeeded"
  BY DEF StoreDoc, End, IdleOp
<1> HIDE DEF op
<1>3. \A p \in Orgs : Finishing(p) = (IF p = o THEN {x} ELSE {}) /\ Finishing(p)' = {}
  BY <1>1, <1>2, FinishingNow, FinishingNext
<1>4. \A p \in Orgs : DocumentOf(p)' = DocumentOf(p)
  BY <1>1, <1>3 DEF DocumentOf, TypeOK
<1>5. QED
  BY <1>1, <1>4 DEF Members, MemberOf

LEMMA PollRefines ==
    ASSUME Default, TypeOK, MembershipInv, NEW x \in Ops, PollStep(x)
    PROVE  Contract!Next \/ UNCHANGED Contract!vars
<1>1. ops[x] \in Operation /\ ops[x].org \in Orgs /\ MayRun(x) /\ ops[x].step # "storeDocs"
  BY DEF PollStep, LedgerRecorded, PollRefused, PollDecide, PollStoreIssued, PollStoreIssuedFails,
         PollStoreBinding, PollStoreBindingFails, PollSynced, PollSyncFails, At, TypeOK, OpsOK,
         Midway, Ended
<1>2. CASE PollStoreBinding(x)
  BY <1>1, <1>2, PollStoreBindingVerifies
<1>3. ASSUME NEW how, End(x, how), how # "storeDocs", UNCHANGED <<bindings, docs>>
      PROVE  UNCHANGED Members
  <2> DEFINE op == [IdleOp EXCEPT !.kind = ops[x].kind, !.org = ops[x].org, !.step = how]
  <2>1. op.step = how /\ ops' = [ops EXCEPT ![x] = op]
    BY <1>3 DEF End, IdleOp
  <2> HIDE DEF op
  <2>2. QED
    BY <1>1, <1>3, <2>1, QuietMembers
<1>4. ASSUME NEW step, Goto(x, step), step # "storeDocs", UNCHANGED <<bindings, docs>>
      PROVE  UNCHANGED Members
  <2> DEFINE op == [ops[x] EXCEPT !.step = step]
  <2>1. op.step = step /\ ops' = [ops EXCEPT ![x] = op]
    BY <1>1, <1>4 DEF Goto, Operation, TypeOK, OpsOK
  <2> HIDE DEF op
  <2>2. QED
    BY <1>1, <1>4, <2>1, QuietMembers
<1>5. CASE PollDecide(x)
  <2> DEFINE op == Writing(ops[x], "storeIssued",
                           Rebound(bindings[ops[x].org], Incoming(ops[x])), NoDoc)
  <2>1. /\ op.step = "storeIssued" /\ UNCHANGED <<bindings, docs>>
        /\ End(x, "failed") \/ ops' = [ops EXCEPT ![x] = op]
    BY <1>5 DEF PollDecide, PollFailed, Writing, IdleOp, TypeOK, OpsOK
  <2> HIDE DEF op
  <2>2. QED
    BY <1>1, <1>3, <2>1, QuietMembers, MappedSteps
<1>6. QED
  BY <1>2, <1>3, <1>4, <1>5, MappedSteps
     DEF PollStep, LedgerRecorded, PollRefused, PollStoreIssued, PollSynced, PollSyncFails,
         PollFailed, PollStoreIssuedFails, PollStoreBindingFails, Default

LEMMA WorkerRefines ==
    ASSUME Default, TypeOK, MembershipInv, NEW x \in Ops, WorkerStep(x)
    PROVE  Contract!Next \/ UNCHANGED Contract!vars
<1>1. ops[x] \in Operation /\ ops[x].org \in Orgs /\ MayRun(x)
  BY DEF WorkerStep, ReadBinding, CreateDecide, RemoveDecide, WorkerRefused, StoreBinding,
         StoreBindingFails, StoreDoc, StoreDocFails, At, TypeOK, OpsOK, Midway, Ended
<1>2. CASE StoreBinding(x)
  BY <1>1, <1>2, StoreBindingPublishesOrLeaves
<1>3. CASE StoreDoc(x)
  BY <1>1, <1>3, StoreDocStutters, MappedSteps
<1>4. ASSUME NEW op, op.step # "storeDocs", ops[x].step # "storeDocs",
             ops' = [ops EXCEPT ![x] = op], UNCHANGED <<bindings, docs>>
      PROVE  UNCHANGED Contract!vars
  BY <1>1, <1>4, QuietMembers, MappedSteps
<1>5. CASE ReadBinding(x)
  <2> DEFINE op == [ops[x] EXCEPT !.step = "readDocs", !.seen = bindings[ops[x].org]]
  <2>1. ops' = [ops EXCEPT ![x] = op] /\ op.step = "readDocs"
    BY <1>1, <1>5 DEF ReadBinding, TypeOK, OpsOK, Operation
  <2> HIDE DEF op
  <2>2. QED
    BY <1>4, <1>5, <2>1 DEF ReadBinding, At
<1>6. ASSUME NEW b, NEW d, ops' = [ops EXCEPT ![x] = Writing(ops[x], "storeBindings", b, d)],
             ops[x].step = "readDocs", UNCHANGED <<bindings, docs>>
      PROVE  UNCHANGED Contract!vars
  <2>1. Writing(ops[x], "storeBindings", b, d).step = "storeBindings"
    BY DEF Writing, IdleOp
  <2>2. QED
    BY <1>4, <1>6, <2>1
<1>7. CASE CreateDecide(x) \/ RemoveDecide(x)
  BY <1>6, <1>7 DEF CreateDecide, RemoveDecide, At
<1>8. CASE WorkerRefused(x)
  <2> DEFINE op == [IdleOp EXCEPT !.kind = ops[x].kind, !.org = ops[x].org, !.step = "failed"]
  <2>1. ops' = [ops EXCEPT ![x] = op] /\ op.step = "failed"
    BY <1>8 DEF WorkerRefused, End, IdleOp
  <2> HIDE DEF op
  <2>2. QED
    BY <1>4, <1>8, <2>1 DEF WorkerRefused, At
<1>9. QED
  BY <1>2, <1>3, <1>5, <1>7, <1>8 DEF WorkerStep, StoreBindingFails, StoreDocFails, Default

\* A request is answered later: none of the contract.
LEMMA RequestStutters ==
    ASSUME Default, TypeOK, MembershipInv, Request
    PROVE  UNCHANGED Members
<1>1. UNCHANGED <<bindings, docs>>
  BY DEF Request, Verify, Expire, PollStart, CreateStart, RemoveStart, StartWorker
<1>2. CASE UNCHANGED ops
  BY <1>1, <1>2 DEF Members, MemberOf, DocumentOf, Finishing
<1>3. ASSUME NEW x \in Ops, NEW op, ops' = [ops EXCEPT ![x] = op],
             op.step # "storeDocs", ops[x].step # "storeDocs"
      PROVE  UNCHANGED Members
  <2>1. ops'[x] = op /\ \A y \in Ops \ {x} : ops'[y] = ops[y]
    BY <1>3 DEF TypeOK, OpsOK
  <2>2. \A o \in Orgs : Finishing(o)' = Finishing(o) /\ x \notin Finishing(o)
    BY <1>3, <2>1 DEF Finishing
  <2>3. \A o \in Orgs : \A y \in Finishing(o) : ops'[y].doc = ops[y].doc
    BY <2>1, <2>2 DEF Finishing
  <2>4. QED
    BY <1>1, <2>2, <2>3, MembersRest
<1>4. ASSUME NEW x \in Ops, NEW v \in Verifs, PollStart(x, v)
      PROVE  UNCHANGED Members
  <2> DEFINE op == [IdleOp EXCEPT !.kind = "verify", !.step = "ledger", !.verif = v,
                                  !.org = verifs[v].org, !.key = verifs[v].key,
                                  !.sameAs = verifs[v].sameAs]
  <2>1. ops' = [ops EXCEPT ![x] = op] /\ op.step = "ledger" /\ ops[x].step \in Ended
    BY <1>4 DEF PollStart, IdleOp
  <2> HIDE DEF op
  <2>2. QED
    BY <1>3, <2>1 DEF Ended
<1>5. ASSUME NEW x \in Ops, NEW op, StartWorker(x, op), op.step = "readBindings"
      PROVE  UNCHANGED Members
  BY <1>3, <1>5 DEF StartWorker, Ended
<1>6. ASSUME NEW x \in Ops, NEW o \in Orgs, NEW k \in CreateKeys, NEW i \in ClientIds,
             CreateStart(x, o, k, i) \/ RemoveStart(x, o, k, i)
      PROVE  UNCHANGED Members
  BY <1>5, <1>6 DEF CreateStart, RemoveStart, IdleOp
<1>7. QED
  BY <1>2, <1>4, <1>6 DEF Request, Verify, Expire

LEMMA RestartForgets ==
    ASSUME Default, Restart
    PROVE  Contract!Next
<1>1. \A o \in Orgs : Finishing(o)' = {} /\ docs'[o] = NoDoc /\ bindings'[o] = NoBinding
  BY DEF Restart, Default, Finishing, Midway, Ended, IdleOp
<1>2. \A o \in Orgs : MemberOf(o)' = [standing |-> "unknown", key |-> None]
  BY <1>1 DEF MemberOf, DocumentOf, NoDoc, NoBinding
<1>3. Contract!Forget
  BY <1>2, MappedSteps DEF Members
<1>4. QED
  BY <1>3 DEF Contract!Next

\* In the default deployment polls, _create and _remove implement
\* MembershipContract, for any organizations, keys, jobs and overlapping
\* operations.
THEOREM ImplementsMembership ==
    ASSUME Default
    PROVE  Spec => ImplementsMembershipContract
<1>1. Init => Contract!Init
  <2>1. ASSUME Init, NEW o \in Orgs
        PROVE  MemberOf(o) = [standing |-> "unknown", key |-> None]
    BY <2>1 DEF Init, MemberOf, DocumentOf, Finishing, NoBinding, NoDoc, IdleOp
  <2>2. QED
    BY <2>1 DEF Contract!Init, Contract!Outside
<1>2. ASSUME TypeOK, MembershipInv, [Next]_vars
      PROVE  [Contract!Next]_Contract!vars
  <2>1. CASE UNCHANGED vars
    <3>1. UNCHANGED Members
      BY <2>1 DEF vars, Members, MemberOf, DocumentOf, Finishing
    <3>2. QED
      BY <3>1, MappedSteps
  <2>2. CASE Next
    BY <1>2, <2>2, PollRefines, WorkerRefines, RequestStutters, RestartForgets, MappedSteps DEF Next
  <2>3. QED
    BY <1>2, <2>1, <2>2
<1>3. QED
  BY <1>1, <1>2, MembershipInvariant, TypeCorrect, PTL
     DEF Spec, ImplementsMembershipContract, Contract!Spec

-----------------------------------------------------------------------------
(* RebindRecorded, with rebinding on or off, and KeyGoverned with it off,   *)
(* on every provider.  What an operation is going to write was decided on a *)
(* binding read before; the record of a new key names the key it supersedes *)
(* because that binding is still the stored one: on "mem" nothing runs      *)
(* between, elsewhere one operation runs at a time.  A record without a key *)
(* would forget it, but for Firestore, which merges.                        *)

Undisturbed == Provider = "mem" \/ \A x, y \in Ops : x = y
Keyed == Provider = "firestore" \/ None \notin VerifyKeys

VerifsBindKeys ==
    Provider # "firestore" =>
        \A v \in Verifs : verifs[v].status = "succeeded" => verifs[v].key # None

\* The key of a lifecycle is that of its live binding.
LifeGoverned ==
    \A o \in Orgs :
        life[o].key = IF bindings[o].status \in {"draft", "confirmed"}
                      THEN bindings[o].key ELSE None

\* Writing w over b records the key it supersedes, and supersedes one only in
\* a closed lifecycle or where the policy lets it.
Records(b, w) == KeyChanges(b, w) => w.prev = b.key /\ (b.status = "removed" \/ AllowRebind)

\* What writes does not lose the key.
KeepsKey(w) == w.key # None \/ (Provider = "firestore" /\ w.status = "draft")

\* What operation op knows of the binding b of its organization.
OpRecords(op, b) ==
    /\ op.kind = "verify" /\ op.step \in {"ledger", "readBindings"} /\ Provider # "firestore" =>
        op.key # None
    /\ op.kind = "remove" /\ op.step \in {"readBindings", "readDocs"} => op.key # None
    /\ op.step = "readDocs" => op.seen = b
    /\ op.step \in {"storeIssued", "storeBindings"} =>
        op.write.status # "absent" /\ KeepsKey(op.write) /\ Records(b, op.write)

OpsRecord == \A x \in Ops : Midway(x) => OpRecords(ops[x], bindings[ops[x].org])

RecordingInv == VerifsBindKeys /\ LifeGoverned /\ OpsRecord

\* What a step does to keys.
KeysStep == RebindRecordedStep /\ (~AllowRebind => KeyGovernedStep)

RecordingStep == RecordingInv' /\ KeysStep

\* The others know nothing of a binding while x may run.
LEMMA OthersRecord ==
    ASSUME Undisturbed, OpsRecord, NEW x \in Ops, NEW y \in Ops \ {x}, MayRun(x),
           ops'[y] = ops[y]
    PROVE  (Midway(y) => OpRecords(ops[y], bindings[ops[y].org]))'
<1>1. ops[y].step \in Ended \cup Network
  BY DEF MayRun, Undisturbed
<1>2. ops[y].step \in Network => OpRecords(ops[y], bindings[ops[y].org])
  BY DEF OpsRecord, Midway, Ended, Network
<1>3. QED
  BY <1>1, <1>2 DEF OpRecords, Midway, Network

LEMMA OneRecords ==
    ASSUME Undisturbed, TypeOK, OpsRecord, NEW x \in Ops, MayRun(x), NEW op,
           ops' = [ops EXCEPT ![x] = op],
           op.step \notin Ended => OpRecords(op, bindings'[op.org])
    PROVE  OpsRecord'
<1>1. ops'[x] = op /\ \A y \in Ops \ {x} : ops'[y] = ops[y]
  BY DEF TypeOK, OpsOK
<1>2. (Midway(x) => OpRecords(ops[x], bindings[ops[x].org]))'
  BY <1>1 DEF Midway
<1>3. QED
  BY <1>1, <1>2, OthersRecord DEF OpsRecord

\* Nothing is written to a binding, so nothing has to be recorded.
LEMMA NothingBound ==
    ASSUME UNCHANGED <<bindings, life>>, LifeGoverned
    PROVE  KeysStep /\ LifeGoverned'
BY DEF KeysStep, RebindRecordedStep, KeyGovernedStep, KeyChanges, LifeGoverned

\* A step of x that writes no binding and leaves x as op.
LEMMA RestRecords ==
    ASSUME Undisturbed, TypeOK, RecordingInv, UNCHANGED <<bindings, life>>,
           NEW x \in Ops, MayRun(x), NEW op, ops' = [ops EXCEPT ![x] = op],
           op.step \notin Ended => OpRecords(op, bindings[op.org]),
           VerifsBindKeys'
    PROVE  RecordingStep
<1>1. OpsRecord'
  BY OneRecords DEF RecordingInv
<1>2. QED
  BY <1>1, NothingBound DEF RecordingStep, RecordingInv

LEMMA EndRecords ==
    ASSUME Undisturbed, TypeOK, RecordingInv, UNCHANGED <<bindings, life>>,
           NEW x \in Ops, MayRun(x), NEW how \in Ended, End(x, how), VerifsBindKeys'
    PROVE  RecordingStep
<1> DEFINE op == [IdleOp EXCEPT !.kind = ops[x].kind, !.org = ops[x].org, !.step = how]
<1>1. op.step \in Ended /\ ops' = [ops EXCEPT ![x] = op]
  BY DEF End, IdleOp
<1> HIDE DEF op
<1>2. QED
  BY <1>1, RestRecords

LEMMA GotoRecords ==
    ASSUME Undisturbed, TypeOK, RecordingInv, UNCHANGED <<bindings, life>>,
           NEW x \in Ops, MayRun(x), NEW step, Goto(x, step), VerifsBindKeys',
           OpRecords([ops[x] EXCEPT !.step = step], bindings[ops[x].org])
    PROVE  RecordingStep
<1> DEFINE op == [ops[x] EXCEPT !.step = step]
<1>1. ops' = [ops EXCEPT ![x] = op]
  BY DEF Goto, TypeOK, OpsOK
<1>2. op.org = ops[x].org
  BY DEF TypeOK, OpsOK, Operation
<1>3. OpRecords(op, bindings[op.org])
  BY <1>2
<1> HIDE DEF op
<1>4. QED
  BY <1>1, <1>3, RestRecords

\* The store of a poll that fails keeps what jobs bind.
LEMMA FailedVerifs ==
    ASSUME TypeOK, VerifsBindKeys, NEW x \in Ops, Midway(x), ops[x].kind = "verify",
           PollFailed(x)
    PROVE  VerifsBindKeys'
<1>1. ops[x].verif \in Verifs
  BY DEF TypeOK, OpsOK
<1>2. QED
  BY <1>1 DEF PollFailed, TypeOK, VerifsOK, Verification, VerifsBindKeys

\* A poll whose write threw, and the step it goes on with.
LEMMA WriteFailedRecords ==
    ASSUME Undisturbed, TypeOK, RecordingInv, NEW x \in Ops, MayRun(x), Midway(x),
           ops[x].kind = "verify", PollWriteFailed(x, "sync")
    PROVE  OpsRecord' /\ VerifsBindKeys'
<1>1. CASE PollFailed(x)
  <2> DEFINE op == [IdleOp EXCEPT !.kind = ops[x].kind, !.org = ops[x].org, !.step = "failed"]
  <2>1. op.step \in Ended /\ ops' = [ops EXCEPT ![x] = op]
    BY <1>1 DEF PollFailed, End, IdleOp, Ended
  <2> HIDE DEF op
  <2>2. QED
    BY <1>1, <2>1, OneRecords, FailedVerifs DEF RecordingInv
<1>2. CASE Goto(x, "sync") /\ UNCHANGED verifs
  <2> DEFINE op == [ops[x] EXCEPT !.step = "sync"]
  <2>1. op.step = "sync" /\ ops' = [ops EXCEPT ![x] = op]
    BY <1>2 DEF Goto, TypeOK, OpsOK, Operation
  <2> HIDE DEF op
  <2>2. OpRecords(op, bindings'[op.org])
    BY <2>1 DEF OpRecords
  <2>3. QED
    BY <1>2, <2>1, <2>2, OneRecords DEF RecordingInv, VerifsBindKeys
<1>3. QED
  BY <1>1, <1>2 DEF PollWriteFailed

\* What a write of w leaves, on every provider.
LEMMA WriteRecords ==
    ASSUME TypeOK, LifeGoverned, NEW o \in Orgs, NEW w \in Binding,
           w.status # "absent", KeepsKey(w), Records(bindings[o], w), WriteBinding(o, w)
    PROVE  LifeGoverned' /\ KeysStep
<1> DEFINE b == bindings[o]
           s == Stored(b, w)
<1>1. /\ b \in Binding /\ life[o] \in Life /\ s \in Binding
      /\ bindings' = [bindings EXCEPT ![o] = s]
      /\ life' = [life EXCEPT ![o] = LifeAfter(life[o], s)]
  BY StoredType DEF TypeOK, WriteBinding
<1>2. s.status = w.status /\ w.status \in {"draft", "confirmed", "removed"}
  BY DEF Stored, Binding
<1>3. s.key = IF w.key = None THEN b.key ELSE w.key
  BY DEF Stored, KeepsKey, Binding
<1>4. KeyChanges(b, s) => s.prev = b.key
  BY <1>3 DEF Stored, KeyChanges, Records, Binding
<1>5. life[o].key \in {b.key, None}
  BY DEF LifeGoverned
<1>6. s.key = None => life[o].key = None
  BY <1>3, <1>5
<1> HIDE DEF b, s
<1>7. LifeAfter(life[o], s).key = IF w.status \in {"draft", "confirmed"} THEN s.key ELSE None
  <2>1. CASE w.status = "removed"
    BY <1>1, <1>2, <2>1 DEF LifeAfter, Life
  <2>2. CASE w.status # "removed"
    BY <1>1, <1>2, <1>6, <2>2 DEF LifeAfter, Life
  <2>3. QED
    BY <2>1, <2>2
<1>8. /\ bindings'[o] = s /\ \A p \in Orgs \ {o} : bindings'[p] = bindings[p]
      /\ life'[o] = LifeAfter(life[o], s) /\ \A p \in Orgs \ {o} : life'[p] = life[p]
  BY <1>1 DEF TypeOK
<1>9. LifeGoverned'
  BY <1>2, <1>7, <1>8 DEF LifeGoverned
<1>10. KeyChanges(life[o], life'[o]) => KeyChanges(b, s) /\ life[o].key = b.key
  BY <1>5, <1>7, <1>8 DEF KeyChanges
<1>11. RebindRecordedStep
  BY <1>4, <1>8, <1>10 DEF RebindRecordedStep, KeyChanges, b
<1>12. ~AllowRebind => KeyGovernedStep
  <2>1. ASSUME ~AllowRebind, life[o].key # None, life'[o].key # None
        PROVE  life'[o].key = life[o].key
    <3>1. w.status # "removed" /\ life'[o].key = s.key
      BY <1>2, <1>7, <1>8, <2>1
    <3>2. b.status # "removed" /\ life[o].key = b.key
      BY <2>1 DEF LifeGoverned, b
    <3>3. ~KeyChanges(b, w)
      BY <2>1, <3>2 DEF Records, b
    <3>4. QED
      BY <1>3, <2>1, <3>1, <3>2, <3>3 DEF KeyChanges
  <2>2. QED
    BY <1>8, <2>1 DEF KeyGovernedStep
<1>13. QED
  BY <1>9, <1>11, <1>12 DEF KeysStep

\* What the binding write of x may be, written or not, and what becomes of x.
LEMMA StoreRecords ==
    ASSUME Undisturbed, TypeOK, RecordingInv, NEW x \in Ops, MayRun(x),
           ops[x].step = "storeBindings",
           WriteBinding(ops[x].org, ops[x].write) \/ UNCHANGED <<bindings, life>>
    PROVE  LifeGoverned' /\ KeysStep
<1>1. ops[x] \in Operation /\ ops[x].org \in Orgs /\ ops[x].write \in Binding /\ Midway(x)
  BY DEF TypeOK, OpsOK, Midway, Ended, Operation
<1>2. PICK o \in Orgs : o = ops[x].org
  BY <1>1
<1>3. PICK w \in Binding : w = ops[x].write
  BY <1>1
<1>4. w.status # "absent" /\ KeepsKey(w) /\ Records(bindings[o], w)
  BY <1>1, <1>2, <1>3 DEF RecordingInv, OpsRecord, OpRecords
<1>5. CASE WriteBinding(o, w)
  BY <1>4, <1>5, WriteRecords DEF RecordingInv
<1>6. CASE UNCHANGED <<bindings, life>>
  BY <1>6, NothingBound DEF RecordingInv
<1>7. QED
  BY <1>2, <1>3, <1>5, <1>6

LEMMA DecideRecords ==
    ASSUME Undisturbed, TypeOK, RecordingInv, NEW x \in Ops, PollDecide(x)
    PROVE  RecordingStep
<1> DEFINE old == bindings[ops[x].org]
           new == Incoming(ops[x])
           op == Writing(ops[x], "storeIssued", Rebound(old, new), NoDoc)
<1>1. /\ ops[x].kind = "verify" /\ ops[x].step = "readBindings" /\ MayRun(x) /\ Midway(x)
      /\ UNCHANGED <<bindings, life>>
  BY DEF PollDecide, At, Midway, Ended
<1>2. CASE PollFailed(x)
  BY <1>1, <1>2, FailedVerifs, EndRecords DEF PollFailed, Ended, RecordingInv
<1>3. CASE /\ ~RebindRefused(old, new)
           /\ ops' = [ops EXCEPT ![x] = Writing(@, "storeIssued", Rebound(old, new), NoDoc)]
           /\ UNCHANGED verifs
  <2>1. ops' = [ops EXCEPT ![x] = op]
    BY <1>3 DEF TypeOK, OpsOK
  <2>2. Provider # "firestore" => new.key # None
    BY <1>1 DEF RecordingInv, OpsRecord, OpRecords, Incoming
  <2>3. Rebound(old, new).status = "draft" /\ Rebound(old, new).key = new.key
    BY DEF Rebound, Incoming
  <2>4. Records(old, Rebound(old, new))
    BY <1>3, <2>3 DEF Records, Rebound, RebindRefused, KeyChanges, Incoming
  <2>5. op.step = "storeIssued" /\ op.org = ops[x].org /\ op.write = Rebound(old, new)
    BY DEF Writing, IdleOp
  <2>6. OpRecords(op, bindings[op.org])
    BY <2>2, <2>3, <2>4, <2>5 DEF OpRecords, KeepsKey
  <2>7. VerifsBindKeys'
    BY <1>3 DEF RecordingInv, VerifsBindKeys
  <2> HIDE DEF op
  <2>8. QED
    BY <1>1, <2>1, <2>6, <2>7, RestRecords
<1>4. QED
  BY <1>2, <1>3 DEF PollDecide

LEMMA PollRecords ==
    ASSUME Undisturbed, TypeOK, RecordingInv, NEW x \in Ops, PollStep(x)
    PROVE  RecordingStep
<1> USE DEF At
<1>1. MayRun(x) /\ Midway(x) /\ ops[x].kind = "verify" /\ ops[x] \in Operation
  BY DEF PollStep, LedgerRecorded, PollRefused, PollDecide, PollStoreIssued,
         PollStoreIssuedFails, PollStoreBinding, PollStoreBindingFails, PollSynced,
         PollSyncFails, Midway, Ended, TypeOK, OpsOK
<1>2. UNCHANGED verifs => VerifsBindKeys'
  BY DEF RecordingInv, VerifsBindKeys
<1>3. PollFailed(x) /\ UNCHANGED <<bindings, life>> => RecordingStep
  BY <1>1, FailedVerifs, EndRecords DEF PollFailed, Ended, RecordingInv
<1>4. OpRecords(ops[x], bindings[ops[x].org])
  BY <1>1 DEF RecordingInv, OpsRecord
<1>5. CASE LedgerRecorded(x)
  <2>1. OpRecords([ops[x] EXCEPT !.step = "readBindings"], bindings[ops[x].org])
    BY <1>1, <1>4, <1>5 DEF LedgerRecorded, OpRecords, Operation
  <2>2. QED
    BY <1>1, <1>2, <1>5, <2>1, GotoRecords DEF LedgerRecorded
<1>6. CASE PollRefused(x)
  BY <1>3, <1>6 DEF PollRefused
<1>7. CASE PollDecide(x)
  BY <1>7, DecideRecords
<1>8. CASE PollStoreIssued(x)
  <2>1. OpRecords([ops[x] EXCEPT !.step = "storeBindings"], bindings[ops[x].org])
    BY <1>1, <1>4, <1>8 DEF PollStoreIssued, OpRecords, Operation
  <2>2. QED
    BY <1>1, <1>2, <1>8, <2>1, GotoRecords DEF PollStoreIssued
<1>9. CASE PollStoreIssuedFails(x)
  BY <1>1, <1>9, WriteFailedRecords, NothingBound
     DEF PollStoreIssuedFails, RecordingStep, RecordingInv
<1>10. CASE PollStoreBinding(x) \/ PollStoreBindingFails(x)
  <2>1. LifeGoverned' /\ KeysStep
    BY <1>1, <1>10, StoreRecords DEF PollStoreBinding, PollStoreBindingFails
  <2>2. OpsRecord' /\ VerifsBindKeys'
    <3>1. CASE PollStoreBinding(x)
      <4> DEFINE op == [ops[x] EXCEPT !.step = "sync"]
      <4>1. op.step = "sync" /\ ops' = [ops EXCEPT ![x] = op]
        BY <1>1, <3>1 DEF PollStoreBinding, Goto, TypeOK, OpsOK, Operation
      <4> HIDE DEF op
      <4>2. OpRecords(op, bindings'[op.org])
        BY <4>1 DEF OpRecords
      <4>3. QED
        BY <1>1, <1>2, <3>1, <4>1, <4>2, OneRecords DEF PollStoreBinding, RecordingInv
    <3>2. CASE PollStoreBindingFails(x)
      BY <1>1, <3>2, WriteFailedRecords DEF PollStoreBindingFails
    <3>3. QED
      BY <1>10, <3>1, <3>2
  <2>3. QED
    BY <2>1, <2>2 DEF RecordingStep, RecordingInv
<1>11. CASE PollSynced(x)
  BY <1>1, <1>2, <1>11, EndRecords DEF PollSynced, Ended
<1>12. CASE PollSyncFails(x)
  <2>1. CASE PollFailed(x)
    BY <1>3, <1>12, <2>1 DEF PollSyncFails
  <2>2. CASE End(x, "succeeded") /\ UNCHANGED verifs
    BY <1>1, <1>2, <1>12, <2>2, EndRecords DEF PollSyncFails, Ended
  <2>3. QED
    BY <1>12, <2>1, <2>2 DEF PollSyncFails
<1>13. QED
  BY <1>5, <1>6, <1>7, <1>8, <1>9, <1>10, <1>11, <1>12 DEF PollStep

LEMMA WorkerRecords ==
    ASSUME Undisturbed, TypeOK, RecordingInv, NEW x \in Ops, WorkerStep(x)
    PROVE  RecordingStep
<1> USE DEF At
<1>1. MayRun(x) /\ Midway(x) /\ ops[x] \in Operation
  BY DEF WorkerStep, ReadBinding, CreateDecide, RemoveDecide, WorkerRefused, StoreBinding,
         StoreBindingFails, StoreDoc, StoreDocFails, Midway, Ended, TypeOK, OpsOK
<1>2. UNCHANGED verifs
  BY DEF WorkerStep, ReadBinding, CreateDecide, RemoveDecide, WorkerRefused, StoreBinding,
         StoreBindingFails, StoreDoc, StoreDocFails
<1>3. VerifsBindKeys'
  BY <1>2 DEF RecordingInv, VerifsBindKeys
<1>4. OpRecords(ops[x], bindings[ops[x].org])
  BY <1>1 DEF RecordingInv, OpsRecord
<1>5. CASE ReadBinding(x)
  <2> DEFINE op == [ops[x] EXCEPT !.step = "readDocs", !.seen = bindings[ops[x].org]]
  <2>1. ops' = [ops EXCEPT ![x] = op]
    BY <1>5 DEF ReadBinding, TypeOK, OpsOK
  <2>2. /\ op.step = "readDocs" /\ op.org = ops[x].org /\ op.seen = bindings[op.org]
        /\ op.kind = ops[x].kind /\ op.key = ops[x].key
    BY <1>1 DEF Operation
  <2> HIDE DEF op
  <2>3. OpRecords(op, bindings[op.org])
    BY <1>4, <1>5, <2>2 DEF OpRecords, ReadBinding
  <2>4. QED
    BY <1>1, <1>3, <1>5, <2>1, <2>3, RestRecords DEF ReadBinding
<1>6. CASE CreateDecide(x)
  <2> DEFINE k == ChosenKey(ops[x])
             w == [status |-> "confirmed", key |-> k, sameAs |-> ops[x].sameAs, prev |-> None]
             op == Writing(ops[x], "storeBindings", w, [status |-> "confirmed", key |-> k])
  <2>1. ops' = [ops EXCEPT ![x] = op] /\ ops[x].step = "readDocs"
    BY <1>6 DEF CreateDecide
  <2>2. /\ op.step = "storeBindings" /\ op.org = ops[x].org /\ op.kind = ops[x].kind
        /\ op.write = w
    BY DEF Writing, IdleOp
  <2>3. /\ ops[x].seen = bindings[ops[x].org]
        /\ k # None /\ ops[x].seen.key \in {k, None}
    BY <1>4, <1>6, <2>1 DEF CreateDecide, CreateAccepted, ChosenKey, OpRecords
  <2>4. w.status # "absent" /\ KeepsKey(w) /\ Records(bindings[ops[x].org], w)
    BY <2>3 DEF KeepsKey, Records, KeyChanges
  <2> HIDE DEF op, w, k
  <2>5. OpRecords(op, bindings[op.org])
    BY <2>2, <2>4 DEF OpRecords
  <2>6. QED
    BY <1>1, <1>3, <1>6, <2>1, <2>5, RestRecords DEF CreateDecide
<1>7. CASE RemoveDecide(x)
  <2> DEFINE w == [ops[x].seen EXCEPT !.status = "removed"]
             d == [docs[ops[x].org] EXCEPT !.status = "removed"]
             op == Writing(ops[x], "storeBindings", w, d)
  <2>1. ops' = [ops EXCEPT ![x] = op] /\ ops[x].kind = "remove" /\ ops[x].step = "readDocs"
    BY <1>7 DEF RemoveDecide
  <2>2. w.status = "removed" /\ w.key = ops[x].seen.key
    BY <1>1 DEF Operation, Binding
  <2>3. /\ ops[x].seen = bindings[ops[x].org]
        /\ ops[x].seen.key = ops[x].key /\ ops[x].key # None
    BY <1>4, <1>7, <2>1 DEF RemoveDecide, RemoveAccepted, OpRecords
  <2> HIDE DEF w
  <2>4. op.step = "storeBindings" /\ op.org = ops[x].org /\ op.kind = "remove" /\ op.write = w
    BY <2>1 DEF Writing, IdleOp
  <2>5. w.status # "absent" /\ KeepsKey(w) /\ Records(bindings[ops[x].org], w)
    BY <2>2, <2>3 DEF KeepsKey, Records, KeyChanges
  <2> HIDE DEF op
  <2>6. OpRecords(op, bindings[op.org])
    BY <2>4, <2>5 DEF OpRecords
  <2>7. QED
    BY <1>1, <1>3, <1>7, <2>1, <2>6, RestRecords DEF RemoveDecide
<1>8. CASE WorkerRefused(x)
  BY <1>1, <1>3, <1>8, EndRecords DEF WorkerRefused, Ended
<1>9. CASE StoreBinding(x) \/ StoreBindingFails(x)
  <2>1. LifeGoverned' /\ KeysStep
    BY <1>1, <1>9, StoreRecords DEF StoreBinding, StoreBindingFails
  <2>2. OpsRecord'
    <3>1. CASE Goto(x, "storeDocs")
      <4> DEFINE op == [ops[x] EXCEPT !.step = "storeDocs"]
      <4>1. op.step = "storeDocs" /\ ops' = [ops EXCEPT ![x] = op]
        BY <1>1, <3>1 DEF Goto, TypeOK, OpsOK, Operation
      <4> HIDE DEF op
      <4>2. OpRecords(op, bindings'[op.org])
        BY <4>1 DEF OpRecords
      <4>3. QED
        BY <1>1, <4>1, <4>2, OneRecords DEF RecordingInv
    <3>2. CASE End(x, "failed")
      <4> DEFINE op == [IdleOp EXCEPT !.kind = ops[x].kind, !.org = ops[x].org, !.step = "failed"]
      <4>1. op.step \in Ended /\ ops' = [ops EXCEPT ![x] = op]
        BY <3>2 DEF End, IdleOp, Ended
      <4> HIDE DEF op
      <4>2. QED
        BY <1>1, <4>1, OneRecords DEF RecordingInv
    <3>3. QED
      BY <1>9, <3>1, <3>2 DEF StoreBinding, StoreBindingFails
  <2>3. QED
    BY <1>3, <2>1, <2>2 DEF RecordingStep, RecordingInv
<1>10. CASE StoreDoc(x) \/ StoreDocFails(x)
  <2>1. \E how \in Ended : End(x, how)
    BY <1>10 DEF StoreDoc, StoreDocFails, Ended
  <2>2. QED
    BY <1>1, <1>3, <1>10, <2>1, EndRecords DEF StoreDoc, StoreDocFails
<1>11. QED
  BY <1>5, <1>6, <1>7, <1>8, <1>9, <1>10 DEF WorkerStep

\* The bindings and the operations stay as they are.
LEMMA JobsRecord ==
    ASSUME TypeOK, RecordingInv, UNCHANGED <<bindings, ops>>,
           \A o \in Orgs : life'[o].key = life[o].key,
           VerifsBindKeys'
    PROVE  RecordingStep
<1>1. OpsRecord' /\ LifeGoverned'
  BY DEF RecordingInv, LifeGoverned, OpsRecord, OpRecords, Midway
<1>2. KeysStep
  BY DEF KeysStep, RebindRecordedStep, KeyGovernedStep, KeyChanges
<1>3. QED
  BY <1>1, <1>2 DEF RecordingStep, RecordingInv

LEMMA RequestRecords ==
    ASSUME Undisturbed, Keyed, TypeOK, RecordingInv, Request
    PROVE  RecordingStep
<1>1. ASSUME NEW v \in Verifs, NEW o \in Orgs, NEW k \in VerifyKeys, NEW i \in Ids,
             Verify(v, o, k, i)
      PROVE  RecordingStep
  <2>1. \A p \in Orgs : life'[p].key = life[p].key
    BY <1>1 DEF Verify, TypeOK, Life
  <2>2. VerifsBindKeys'
    BY <1>1 DEF Verify, RecordingInv, VerifsBindKeys, Keyed, TypeOK, VerifsOK
  <2>3. QED
    BY <1>1, <2>1, <2>2, JobsRecord DEF Verify
<1>2. ASSUME NEW v \in Verifs, Expire(v)
      PROVE  RecordingStep
  <2>1. VerifsBindKeys'
    BY <1>2 DEF Expire, NoVerif, RecordingInv, VerifsBindKeys, TypeOK, VerifsOK
  <2>2. QED
    BY <1>2, <2>1, JobsRecord DEF Expire
<1>3. ASSUME NEW v \in Verifs, NEW x \in Ops, PollStart(x, v)
      PROVE  RecordingStep
  <2> DEFINE op == [IdleOp EXCEPT !.kind = "verify", !.step = "ledger", !.verif = v,
                                  !.org = verifs[v].org, !.key = verifs[v].key,
                                  !.sameAs = verifs[v].sameAs]
  <2>1. ops' = [ops EXCEPT ![x] = op] /\ UNCHANGED <<bindings, verifs, life>>
    BY <1>3 DEF PollStart
  <2>2. op.step = "ledger" /\ op.key = verifs[v].key
    BY DEF IdleOp
  <2>3. Provider # "firestore" => op.key # None
    BY <1>3, <2>2 DEF PollStart, RecordingInv, VerifsBindKeys
  <2> HIDE DEF op
  <2>4. OpsRecord'
    <3>1. ops'[x] = op /\ \A y \in Ops \ {x} : ops'[y] = ops[y]
      BY <2>1 DEF TypeOK, OpsOK
    <3>2. (Midway(x) => OpRecords(ops[x], bindings[ops[x].org]))'
      BY <2>2, <2>3, <3>1 DEF OpRecords
    <3>3. ASSUME NEW y \in Ops \ {x}
          PROVE  (Midway(y) => OpRecords(ops[y], bindings[ops[y].org]))'
      BY <2>1, <3>1, <3>3 DEF RecordingInv, OpsRecord, OpRecords, Midway
    <3>4. QED
      BY <3>2, <3>3 DEF OpsRecord
  <2>5. VerifsBindKeys'
    BY <2>1 DEF RecordingInv, VerifsBindKeys
  <2>6. QED
    BY <2>1, <2>4, <2>5, NothingBound DEF RecordingStep, RecordingInv
<1>4. ASSUME NEW x \in Ops, NEW op, StartWorker(x, op), op.step = "readBindings",
             op.kind = "create" \/ (op.kind = "remove" /\ op.key # None)
      PROVE  RecordingStep
  <2>1. /\ ops' = [ops EXCEPT ![x] = op] /\ MayRun(x)
        /\ UNCHANGED <<bindings, verifs, life>>
    BY <1>4 DEF StartWorker
  <2>2. OpRecords(op, bindings[op.org])
    BY <1>4 DEF OpRecords
  <2>3. VerifsBindKeys'
    BY <2>1 DEF RecordingInv, VerifsBindKeys
  <2>4. QED
    BY <2>1, <2>2, <2>3, RestRecords
<1>5. ASSUME NEW x \in Ops, NEW o \in Orgs, NEW k \in CreateKeys, NEW i \in ClientIds,
             CreateStart(x, o, k, i) \/ RemoveStart(x, o, k, i)
      PROVE  RecordingStep
  BY <1>4, <1>5 DEF CreateStart, RemoveStart, IdleOp
<1>6. QED
  BY <1>1, <1>2, <1>3, <1>5 DEF Request

LEMMA RestartRecords ==
    ASSUME TypeOK, RecordingInv, Restart
    PROVE  RecordingStep
<1>1. \A o \in Orgs : (bindings'[o] = bindings[o] /\ life'[o] = life[o])
                      \/ (bindings'[o] = NoBinding /\ life'[o] = NewLife)
  BY DEF Restart
<1>2. LifeGoverned' /\ KeysStep
  BY <1>1 DEF RecordingInv, LifeGoverned, KeysStep, RebindRecordedStep, KeyGovernedStep,
              KeyChanges, NoBinding, NewLife
<1>3. VerifsBindKeys'
  BY DEF Restart, VerifsBindKeys, NoVerif
<1>4. \A x \in Ops : ~Midway(x)'
  BY DEF Restart, Midway, Ended, IdleOp
<1>5. QED
  BY <1>2, <1>3, <1>4 DEF RecordingStep, RecordingInv, OpsRecord

LEMMA InitRecords == Init => RecordingInv
BY DEF Init, RecordingInv, VerifsBindKeys, LifeGoverned, OpsRecord, Midway, Ended,
       NoBinding, NoVerif, NewLife, IdleOp

LEMMA NextRecords ==
    ASSUME Undisturbed, Keyed, TypeOK, RecordingInv, [Next]_vars
    PROVE  RecordingStep
<1>1. CASE Request
  BY <1>1, RequestRecords
<1>2. ASSUME NEW x \in Ops, PollStep(x) \/ WorkerStep(x)
      PROVE  RecordingStep
  BY <1>2, PollRecords, WorkerRecords
<1>3. CASE Restart
  BY <1>3, RestartRecords
<1>4. CASE UNCHANGED vars
  BY <1>4, JobsRecord DEF vars, RecordingInv, VerifsBindKeys
<1>5. QED
  BY <1>1, <1>2, <1>3, <1>4 DEF Next

\* The invariant of undisturbed operations.
THEOREM Recording == Undisturbed /\ Keyed => (Spec => []RecordingInv)
<1>1. SUFFICES ASSUME Undisturbed, Keyed
               PROVE  Spec => []RecordingInv
  OBVIOUS
<1>2. TypeOK /\ RecordingInv /\ [Next]_vars => RecordingInv'
  BY <1>1, NextRecords DEF RecordingStep
<1>3. QED
  BY <1>2, InitRecords, TypeCorrect, PTL DEF Spec

\* Whoever rebinds, and however the policy is set, the record of the new key
\* names the key it supersedes, if operations do not overlap between their
\* reads and their writes, and no record loses its key to a keyless _verify.
THEOREM RebindIsRecorded == Undisturbed /\ Keyed => (Spec => RebindRecorded)
<1>1. SUFFICES ASSUME Undisturbed, Keyed
               PROVE  Spec => RebindRecorded
  OBVIOUS
<1>2. TypeOK /\ RecordingInv /\ [Next]_vars => [RebindRecordedStep]_vars
  BY <1>1, NextRecords DEF RecordingStep, KeysStep
<1>3. QED
  BY <1>1, <1>2, Recording, TypeCorrect, PTL DEF Spec, RebindRecorded

\* With rebinding off and under the same conditions the key of a lifecycle is
\* never replaced in it.
THEOREM LifecycleKeepsKey == Undisturbed /\ Keyed /\ ~AllowRebind => (Spec => KeyGoverned)
<1>1. SUFFICES ASSUME Undisturbed, Keyed, ~AllowRebind
               PROVE  Spec => KeyGoverned
  OBVIOUS
<1>2. TypeOK /\ RecordingInv /\ [Next]_vars => [KeyGovernedStep]_vars
  BY <1>1, NextRecords DEF RecordingStep, KeysStep
<1>3. QED
  BY <1>1, <1>2, Recording, TypeCorrect, PTL DEF Spec, KeyGoverned

-----------------------------------------------------------------------------
(* ReopenedByVerify, whatever the policy and the keys, with or without      *)
(* failing accesses: a worker writes over the binding it has read.          *)

\* What the worker op knows of the binding b of its organization.
OpFresh(op, b) ==
    op.kind \in {"create", "remove"} =>
        /\ op.step = "readDocs" => op.seen = b
        /\ op.step = "storeBindings" =>
            op.write.status = "removed" \/ (op.write.status = "confirmed" /\ b.status # "removed")

OpsFresh == \A x \in Ops : Midway(x) => OpFresh(ops[x], bindings[ops[x].org])

\* Operation x becomes op, and the others know nothing that is written.
LEMMA OneFresh ==
    ASSUME Undisturbed, TypeOK, OpsFresh, NEW x \in Ops, NEW op,
           ops' = [ops EXCEPT ![x] = op], MayRun(x) \/ UNCHANGED bindings,
           op.step \notin Ended => OpFresh(op, bindings'[op.org])
    PROVE  OpsFresh'
<1>1. ops'[x] = op /\ \A y \in Ops \ {x} : ops'[y] = ops[y]
  BY DEF TypeOK, OpsOK
<1>2. ASSUME NEW y \in Ops \ {x}, Midway(y)
      PROVE  OpFresh(ops[y], bindings'[ops[y].org])
  <2>1. OpFresh(ops[y], bindings[ops[y].org])
    BY <1>2 DEF OpsFresh
  <2>2. CASE UNCHANGED bindings
    BY <2>1, <2>2
  <2>3. CASE MayRun(x)
    BY <1>2, <2>3 DEF MayRun, Undisturbed, Midway, OpFresh, Network
  <2>4. QED
    BY <2>2, <2>3
<1>3. QED
  BY <1>1, <1>2 DEF OpsFresh, Midway

LEMMA EndFresh ==
    ASSUME Undisturbed, TypeOK, OpsFresh, NEW x \in Ops, MayRun(x), NEW how \in Ended,
           End(x, how)
    PROVE  OpsFresh'
<1> DEFINE op == [IdleOp EXCEPT !.kind = ops[x].kind, !.org = ops[x].org, !.step = how]
<1>1. op.step \in Ended /\ ops' = [ops EXCEPT ![x] = op]
  BY DEF End, IdleOp
<1> HIDE DEF op
<1>2. QED
  BY <1>1, OneFresh

\* A poll is no worker.
LEMMA PollFresh ==
    ASSUME Undisturbed, TypeOK, OpsFresh, NEW x \in Ops, PollStep(x)
    PROVE  OpsFresh' /\ ReopenedByVerifyStep
<1>1. /\ MayRun(x) /\ ops[x].kind = "verify" /\ ops[x] \in Operation
      /\ UNCHANGED bindings \/ PollStoreBinding(x) \/ PollStoreBindingFails(x)
  BY DEF PollStep, LedgerRecorded, PollRefused, PollDecide, PollStoreIssued,
         PollStoreIssuedFails, PollSynced, PollSyncFails, PollStoreBinding,
         PollStoreBindingFails, At, TypeOK, OpsOK
<1>2. ReopenedByVerifyStep
  BY <1>1 DEF ReopenedByVerifyStep
<1>3. ASSUME NEW step, Goto(x, step)
      PROVE  OpsFresh'
  <2> DEFINE op == [ops[x] EXCEPT !.step = step]
  <2>1. op.kind = "verify" /\ ops' = [ops EXCEPT ![x] = op]
    BY <1>1, <1>3 DEF Goto, TypeOK, OpsOK, Operation
  <2> HIDE DEF op
  <2>2. QED
    BY <1>1, <2>1, OneFresh DEF OpFresh
<1>4. ASSUME NEW b, ops' = [ops EXCEPT ![x] = Writing(@, "storeIssued", b, NoDoc)]
      PROVE  OpsFresh'
  <2> DEFINE op == Writing(ops[x], "storeIssued", b, NoDoc)
  <2>1. op.kind = "verify" /\ ops' = [ops EXCEPT ![x] = op]
    BY <1>1, <1>4 DEF Writing, IdleOp, TypeOK, OpsOK
  <2> HIDE DEF op
  <2>2. QED
    BY <1>1, <2>1, OneFresh DEF OpFresh
<1>5. \/ \E step : Goto(x, step)
      \/ \E how \in Ended : End(x, how)
      \/ \E b : ops' = [ops EXCEPT ![x] = Writing(@, "storeIssued", b, NoDoc)]
  BY DEF PollStep, LedgerRecorded, PollRefused, PollDecide, PollStoreIssued,
         PollStoreIssuedFails, PollSynced, PollSyncFails, PollStoreBinding,
         PollStoreBindingFails, PollFailed, PollWriteFailed, Ended
<1>6. QED
  BY <1>1, <1>2, <1>3, <1>4, <1>5, EndFresh

LEMMA WorkerFresh ==
    ASSUME Undisturbed, TypeOK, OpsFresh, NEW x \in Ops, WorkerStep(x)
    PROVE  OpsFresh' /\ ReopenedByVerifyStep
<1>1. /\ MayRun(x) /\ Midway(x) /\ ops[x] \in Operation /\ ops[x].org \in Orgs
      /\ ops[x].kind \in {"create", "remove"}
  BY DEF WorkerStep, ReadBinding, CreateDecide, RemoveDecide, WorkerRefused, StoreBinding,
         StoreBindingFails, StoreDoc, StoreDocFails, At, Midway, Ended, TypeOK, OpsOK
<1>2. OpFresh(ops[x], bindings[ops[x].org])
  BY <1>1 DEF OpsFresh
<1>3. CASE ReadBinding(x)
  <2> DEFINE op == [ops[x] EXCEPT !.step = "readDocs", !.seen = bindings[ops[x].org]]
  <2>1. ops' = [ops EXCEPT ![x] = op] /\ UNCHANGED bindings
    BY <1>3 DEF ReadBinding, TypeOK, OpsOK
  <2>2. op.step = "readDocs" /\ op.seen = bindings[op.org]
    BY <1>1 DEF Operation
  <2> HIDE DEF op
  <2>3. OpFresh(op, bindings[op.org])
    BY <2>2 DEF OpFresh
  <2>4. QED
    BY <1>1, <2>1, <2>3, OneFresh DEF ReopenedByVerifyStep
<1>4. ASSUME NEW b, NEW d, UNCHANGED bindings,
             ops' = [ops EXCEPT ![x] = Writing(ops[x], "storeBindings", b, d)],
             \/ b.status = "removed"
             \/ b.status = "confirmed" /\ bindings[ops[x].org].status # "removed"
      PROVE  OpsFresh' /\ ReopenedByVerifyStep
  <2> DEFINE op == Writing(ops[x], "storeBindings", b, d)
  <2>1. op.step = "storeBindings" /\ op.write = b /\ op.org = ops[x].org
    BY DEF Writing, IdleOp
  <2>2. ops' = [ops EXCEPT ![x] = op]
    BY <1>4
  <2> HIDE DEF op
  <2>3. OpFresh(op, bindings[op.org])
    BY <1>4, <2>1 DEF OpFresh
  <2>4. QED
    BY <1>1, <1>4, <2>2, <2>3, OneFresh DEF ReopenedByVerifyStep
<1>5. CASE CreateDecide(x)
  BY <1>2, <1>4, <1>5 DEF CreateDecide, CreateAccepted, At, OpFresh
<1>6. CASE RemoveDecide(x)
  <2>1. [ops[x].seen EXCEPT !.status = "removed"].status = "removed"
    BY <1>1 DEF Operation, Binding
  <2>2. QED
    BY <1>4, <1>6, <2>1 DEF RemoveDecide
<1>7. CASE StoreBinding(x) \/ StoreBindingFails(x)
  <2> DEFINE w == ops[x].write
  <2>1. /\ ops[x].step = "storeBindings"
        /\ UNCHANGED bindings \/ WriteBinding(ops[x].org, w)
        /\ Goto(x, "storeDocs") \/ End(x, "failed")
    BY <1>7 DEF StoreBinding, StoreBindingFails, At
  <2>2. w.status = "removed" \/ bindings[ops[x].org].status # "removed"
    BY <1>1, <1>2, <2>1 DEF OpFresh
  <2>3. Stored(bindings[ops[x].org], w).status = w.status
    BY <1>1 DEF Stored, Operation, Binding
  <2>4. \A o \in Orgs : bindings[o].status = "removed" => bindings'[o].status = "removed"
    BY <1>1, <2>1, <2>2, <2>3 DEF WriteBinding, TypeOK
  <2>5. OpsFresh'
    <3>1. CASE End(x, "failed")
      BY <1>1, <3>1, EndFresh DEF Ended
    <3>2. CASE Goto(x, "storeDocs")
      <4> DEFINE op == [ops[x] EXCEPT !.step = "storeDocs"]
      <4>1. op.step = "storeDocs" /\ ops' = [ops EXCEPT ![x] = op]
        BY <1>1, <3>2 DEF Goto, TypeOK, OpsOK, Operation
      <4> HIDE DEF op
      <4>2. OpFresh(op, bindings'[op.org])
        BY <4>1 DEF OpFresh
      <4>3. QED
        BY <1>1, <4>1, <4>2, OneFresh
    <3>3. QED
      BY <2>1, <3>1, <3>2
  <2>6. QED
    BY <2>4, <2>5 DEF ReopenedByVerifyStep
<1>8. CASE WorkerRefused(x) \/ StoreDoc(x) \/ StoreDocFails(x)
  <2>1. UNCHANGED bindings /\ \E how \in Ended : End(x, how)
    BY <1>8 DEF WorkerRefused, StoreDoc, StoreDocFails, Ended
  <2>2. QED
    BY <1>1, <2>1, EndFresh DEF ReopenedByVerifyStep
<1>9. QED
  BY <1>3, <1>5, <1>6, <1>7, <1>8 DEF WorkerStep

LEMMA RequestFresh ==
    ASSUME Undisturbed, TypeOK, OpsFresh, Request
    PROVE  OpsFresh' /\ ReopenedByVerifyStep
<1>1. UNCHANGED bindings
  BY DEF Request, Verify, Expire, PollStart, CreateStart, RemoveStart, StartWorker
<1>2. UNCHANGED ops => OpsFresh'
  BY <1>1 DEF OpsFresh, Midway
<1>3. ASSUME NEW x \in Ops, NEW op, ops' = [ops EXCEPT ![x] = op],
             op.step \in {"ledger", "readBindings"}
      PROVE  OpsFresh'
  BY <1>1, <1>3, OneFresh DEF OpFresh
<1>4. ASSUME NEW x \in Ops, NEW v \in Verifs, PollStart(x, v)
      PROVE  OpsFresh'
  BY <1>3, <1>4 DEF PollStart, IdleOp
<1>5. ASSUME NEW x \in Ops, NEW o \in Orgs, NEW k \in CreateKeys, NEW i \in ClientIds,
             CreateStart(x, o, k, i) \/ RemoveStart(x, o, k, i)
      PROVE  OpsFresh'
  BY <1>3, <1>5 DEF CreateStart, RemoveStart, StartWorker, IdleOp
<1>6. OpsFresh'
  BY <1>2, <1>4, <1>5 DEF Request, Verify, Expire
<1>7. QED
  BY <1>1, <1>6 DEF ReopenedByVerifyStep

LEMMA NextFresh ==
    ASSUME Undisturbed, TypeOK, OpsFresh, [Next]_vars
    PROVE  OpsFresh' /\ ReopenedByVerifyStep
<1>1. UNCHANGED vars => OpsFresh' /\ ReopenedByVerifyStep
  BY DEF vars, OpsFresh, Midway, ReopenedByVerifyStep
<1>2. Restart => OpsFresh' /\ ReopenedByVerifyStep
  BY DEF Restart, OpsFresh, Midway, Ended, IdleOp, ReopenedByVerifyStep
<1>3. QED
  BY <1>1, <1>2, RequestFresh, PollFresh, WorkerFresh DEF Next

\* Where operations do not overlap between their reads and their writes, no
\* _create or _remove reopens a closed lifecycle: only a poll of a _verify does.
THEOREM OnlyVerifyReopens == Undisturbed => (Spec => ReopenedByVerify)
<1>1. SUFFICES ASSUME Undisturbed
               PROVE  Spec => ReopenedByVerify
  OBVIOUS
<1>2. Init => OpsFresh
  BY DEF Init, OpsFresh, Midway, Ended, IdleOp
<1>3. TypeOK /\ OpsFresh /\ [Next]_vars => OpsFresh' /\ [ReopenedByVerifyStep]_vars
  BY <1>1, NextFresh
<1>4. QED
  BY <1>2, <1>3, TypeCorrect, PTL DEF Spec, ReopenedByVerify
=============================================================================
