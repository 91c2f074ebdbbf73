---------------------- MODULE CredentialRegistry_proofs ----------------------
(***************************************************************************)
(* TLAPS proofs about CredentialRegistry, for any credentials, number of   *)
(* batches and of overlapping operations: the types; where the ledger is   *)
(* required, that bundles are anchored before they are stored; and, where  *)
(* _revoke and _status use it too, that a reported revocation stands on    *)
(* it, that _status tells it, and that RevocationContract is implemented.  *)
(***************************************************************************)
EXTENDS RevocationRefinement, TLAPS

\* An operation of the right types, which has what its step needs.
Fits(op) ==
    /\ op \in Operation
    /\ op.step \in Busy => op.cur \in Creds
    /\ op.step = "readStatus" => op.seen # "absent"

OpsFit == ops \in [Ops -> Operation] /\ \A x \in Ops : Fits(ops[x])

Records == [1..Batches -> [Creds -> {"absent", "good", "revoked"}]]
Assets == [Creds -> {"absent", "active", "revoked"}]

\* The type invariant, part by part.
LEMMA TypeParts ==
    TypeOK <=> store \in Records /\ ledger \in Assets /\ OpsFit /\ reported \subseteq Creds
BY DEF TypeOK, Records, Assets, OpsFit, Fits

LEMMA IdleIsOperation == IdleOp \in Operation
<1>1. 0 \in 0..Batches
  BY InputsAssumption
<1>2. QED
  BY <1>1 DEF IdleOp, Operation, Steps, Ended

LEMMA IdleFits ==
    ASSUME NEW k \in {"none", "verify", "issue", "revoke", "status"}, NEW how \in Ended
    PROVE  Fits([IdleOp EXCEPT !.kind = k, !.step = how])
<1> DEFINE op == [IdleOp EXCEPT !.kind = k, !.step = how]
<1>1. how \in Steps /\ how \notin Busy /\ how # "readStatus"
  BY DEF Steps, Ended, Busy
<1>2. op \in Operation
  BY <1>1, IdleIsOperation DEF Operation
<1>3. op.step = how
  BY DEF IdleOp
<1>4. QED
  BY <1>1, <1>2, <1>3 DEF Fits

\* An operation replaced by one that fits.
LEMMA Replaced ==
    ASSUME OpsFit, NEW x \in Ops, NEW op, Fits(op), ops' = [ops EXCEPT ![x] = op]
    PROVE  OpsFit'
<1>1. op \in Operation
  BY DEF Fits
<1>2. ops' \in [Ops -> Operation]
  BY <1>1 DEF OpsFit
<1>3. ASSUME NEW y \in Ops
      PROVE  Fits(ops'[y])
  BY DEF OpsFit
<1>4. QED
  BY <1>2, <1>3 DEF OpsFit, Fits

LEMMA EndFits ==
    ASSUME OpsFit, NEW x \in Ops, NEW how \in Ended, End(x, how)
    PROVE  OpsFit'
<1>1. ops[x].kind \in {"none", "verify", "issue", "revoke", "status"}
  BY DEF OpsFit, Operation
<1>2. Fits([IdleOp EXCEPT !.kind = ops[x].kind, !.step = how])
  BY <1>1, IdleFits
<1>3. QED
  BY <1>2, Replaced DEF End

LEMMA GotoFits ==
    ASSUME OpsFit, NEW x \in Ops, NEW step \in Steps,
           step # "readStatus", step \in Busy => ops[x].cur \in Creds, Goto(x, step)
    PROVE  OpsFit'
<1> DEFINE op == [ops[x] EXCEPT !.step = step]
<1>1. Fits(op)
  BY DEF OpsFit, Fits, Operation
<1>2. ops' = [ops EXCEPT ![x] = op]
  BY DEF Goto
<1> HIDE DEF op
<1>3. QED
  BY <1>1, <1>2, Replaced

\* What Anchored makes of an operation.
AnchoredOp(op, c) ==
    [op EXCEPT !.todo = op.todo \ {c}, !.cur = None,
               !.step = IF op.todo \ {c} = {} THEN "store" ELSE "read"]

LEMMA AnchoredForm ==
    ASSUME OpsFit, NEW x \in Ops, NEW c, Anchored(x, c)
    PROVE  ops' = [ops EXCEPT ![x] = AnchoredOp(ops[x], c)]
BY DEF Anchored, AnchoredOp, OpsFit, Operation

LEMMA AnchoredFits ==
    ASSUME OpsFit, NEW x \in Ops, NEW c, Anchored(x, c)
    PROVE  OpsFit'
<1>1. Fits(AnchoredOp(ops[x], c))
  <2> DEFINE rest == ops[x].todo \ {c}
             next == IF rest = {} THEN "store" ELSE "read"
  <2>1. ops[x] \in Operation /\ rest \in SUBSET Creds
    BY DEF OpsFit, Operation
  <2>2. next \in Steps /\ next \notin Busy
    BY DEF Steps, Network, Busy
  <2> HIDE DEF rest, next
  <2>3. [ops[x] EXCEPT !.todo = rest, !.cur = None, !.step = next] \in Operation
    BY <2>1, <2>2 DEF Operation
  <2>4. [ops[x] EXCEPT !.todo = rest, !.cur = None, !.step = next].step = next
    BY <2>1 DEF Operation
  <2>5. QED
    BY <2>2, <2>3, <2>4 DEF Fits, AnchoredOp, rest, next
<1>2. QED
  BY <1>1, AnchoredForm, Replaced

LEMMA AnswerFits ==
    ASSUME OpsFit, NEW x \in Ops, NEW a \in {"good", "revoked", "unknown"}, Answer(x, a)
    PROVE  OpsFit'
<1> DEFINE op == [ops[x] EXCEPT !.step = "succeeded", !.answer = a]
<1>1. Fits(op)
  BY DEF OpsFit, Fits, Operation, Steps, Ended, Busy
<1>2. ops' = [ops EXCEPT ![x] = op]
  BY DEF Answer, OpsFit, Operation
<1> HIDE DEF op
<1>3. QED
  BY <1>1, <1>2, Replaced

LEMMA StartFits ==
    ASSUME OpsFit, NEW x \in Ops, NEW op, Fits(op), Start(x, op)
    PROVE  OpsFit' /\ UNCHANGED <<store, ledger, reported>>
BY Replaced DEF Start

LEMMA WrittenType ==
    ASSUME store \in Records, NEW n, NEW C, NEW s \in {"good", "revoked"}
    PROVE  Written(n, C, s) \in Records
BY DEF Written, Stored, Records

-----------------------------------------------------------------------------
\* Every action keeps the types: the requests, the steps of _verify and
\* _issue, those of _revoke and _status, and a restart.
LEMMA RequestTypes ==
    ASSUME TypeOK, NEW x \in Ops, Request(x)
    PROVE  TypeOK'
<1>1. OpsFit /\ store \in Records /\ reported \in SUBSET Creds
  BY TypeParts
<1>2. ASSUME NEW op, Fits(op), Start(x, op)
      PROVE  TypeOK'
  BY <1>1, <1>2, StartFits, TypeParts DEF TypeOK, OpsFit, Fits
<1>3. ASSUME NEW k \in {"verify", "issue", "revoke"}, NEW C \in SUBSET Creds,
             NEW D \in SUBSET Creds, NEW step \in {"read", "store", "find"}
      PROVE  Fits([IdleOp EXCEPT !.kind = k, !.items = C, !.todo = D, !.step = step])
  <2>1. step \in Steps /\ step \notin Busy
    BY <1>3 DEF Steps, Network, Busy
  <2>2. QED
    BY <2>1, IdleIsOperation DEF Fits, Operation
<1>4. CASE \E C \in SUBSET Creds \ {{}}, anchored \in Anchoring : PollStart(x, C, anchored)
  <2>1. PICK C \in SUBSET Creds, anchored \in Anchoring : PollStart(x, C, anchored)
    BY <1>4
  <2> DEFINE first == IF anchored THEN "read" ELSE "store"
  <2>2. Fits([IdleOp EXCEPT !.kind = "verify", !.items = C, !.todo = C, !.step = first])
    BY <1>3
  <2>3. QED
    BY <2>1, <2>2, <1>2 DEF PollStart
<1>5. CASE \E C \in SUBSET Creds \ {{}} : IssueStart(x, C)
  <2>1. PICK C \in SUBSET Creds : IssueStart(x, C)
    BY <1>5
  <2>2. Fits([IdleOp EXCEPT !.kind = "issue", !.items = C, !.step = "store"])
    BY IdleIsOperation DEF Fits, Operation, Steps, Busy
  <2>3. QED
    BY <2>1, <2>2, <1>2 DEF IssueStart
<1>6. CASE \E C \in SUBSET Creds \ {{}} : RevokeStart(x, C)
  <2>1. PICK C \in SUBSET Creds : RevokeStart(x, C)
    BY <1>6
  <2>2. Fits([IdleOp EXCEPT !.kind = "revoke", !.items = C, !.todo = C, !.step = "find"])
    BY <1>3
  <2>3. QED
    BY <2>1, <2>2, <1>2 DEF RevokeStart
<1>7. CASE \E c \in Creds : StatusStart(x, c)
  <2>1. PICK c \in Creds : StatusStart(x, c)
    BY <1>7
  <2> DEFINE op == [IdleOp EXCEPT !.kind = "status", !.cur = c, !.known = reported]
  <2>2. op \in Operation /\ op.cur = c
    BY <1>1, IdleIsOperation DEF Operation
  <2>3. /\ "succeeded" \in Steps /\ "readStatus" \in Steps
        /\ IdleOp.cur = None
    BY DEF Steps, Ended, Network, IdleOp
  <2> HIDE DEF op
  <2>4. ASSUME NEW a \in {"unknown", "good", "revoked"}
        PROVE  Fits([op EXCEPT !.step = "succeeded", !.answer = a])
    BY <2>2, <2>3 DEF Fits, Operation
  <2>5. ASSUME NEW r \in {"good", "revoked"}
        PROVE  Fits([op EXCEPT !.step = "readStatus", !.seen = r])
    BY <2>2, <2>3 DEF Fits, Operation
  <2>6. CASE Start(x, [op EXCEPT !.step = "succeeded", !.answer = "unknown"])
    BY <2>4, <2>6, <1>2
  <2>7. CASE \E n \in 1..Batches :
               /\ Found(n, c)
               /\ Start(x, IF Ledger
                               THEN [op EXCEPT !.step = "readStatus", !.seen = store[n][c]]
                               ELSE [op EXCEPT !.step = "succeeded", !.answer = store[n][c]])
    <3>1. PICK n \in 1..Batches :
               /\ Found(n, c)
               /\ Start(x, IF Ledger
                               THEN [op EXCEPT !.step = "readStatus", !.seen = store[n][c]]
                               ELSE [op EXCEPT !.step = "succeeded", !.answer = store[n][c]])
      BY <2>7
    <3>2. store[n][c] \in {"good", "revoked"}
      BY <1>1, <3>1 DEF Found, Holding, Records
    <3>3. CASE Ledger
      BY <3>1, <3>2, <3>3, <2>5, <1>2
    <3>4. CASE ~Ledger
      BY <3>1, <3>2, <3>4, <2>4, <1>2
    <3>5. QED
      BY <3>3, <3>4
  <2>8. QED
    BY <2>1, <2>6, <2>7 DEF StatusStart, op
<1>8. CASE StatusNotRead(x)
  <2>1. Fits([IdleOp EXCEPT !.kind = "status", !.step = "failed"])
    BY IdleFits DEF Ended
  <2>2. QED
    BY <1>8, <2>1, <1>2 DEF StatusNotRead
<1>9. QED
  BY <1>4, <1>5, <1>6, <1>7, <1>8 DEF Request

\* Moving on to storing's second half, into batch n.
LEMMA IntoBatchFits ==
    ASSUME OpsFit, NEW x \in Ops, NEW n \in 1..Batches,
           ops' = [ops EXCEPT ![x].step = "sync", ![x].batch = n]
    PROVE  OpsFit'
<1> DEFINE op == [ops[x] EXCEPT !.step = "sync", !.batch = n]
<1>1. "sync" \in Steps /\ "sync" \notin Busy /\ n \in 0..Batches
  BY InputsAssumption DEF Steps, Network, Busy
<1>2. ops[x] \in Operation
  BY DEF OpsFit
<1>3. op \in Operation /\ op.step = "sync"
  BY <1>1, <1>2 DEF Operation
<1>4. ops' = [ops EXCEPT ![x] = op]
  BY <1>2 DEF OpsFit, Operation
<1> HIDE DEF op
<1>5. QED
  BY <1>1, <1>3, <1>4, Replaced DEF Fits

LEMMA RegisterTypes ==
    ASSUME TypeOK, NEW x \in Ops, RegisterStep(x)
    PROVE  TypeOK'
<1>1. OpsFit /\ store \in Records /\ ledger \in Assets /\ reported \subseteq Creds
  BY TypeParts
<1>2. ASSUME OpsFit', store' \in Records, ledger' \in Assets, UNCHANGED reported
      PROVE  TypeOK'
  BY <1>1, <1>2 DEF TypeOK, Records, Assets, OpsFit, Fits
<1>3. ASSUME NEW c \in Creds
      PROVE  [ledger EXCEPT ![c] = "active"] \in Assets
  BY <1>1 DEF Assets
<1>4. ASSUME NEW n, NEW C
      PROVE  Written(n, C, "good") \in Records
  BY <1>1, WrittenType
<1>5. {"failed", "succeeded"} \subseteq Ended
  BY DEF Ended
<1>6. CASE \E c \in Creds : LedgerRead(x, c)
  <2>1. PICK c \in Creds : LedgerRead(x, c)
    BY <1>6
  <2>2. CASE Anchored(x, c)
    BY <1>1, <2>1, <2>2, <1>2, AnchoredFits DEF LedgerRead
  <2>3. CASE ops' = [ops EXCEPT ![x].step = "create", ![x].cur = c]
    <3> DEFINE op == [ops[x] EXCEPT !.step = "create", !.cur = c]
    <3>1. "create" \in Steps
      BY DEF Steps, Network
    <3>2. Fits(op) /\ ops' = [ops EXCEPT ![x] = op]
      BY <1>1, <2>3, <3>1 DEF OpsFit, Fits, Operation
    <3> HIDE DEF op
    <3>3. OpsFit'
      BY <1>1, <3>2, Replaced
    <3>4. QED
      BY <1>1, <2>1, <3>3, <1>2 DEF LedgerRead
  <2>4. QED
    BY <2>1, <2>2, <2>3 DEF LedgerRead
<1>7. CASE LedgerCreate(x)
  <2>1. ops[x].cur \in Creds
    BY <1>1, <1>7 DEF LedgerCreate, At, OpsFit, Fits, Busy
  <2>2. OpsFit'
    BY <1>1, <1>7, AnchoredFits DEF LedgerCreate
  <2>3. QED
    BY <1>1, <1>7, <2>1, <2>2, <1>2, <1>3 DEF LedgerCreate
<1>8. CASE LedgerFails(x)
  <2>1. ASSUME NEW c, LedgerThrew(x, c)
        PROVE  OpsFit'
    BY <1>1, <1>5, <2>1, EndFits, AnchoredFits DEF LedgerThrew
  <2>2. At(x, "create") => ops[x].cur \in Creds
    BY <1>1 DEF At, OpsFit, Fits, Busy
  <2>3. OpsFit'
    BY <1>8, <2>1 DEF LedgerFails
  <2>4. ledger' \in Assets
    BY <1>1, <1>3, <1>8, <2>2 DEF LedgerFails
  <2>5. QED
    BY <1>1, <1>2, <1>8, <2>3, <2>4 DEF LedgerFails
<1>9. CASE Store(x)
  BY <1>1, <1>2, <1>4, <1>9, IntoBatchFits DEF Store
<1>10. CASE StoreFails(x)
  <2>1. OpsFit'
    BY <1>1, <1>5, <1>10, EndFits, IntoBatchFits DEF StoreFails
  <2>2. store' \in Records
    BY <1>1, <1>4, <1>10 DEF StoreFails
  <2>3. QED
    BY <1>1, <1>2, <1>10, <2>1, <2>2 DEF StoreFails
<1>11. CASE StoreSynced(x)
  BY <1>1, <1>2, <1>4, <1>5, <1>11, EndFits DEF StoreSynced
<1>12. CASE SyncFails(x)
  <2>1. OpsFit'
    BY <1>1, <1>5, <1>12, EndFits DEF SyncFails
  <2>2. store' \in Records
    BY <1>1, <1>4, <1>12 DEF SyncFails
  <2>3. QED
    BY <1>1, <1>2, <1>12, <2>1, <2>2 DEF SyncFails
<1>13. QED
  BY <1>6, <1>7, <1>8, <1>9, <1>10, <1>11, <1>12 DEF RegisterStep

\* One credential of a _revoke is done.
LEMMA RevokedFits ==
    ASSUME OpsFit, reported \subseteq Creds, NEW x \in Ops, Revoked(x)
    PROVE  OpsFit' /\ reported' \subseteq Creds
<1> DEFINE rest == ops[x].todo \ {ops[x].cur}
<1>1. ops[x] \in Operation /\ rest \in SUBSET Creds /\ ops[x].items \subseteq Creds
  BY DEF OpsFit, Operation
<1>2. CASE rest = {}
  BY <1>1, <1>2, EndFits DEF Revoked, Ended
<1>3. CASE rest # {}
  <2> DEFINE op == [ops[x] EXCEPT !.todo = rest, !.cur = None, !.batch = 0, !.step = "find"]
  <2>1. "find" \in Steps /\ "find" \notin Busy /\ 0 \in 0..Batches
    BY InputsAssumption DEF Steps, Busy
  <2>2. /\ ops' = [ops EXCEPT ![x].todo = rest, ![x].cur = None,
                               ![x].batch = 0, ![x].step = "find"]
        /\ UNCHANGED reported
    BY <1>3 DEF Revoked
  <2> HIDE DEF rest
  <2>3. Fits(op)
    BY <1>1, <2>1 DEF Fits, Operation
  <2>4. ops' = [ops EXCEPT ![x] = op]
    BY <1>1, <2>2 DEF OpsFit, Operation
  <2> HIDE DEF op
  <2>5. QED
    BY <2>2, <2>3, <2>4, Replaced
<1>4. QED
  BY <1>2, <1>3

LEMMA RevokeTypes ==
    ASSUME TypeOK, NEW x \in Ops, RevokeStep(x)
    PROVE  TypeOK'
<1>1. OpsFit /\ store \in Records /\ ledger \in Assets /\ reported \subseteq Creds
  BY TypeParts
<1>2. ASSUME OpsFit', store' \in Records, ledger' \in Assets, reported' \subseteq Creds
      PROVE  TypeOK'
  BY <1>2 DEF TypeOK, Records, Assets, OpsFit, Fits
<1>3. ASSUME NEW c \in Creds
      PROVE  [ledger EXCEPT ![c] = "revoked"] \in Assets
  BY <1>1 DEF Assets
<1>4. ASSUME NEW n, NEW C
      PROVE  Written(n, C, "revoked") \in Records
  BY <1>1, WrittenType
<1>5. /\ "failed" \in Ended
      /\ "syncRevoke" \in Steps /\ "update" \in Steps
  BY DEF Ended, Steps, Network
<1>6. At(x, "readRevoke") \/ At(x, "update") => ops[x].cur \in Creds
  BY <1>1 DEF At, OpsFit, Fits, Busy
<1>7. CASE \E c \in Creds : RevokeFind(x, c)
  <2>1. PICK c \in Creds, n \in 1..Batches :
          /\ ops' = [ops EXCEPT ![x].cur = c, ![x].batch = n,
                                ![x].step = IF Ledger THEN "readRevoke" ELSE "syncRevoke"]
          /\ UNCHANGED <<store, ledger, reported>>
    BY <1>7 DEF RevokeFind
  <2> DEFINE next == IF Ledger THEN "readRevoke" ELSE "syncRevoke"
             op == [ops[x] EXCEPT !.cur = c, !.batch = n, !.step = next]
  <2>2. next \in Steps /\ n \in 0..Batches
    BY InputsAssumption DEF Steps, Network
  <2> HIDE DEF next
  <2>3. Fits(op) /\ ops' = [ops EXCEPT ![x] = op]
    BY <1>1, <2>1, <2>2 DEF Fits, OpsFit, Operation, next
  <2> HIDE DEF op
  <2>4. OpsFit'
    BY <1>1, <2>3, Replaced
  <2>5. QED
    BY <1>1, <1>2, <2>1, <2>4
<1>8. CASE \E c \in Creds : RevokeNotFound(x, c)
  BY <1>1, <1>2, <1>5, <1>8, EndFits DEF RevokeNotFound
<1>9. CASE RevokeRead(x)
  BY <1>1, <1>2, <1>5, <1>6, <1>9, GotoFits DEF RevokeRead
<1>10. CASE RevokeUpdate(x)
  BY <1>1, <1>2, <1>3, <1>5, <1>6, <1>10, GotoFits DEF RevokeUpdate
<1>11. CASE RevokeLedgerFails(x)
  <2>1. ledger' \in Assets
    BY <1>1, <1>3, <1>6, <1>11 DEF RevokeLedgerFails
  <2>2. OpsFit'
    BY <1>1, <1>5, <1>6, <1>11, GotoFits, EndFits DEF RevokeLedgerFails
  <2>3. QED
    BY <1>1, <1>2, <1>11, <2>1, <2>2 DEF RevokeLedgerFails
<1>12. CASE RevokeStore(x)
  BY <1>1, <1>2, <1>4, <1>12, RevokedFits DEF RevokeStore
<1>13. CASE RevokeStoreFails(x)
  <2>1. OpsFit' /\ reported' \subseteq Creds
    BY <1>1, <1>5, <1>13, EndFits, RevokedFits DEF RevokeStoreFails
  <2>2. store' \in Records
    BY <1>1, <1>4, <1>13 DEF RevokeStoreFails
  <2>3. QED
    BY <1>1, <1>2, <1>13, <2>1, <2>2 DEF RevokeStoreFails
<1>14. QED
  BY <1>7, <1>8, <1>9, <1>10, <1>11, <1>12, <1>13 DEF RevokeStep

LEMMA StatusTypes ==
    ASSUME TypeOK, NEW x \in Ops, StatusStep(x)
    PROVE  TypeOK'
<1>1. OpsFit /\ Fits(ops[x]) /\ ops[x] \in Operation /\ ledger \in Assets
  BY TypeParts DEF OpsFit, Fits
<1>2. /\ ops[x].step = "readStatus" /\ UNCHANGED <<store, ledger, reported>>
      /\ ops[x].seen \in {"good", "revoked"} /\ ops[x].cur \in Creds
  BY <1>1 DEF StatusStep, StatusRead, StatusReadFails, At, Fits, Operation, Busy
<1>3. ledger[ops[x].cur] # "absent" => StatusOf(ledger[ops[x].cur]) \in {"good", "revoked"}
  BY <1>1, <1>2 DEF Assets, StatusOf
<1>4. OpsFit'
  <2>1. CASE StatusRead(x)
    BY <1>1, <1>2, <1>3, <2>1, AnswerFits DEF StatusRead
  <2>2. CASE StatusReadFails(x)
    BY <1>1, <1>2, <2>2, AnswerFits, EndFits DEF StatusReadFails, Ended
  <2>3. QED
    BY <2>1, <2>2 DEF StatusStep
<1>5. QED
  BY <1>2, <1>4 DEF TypeOK, OpsFit, Fits

LEMMA RestartTypes ==
    ASSUME TypeOK, Restart
    PROVE  TypeOK'
<1>1. OpsFit /\ store \in Records
  BY TypeParts
<1>2. ASSUME NEW x \in Ops
      PROVE  Fits(ops'[x])
  <2>1. CASE Midway(x)
    <3>1. ops[x].kind \in {"none", "verify", "issue", "revoke", "status"}
      BY <1>1 DEF OpsFit, Operation
    <3>2. Fits([IdleOp EXCEPT !.kind = ops[x].kind, !.step = "lost"])
      BY <3>1, IdleFits DEF Ended
    <3>3. QED
      BY <2>1, <3>2 DEF Restart
  <2>2. CASE ~Midway(x)
    BY <1>1, <2>2 DEF Restart, OpsFit
  <2>3. QED
    BY <2>1, <2>2
<1>3. OpsFit'
  BY <1>2 DEF Restart, OpsFit, Fits
<1>4. store' \in Records
  BY <1>1 DEF Restart, Records, Absent
<1>5. QED
  BY <1>3, <1>4 DEF Restart, TypeOK, OpsFit, Fits, Records

LEMMA TypeInit == Init => TypeOK
<1>1. ASSUME Init
      PROVE  OpsFit
  BY <1>1, IdleIsOperation DEF Init, OpsFit, Fits, Busy, IdleOp
<1>2. QED
  BY <1>1 DEF Init, TypeOK, OpsFit, Fits, Absent

LEMMA TypeNext == TypeOK /\ [Next]_vars => TypeOK'
<1>1. CASE UNCHANGED vars
  BY <1>1 DEF vars, TypeOK
<1>2. QED
  BY <1>1, RequestTypes, RegisterTypes, RevokeTypes, StatusTypes, RestartTypes DEF Next

\* Every record, asset and operation keeps its type, and an operation has what
\* its step needs, whatever overlaps and whatever call throws.
THEOREM TypeCorrect == Spec => []TypeOK
BY TypeInit, TypeNext, PTL DEF Spec

-----------------------------------------------------------------------------
(* The ledger is required: what an operation has done stands there.         *)

\* It is also used by _revoke and _status.
Governed == Ledger /\ LedgerRequired

\* A step belongs to its kind of operation.
StepsOfKind(op) ==
    /\ op.step \in {"read", "create"} => op.kind = "verify"
    /\ op.step \in {"store", "sync"} => op.kind \in {"verify", "issue"}
    /\ op.step \in {"find", "readRevoke", "update", "syncRevoke"} => op.kind = "revoke"
    /\ op.step = "readStatus" => op.kind = "status"

\* What a poll is done with is on the ledger L, and where every route has a
\* ledger it stores nothing before it is done with everything.
HonestPoll(op, L) ==
    /\ op.kind = "verify" => \A c \in op.items \ op.todo : L[c] # "absent"
    /\ Anchoring \subseteq {TRUE} /\ op.kind = "verify" /\ op.step \in {"store", "sync"} =>
        op.todo = {}

\* What a _revoke is done with is revoked on the ledger, and so is what a
\* _status saw revoked; a _status knows no more than the reported revocations R
\* and does not deny them.
HonestRevocation(op, L, R) ==
    /\ op.kind = "revoke" => \A c \in op.items \ op.todo : L[c] = "revoked"
    /\ op.step = "update" => L[op.cur] # "absent"
    /\ op.step = "syncRevoke" => L[op.cur] = "revoked"
    /\ op.step = "readStatus" /\ op.seen = "revoked" => L[op.cur] = "revoked"
    /\ op.known \subseteq R
    /\ op.kind = "status" /\ op.step = "succeeded" /\ op.cur \in op.known => op.answer # "good"

Honest(op, L, R) ==
    /\ StepsOfKind(op)
    /\ HonestPoll(op, L)
    /\ Ledger => HonestRevocation(op, L, R)

AllHonest == \A x \in Ops : Honest(ops[x], ledger, reported)

\* A revoked record is not ahead of the ledger.
RecordsBehind ==
    \A n \in 1..Batches, c \in Creds : store[n][c] = "revoked" => ledger[c] = "revoked"

RegistryInv == TypeOK /\ AllHonest /\ (Ledger => ReportedOnLedger /\ RecordsBehind)

\* An asset is never removed and a revocation never taken back.
Grows(L, M) ==
    \A c \in Creds : /\ L[c] # "absent" => M[c] # "absent"
                     /\ L[c] = "revoked" => M[c] = "revoked"

LEMMA HonestGrows ==
    ASSUME NEW op, Fits(op), NEW L, NEW M, NEW R, NEW Q,
           Honest(op, L, R), Grows(L, M), R \subseteq Q
    PROVE  Honest(op, M, Q)
<1>1. op.items \subseteq Creds /\ op.todo \subseteq Creds
  BY DEF Fits, Operation
<1>2. op.step \in {"update", "syncRevoke", "readStatus"} => op.cur \in Creds
  BY DEF Fits, Busy
<1>3. QED
  BY <1>1, <1>2 DEF Honest, HonestPoll, HonestRevocation, Grows

\* An ended operation has nothing to be dishonest about.
LEMMA EndHonest ==
    ASSUME NEW k, NEW how \in Ended, NEW L, NEW R
    PROVE  Honest([IdleOp EXCEPT !.kind = k, !.step = how], L, R)
BY DEF Honest, HonestPoll, HonestRevocation, StepsOfKind, IdleOp, Ended

\* One operation moves, and the ledger and the reports only grow.
LEMMA MoveKeeps ==
    ASSUME RegistryInv, NEW x \in Ops, NEW op, ops' = [ops EXCEPT ![x] = op],
           Honest(op, ledger', reported'), Grows(ledger, ledger'),
           reported \subseteq reported',
           Ledger => \A c \in reported' : ledger'[c] = "revoked"
    PROVE  AllHonest' /\ (Ledger => ReportedOnLedger')
<1>1. ASSUME NEW y \in Ops
      PROVE  Honest(ops'[y], ledger', reported')
  <2>1. CASE y = x
    BY <2>1, TypeParts DEF RegistryInv, OpsFit
  <2>2. CASE y # x
    <3>1. Fits(ops[y]) /\ Honest(ops[y], ledger, reported)
      BY TypeParts DEF RegistryInv, OpsFit, AllHonest
    <3>2. Honest(ops[y], ledger', reported')
      BY <3>1, HonestGrows
    <3>3. ops'[y] = ops[y]
      BY <2>2, TypeParts DEF RegistryInv, OpsFit
    <3>4. QED
      BY <3>2, <3>3
  <2>3. QED
    BY <2>1, <2>2
<1>2. QED
  BY <1>1 DEF AllHonest, ReportedOnLedger

\* The same where the ledger and the reports do not change.
LEMMA QuietMoveKeeps ==
    ASSUME RegistryInv, NEW x \in Ops, NEW op, ops' = [ops EXCEPT ![x] = op],
           Honest(op, ledger, reported), UNCHANGED <<ledger, reported>>
    PROVE  AllHonest' /\ (Ledger => ReportedOnLedger')
<1>1. Grows(ledger, ledger') /\ (Ledger => \A c \in reported' : ledger'[c] = "revoked")
  BY DEF Grows, RegistryInv, ReportedOnLedger
<1>2. QED
  BY <1>1, MoveKeeps

LEMMA EndKeeps ==
    ASSUME RegistryInv, NEW x \in Ops, NEW how \in Ended, End(x, how),
           Grows(ledger, ledger'), UNCHANGED reported
    PROVE  AllHonest' /\ (Ledger => ReportedOnLedger')
<1>1. Honest([IdleOp EXCEPT !.kind = ops[x].kind, !.step = how], ledger', reported')
  BY EndHonest
<1>2. Ledger => \A c \in reported' : ledger'[c] = "revoked"
  BY DEF RegistryInv, ReportedOnLedger, Grows, TypeOK
<1>3. QED
  BY <1>1, <1>2, MoveKeeps DEF End

\* A poll is done with a credential that is on the ledger.
LEMMA AnchoredKeeps ==
    ASSUME RegistryInv, NEW x \in Ops, ops[x].step \in {"read", "create"},
           NEW c, ledger'[c] # "absent", Anchored(x, c),
           Grows(ledger, ledger'), UNCHANGED reported
    PROVE  AllHonest' /\ (Ledger => ReportedOnLedger')
<1>1. OpsFit /\ Fits(ops[x]) /\ Honest(ops[x], ledger, reported)
  BY TypeParts DEF RegistryInv, OpsFit, AllHonest
<1>2. Honest(ops[x], ledger', reported)
  BY <1>1, HonestGrows
<1> DEFINE op == AnchoredOp(ops[x], c)
<1>3. /\ op.kind = "verify" /\ op.items = ops[x].items /\ op.todo = ops[x].todo \ {c}
      /\ op.step = (IF op.todo = {} THEN "store" ELSE "read")
      /\ op.known = ops[x].known
  BY <1>1 DEF AnchoredOp, Honest, StepsOfKind, Fits, Operation
<1> HIDE DEF op
<1>4. ops[x].kind = "verify"
  BY <1>1 DEF Honest, HonestPoll, HonestRevocation, StepsOfKind
<1>5. Honest(op, ledger', reported')
  BY <1>2, <1>3, <1>4 DEF Honest, HonestPoll, HonestRevocation, StepsOfKind
<1>6. ops' = [ops EXCEPT ![x] = op]
  BY <1>1, AnchoredForm DEF op
<1>7. Ledger => \A d \in reported' : ledger'[d] = "revoked"
  BY DEF RegistryInv, ReportedOnLedger, Grows, TypeOK
<1>8. QED
  BY <1>5, <1>6, <1>7, MoveKeeps

\* Every action keeps operations honest, where the ledger is required.
LEMMA RequestKeeps ==
    ASSUME LedgerRequired, RegistryInv, NEW x \in Ops, Request(x)
    PROVE  AllHonest' /\ (Ledger => ReportedOnLedger')
<1>1. ASSUME NEW op, Start(x, op), Honest(op, ledger, reported)
      PROVE  AllHonest' /\ (Ledger => ReportedOnLedger')
  BY <1>1, QuietMoveKeeps DEF Start
<1>2. ASSUME NEW C, NEW anchored \in Anchoring, PollStart(x, C, anchored)
      PROVE  AllHonest' /\ (Ledger => ReportedOnLedger')
  <2> DEFINE op == [IdleOp EXCEPT !.kind = "verify", !.items = C, !.todo = C,
                                  !.step = IF anchored THEN "read" ELSE "store"]
  <2>1. Honest(op, ledger, reported)
    BY DEF Honest, HonestPoll, HonestRevocation, StepsOfKind, IdleOp
  <2>2. Start(x, op)
    BY <1>2 DEF PollStart
  <2>3. QED
    BY <2>1, <2>2, <1>1
<1>3. ASSUME NEW C, IssueStart(x, C)
      PROVE  AllHonest' /\ (Ledger => ReportedOnLedger')
  <2> DEFINE op == [IdleOp EXCEPT !.kind = "issue", !.items = C, !.step = "store"]
  <2>1. Honest(op, ledger, reported)
    BY DEF Honest, HonestPoll, HonestRevocation, StepsOfKind, IdleOp
  <2>2. QED
    BY <2>1, <1>1, <1>3 DEF IssueStart
<1>4. ASSUME NEW C, RevokeStart(x, C)
      PROVE  AllHonest' /\ (Ledger => ReportedOnLedger')
  <2> DEFINE op == [IdleOp EXCEPT !.kind = "revoke", !.items = C, !.todo = C, !.step = "find"]
  <2>1. Honest(op, ledger, reported)
    BY DEF Honest, HonestPoll, HonestRevocation, StepsOfKind, IdleOp
  <2>2. QED
    BY <2>1, <1>1, <1>4 DEF RevokeStart
<1>5. ASSUME NEW c \in Creds, StatusStart(x, c)
      PROVE  AllHonest' /\ (Ledger => ReportedOnLedger')
  <2> DEFINE op == [IdleOp EXCEPT !.kind = "status", !.cur = c, !.known = reported]
             unknown == [op EXCEPT !.step = "succeeded", !.answer = "unknown"]
             asking(n) == [op EXCEPT !.step = "readStatus", !.seen = store[n][c]]
             answered(n) == [op EXCEPT !.step = "succeeded", !.answer = store[n][c]]
  <2>1. Honest(unknown, ledger, reported)
    BY DEF Honest, HonestPoll, HonestRevocation, StepsOfKind, IdleOp
  <2>2. ASSUME NEW n \in 1..Batches
        PROVE  Honest(asking(n), ledger, reported)
    BY DEF Honest, HonestPoll, HonestRevocation, StepsOfKind, IdleOp, RegistryInv, RecordsBehind
  <2>3. ASSUME ~Ledger, NEW n \in 1..Batches
        PROVE  Honest(answered(n), ledger, reported)
    BY <2>3 DEF Honest, HonestPoll, StepsOfKind, IdleOp
  <2>4. \/ Start(x, unknown)
        \/ \E n \in 1..Batches : Start(x, IF Ledger THEN asking(n) ELSE answered(n))
    BY <1>5 DEF StatusStart
  <2> HIDE DEF op, unknown, asking, answered
  <2>5. QED
    BY <2>1, <2>2, <2>3, <2>4, <1>1
<1>6. ASSUME StatusNotRead(x)
      PROVE  AllHonest' /\ (Ledger => ReportedOnLedger')
  <2>1. Honest([IdleOp EXCEPT !.kind = "status", !.step = "failed"], ledger, reported)
    BY EndHonest DEF Ended
  <2>2. QED
    BY <2>1, <1>1, <1>6 DEF StatusNotRead
<1>7. QED
  BY <1>2, <1>3, <1>4, <1>5, <1>6 DEF Request

LEMMA RegisterKeeps ==
    ASSUME LedgerRequired, RegistryInv, NEW x \in Ops, RegisterStep(x)
    PROVE  AllHonest' /\ (Ledger => ReportedOnLedger')
<1>1. OpsFit /\ Fits(ops[x]) /\ ops[x] \in Operation /\ Honest(ops[x], ledger, reported)
  BY TypeParts DEF RegistryInv, OpsFit, Fits, AllHonest
<1>2. UNCHANGED ledger => Grows(ledger, ledger')
  BY DEF Grows
<1>3. ASSUME NEW c \in Creds, ledger[c] = "absent", ledger' = [ledger EXCEPT ![c] = "active"]
      PROVE  Grows(ledger, ledger') /\ ledger'[c] # "absent"
  BY <1>3, TypeParts DEF RegistryInv, Grows, Assets
<1>4. "failed" \in Ended /\ "succeeded" \in Ended
  BY DEF Ended
<1>5. At(x, "create") => ops[x].cur \in Creds
  BY <1>1 DEF At, Fits, Busy
<1>6. CASE \E c \in Creds : LedgerRead(x, c)
  <2>1. PICK c \in Creds : LedgerRead(x, c)
    BY <1>6
  <2>2. CASE ledger[c] # "absent"
    BY <1>2, <2>1, <2>2, AnchoredKeeps DEF LedgerRead, At
  <2>3. CASE ledger[c] = "absent"
    <3> DEFINE op == [ops[x] EXCEPT !.step = "create", !.cur = c]
    <3>1. ops' = [ops EXCEPT ![x] = op]
      BY <1>1, <2>1, <2>3 DEF LedgerRead, Operation, OpsFit
    <3>2. Honest(op, ledger, reported)
      BY <1>1, <2>1 DEF LedgerRead, At, Honest, HonestPoll, HonestRevocation, StepsOfKind, Operation
    <3> HIDE DEF op
    <3>3. QED
      BY <2>1, <3>1, <3>2, QuietMoveKeeps DEF LedgerRead
  <2>4. QED
    BY <2>2, <2>3
<1>7. CASE LedgerCreate(x)
  BY <1>3, <1>5, <1>7, AnchoredKeeps DEF LedgerCreate, At
<1>8. CASE LedgerFails(x)
  <2>1. Grows(ledger, ledger') /\ UNCHANGED reported
    BY <1>2, <1>3, <1>5, <1>8 DEF LedgerFails
  <2>2. End(x, "failed")
    BY <1>8 DEF LedgerFails, LedgerThrew
  <2>3. QED
    BY <1>4, <2>1, <2>2, EndKeeps
<1>9. CASE Store(x) \/ StoreFails(x)
  <2>1. CASE End(x, "failed") /\ UNCHANGED <<ledger, reported>>
    BY <1>2, <1>4, <2>1, EndKeeps
  <2>2. CASE /\ ops[x].step = "store" /\ UNCHANGED <<ledger, reported>>
             /\ \E n \in 1..Batches : ops' = [ops EXCEPT ![x].step = "sync", ![x].batch = n]
    <3>1. PICK n \in 1..Batches : ops' = [ops EXCEPT ![x].step = "sync", ![x].batch = n]
      BY <2>2
    <3> DEFINE op == [ops[x] EXCEPT !.step = "sync", !.batch = n]
    <3>2. ops' = [ops EXCEPT ![x] = op]
      BY <1>1, <3>1 DEF Operation, OpsFit
    <3>3. Honest(op, ledger, reported)
      BY <1>1, <2>2 DEF Honest, HonestPoll, HonestRevocation, StepsOfKind, Operation
    <3> HIDE DEF op
    <3>4. QED
      BY <2>2, <3>2, <3>3, QuietMoveKeeps
  <2>3. QED
    BY <1>9, <2>1, <2>2 DEF Store, StoreFails, At
<1>10. CASE StoreSynced(x) \/ SyncFails(x)
  BY <1>2, <1>4, <1>10, EndKeeps DEF StoreSynced, SyncFails
<1>11. QED
  BY <1>6, <1>7, <1>8, <1>9, <1>10 DEF RegisterStep

\* An operation that only goes on to a step it may go to.
LEMMA GotoKeeps ==
    ASSUME RegistryInv, NEW x \in Ops, NEW step \in {"update", "syncRevoke"}, Goto(x, step),
           ops[x].step \in {"readRevoke", "update"}, UNCHANGED reported,
           Grows(ledger, ledger'),
           Ledger => ledger'[ops[x].cur] = IF step = "syncRevoke" THEN "revoked" ELSE "active"
    PROVE  AllHonest' /\ (Ledger => ReportedOnLedger')
<1> DEFINE op == [ops[x] EXCEPT !.step = step]
<1>1. OpsFit /\ Fits(ops[x]) /\ ops[x] \in Operation /\ Honest(ops[x], ledger, reported)
  BY TypeParts DEF RegistryInv, OpsFit, Fits, AllHonest
<1>2. Honest(ops[x], ledger', reported)
  BY <1>1, HonestGrows
<1>3. ops' = [ops EXCEPT ![x] = op]
  BY DEF Goto
<1>4. Honest(op, ledger', reported')
  BY <1>1, <1>2 DEF Honest, HonestPoll, HonestRevocation, StepsOfKind, Operation
<1>5. Ledger => \A c \in reported' : ledger'[c] = "revoked"
  BY DEF RegistryInv, ReportedOnLedger, Grows, TypeOK
<1> HIDE DEF op
<1>6. QED
  BY <1>3, <1>4, <1>5, MoveKeeps

\* A _revoke is done with a credential that is revoked on the ledger.
LEMMA RevokedKeeps ==
    ASSUME RegistryInv, NEW x \in Ops, ops[x].step = "syncRevoke", Revoked(x), UNCHANGED ledger
    PROVE  AllHonest' /\ (Ledger => ReportedOnLedger')
<1> DEFINE rest == ops[x].todo \ {ops[x].cur}
<1>1. OpsFit /\ Fits(ops[x]) /\ ops[x] \in Operation /\ Honest(ops[x], ledger, reported)
  BY TypeParts DEF RegistryInv, OpsFit, Fits, AllHonest
<1>2. /\ ops[x].kind = "revoke"
      /\ Ledger => \A c \in ops[x].items \ rest : ledger[c] = "revoked"
  BY <1>1 DEF Honest, HonestPoll, HonestRevocation, StepsOfKind
<1>3. Grows(ledger, ledger')
  BY DEF Grows
<1>4. CASE rest = {}
  <2>1. End(x, "succeeded") /\ reported' = reported \cup ops[x].items
    BY <1>4 DEF Revoked
  <2>2. Ledger => \A c \in reported' : ledger'[c] = "revoked"
    BY <1>2, <1>4, <2>1 DEF RegistryInv, ReportedOnLedger
  <2>3. Honest([IdleOp EXCEPT !.kind = ops[x].kind, !.step = "succeeded"], ledger', reported')
    BY EndHonest DEF Ended
  <2>4. QED
    BY <1>3, <2>1, <2>2, <2>3, MoveKeeps DEF End
<1>5. CASE rest # {}
  <2> DEFINE op == [ops[x] EXCEPT !.todo = rest, !.cur = None, !.batch = 0, !.step = "find"]
  <2>1. /\ ops' = [ops EXCEPT ![x].todo = rest, ![x].cur = None,
                               ![x].batch = 0, ![x].step = "find"]
        /\ UNCHANGED reported
    BY <1>5 DEF Revoked
  <2> HIDE DEF rest
  <2>2. ops' = [ops EXCEPT ![x] = op]
    BY <1>1, <2>1 DEF OpsFit, Operation
  <2>3. Honest(op, ledger, reported)
    BY <1>1, <1>2 DEF Honest, HonestPoll, HonestRevocation, StepsOfKind, Operation
  <2> HIDE DEF op
  <2>4. QED
    BY <2>1, <2>2, <2>3, QuietMoveKeeps
<1>6. QED
  BY <1>4, <1>5

LEMMA RevokeKeeps ==
    ASSUME LedgerRequired, RegistryInv, NEW x \in Ops, RevokeStep(x)
    PROVE  AllHonest' /\ (Ledger => ReportedOnLedger')
<1>1. OpsFit /\ Fits(ops[x]) /\ ops[x] \in Operation /\ Honest(ops[x], ledger, reported)
  BY TypeParts DEF RegistryInv, OpsFit, Fits, AllHonest
<1>2. UNCHANGED ledger => Grows(ledger, ledger')
  BY DEF Grows
<1>3. ASSUME NEW c \in Creds, ledger[c] # "absent", ledger' = [ledger EXCEPT ![c] = "revoked"]
      PROVE  Grows(ledger, ledger') /\ ledger'[c] = "revoked"
  BY <1>3, TypeParts DEF RegistryInv, Grows, Assets
<1>4. "failed" \in Ended
  BY DEF Ended
<1>5. ASSUME NEW c \in Creds, ledger' = [ledger EXCEPT ![c] = "revoked"]
      PROVE  Grows(ledger, ledger') /\ ledger'[c] = "revoked"
  BY <1>5, TypeParts DEF RegistryInv, Grows, Assets
<1>6. At(x, "update") => ops[x].cur \in Creds
  BY <1>1 DEF At, Fits, Busy
<1>7. CASE \E c \in Creds : RevokeFind(x, c)
  <2> DEFINE next == IF Ledger THEN "readRevoke" ELSE "syncRevoke"
  <2>1. PICK c \in Creds, n \in 1..Batches :
          /\ At(x, "find")
          /\ ops' = [ops EXCEPT ![x].cur = c, ![x].batch = n, ![x].step = next]
          /\ UNCHANGED <<store, ledger, reported>>
    BY <1>7 DEF RevokeFind
  <2> DEFINE op == [ops[x] EXCEPT !.cur = c, !.batch = n, !.step = next]
  <2>2. ops' = [ops EXCEPT ![x] = op]
    BY <1>1, <2>1 DEF OpsFit, Operation
  <2>3. Honest(op, ledger, reported)
    BY <1>1, <2>1 DEF At, Honest, HonestPoll, HonestRevocation, StepsOfKind, Operation
  <2> HIDE DEF op
  <2>4. QED
    BY <2>1, <2>2, <2>3, QuietMoveKeeps
<1>8. CASE \E c \in Creds : RevokeNotFound(x, c)
  BY <1>2, <1>4, <1>8, EndKeeps DEF RevokeNotFound
<1>9. CASE RevokeRead(x)
  <2>1. ops[x].cur \in Creds /\ ledger \in Assets
    BY <1>1, <1>9, TypeParts DEF RevokeRead, At, Fits, Busy, RegistryInv
  <2>2. ledger[ops[x].cur] \in {"active", "revoked"}
    BY <1>9, <2>1 DEF RevokeRead, Assets
  <2>3. QED
    BY <1>2, <1>9, <2>2, GotoKeeps DEF RevokeRead, At
<1>10. CASE RevokeUpdate(x)
  BY <1>5, <1>6, <1>10, GotoKeeps DEF RevokeUpdate, At
<1>11. CASE RevokeLedgerFails(x)
  <2>1. End(x, "failed") /\ UNCHANGED reported
    BY <1>11 DEF RevokeLedgerFails
  <2>2. Grows(ledger, ledger')
    BY <1>2, <1>5, <1>6, <1>11 DEF RevokeLedgerFails
  <2>3. QED
    BY <1>4, <2>1, <2>2, EndKeeps
<1>12. CASE RevokeStore(x)
  BY <1>12, RevokedKeeps DEF RevokeStore, At
<1>13. CASE RevokeStoreFails(x)
  BY <1>2, <1>4, <1>13, EndKeeps, RevokedKeeps DEF RevokeStoreFails, At
<1>14. QED
  BY <1>7, <1>8, <1>9, <1>10, <1>11, <1>12, <1>13 DEF RevokeStep

LEMMA StatusKeeps ==
    ASSUME LedgerRequired, RegistryInv, NEW x \in Ops, StatusStep(x)
    PROVE  AllHonest' /\ (Ledger => ReportedOnLedger')
<1>1. OpsFit /\ Fits(ops[x]) /\ ops[x] \in Operation /\ Honest(ops[x], ledger, reported)
  BY TypeParts DEF RegistryInv, OpsFit, Fits, AllHonest
<1>2. CASE StatusRead(x)
  <2> DEFINE a == IF ledger[ops[x].cur] = "absent" THEN ops[x].seen
                  ELSE StatusOf(ledger[ops[x].cur])
             op == [ops[x] EXCEPT !.step = "succeeded", !.answer = a]
  <2>1. ops' = [ops EXCEPT ![x] = op]
    BY <1>1, <1>2 DEF StatusRead, Answer, OpsFit, Operation
  <2>2. Ledger /\ ops[x].cur \in ops[x].known => ledger[ops[x].cur] = "revoked"
    BY <1>1 DEF Honest, HonestPoll, HonestRevocation, RegistryInv, ReportedOnLedger
  <2>3. Ledger /\ ops[x].cur \in ops[x].known => a # "good"
    BY <2>2 DEF StatusOf
  <2>4. ops[x].kind = "status"
    BY <1>1, <1>2 DEF StatusRead, At, Honest, HonestPoll, HonestRevocation, StepsOfKind
  <2> HIDE DEF a
  <2>5. Honest(op, ledger, reported)
    BY <1>1, <2>3, <2>4 DEF Honest, HonestPoll, HonestRevocation, StepsOfKind, Operation
  <2> HIDE DEF op
  <2>6. QED
    BY <1>2, <2>1, <2>5, QuietMoveKeeps DEF StatusRead
<1>3. CASE StatusReadFails(x)
  <2>1. End(x, "failed") /\ UNCHANGED <<ledger, reported>>
    BY <1>3 DEF StatusReadFails
  <2>2. Grows(ledger, ledger')
    BY <2>1 DEF Grows
  <2>3. QED
    BY <2>1, <2>2, EndKeeps DEF Ended
<1>4. QED
  BY <1>2, <1>3 DEF StatusStep

LEMMA RestartKeeps ==
    ASSUME RegistryInv, Restart
    PROVE  AllHonest' /\ (Ledger => ReportedOnLedger')
<1>1. ASSUME NEW x \in Ops
      PROVE  Honest(ops'[x], ledger, reported)
  <2>1. Honest([IdleOp EXCEPT !.kind = ops[x].kind, !.step = "lost"], ledger, reported)
    BY EndHonest DEF Ended
  <2>2. QED
    BY <2>1 DEF Restart, RegistryInv, AllHonest
<1>2. QED
  BY <1>1 DEF Restart, AllHonest, RegistryInv, ReportedOnLedger

\* Assets only grow, whatever the configuration.
LEMMA LedgerGrows ==
    ASSUME TypeOK, Next
    PROVE  Grows(ledger, ledger')
<1>1. ledger \in Assets /\ \A x \in Ops : ops[x].step \in Busy => ops[x].cur \in Creds
  BY TypeParts DEF OpsFit, Fits
<1>2. UNCHANGED ledger => Grows(ledger, ledger')
  BY DEF Grows
<1>3. ASSUME NEW c \in Creds, ledger[c] = "absent", ledger' = [ledger EXCEPT ![c] = "active"]
      PROVE  Grows(ledger, ledger')
  BY <1>1, <1>3 DEF Grows, Assets
<1>4. ASSUME NEW c \in Creds, ledger' = [ledger EXCEPT ![c] = "revoked"]
      PROVE  Grows(ledger, ledger')
  BY <1>1, <1>4 DEF Grows, Assets
<1>5. ASSUME NEW x \in Ops, Request(x)
      PROVE  UNCHANGED ledger
  BY <1>5 DEF Request, PollStart, IssueStart, RevokeStart, StatusStart, StatusNotRead, Start
<1>6. ASSUME NEW x \in Ops, RegisterStep(x)
      PROVE  Grows(ledger, ledger')
  <2>1. At(x, "create") => ops[x].cur \in Creds
    BY <1>1 DEF At, Busy
  <2>2. CASE LedgerCreate(x)
    BY <1>3, <2>1, <2>2 DEF LedgerCreate
  <2>3. CASE LedgerFails(x)
    BY <1>2, <1>3, <2>1, <2>3 DEF LedgerFails
  <2>4. QED
    BY <1>2, <1>6, <2>2, <2>3
       DEF RegisterStep, LedgerRead, Store, StoreFails, StoreSynced, SyncFails
<1>7. ASSUME NEW x \in Ops, RevokeStep(x)
      PROVE  Grows(ledger, ledger')
  <2>1. At(x, "update") => ops[x].cur \in Creds
    BY <1>1 DEF At, Busy
  <2>2. CASE RevokeUpdate(x)
    BY <1>4, <2>1, <2>2 DEF RevokeUpdate
  <2>3. CASE RevokeLedgerFails(x)
    BY <1>2, <1>4, <2>1, <2>3 DEF RevokeLedgerFails
  <2>4. QED
    BY <1>2, <1>7, <2>2, <2>3
       DEF RevokeStep, RevokeFind, RevokeNotFound, RevokeRead, RevokeStore, RevokeStoreFails
<1>8. ASSUME NEW x \in Ops, StatusStep(x)
      PROVE  UNCHANGED ledger
  BY <1>8 DEF StatusStep, StatusRead, StatusReadFails
<1>9. Restart => UNCHANGED ledger
  BY DEF Restart
<1>10. QED
  BY <1>2, <1>5, <1>6, <1>7, <1>8, <1>9 DEF Next

\* A write of good records revokes none, and one of a revocation only what the
\* ledger has revoked.
LEMMA WritesBehind ==
    ASSUME RegistryInv, Ledger, NEW m, NEW C, NEW s,
           s = "revoked" => \A c \in C : ledger[c] = "revoked"
    PROVE  \A n \in 1..Batches, c \in Creds :
               Written(m, C, s)[n][c] = "revoked" => ledger[c] = "revoked"
<1>1. store \in Records
  BY TypeParts DEF RegistryInv
<1>2. QED
  BY <1>1 DEF RegistryInv, RecordsBehind, Written, Stored, Records

LEMMA RecordsStayBehind ==
    ASSUME Governed, RegistryInv, Next
    PROVE  RecordsBehind'
<1>1. Grows(ledger, ledger')
  BY LedgerGrows DEF RegistryInv
<1>2. UNCHANGED store => RecordsBehind'
  BY <1>1 DEF Governed, RegistryInv, RecordsBehind, Grows
<1>3. ASSUME NEW m, NEW C, NEW s, store' = Written(m, C, s),
             s = "revoked" => \A c \in C : ledger[c] = "revoked"
      PROVE  RecordsBehind'
  BY <1>1, <1>3, WritesBehind DEF Governed, RecordsBehind, Grows
<1>4. ASSUME NEW x \in Ops, Request(x)
      PROVE  UNCHANGED store
  BY <1>4 DEF Request, PollStart, IssueStart, RevokeStart, StatusStart, StatusNotRead, Start
<1>5. ASSUME NEW x \in Ops, RegisterStep(x)
      PROVE  RecordsBehind'
  <2>1. UNCHANGED store \/ \E m, C : store' = Written(m, C, "good")
    BY <1>5 DEF RegisterStep, LedgerRead, LedgerCreate, LedgerFails, Store, StoreFails,
                StoreSynced, SyncFails
  <2>2. QED
    BY <1>2, <1>3, <2>1
<1>6. ASSUME NEW x \in Ops, RevokeStep(x)
      PROVE  RecordsBehind'
  <2>1. \/ UNCHANGED store
        \/ At(x, "syncRevoke") /\ \E m : store' = Written(m, {ops[x].cur}, "revoked")
    BY <1>6 DEF RevokeStep, RevokeFind, RevokeNotFound, RevokeRead, RevokeUpdate,
                RevokeLedgerFails, RevokeStore, RevokeStoreFails
  <2>2. At(x, "syncRevoke") => ledger[ops[x].cur] = "revoked"
    BY DEF At, Governed, RegistryInv, AllHonest, Honest, HonestRevocation
  <2>3. QED
    BY <1>2, <1>3, <2>1, <2>2
<1>7. ASSUME NEW x \in Ops, StatusStep(x)
      PROVE  UNCHANGED store
  BY <1>7 DEF StatusStep, StatusRead, StatusReadFails
<1>8. Restart => RecordsBehind'
  BY <1>2 DEF Restart, RecordsBehind, Absent
<1>9. QED
  BY <1>2, <1>4, <1>5, <1>6, <1>7, <1>8 DEF Next

LEMMA RegistryInit == Init => RegistryInv
<1>1. ASSUME Init
      PROVE  AllHonest /\ ReportedOnLedger /\ RecordsBehind
  <2>1. ASSUME NEW x \in Ops
        PROVE  Honest(ops[x], ledger, reported)
    BY <1>1 DEF Init, Honest, HonestPoll, HonestRevocation, StepsOfKind, IdleOp
  <2>2. QED
    BY <1>1, <2>1 DEF Init, AllHonest, ReportedOnLedger, RecordsBehind, Absent
<1>2. QED
  BY <1>1, TypeInit DEF RegistryInv

LEMMA RegistryNext ==
    ASSUME LedgerRequired
    PROVE  RegistryInv /\ [Next]_vars => RegistryInv'
<1> SUFFICES ASSUME RegistryInv, [Next]_vars
             PROVE  RegistryInv'
  OBVIOUS
<1>1. TypeOK'
  BY TypeNext DEF RegistryInv
<1>2. CASE UNCHANGED vars
  BY <1>1, <1>2 DEF vars, RegistryInv, AllHonest, ReportedOnLedger, RecordsBehind
<1>3. CASE Next
  <2>1. AllHonest' /\ (Ledger => ReportedOnLedger')
    BY <1>3, RequestKeeps, RegisterKeeps, RevokeKeeps, StatusKeeps, RestartKeeps DEF Next
  <2>2. Ledger => RecordsBehind'
    BY <1>3, RecordsStayBehind DEF Governed
  <2>3. QED
    BY <1>1, <2>1, <2>2 DEF RegistryInv
<1>4. QED
  BY <1>2, <1>3

\* Where the ledger is required, what its invariant says of records and
\* operations holds, whether or not _revoke and _status use it.
LEMMA RegistryCorrect ==
    ASSUME LedgerRequired
    PROVE  Spec => []RegistryInv
BY RegistryInit, RegistryNext, PTL DEF Spec

\* Where _revoke uses a required ledger, a reported revocation stands on it
\* (credential-revoke-request-manager.ts), for any overlapping operations.
THEOREM RevocationStands ==
    ASSUME Governed
    PROVE  Spec => []ReportedOnLedger
<1>1. RegistryInv => ReportedOnLedger
  BY DEF Governed, RegistryInv
<1>2. QED
  BY <1>1, RegistryCorrect, PTL DEF Governed

\* There a _status that began after a revocation was reported does not answer
\* "good" (credential-status-request-manager.ts), whatever record it saw.
THEOREM StatusCorrect ==
    ASSUME Governed
    PROVE  Spec => []StatusHonoursRevocation
<1>1. RegistryInv => StatusHonoursRevocation
  BY DEF Governed, RegistryInv, AllHonest, Honest, HonestRevocation, StatusHonoursRevocation
<1>2. QED
  BY <1>1, RegistryCorrect, PTL DEF Governed

\* Where every _verify route has a ledger and it is required, a bundle is
\* stored after each of its credentials is on it (verify-response-manager.ts),
\* however polls overlap.
THEOREM AnchoringPrecedesStoring ==
    ASSUME LedgerRequired, Anchoring \subseteq {TRUE}
    PROVE  Spec => []AnchoredBeforeStored
<1>1. RegistryInv => AnchoredBeforeStored
  BY DEF RegistryInv, AllHonest, Honest, HonestPoll, AnchoredBeforeStored
<1>2. QED
  BY <1>1, RegistryCorrect, PTL

-----------------------------------------------------------------------------
(* The refinement: what _revoke and _status do of the contract.            *)

Standing == [c \in Creds |-> StandingOf(ledger[c])]
Asked == [x \in Ops |-> QuestionOf(ops[x])]
NoQuestion == [cred |-> None, answer |-> "none"]

\* The contract's actions on the mapped state.
LEMMA MappedActions ==
    /\ \A c : Contract!Register(c) <=>
          /\ Standing[c] = "unregistered"
          /\ Standing' = [Standing EXCEPT ![c] = "registered"]
          /\ UNCHANGED <<reported, Asked>>
    /\ \A c : Contract!Revoke(c) <=>
          /\ Standing[c] = "registered"
          /\ Standing' = [Standing EXCEPT ![c] = "revoked"]
          /\ UNCHANGED <<reported, Asked>>
    /\ \A C : Contract!Report(C) <=>
          /\ \A c \in C : Standing[c] = "revoked"
          /\ reported' = reported \cup C
          /\ UNCHANGED <<Standing, Asked>>
    /\ \A x, c : Contract!Ask(x, c) <=>
          /\ Asked[x].answer # "pending"
          /\ \E answer \in {"pending", "unknown"} :
                Asked' = [Asked EXCEPT ![x] = [cred |-> c, answer |-> answer]]
          /\ UNCHANGED <<Standing, reported>>
    /\ \A x : Contract!Tell(x) <=>
          /\ Asked[x].answer = "pending"
          /\ Asked' = [Asked EXCEPT ![x].answer =
                         IF Standing[Asked[x].cred] = "revoked" THEN "revoked" ELSE "good"]
          /\ UNCHANGED <<Standing, reported>>
    /\ \A X : Contract!Leave(X) <=>
          /\ Asked' = [x \in Ops |-> IF x \in X THEN NoQuestion ELSE Asked[x]]
          /\ UNCHANGED <<Standing, reported>>
    /\ UNCHANGED <<Standing, reported, Asked>> => UNCHANGED Contract!vars
BY DEF Contract!Register, Contract!Revoke, Contract!Report, Contract!Ask, Contract!Tell,
       Contract!Told, Contract!Leave, Contract!NoQuestion, Contract!vars, Standing, Asked,
       NoQuestion

LEMMA AskedNext == Asked' = [x \in Ops |-> QuestionOf(ops'[x])]
BY DEF Asked, QuestionOf

\* One operation moves, and its question with it.
LEMMA OneQuestion ==
    ASSUME OpsFit, NEW x \in Ops, NEW op, ops' = [ops EXCEPT ![x] = op]
    PROVE  Asked' = [Asked EXCEPT ![x] = QuestionOf(op)]
<1>1. \A y \in Ops : ops'[y] = IF y = x THEN op ELSE ops[y]
  BY DEF OpsFit
<1>2. \A y \in Ops : QuestionOf(ops'[y]) = IF y = x THEN QuestionOf(op) ELSE QuestionOf(ops[y])
  BY <1>1
<1>3. QED
  BY <1>2, AskedNext DEF Asked

\* An operation that is no _status any more, or has no answer, leaves.
LEMMA LeaveRefines ==
    ASSUME OpsFit, NEW x \in Ops, NEW op, ops' = [ops EXCEPT ![x] = op],
           QuestionOf(op) = NoQuestion, UNCHANGED <<ledger, reported>>
    PROVE  Contract!Next
<1>1. Asked' = [Asked EXCEPT ![x] = NoQuestion]
  BY OneQuestion
<1>2. Asked' = [y \in Ops |-> IF y \in {x} THEN NoQuestion ELSE Asked[y]]
  BY <1>1 DEF Asked
<1>3. Contract!Leave({x})
  BY <1>2, MappedActions DEF Standing
<1>4. QED
  BY <1>3 DEF Contract!Next

\* The steps of polls, _issue and _revoke ask nothing.
LEMMA QuestionsKept ==
    ASSUME RegistryInv, NEW x \in Ops, RegisterStep(x) \/ RevokeStep(x)
    PROVE  UNCHANGED Asked
<1>1. OpsFit /\ ops[x] \in Operation /\ Honest(ops[x], ledger, reported)
  BY TypeParts DEF RegistryInv, OpsFit, Fits, AllHonest
<1>2. ops[x].kind # "status"
  <2>1. RegisterStep(x) => ops[x].step \in {"read", "create", "store", "sync"}
    BY DEF At, RegisterStep, LedgerRead, LedgerCreate, LedgerFails, Store, StoreFails,
           StoreSynced, SyncFails
  <2>2. RevokeStep(x) => ops[x].step \in {"find", "readRevoke", "update", "syncRevoke"}
    BY DEF At, RevokeStep, RevokeFind, RevokeNotFound, RevokeRead, RevokeUpdate,
           RevokeLedgerFails, RevokeStore, RevokeStoreFails
  <2>3. QED
    BY <1>1, <2>1, <2>2 DEF Honest, StepsOfKind
<1>3. ASSUME NEW op, op.kind = ops[x].kind, ops' = [ops EXCEPT ![x] = op]
      PROVE  UNCHANGED Asked
  <2>1. QuestionOf(op) = QuestionOf(ops[x])
    BY <1>2, <1>3 DEF QuestionOf
  <2>2. QED
    BY <1>1, <1>3, <2>1, OneQuestion DEF Asked
<1>4. ASSUME NEW how, End(x, how)
      PROVE  UNCHANGED Asked
  <2> DEFINE op == [IdleOp EXCEPT !.kind = ops[x].kind, !.step = how]
  <2>1. op.kind = ops[x].kind /\ ops' = [ops EXCEPT ![x] = op]
    BY <1>4 DEF End, IdleOp
  <2> HIDE DEF op
  <2>2. QED
    BY <1>3, <2>1
<1>5. ASSUME NEW step, Goto(x, step)
      PROVE  UNCHANGED Asked
  <2> DEFINE op == [ops[x] EXCEPT !.step = step]
  <2>1. op.kind = ops[x].kind /\ ops' = [ops EXCEPT ![x] = op]
    BY <1>1, <1>5 DEF Goto, Operation
  <2> HIDE DEF op
  <2>2. QED
    BY <1>3, <2>1
<1>6. ASSUME NEW c, Anchored(x, c)
      PROVE  UNCHANGED Asked
  <2>1. AnchoredOp(ops[x], c).kind = ops[x].kind
    BY <1>1 DEF AnchoredOp, Operation
  <2>2. QED
    BY <1>1, <1>3, <1>6, <2>1, AnchoredForm
<1>7. ASSUME NEW step, NEW n, ops' = [ops EXCEPT ![x].step = step, ![x].batch = n]
      PROVE  UNCHANGED Asked
  <2> DEFINE op == [ops[x] EXCEPT !.step = step, !.batch = n]
  <2>1. op.kind = ops[x].kind /\ ops' = [ops EXCEPT ![x] = op]
    BY <1>1, <1>7 DEF Operation, OpsFit
  <2> HIDE DEF op
  <2>2. QED
    BY <1>3, <2>1
<1>8. ASSUME NEW step, NEW c, ops' = [ops EXCEPT ![x].step = step, ![x].cur = c]
      PROVE  UNCHANGED Asked
  <2> DEFINE op == [ops[x] EXCEPT !.step = step, !.cur = c]
  <2>1. op.kind = ops[x].kind /\ ops' = [ops EXCEPT ![x] = op]
    BY <1>1, <1>8 DEF Operation, OpsFit
  <2> HIDE DEF op
  <2>2. QED
    BY <1>3, <2>1
<1>9. ASSUME NEW c, RevokeFind(x, c)
      PROVE  UNCHANGED Asked
  <2> DEFINE next == IF Ledger THEN "readRevoke" ELSE "syncRevoke"
  <2>1. PICK n \in 1..Batches :
          ops' = [ops EXCEPT ![x].cur = c, ![x].batch = n, ![x].step = next]
    BY <1>9 DEF RevokeFind
  <2> DEFINE op == [ops[x] EXCEPT !.cur = c, !.batch = n, !.step = next]
  <2>2. op.kind = ops[x].kind /\ ops' = [ops EXCEPT ![x] = op]
    BY <1>1, <2>1 DEF Operation, OpsFit
  <2> HIDE DEF op
  <2>3. QED
    BY <1>3, <2>2
<1>10. ASSUME Revoked(x)
       PROVE  UNCHANGED Asked
  <2> DEFINE rest == ops[x].todo \ {ops[x].cur}
             op == [ops[x] EXCEPT !.todo = rest, !.cur = None, !.batch = 0, !.step = "find"]
  <2>1. CASE rest = {}
    BY <1>4, <1>10, <2>1 DEF Revoked
  <2>2. CASE rest # {}
    <3>1. ops' = [ops EXCEPT ![x].todo = rest, ![x].cur = None, ![x].batch = 0,
                             ![x].step = "find"]
      BY <1>10, <2>2 DEF Revoked
    <3> HIDE DEF rest
    <3>2. op.kind = ops[x].kind /\ ops' = [ops EXCEPT ![x] = op]
      BY <1>1, <3>1 DEF Operation, OpsFit
    <3> HIDE DEF op
    <3>3. QED
      BY <1>3, <3>2
  <2>3. QED
    BY <2>1, <2>2
<1>11. RegisterStep(x) => UNCHANGED Asked
  BY <1>4, <1>6, <1>7, <1>8 DEF RegisterStep, LedgerRead, LedgerCreate, LedgerFails,
     LedgerThrew, Store, StoreFails, StoreSynced, SyncFails
<1>12. RevokeStep(x) => UNCHANGED Asked
  BY <1>4, <1>5, <1>9, <1>10 DEF RevokeStep, RevokeNotFound, RevokeRead, RevokeUpdate,
     RevokeLedgerFails, RevokeStore, RevokeStoreFails
<1>13. QED
  BY <1>11, <1>12

\* A step of the ledger registers a credential, revokes it, or leaves it as it is.
LEMMA LedgerSteps ==
    ASSUME RegistryInv, Ledger, NEW x \in Ops, RegisterStep(x) \/ RevokeStep(x)
    PROVE  \/ UNCHANGED ledger
           \/ /\ UNCHANGED reported
              /\ \E c \in Creds :
                    \/ ledger[c] = "absent" /\ ledger' = [ledger EXCEPT ![c] = "active"]
                    \/ ledger[c] # "absent" /\ ledger' = [ledger EXCEPT ![c] = "revoked"]
<1>1. Fits(ops[x]) /\ Honest(ops[x], ledger, reported)
  BY TypeParts DEF RegistryInv, OpsFit, AllHonest
<1>2. At(x, "create") \/ At(x, "update") => ops[x].cur \in Creds
  BY <1>1 DEF Fits, At, Busy
<1>3. At(x, "update") => ledger[ops[x].cur] # "absent"
  BY <1>1 DEF Honest, HonestRevocation, At
<1>4. CASE LedgerCreate(x) \/ LedgerFails(x)
  BY <1>2, <1>4 DEF LedgerCreate, LedgerFails
<1>5. CASE RevokeUpdate(x) \/ RevokeLedgerFails(x)
  BY <1>2, <1>3, <1>5 DEF RevokeUpdate, RevokeLedgerFails
<1>6. CASE RegisterStep(x) /\ ~LedgerCreate(x) /\ ~LedgerFails(x)
  BY <1>6 DEF RegisterStep, LedgerRead, Store, StoreFails, StoreSynced, SyncFails
<1>7. CASE RevokeStep(x) /\ ~RevokeUpdate(x) /\ ~RevokeLedgerFails(x)
  BY <1>7 DEF RevokeStep, RevokeFind, RevokeNotFound, RevokeRead, RevokeStore, RevokeStoreFails
<1>8. QED
  BY <1>4, <1>5, <1>6, <1>7

\* A report is one of credentials that are revoked.
LEMMA ReportSteps ==
    ASSUME RegistryInv, Ledger, NEW x \in Ops, RegisterStep(x) \/ RevokeStep(x), UNCHANGED ledger
    PROVE  \/ UNCHANGED reported
           \/ \E C \in SUBSET Creds :
                reported' = reported \cup C /\ \A c \in C : ledger[c] = "revoked"
<1>1. Fits(ops[x]) /\ Honest(ops[x], ledger, reported)
  BY TypeParts DEF RegistryInv, OpsFit, AllHonest
<1>2. CASE At(x, "syncRevoke") /\ Revoked(x)
  <2> DEFINE rest == ops[x].todo \ {ops[x].cur}
  <2>1. rest = {} => \A c \in ops[x].items : ledger[c] = "revoked"
    BY <1>1, <1>2 DEF At, Honest, StepsOfKind, HonestRevocation
  <2>2. ops[x].items \in SUBSET Creds
    BY <1>1 DEF Fits, Operation
  <2>3. QED
    BY <1>2, <2>1, <2>2 DEF Revoked
<1>3. CASE RegisterStep(x)
  BY <1>3 DEF RegisterStep, LedgerRead, LedgerCreate, LedgerFails, Store, StoreFails,
              StoreSynced, SyncFails
<1>4. CASE RevokeStep(x) /\ ~(At(x, "syncRevoke") /\ Revoked(x))
  BY <1>4 DEF RevokeStep, RevokeFind, RevokeNotFound, RevokeRead, RevokeUpdate,
              RevokeLedgerFails, RevokeStore, RevokeStoreFails
<1>5. QED
  BY <1>2, <1>3, <1>4

LEMMA RegisterAndRevokeRefine ==
    ASSUME Ledger, RegistryInv, NEW x \in Ops, RegisterStep(x) \/ RevokeStep(x)
    PROVE  Contract!Next \/ UNCHANGED Contract!vars
<1>1. UNCHANGED Asked
  BY QuestionsKept
<1>2. ledger \in Assets
  BY TypeParts DEF RegistryInv
<1>3. CASE UNCHANGED ledger
  <2>1. CASE UNCHANGED reported
    BY <1>1, <1>3, <2>1, MappedActions DEF Standing
  <2>2. ASSUME NEW C \in SUBSET Creds, reported' = reported \cup C,
               \A c \in C : ledger[c] = "revoked"
        PROVE  Contract!Next
    <3>1. Contract!Report(C)
      BY <1>1, <1>3, <2>2, MappedActions DEF Standing, StandingOf
    <3>2. QED
      BY <3>1 DEF Contract!Next
  <2>3. QED
    BY <1>3, <2>1, <2>2, ReportSteps
<1>4. ASSUME NEW c \in Creds, ledger[c] = "absent", ledger' = [ledger EXCEPT ![c] = "active"],
             UNCHANGED reported
      PROVE  Contract!Next
  <2>1. Standing[c] = "unregistered" /\ Standing' = [Standing EXCEPT ![c] = "registered"]
    BY <1>2, <1>4 DEF Standing, StandingOf, Assets
  <2>2. Contract!Register(c)
    BY <1>1, <1>4, <2>1, MappedActions
  <2>3. QED
    BY <2>2 DEF Contract!Next
<1>5. ASSUME NEW c \in Creds, ledger[c] # "absent", ledger' = [ledger EXCEPT ![c] = "revoked"],
             UNCHANGED reported
      PROVE  Contract!Next \/ UNCHANGED Contract!vars
  <2>1. CASE ledger[c] = "revoked"
    <3>1. UNCHANGED ledger
      BY <1>2, <1>5, <2>1 DEF Assets
    <3>2. QED
      BY <1>1, <1>5, <3>1, MappedActions DEF Standing
  <2>2. CASE ledger[c] = "active"
    <3>1. Standing[c] = "registered" /\ Standing' = [Standing EXCEPT ![c] = "revoked"]
      BY <1>2, <1>5, <2>2 DEF Standing, StandingOf, Assets
    <3>2. Contract!Revoke(c)
      BY <1>1, <1>5, <3>1, MappedActions
    <3>3. QED
      BY <3>2 DEF Contract!Next
  <2>3. QED
    BY <1>2, <1>5, <2>1, <2>2 DEF Assets
<1>6. QED
  BY <1>3, <1>4, <1>5, LedgerSteps

\* Requests: a _status asks, any other takes the place of an answer.
LEMMA RequestRefines ==
    ASSUME Ledger, RegistryInv, NEW x \in Ops, Request(x)
    PROVE  Contract!Next
<1>1. OpsFit /\ ops[x] \in Operation
  BY TypeParts DEF RegistryInv, OpsFit, Fits
<1>2. ASSUME NEW op, Start(x, op), QuestionOf(op) = NoQuestion
      PROVE  Contract!Next
  BY <1>1, <1>2, LeaveRefines DEF Start
<1>3. ASSUME NEW k \in {"verify", "issue", "revoke"}, NEW op, Start(x, op), op.kind = k
      PROVE  Contract!Next
  BY <1>2, <1>3 DEF QuestionOf, NoQuestion
<1>4. CASE \E C \in SUBSET Creds \ {{}} :
            \/ \E anchored \in Anchoring : PollStart(x, C, anchored)
            \/ IssueStart(x, C) \/ RevokeStart(x, C)
  <2>1. PICK C \in SUBSET Creds \ {{}} :
            \/ \E anchored \in Anchoring : PollStart(x, C, anchored)
            \/ IssueStart(x, C) \/ RevokeStart(x, C)
    BY <1>4
  <2>2. ASSUME NEW anchored, PollStart(x, C, anchored)
        PROVE  Contract!Next
    <3> DEFINE op == [IdleOp EXCEPT !.kind = "verify", !.items = C, !.todo = C,
                                    !.step = IF anchored THEN "read" ELSE "store"]
    <3>1. Start(x, op) /\ op.kind = "verify"
      BY <2>2 DEF PollStart, IdleOp
    <3> HIDE DEF op
    <3>2. QED
      BY <1>3, <3>1
  <2>3. CASE IssueStart(x, C)
    <3> DEFINE op == [IdleOp EXCEPT !.kind = "issue", !.items = C, !.step = "store"]
    <3>1. Start(x, op) /\ op.kind = "issue"
      BY <2>3 DEF IssueStart, IdleOp
    <3> HIDE DEF op
    <3>2. QED
      BY <1>3, <3>1
  <2>4. CASE RevokeStart(x, C)
    <3> DEFINE op == [IdleOp EXCEPT !.kind = "revoke", !.items = C, !.todo = C, !.step = "find"]
    <3>1. Start(x, op) /\ op.kind = "revoke"
      BY <2>4 DEF RevokeStart, IdleOp
    <3> HIDE DEF op
    <3>2. QED
      BY <1>3, <3>1
  <2>5. QED
    BY <2>1, <2>2, <2>3, <2>4
<1>5. CASE StatusNotRead(x)
  <2> DEFINE op == [IdleOp EXCEPT !.kind = "status", !.step = "failed"]
  <2>1. Start(x, op) /\ QuestionOf(op) = NoQuestion
    BY <1>5 DEF StatusNotRead, IdleOp, QuestionOf, NoQuestion
  <2> HIDE DEF op
  <2>2. QED
    BY <1>2, <2>1
<1>6. ASSUME NEW c \in Creds, StatusStart(x, c)
      PROVE  Contract!Next
  <2> DEFINE op == [IdleOp EXCEPT !.kind = "status", !.cur = c, !.known = reported]
             unknown == [op EXCEPT !.step = "succeeded", !.answer = "unknown"]
             asking(n) == [op EXCEPT !.step = "readStatus", !.seen = store[n][c]]
  <2>1. QuestionOf(unknown) = [cred |-> c, answer |-> "unknown"]
    BY DEF QuestionOf, IdleOp
  <2>2. \A n \in 1..Batches : QuestionOf(asking(n)) = [cred |-> c, answer |-> "pending"]
    BY DEF QuestionOf, IdleOp
  <2>3. Start(x, unknown) \/ \E n \in 1..Batches : Start(x, asking(n))
    BY <1>6 DEF StatusStart
  <2> HIDE DEF op, unknown, asking
  <2>4. \E new : /\ Start(x, new)
                 /\ \E answer \in {"pending", "unknown"} :
                        QuestionOf(new) = [cred |-> c, answer |-> answer]
    BY <2>1, <2>2, <2>3
  <2>5. PICK new : /\ Start(x, new)
                   /\ \E answer \in {"pending", "unknown"} :
                        QuestionOf(new) = [cred |-> c, answer |-> answer]
    BY <2>4
  <2>6. Asked' = [Asked EXCEPT ![x] = QuestionOf(new)] /\ UNCHANGED <<Standing, reported>>
    BY <1>1, <2>5, OneQuestion DEF Start, Standing
  <2>7. Asked[x].answer # "pending"
    BY <1>1, <2>5 DEF Start, Midway, Ended, Asked, QuestionOf, Operation
  <2>8. Contract!Ask(x, c)
    BY <2>5, <2>6, <2>7, MappedActions
  <2>9. QED
    BY <2>8 DEF Contract!Next
<1>7. QED
  BY <1>4, <1>5, <1>6 DEF Request

\* The answer of a _status is the credential's standing when it is given: what
\* the ledger says, or, of a credential it does not know, a record which then
\* cannot be a revoked one.
LEMMA StatusRefines ==
    ASSUME Governed, RegistryInv, NEW x \in Ops, StatusStep(x)
    PROVE  Contract!Next
<1>1. OpsFit /\ Fits(ops[x]) /\ ops[x] \in Operation /\ Honest(ops[x], ledger, reported)
  BY TypeParts DEF RegistryInv, OpsFit, Fits, AllHonest
<1>2. ledger \in Assets
  BY TypeParts DEF RegistryInv
<1>3. CASE StatusRead(x)
  <2> DEFINE c == ops[x].cur
             a == IF ledger[c] = "absent" THEN ops[x].seen ELSE StatusOf(ledger[c])
             op == [ops[x] EXCEPT !.step = "succeeded", !.answer = a]
  <2>1. ops[x].step = "readStatus" /\ ops[x].kind = "status" /\ c \in Creds
    BY <1>1, <1>3 DEF StatusRead, At, Honest, StepsOfKind, Fits, Busy
  <2>2. ops' = [ops EXCEPT ![x] = op] /\ UNCHANGED <<ledger, reported>>
    BY <1>1, <1>3 DEF StatusRead, Answer, OpsFit, Operation
  <2>3. ledger[c] = "absent" => ops[x].seen = "good"
    BY <1>1, <2>1 DEF Governed, Honest, HonestRevocation, Fits, Operation
  <2>4. a = IF Standing[c] = "revoked" THEN "revoked" ELSE "good"
    BY <1>2, <2>1, <2>3 DEF Standing, StandingOf, StatusOf, Assets
  <2>5. op.kind = "status" /\ op.step = "succeeded" /\ op.cur = c /\ op.answer = a
    BY <1>1, <2>1 DEF Operation
  <2>6. Asked[x] = [cred |-> c, answer |-> "pending"]
    BY <2>1 DEF Asked, QuestionOf
  <2> HIDE DEF a, op, c
  <2>7. QuestionOf(op) = [cred |-> c, answer |-> a]
    BY <2>5 DEF QuestionOf
  <2>8. Asked' = [Asked EXCEPT ![x] = [cred |-> c, answer |-> a]]
    BY <1>1, <2>2, <2>7, OneQuestion
  <2>9. [Asked[x] EXCEPT !.answer = a] = [cred |-> c, answer |-> a]
    BY <2>6
  <2>10. Asked' = [Asked EXCEPT ![x].answer = a]
    BY <2>8, <2>9
  <2>11. Contract!Tell(x)
    BY <2>2, <2>4, <2>6, <2>10, MappedActions DEF Standing
  <2>12. QED
    BY <2>11 DEF Contract!Next
<1>4. CASE StatusReadFails(x)
  <2> DEFINE op == [IdleOp EXCEPT !.kind = ops[x].kind, !.step = "failed"]
  <2>1. ops' = [ops EXCEPT ![x] = op] /\ UNCHANGED <<ledger, reported>>
    BY <1>4 DEF StatusReadFails, End, Governed
  <2>2. QuestionOf(op) = NoQuestion
    BY DEF QuestionOf, NoQuestion, IdleOp
  <2> HIDE DEF op
  <2>3. QED
    BY <1>1, <2>1, <2>2, LeaveRefines
<1>5. QED
  BY <1>3, <1>4 DEF StatusStep

LEMMA RestartRefines ==
    ASSUME RegistryInv, Restart
    PROVE  Contract!Next
<1> DEFINE X == {x \in Ops : Midway(x)}
<1>1. \A x \in Ops : QuestionOf(ops'[x]) = IF x \in X THEN NoQuestion ELSE QuestionOf(ops[x])
  BY DEF Restart, QuestionOf, NoQuestion, IdleOp
<1>2. Asked' = [x \in Ops |-> IF x \in X THEN NoQuestion ELSE Asked[x]]
  BY <1>1, AskedNext DEF Asked
<1>3. UNCHANGED <<Standing, reported>> /\ X \in SUBSET Ops
  BY DEF Restart, Standing
<1> HIDE DEF X
<1>4. Contract!Leave(X)
  BY <1>2, <1>3, MappedActions
<1>5. QED
  BY <1>3, <1>4 DEF Contract!Next

\* Where _revoke and _status use the ledger and it is required, they implement
\* RevocationContract, for any credentials, batches, overlapping operations,
\* failing calls and restarts, and whether or not every poll anchors.
THEOREM ImplementsRevocation ==
    ASSUME Governed
    PROVE  Spec => ImplementsRevocationContract
<1>1. Init => Contract!Init
  BY DEF Init, Absent, Contract!Init, Contract!NoQuestion, StandingOf, QuestionOf, IdleOp
<1>2. ASSUME RegistryInv, [Next]_vars
      PROVE  [Contract!Next]_Contract!vars
  <2>1. CASE UNCHANGED vars
    BY <2>1, MappedActions DEF vars, Standing, Asked
  <2>2. CASE Next
    BY <1>2, <2>2, RequestRefines, RegisterAndRevokeRefine, StatusRefines, RestartRefines
       DEF Next, Governed
  <2>3. QED
    BY <1>2, <2>1, <2>2
<1>3. Spec => []RegistryInv
  BY RegistryCorrect DEF Governed
<1>4. QED
  BY <1>1, <1>2, <1>3, PTL DEF Spec, ImplementsRevocationContract, Contract!Spec
=============================================================================
