------------------------ MODULE RevocationRefinement ------------------------
(***************************************************************************)
(* Where _status and _revoke use the ledger and it is required, the        *)
(* credential registry keeps the promise of RevocationContract.  The       *)
(* mapping forgets the records and where each operation is.                *)
(***************************************************************************)
EXTENDS CredentialRegistry

StandingOf(asset) ==
    IF asset = "absent" THEN "unregistered"
    ELSE IF asset = "active" THEN "registered"
    ELSE "revoked"

\* A _status that waits for the ledger is a pending question, and one that
\* succeeded an answered one.
QuestionOf(op) ==
    IF op.kind = "status" /\ op.step = "readStatus"
        THEN [cred |-> op.cur, answer |-> "pending"]
    ELSE IF op.kind = "status" /\ op.step = "succeeded"
        THEN [cred |-> op.cur, answer |-> op.answer]
    ELSE [cred |-> None, answer |-> "none"]

Contract == INSTANCE RevocationContract
                WITH Clients <- Ops,
                     standing <- [c \in Creds |-> StandingOf(ledger[c])],
                     asked <- [x \in Ops |-> QuestionOf(ops[x])]

\* Whatever overlaps, is retried or fails, revoking and asking for a status
\* act at one moment each: an answer is true when it is given, be it taken
\* from the ledger or from a record, and a revocation is final.
ImplementsRevocationContract == Contract!Spec
=============================================================================
