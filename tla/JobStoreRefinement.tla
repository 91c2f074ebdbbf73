------------------------- MODULE JobStoreRefinement -------------------------
(***************************************************************************)
(* The job store keeps the promise of AsyncContract when no two            *)
(* submissions share a thread id.  The mapping forgets the Map, the thread *)
(* ids and the clock.                                                      *)
(***************************************************************************)
EXTENDS JobStore

\* A submission's outcome is read from the job under its thread id.
OutcomeOf(s) ==
    IF phase[s] = "new" THEN "new"
    ELSE IF Outstanding(s) THEN "pending"
    ELSE IF phase[s] = "lost" \/ jobs[ThidOf[s]] = NoJob THEN "forgotten"
    ELSE jobs[ThidOf[s]].status

\* With unique thread ids a thread has one submission.
OwnerOf(t) == CHOOSE s \in Subs : ThidOf[s] = t

ReplyOf(a) ==
    IF a.kind = "pending" THEN [to |-> OwnerOf(a.thid), kind |-> "pending"]
    ELSE [to |-> a.by, kind |-> a.kind]

Contract == INSTANCE AsyncContract
                WITH outcome <- [s \in Subs |-> OutcomeOf(s)],
                     reply <- ReplyOf(answer)

\* The store, the workers and the polls implement the contract: accepted,
\* pending, settled once, answered from its own state, then forgotten.
ImplementsContract == Contract!Spec
=============================================================================
