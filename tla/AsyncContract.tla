--------------------------- MODULE AsyncContract ---------------------------
(***************************************************************************)
(* What the asynchronous API promises a client, submission by submission   *)
(* and without thread ids or a shared store: a submission is accepted, is  *)
(* pending until it settles once and for all, and is answered from its own *)
(* state until it is forgotten.                                            *)
(***************************************************************************)
CONSTANTS Subs, None

VARIABLES
    outcome,    \* each submission's state
    reply       \* the last reply, and the submission it was given for

vars == <<outcome, reply>>

Outcomes == {"new", "pending", "succeeded", "failed", "forgotten"}

Init ==
    /\ outcome = [s \in Subs |-> "new"]
    /\ reply = [to |-> None, kind |-> "none"]

Accept(s) ==
    /\ outcome[s] = "new"
    /\ outcome' = [outcome EXCEPT ![s] = "pending"]
    /\ UNCHANGED reply

Settle(s, result) ==
    /\ outcome[s] = "pending"
    /\ outcome' = [outcome EXCEPT ![s] = result]
    /\ UNCHANGED reply

\* Some outcomes expire, and the client polling may be the one to find out.
Expire(F) ==
    [s \in Subs |-> IF s \in F THEN "forgotten" ELSE outcome[s]]

Settled == {s \in Subs : outcome[s] \in {"succeeded", "failed"}}

Ask(s, F) ==
    /\ F \subseteq Settled
    /\ outcome' = Expire(F)
    /\ outcome'[s] \in {"pending", "succeeded", "failed"}
    /\ reply' = [to |-> s, kind |-> outcome'[s]]

\* A poll that no submission stands for, or of one that is new or forgotten.
AskInVain(F) ==
    /\ F \subseteq Settled
    /\ outcome' = Expire(F)
    /\ reply' = [to |-> None, kind |-> "notFound"]

\* A restart forgets everything that was accepted.
ForgetAll ==
    /\ outcome' = [s \in Subs |-> IF outcome[s] = "new" THEN "new" ELSE "forgotten"]
    /\ UNCHANGED reply

Next ==
    \/ \E s \in Subs :
        \/ Accept(s)
        \/ \E result \in {"succeeded", "failed"} : Settle(s, result)
        \/ \E F \in SUBSET Settled : Ask(s, F)
    \/ \E F \in SUBSET Settled : AskInVain(F)
    \/ ForgetAll

Spec == Init /\ [][Next]_vars
=============================================================================
