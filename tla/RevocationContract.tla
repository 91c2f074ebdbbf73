------------------------- MODULE RevocationContract -------------------------
(***************************************************************************)
(* What the credential status service promises, without records, batches,  *)
(* retries and overlapping calls: a credential is registered, then revoked *)
(* once and for all; only revoked ones are reported as such; and a status  *)
(* is what the credential's standing is at the moment it is told.          *)
(***************************************************************************)
CONSTANTS Creds, Clients, None

VARIABLES
    standing,   \* of each credential
    reported,   \* the credentials reported as revoked
    asked       \* what each client asks about, and what it was told

vars == <<standing, reported, asked>>

Standings == {"unregistered", "registered", "revoked"}
NoQuestion == [cred |-> None, answer |-> "none"]

Init ==
    /\ standing = [c \in Creds |-> "unregistered"]
    /\ reported = {}
    /\ asked = [x \in Clients |-> NoQuestion]

Register(c) ==
    /\ standing[c] = "unregistered"
    /\ standing' = [standing EXCEPT ![c] = "registered"]
    /\ UNCHANGED <<reported, asked>>

Revoke(c) ==
    /\ standing[c] = "registered"
    /\ standing' = [standing EXCEPT ![c] = "revoked"]
    /\ UNCHANGED <<reported, asked>>

Report(C) ==
    /\ \A c \in C : standing[c] = "revoked"
    /\ reported' = reported \cup C
    /\ UNCHANGED <<standing, asked>>

\* A question is pending, or answered at once where there is no record.
Ask(x, c) ==
    /\ asked[x].answer # "pending"
    /\ \E answer \in {"pending", "unknown"} :
            asked' = [asked EXCEPT ![x] = [cred |-> c, answer |-> answer]]
    /\ UNCHANGED <<standing, reported>>

Told(c) == IF standing[c] = "revoked" THEN "revoked" ELSE "good"

Tell(x) ==
    /\ asked[x].answer = "pending"
    /\ asked' = [asked EXCEPT ![x].answer = Told(asked[x].cred)]
    /\ UNCHANGED <<standing, reported>>

\* Clients leave without an answer, or with the one they have.
Leave(X) ==
    /\ asked' = [x \in Clients |-> IF x \in X THEN NoQuestion ELSE asked[x]]
    /\ UNCHANGED <<standing, reported>>

Next ==
    \/ \E c \in Creds : Register(c) \/ Revoke(c)
    \/ \E C \in SUBSET Creds : Report(C)
    \/ \E x \in Clients : Tell(x) \/ \E c \in Creds : Ask(x, c)
    \/ \E X \in SUBSET Clients : Leave(X)

Spec == Init /\ [][Next]_vars
=============================================================================
