------------------------- MODULE MembershipContract -------------------------
(***************************************************************************)
(* What the lifecycle of a member organization promises, as if each of     *)
(* _verify, _create and _remove acted at one moment and on one record: a   *)
(* verification makes an organization a member under its controller key,   *)
(* which stays the key of the membership; only a member is published; and  *)
(* a published member leaves, to come back by a verification alone.        *)
(***************************************************************************)
CONSTANTS Orgs, Keys, None

VARIABLE member     \* the standing of each organization, and its key
vars == member

Outside == [standing |-> "unknown", key |-> None]

Init == member = [o \in Orgs |-> Outside]

\* A member verified again keeps its key and whether it is published.
Verify(o, k) ==
    /\ member[o].key \in {None, k}
    /\ member' = [member EXCEPT ![o] =
            [standing |-> IF @.standing = "published" THEN "published" ELSE "verified",
             key |-> k]]

Publish(o) ==
    /\ member[o].standing = "verified"
    /\ member' = [member EXCEPT ![o].standing = "published"]

Leave(o) ==
    /\ member[o].standing = "published"
    /\ member' = [member EXCEPT ![o] = [standing |-> "left", key |-> None]]

\* A restart forgets everyone.
Forget == member' = [o \in Orgs |-> Outside]

Next ==
    \/ \E o \in Orgs : Publish(o) \/ Leave(o) \/ \E k \in Keys : Verify(o, k)
    \/ Forget

Spec == Init /\ [][Next]_vars
=============================================================================
