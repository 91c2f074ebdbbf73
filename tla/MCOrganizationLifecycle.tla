----------------------- MODULE MCOrganizationLifecycle -----------------------
(* Instances of OrganizationLifecycle for TLC. *)
EXTENDS MembershipRefinement, TLC

CONSTANTS k1, k2, i1, i2

KeysOrNone == {k1, k2, None}

\* Operations are interchangeable, and so are the two keys, the two identities
\* and the verification jobs.
Slots == Permutations(Ops) \cup Permutations(Verifs)
AllSymmetric == Slots \cup Permutations({k1, k2}) \cup Permutations({i1, i2})
=============================================================================
