----------------------------- MODULE MCServices -----------------------------
(* Instances of the four services for TLC. *)
EXTENDS Services, TLC

CONSTANTS k1, k2, c1, c2, rsa, rsa2, ec, r1, r2, o1, o2

\* One at a time: the states of all together are the products of theirs.
OneAtATime == {{"auth"}, {"cache"}, {"signing"}, {"migration"}}

Algorithms == {"ES384", "RS256", "PS256"}
KeyTypes == (rsa :> {"RS256", "PS256"}) @@ (rsa2 :> {"RS256"}) @@ (ec :> {"ES384"})
\* The operator's JWKS has a key that is activated with either algorithm.
PinnedJwks == {[kid |-> rsa, alg |-> "RS256"]}
PinnedMethods == {[kid |-> rsa2, alg |-> "RS256"]}
TwoCollections == (r1 :> "credentials") @@ (r2 :> "evidence")

Symmetry == Permutations({k1, k2}) \cup Permutations({c1, c2}) \cup Permutations({o1, o2})
=============================================================================
