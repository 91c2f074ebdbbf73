----------------------------- MODULE MCJobStore -----------------------------
(* Instances of JobStore for TLC. *)
EXTENDS JobStoreRefinement, TLC

CONSTANTS s1, s2, s3, t1, t2, r1, r2

\* Two clients, each with a thread of its own, on different routes.
UniqueThidOf == s1 :> t1 @@ s2 :> t2
UniqueRouteOf == s1 :> r1 @@ s2 :> r2

\* Three submissions: two of them, on different routes, carry one thread id.
SharedThidOf == s1 :> t1 @@ s2 :> t1 @@ s3 :> t2
SharedRouteOf == s1 :> r1 @@ s2 :> r2 @@ s3 :> r1
=============================================================================
