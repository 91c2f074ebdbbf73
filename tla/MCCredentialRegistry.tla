------------------------ MODULE MCCredentialRegistry ------------------------
(* Instances of CredentialRegistry for TLC. *)
EXTENDS RevocationRefinement, TLC

\* Operations are interchangeable, and so are credentials.
Interchangeable == Permutations(Ops) \cup Permutations(Creds)
=============================================================================
