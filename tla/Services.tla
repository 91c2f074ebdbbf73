------------------------------- MODULE Services -------------------------------
(***************************************************************************)
(* The four services that share no state with each other or with the other *)
(* components, side by side in one process.  In a scene some of them take  *)
(* requests, in any order, and the others rest in their initial states;    *)
(* what each promises does not depend on who else is on.                   *)
(***************************************************************************)
EXTENDS BackendAuth, MemberDiscoveryCache, ActiveSigningKeys, Migration

CONSTANT Scenes     \* sets of services, for each the behaviours where they are on
VARIABLE scene      \* the services that are on
vars == <<scene, authVars, cacheVars, signingVars, migrationVars>>

Init ==
    /\ scene \in Scenes
    /\ AuthInit /\ CacheInit /\ SigningInit /\ MigrationInit

Next ==
    /\ UNCHANGED scene
    /\ \/ "auth" \in scene /\ AuthNext /\ UNCHANGED <<cacheVars, signingVars, migrationVars>>
       \/ "cache" \in scene /\ CacheNext /\ UNCHANGED <<authVars, signingVars, migrationVars>>
       \/ "signing" \in scene /\ SigningNext /\ UNCHANGED <<authVars, cacheVars, migrationVars>>
       \/ "migration" \in scene /\ MigrationNext /\ UNCHANGED <<authVars, cacheVars, signingVars>>

Spec == Init /\ [][Next]_vars

\* Every variable of the four services keeps its type.
TypeOK == AuthTypeOK /\ CacheTypeOK /\ SigningTypeOK /\ MigrationTypeOK
=============================================================================
