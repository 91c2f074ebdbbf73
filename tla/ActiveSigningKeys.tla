-------------------------- MODULE ActiveSigningKeys --------------------------
(***************************************************************************)
(* The signing keys of the ICA itself: the process keeps the activated keys *)
(* in two Maps, _activate adds to them, signing picks one of them (or the   *)
(* key of the environment while there is none), and the DID document and    *)
(* the JWKS publish what the Maps hold, beside the entries of the documents *)
(* the operator put on disk.                                                *)
(*                                                                          *)
(* A key is named by its kid: the thumbprint of the key where the           *)
(* submission gives none, and otherwise a name its operator uses for one    *)
(* key only (assumed).  A worker activates the keys of its submission in    *)
(* one callback, in order, and stops at the first it cannot accept.         *)
(***************************************************************************)
EXTENDS Naturals, Sequences

CONSTANTS
    Kids, Algs,
    Default,        \* ES384, the algorithm preferred when none is configured
    AlgsOf,         \* the algorithms the type of a key allows
    EnvKid,         \* kid of ICA_VC_SIGNING_PRIVATE_KEY_PEM, or NoKid
    EnvAlg,         \* its algorithm
    EnvChain,       \* the environment carries a certificate chain for it
    Chained,        \* keys whose activation carries a certificate chain
    DidFile,        \* the methods of the operator's DID document, by kid and alg
    JwksFile,       \* the keys of the operator's JWKS
    NoKid, NoAlg

ASSUME SigningAssumption ==
    /\ NoKid \notin Kids /\ NoAlg \notin Algs /\ Default \in Algs
    /\ AlgsOf \in [Kids -> SUBSET Algs]
    /\ EnvKid \in Kids \cup {NoKid}
    /\ EnvKid # NoKid => EnvAlg \in AlgsOf[EnvKid]
    /\ Chained \subseteq Kids /\ EnvChain \in BOOLEAN
    /\ DidFile \subseteq [kid : Kids, alg : Algs]
    /\ JwksFile \subseteq [kid : Kids, alg : Algs]

VARIABLES
    keyAlg,         \* keysByKid, each record by its alg
    active,         \* activeByAlg
    algOrder,       \* the algs of activeByAlg in the order they came
    signed          \* signatures made since the process started
signingVars == <<keyAlg, active, algOrder, signed>>

KeyInput == [kid : Kids, alg : Algs]
Signature == [kid : Kids, alg : Algs, env : BOOLEAN]
Submissions == {<<k>> : k \in KeyInput} \cup (KeyInput \X KeyInput)

Activated == {kid \in Kids : keyAlg[kid] # NoAlg}

SigningTypeOK ==
    /\ keyAlg \in [Kids -> Algs \cup {NoAlg}]
    /\ active \in [Algs -> Kids \cup {NoKid}]
    /\ algOrder \in Seq(Algs)
    /\ signed \subseteq Signature

-----------------------------------------------------------------------------
(* The Maps.                                                               *)

\* buildRecordFromInput: the algorithm is supported and fits the key.
Acceptable(k) == k.alg \in AlgsOf[k.kid]

\* The keys of a submission that are activated: all before the first refused.
Accepted(sub) == {i \in DOMAIN sub : \A j \in 1..i : Acceptable(sub[j])}

\* The last accepted entry that satisfies the condition decides.
LastOf(S) == CHOOSE i \in S : \A j \in S : j <= i

\* Altered: a key that an algorithm is switched away from is forgotten.
KeyAlgAfterReplacing(sub) ==
    [kid \in Kids |->
        LET S == {i \in Accepted(sub) : sub[i].kid = kid}
        IN  IF S # {} THEN sub[LastOf(S)].alg
            ELSE IF \E i \in Accepted(sub) : active[sub[i].alg] = kid THEN NoAlg
            ELSE keyAlg[kid]]

KeyAlgAfter(sub) ==
    [kid \in Kids |->
        LET S == {i \in Accepted(sub) : sub[i].kid = kid}
        IN  IF S = {} THEN keyAlg[kid] ELSE sub[LastOf(S)].alg]

ActiveAfter(sub) ==
    [alg \in Algs |->
        LET S == {i \in Accepted(sub) : sub[i].alg = alg}
        IN  IF S = {} THEN active[alg] ELSE sub[LastOf(S)].kid]

\* An object keeps the order in which its keys were first set.
OrderAfter(sub) ==
    LET fresh(i) == /\ i \in Accepted(sub)
                    /\ active[sub[i].alg] = NoKid
                    /\ \A j \in 1..(i - 1) : sub[j].alg # sub[i].alg
    IN  algOrder \o (IF fresh(1) THEN <<sub[1].alg>> ELSE <<>>)
                 \o (IF Len(sub) = 2 /\ fresh(2) THEN <<sub[2].alg>> ELSE <<>>)

-----------------------------------------------------------------------------
(* Which key signs, and which keys are published.                          *)

\* getPreferredSigningKey, with the configured algorithm or NoAlg.
Preferred(pref) ==
    IF pref # NoAlg /\ active[pref] # NoKid THEN active[pref]
    ELSE IF active[Default] # NoKid THEN active[Default]
    ELSE IF algOrder # <<>> THEN active[algOrder[1]]
    ELSE NoKid

\* Altered: the key of the environment signs wherever it is configured.
SignerEnvFirst(pref) ==
    IF EnvKid # NoKid THEN [kid |-> EnvKid, alg |-> EnvAlg, env |-> TRUE, chain |-> EnvChain]
    ELSE LET kid == Preferred(pref)
         IN  [kid |-> kid, alg |-> IF kid = NoKid THEN NoAlg ELSE keyAlg[kid],
              env |-> FALSE, chain |-> kid \in Chained]

\* resolveSigningKeyMaterial: an activated key, or else the environment's.
Signer(pref) ==
    LET kid == Preferred(pref)
    IN  IF kid # NoKid
        THEN [kid |-> kid, alg |-> keyAlg[kid], env |-> FALSE, chain |-> kid \in Chained]
        ELSE [kid |-> EnvKid, alg |-> EnvAlg, env |-> TRUE, chain |-> EnvChain]

\* upsertDidSigningMethods
ActivatedMethods == {[kid |-> kid, alg |-> keyAlg[kid]] : kid \in Activated}

\* mergeSigningMethods: all activated keys, or else the environment's.
SigningMethods ==
    IF Activated # {} THEN ActivatedMethods
    ELSE IF EnvKid # NoKid THEN {[kid |-> EnvKid, alg |-> EnvAlg]}
    ELSE {}

\* An entry of the operator's file stays as it is, also where a key of that
\* name has another algorithm by now.
Merged(file, methods) == file \cup {m \in methods : \A f \in file : f.kid # m.kid}

\* buildIcaDidDocument and buildIcaJwks: the JWKS takes over the methods of the
\* DID document.
DidDocument == Merged(DidFile, SigningMethods)
IcaJwks == Merged(JwksFile, DidDocument)

-----------------------------------------------------------------------------
\* bootstrapSelfSigningKey activates the environment's key only with its chain.
SigningInit ==
    /\ keyAlg = [kid \in Kids |-> IF kid = EnvKid /\ EnvChain THEN EnvAlg ELSE NoAlg]
    /\ active = [alg \in Algs |-> IF EnvKid # NoKid /\ EnvChain /\ alg = EnvAlg THEN EnvKid ELSE NoKid]
    /\ algOrder = IF EnvKid # NoKid /\ EnvChain THEN <<EnvAlg>> ELSE <<>>
    /\ signed = {}

\* The worker of _activate.
Activate(sub) ==
    /\ keyAlg' = KeyAlgAfter(sub)
    /\ active' = ActiveAfter(sub)
    /\ algOrder' = OrderAfter(sub)
    /\ UNCHANGED signed

\* A section that needs a key, or a chained one, refuses to sign without it;
\* the plain test section signs with what there is.
MaySign(section, pref) ==
    /\ Signer(pref).kid # NoKid
    /\ section \in {"test-network", "network"} => Signer(pref).chain

Sign(section, pref) ==
    /\ MaySign(section, pref)
    /\ LET s == Signer(pref)
       IN  signed' = signed \cup {[kid |-> s.kid, alg |-> s.alg, env |-> s.env]}
    /\ UNCHANGED <<keyAlg, active, algOrder>>

\* The Maps are in memory: a restart begins anew, and signatures made before
\* it are not followed further.
SigningRestart ==
    /\ signed # {}
    /\ keyAlg' = [kid \in Kids |-> IF kid = EnvKid /\ EnvChain THEN EnvAlg ELSE NoAlg]
    /\ active' = [alg \in Algs |-> IF EnvKid # NoKid /\ EnvChain /\ alg = EnvAlg THEN EnvKid ELSE NoKid]
    /\ algOrder' = IF EnvKid # NoKid /\ EnvChain THEN <<EnvAlg>> ELSE <<>>
    /\ signed' = {}

SigningNext ==
    \/ \E sub \in Submissions : Activate(sub)
    \/ \E section \in {"test", "local-network", "test-network", "network"},
          pref \in Algs \cup {NoAlg} : Sign(section, pref)
    \/ SigningRestart

SigningSpec == SigningInit /\ [][SigningNext]_signingVars

-----------------------------------------------------------------------------
(* What the ICA promises to those who verify its credentials.              *)

\* Whatever key the next signature would use is in the DID document and in the
\* JWKS of that moment, with the algorithm it signs with: choosing a key and
\* publishing the keys are two functions that decide separately between the
\* activated keys and the environment's (resolveSigningKeyMaterial,
\* mergeSigningMethods).  Except: where the operator's file has an entry for the
\* key, the algorithm is that of the file.
SignerIsPublished ==
    \A pref \in Algs \cup {NoAlg}, document \in {DidDocument, IcaJwks} :
        LET s == Signer(pref)
        IN  s.kid # NoKid =>
                \E p \in document :
                    /\ p.kid = s.kid
                    /\ p.alg = s.alg \/ p \in DidFile \cup JwksFile

\* A signature of an activated key finds its key in every DID document and JWKS
\* published later in the process, whatever is activated over it.  (The key of
\* the environment leaves both with the first activation.)
SignedStaysVerifiable ==
    \A s \in signed, document \in {DidDocument, IcaJwks} :
        ~s.env => \E p \in document : p.kid = s.kid

=============================================================================
