----------------------- MODULE ActiveSigningKeys_proofs -----------------------
(***************************************************************************)
(* TLAPS proofs about ActiveSigningKeys, for any keys, algorithms and files *)
(* of the operator: the types, that the key of the next signature is in the *)
(* documents, and that the key of a signature stays in them.                *)
(***************************************************************************)
EXTENDS ActiveSigningKeys, SequenceTheorems, TLAPS

\* The Map by algorithm only names keys the Map by kid holds.
ActiveIsKept == \A alg \in Algs : active[alg] # NoKid => active[alg] \in Activated

\* With a key in the Maps an algorithm was set, and the first one set has a key.
FirstHasKey ==
    /\ Activated # {} => algOrder # <<>>
    /\ algOrder # <<>> => active[algOrder[1]] # NoKid

SignedIsKept == \A s \in signed : ~s.env => s.kid \in Activated

SigningInv ==
    /\ SigningTypeOK
    /\ ActiveIsKept
    /\ FirstHasKey
    /\ SignedIsKept

-----------------------------------------------------------------------------
(* Submissions.                                                            *)

LEMMA SubmissionShape ==
    ASSUME NEW sub \in Submissions
    PROVE  /\ DOMAIN sub \subseteq {1, 2} /\ 1 \in DOMAIN sub
           /\ Len(sub) = 2 => DOMAIN sub = {1, 2}
           /\ \A i \in DOMAIN sub : sub[i] \in KeyInput /\ sub[i].kid \in Kids /\ sub[i].alg \in Algs
<1>1. CASE \E k \in KeyInput : sub = <<k>>
  BY <1>1 DEF KeyInput
<1>2. CASE sub \in KeyInput \X KeyInput
  BY <1>2 DEF KeyInput
<1>3. QED
  BY <1>1, <1>2 DEF Submissions

LEMMA LastOfIsIn ==
    ASSUME NEW S \in SUBSET {1, 2}, S # {}
    PROVE  LastOf(S) \in S
<1>1. \E i \in S : \A j \in S : j <= i
  <2>1. CASE 2 \in S
    <3>1. \A j \in S : j <= 2
      OBVIOUS
    <3>2. QED
      BY <2>1, <3>1
  <2>2. CASE 2 \notin S
    <3>1. S = {1}
      BY <2>2
    <3>2. QED
      BY <3>1
  <2>3. QED
    BY <2>1, <2>2
<1>2. QED
  BY <1>1 DEF LastOf

\* An algorithm that gets a key gets one that was accepted.
LEMMA ActiveAfterIs ==
    ASSUME NEW sub \in Submissions, NEW alg \in Algs
    PROVE  \/ /\ \A i \in Accepted(sub) : sub[i].alg # alg
              /\ ActiveAfter(sub)[alg] = active[alg]
           \/ \E i \in Accepted(sub) : sub[i].alg = alg /\ ActiveAfter(sub)[alg] = sub[i].kid
<1> DEFINE S == {i \in Accepted(sub) : sub[i].alg = alg}
<1>1. S \in SUBSET {1, 2}
  BY SubmissionShape DEF Accepted
<1>2. ActiveAfter(sub)[alg] = IF S = {} THEN active[alg] ELSE sub[LastOf(S)].kid
  BY DEF ActiveAfter
<1>3. CASE S = {}
  BY <1>2, <1>3
<1>4. CASE S # {}
  <2>1. LastOf(S) \in S
    BY <1>1, <1>4, LastOfIsIn
  <2> HIDE DEF S
  <2>2. ActiveAfter(sub)[alg] = sub[LastOf(S)].kid
    BY <1>2, <1>4
  <2>3. QED
    BY <2>1, <2>2 DEF S
<1>5. QED
  BY <1>3, <1>4

\* A key is kept, and one that was accepted is there.
LEMMA KeyAlgAfterIs ==
    ASSUME NEW sub \in Submissions, NEW kid \in Kids
    PROVE  \/ /\ \A i \in Accepted(sub) : sub[i].kid # kid
              /\ KeyAlgAfter(sub)[kid] = keyAlg[kid]
           \/ KeyAlgAfter(sub)[kid] \in Algs
<1> DEFINE S == {i \in Accepted(sub) : sub[i].kid = kid}
<1>1. S \in SUBSET {1, 2}
  BY SubmissionShape DEF Accepted
<1>2. KeyAlgAfter(sub)[kid] = IF S = {} THEN keyAlg[kid] ELSE sub[LastOf(S)].alg
  BY DEF KeyAlgAfter
<1>3. CASE S = {}
  BY <1>2, <1>3
<1>4. CASE S # {}
  <2>1. LastOf(S) \in DOMAIN sub
    BY <1>1, <1>4, LastOfIsIn DEF Accepted
  <2> HIDE DEF S
  <2>2. QED
    BY <1>2, <1>4, <2>1, SubmissionShape
<1>5. QED
  BY <1>3, <1>4

-----------------------------------------------------------------------------
(* The order of the algorithms.                                            *)

\* The end of the order is what the submission adds.
LEMMA OrderAfterIs ==
    ASSUME SigningTypeOK, NEW sub \in Submissions
    PROVE  /\ OrderAfter(sub) \in Seq(Algs)
           /\ algOrder # <<>> => OrderAfter(sub) # <<>> /\ OrderAfter(sub)[1] = algOrder[1]
           /\ algOrder = <<>> /\ 1 \in Accepted(sub) /\ active[sub[1].alg] = NoKid =>
                OrderAfter(sub) # <<>> /\ OrderAfter(sub)[1] = sub[1].alg
<1> DEFINE fresh(i) == /\ i \in Accepted(sub)
                       /\ active[sub[i].alg] = NoKid
                       /\ \A j \in 1..(i - 1) : sub[j].alg # sub[i].alg
           one == IF fresh(1) THEN <<sub[1].alg>> ELSE <<>>
           two == IF Len(sub) = 2 /\ fresh(2) THEN <<sub[2].alg>> ELSE <<>>
           start == algOrder \o one
<1>1. algOrder \in Seq(Algs)
  BY DEF SigningTypeOK
<1>2. one \in Seq(Algs) /\ Len(one) \in {0, 1} /\ (one # <<>> => one[1] = sub[1].alg)
  BY SubmissionShape
<1>3. two \in Seq(Algs)
  BY SubmissionShape
<1>4. OrderAfter(sub) = start \o two
  BY DEF OrderAfter
<1>5. fresh(1) <=> 1 \in Accepted(sub) /\ active[sub[1].alg] = NoKid
  OBVIOUS
<1>6. fresh(1) => one = <<sub[1].alg>>
  OBVIOUS
<1> HIDE DEF one, two, fresh
<1>7. /\ start \in Seq(Algs)
      /\ algOrder # <<>> => start # <<>> /\ start[1] = algOrder[1]
      /\ algOrder = <<>> => start = one
  <2>1. start \in Seq(Algs) /\ Len(start) = Len(algOrder) + Len(one)
    BY <1>1, <1>2, ConcatProperties
  <2>2. ASSUME algOrder # <<>>
        PROVE  start # <<>> /\ start[1] = algOrder[1]
    <3>1. Len(algOrder) \in Nat /\ Len(algOrder) # 0
      BY <1>1, <2>2, EmptySeq
    <3>2. Len(start) # 0
      BY <1>2, <2>1, <3>1
    <3>3. start[1] = algOrder[1]
      BY <1>1, <1>2, <3>1, ConcatProperties
    <3>4. QED
      BY <3>2, <3>3
  <2>3. algOrder = <<>> => start = one
    BY <1>2, ConcatEmptySeq
  <2>4. QED
    BY <2>1, <2>2, <2>3
<1> HIDE DEF start
<1>8. OrderAfter(sub) \in Seq(Algs) /\ Len(OrderAfter(sub)) = Len(start) + Len(two)
  BY <1>3, <1>4, <1>7, ConcatProperties
<1>9. ASSUME start # <<>>
      PROVE  OrderAfter(sub) # <<>> /\ OrderAfter(sub)[1] = start[1]
  <2>1. Len(start) \in Nat /\ Len(start) # 0 /\ Len(two) \in Nat
    BY <1>3, <1>7, <1>9, EmptySeq
  <2>2. Len(OrderAfter(sub)) # 0
    BY <1>8, <2>1
  <2>3. OrderAfter(sub)[1] = start[1]
    BY <1>3, <1>4, <1>7, <2>1, ConcatProperties
  <2>4. QED
    BY <2>2, <2>3
<1>10. fresh(1) => one # <<>> /\ one[1] = sub[1].alg
  BY <1>6
<1>11. QED
  BY <1>5, <1>7, <1>8, <1>9, <1>10

-----------------------------------------------------------------------------
(* The signer.                                                             *)

LEMMA PreferredIs ==
    ASSUME SigningTypeOK, ActiveIsKept, NEW pref \in Algs \cup {NoAlg}
    PROVE  /\ Preferred(pref) = NoKid \/ Preferred(pref) \in Activated
           /\ Preferred(pref) = NoKid /\ algOrder # <<>> => active[algOrder[1]] = NoKid
<1>1. algOrder # <<>> => algOrder[1] \in Algs
  <2>1. algOrder \in Seq(Algs)
    BY DEF SigningTypeOK
  <2>2. algOrder # <<>> => 1 \in 1..Len(algOrder)
    BY <2>1, EmptySeq
  <2>3. QED
    BY <2>1, <2>2, ElementOfSeq
<1>2. QED
  BY <1>1, SigningAssumption DEF Preferred, ActiveIsKept

\* An activated key with its algorithm, or the environment's.
LEMMA SignerIs ==
    ASSUME SigningTypeOK, ActiveIsKept, NEW pref \in Algs \cup {NoAlg}, Signer(pref).kid # NoKid
    PROVE  \/ /\ Signer(pref).kid \in Activated
              /\ Signer(pref).alg = keyAlg[Signer(pref).kid]
              /\ Signer(pref).alg \in Algs
              /\ Signer(pref).env = FALSE
           \/ /\ Preferred(pref) = NoKid
              /\ EnvKid # NoKid
              /\ Signer(pref).kid = EnvKid
              /\ Signer(pref).alg = EnvAlg
              /\ EnvAlg \in Algs
              /\ Signer(pref).env = TRUE
<1>1. CASE Preferred(pref) # NoKid
  <2>1. Signer(pref) = [kid |-> Preferred(pref), alg |-> keyAlg[Preferred(pref)],
                        env |-> FALSE, chain |-> Preferred(pref) \in Chained]
    BY <1>1 DEF Signer
  <2>2. Preferred(pref) \in Activated
    BY <1>1, PreferredIs
  <2>3. keyAlg[Preferred(pref)] \in Algs
    BY <2>2 DEF Activated, SigningTypeOK
  <2>4. QED
    BY <2>1, <2>2, <2>3
<1>2. CASE Preferred(pref) = NoKid
  <2>1. Signer(pref) = [kid |-> EnvKid, alg |-> EnvAlg, env |-> TRUE, chain |-> EnvChain]
    BY <1>2 DEF Signer
  <2>2. EnvKid # NoKid => EnvAlg \in Algs
    BY SigningAssumption
  <2>3. QED
    BY <1>2, <2>1, <2>2
<1>3. QED
  BY <1>1, <1>2

-----------------------------------------------------------------------------
(* The types.                                                              *)

LEMMA TypeInit == SigningInit => SigningTypeOK
BY SigningAssumption DEF SigningInit, SigningTypeOK, Signature

LEMMA TypeNext ==
    SigningTypeOK /\ ActiveIsKept /\ [SigningNext]_signingVars => SigningTypeOK'
<1> SUFFICES ASSUME SigningTypeOK, ActiveIsKept, [SigningNext]_signingVars
             PROVE  SigningTypeOK'
  OBVIOUS
<1>1. ASSUME NEW sub \in Submissions, Activate(sub)
      PROVE  SigningTypeOK'
  <2>1. ASSUME NEW kid \in Kids
        PROVE  KeyAlgAfter(sub)[kid] \in Algs \cup {NoAlg}
    BY KeyAlgAfterIs DEF SigningTypeOK
  <2>2. keyAlg' \in [Kids -> Algs \cup {NoAlg}]
    BY <1>1, <2>1 DEF Activate, KeyAlgAfter
  <2>3. ASSUME NEW alg \in Algs
        PROVE  ActiveAfter(sub)[alg] \in Kids \cup {NoKid}
    BY ActiveAfterIs, SubmissionShape DEF SigningTypeOK, Accepted
  <2>4. active' \in [Algs -> Kids \cup {NoKid}]
    BY <1>1, <2>3 DEF Activate, ActiveAfter
  <2>5. QED
    BY <1>1, <2>2, <2>4, OrderAfterIs DEF Activate, SigningTypeOK
<1>2. ASSUME NEW section, NEW pref \in Algs \cup {NoAlg}, Sign(section, pref)
      PROVE  SigningTypeOK'
  <2> DEFINE s == Signer(pref)
  <2>1. s.kid # NoKid
    BY <1>2 DEF Sign, MaySign
  <2>2. s.kid \in Kids /\ s.alg \in Algs /\ s.env \in BOOLEAN
    BY <2>1, SignerIs, SigningAssumption DEF Activated
  <2> HIDE DEF s
  <2>3. [kid |-> s.kid, alg |-> s.alg, env |-> s.env] \in Signature
    BY <2>2 DEF Signature
  <2>4. signed' = signed \cup {[kid |-> s.kid, alg |-> s.alg, env |-> s.env]}
    BY <1>2 DEF Sign, s
  <2>5. QED
    BY <1>2, <2>3, <2>4 DEF Sign, SigningTypeOK
<1>3. CASE SigningRestart
  BY <1>3, SigningAssumption DEF SigningRestart, SigningTypeOK
<1>4. CASE UNCHANGED signingVars
  BY <1>4 DEF signingVars, SigningTypeOK
<1>5. QED
  BY <1>1, <1>2, <1>3, <1>4 DEF SigningNext

-----------------------------------------------------------------------------
(* The invariant.                                                          *)

LEMMA InitiallyKept == SigningInit => ActiveIsKept /\ FirstHasKey /\ SignedIsKept
<1> SUFFICES ASSUME SigningInit
             PROVE  ActiveIsKept /\ FirstHasKey /\ SignedIsKept
  OBVIOUS
<1>1. ActiveIsKept /\ SignedIsKept
  BY SigningAssumption DEF SigningInit, ActiveIsKept, SignedIsKept, Activated
<1>2. FirstHasKey
  BY SigningAssumption DEF SigningInit, FirstHasKey, Activated
<1>3. QED
  BY <1>1, <1>2

\* No key is dropped, and what becomes active is held.
LEMMA ActivateKeeps ==
    ASSUME SigningInv, NEW sub \in Submissions, Activate(sub)
    PROVE  ActiveIsKept' /\ FirstHasKey' /\ SignedIsKept'
<1> USE DEF SigningInv
<1>1. ASSUME NEW kid \in Kids, kid \in Activated \/ \E i \in Accepted(sub) : sub[i].kid = kid
      PROVE  kid \in Activated'
  <2>1. KeyAlgAfter(sub)[kid] # NoAlg
    BY <1>1, KeyAlgAfterIs, SigningAssumption DEF Activated
  <2>2. QED
    BY <2>1 DEF Activate, Activated
<1>2. ActiveIsKept'
  <2> SUFFICES ASSUME NEW alg \in Algs, active'[alg] # NoKid
               PROVE  active'[alg] \in Activated'
    BY DEF ActiveIsKept
  <2>1. active'[alg] = ActiveAfter(sub)[alg]
    BY DEF Activate
  <2>2. CASE active'[alg] = active[alg]
    BY <1>1, <2>2 DEF ActiveIsKept, Activated
  <2>3. CASE \E i \in Accepted(sub) : active'[alg] = sub[i].kid
    BY <1>1, <2>3, SubmissionShape DEF Accepted
  <2>4. QED
    BY <2>1, <2>2, <2>3, ActiveAfterIs
<1>3. SignedIsKept'
  BY <1>1 DEF Activate, SignedIsKept, SigningTypeOK, Signature
<1>4. ASSUME NEW alg \in Algs, active[alg] # NoKid \/ \E i \in Accepted(sub) : sub[i].alg = alg
      PROVE  active'[alg] # NoKid
  <2>1. \A i \in Accepted(sub) : sub[i].kid # NoKid
    BY SubmissionShape, SigningAssumption DEF Accepted
  <2>2. QED
    BY <1>4, <2>1, ActiveAfterIs DEF Activate
<1>5. FirstHasKey'
  <2>1. CASE algOrder # <<>>
    <3>1. algOrder'[1] = algOrder[1] /\ algOrder' # <<>>
      BY <2>1, OrderAfterIs DEF Activate
    <3>2. algOrder[1] \in Algs
      <4>1. algOrder \in Seq(Algs)
        BY DEF SigningTypeOK
      <4>2. 1 \in 1..Len(algOrder)
        BY <2>1, <4>1, EmptySeq
      <4>3. QED
        BY <4>1, <4>2, ElementOfSeq
    <3>3. active[algOrder[1]] # NoKid
      BY <2>1 DEF FirstHasKey
    <3>4. QED
      BY <1>4, <3>1, <3>2, <3>3 DEF FirstHasKey
  <2>2. CASE algOrder = <<>> /\ Accepted(sub) = {}
    <3>1. Activated = {}
      BY <2>2 DEF FirstHasKey
    <3>2. \A kid \in Kids : keyAlg'[kid] = keyAlg[kid]
      BY <2>2 DEF Activate, KeyAlgAfter
    <3>3. Activated' = {}
      BY <3>1, <3>2 DEF Activated
    <3>4. algOrder' = <<>> \o <<>> \o <<>>
      BY <2>2 DEF Activate, OrderAfter
    <3>5. algOrder' = <<>>
      BY <3>4, ConcatEmptySeq, EmptySeq
    <3>6. QED
      BY <3>3, <3>5 DEF FirstHasKey
  <2>3. CASE algOrder = <<>> /\ Accepted(sub) # {}
    <3>1. 1 \in Accepted(sub)
      <4>1. PICK i \in Accepted(sub) : TRUE
        BY <2>3
      <4>2. i \in {1, 2} /\ 1 \in DOMAIN sub
        BY SubmissionShape DEF Accepted
      <4>3. Acceptable(sub[1])
        BY <4>2 DEF Accepted
      <4>4. QED
        BY <4>2, <4>3 DEF Accepted
    <3>2. sub[1].alg \in Algs
      BY <3>1, SubmissionShape DEF Accepted
    <3>3. active[sub[1].alg] = NoKid
      BY <2>3, <3>2 DEF FirstHasKey, ActiveIsKept
    <3>4. algOrder' # <<>> /\ algOrder'[1] = sub[1].alg
      BY <2>3, <3>1, <3>3, OrderAfterIs DEF Activate
    <3>5. QED
      BY <1>4, <3>1, <3>2, <3>4 DEF FirstHasKey
  <2>4. QED
    BY <2>1, <2>2, <2>3
<1>6. QED
  BY <1>2, <1>3, <1>5

LEMMA SignKeeps ==
    ASSUME SigningInv, NEW section, NEW pref \in Algs \cup {NoAlg}, Sign(section, pref)
    PROVE  ActiveIsKept' /\ FirstHasKey' /\ SignedIsKept'
<1> DEFINE s == Signer(pref)
<1>1. Activated' = Activated /\ UNCHANGED <<keyAlg, active, algOrder>>
  BY DEF Sign, Activated
<1>2. s.kid # NoKid
  BY DEF Sign, MaySign
<1>3. ~s.env => s.kid \in Activated
  BY <1>2, SignerIs DEF SigningInv
<1> HIDE DEF s
<1>4. signed' = signed \cup {[kid |-> s.kid, alg |-> s.alg, env |-> s.env]}
  BY DEF Sign, s
<1>5. SignedIsKept'
  BY <1>1, <1>3, <1>4 DEF SigningInv, SignedIsKept
<1>6. QED
  BY <1>1, <1>5 DEF SigningInv, ActiveIsKept, FirstHasKey

LEMMA SigningInvInit == SigningInit => SigningInv
BY TypeInit, InitiallyKept DEF SigningInv

LEMMA SigningInvNext == SigningInv /\ [SigningNext]_signingVars => SigningInv'
<1> SUFFICES ASSUME SigningInv, [SigningNext]_signingVars
             PROVE  SigningInv'
  OBVIOUS
<1>1. SigningTypeOK'
  BY TypeNext DEF SigningInv
<1>2. CASE \E sub \in Submissions : Activate(sub)
  BY <1>1, <1>2, ActivateKeeps DEF SigningInv
<1>3. CASE \E section \in {"test", "local-network", "test-network", "network"},
              pref \in Algs \cup {NoAlg} : Sign(section, pref)
  BY <1>1, <1>3, SignKeeps DEF SigningInv
<1>4. CASE SigningRestart
  <2>1. SigningInit'
    BY <1>4 DEF SigningRestart, SigningInit
  <2>2. ActiveIsKept' /\ FirstHasKey' /\ SignedIsKept'
    BY <1>4, SigningAssumption
    DEF SigningRestart, ActiveIsKept, FirstHasKey, SignedIsKept, Activated
  <2>3. QED
    BY <1>1, <2>2 DEF SigningInv
<1>5. CASE UNCHANGED signingVars
  BY <1>1, <1>5
  DEF signingVars, SigningInv, ActiveIsKept, FirstHasKey, SignedIsKept, Activated
<1>6. QED
  BY <1>2, <1>3, <1>4, <1>5 DEF SigningNext

-----------------------------------------------------------------------------
(* The documents.                                                          *)

\* A key a document is to hold is in it: with its algorithm, or as the file of
\* the operator has it.
LEMMA MergedHolds ==
    ASSUME NEW file, NEW methods, NEW m \in methods
    PROVE  m \in Merged(file, methods) \/ \E f \in file : f \in Merged(file, methods) /\ f.kid = m.kid
BY DEF Merged

LEMMA DocumentsHold ==
    ASSUME NEW m \in SigningMethods, NEW document \in {DidDocument, IcaJwks}
    PROVE  \E p \in document : p.kid = m.kid /\ (p = m \/ p \in DidFile \cup JwksFile)
<1>1. PICK d \in DidDocument : d.kid = m.kid /\ (d = m \/ d \in DidFile)
  BY MergedHolds DEF DidDocument
<1>2. \E p \in IcaJwks : p.kid = d.kid /\ (p = d \/ p \in JwksFile)
  BY MergedHolds DEF IcaJwks
<1>3. QED
  BY <1>1, <1>2

\* The variables keep their types: a key in use by an algorithm is a key, and a
\* signature has a key and an algorithm.
THEOREM SigningTypeCorrect == SigningSpec => []SigningTypeOK
<1>1. SigningInv => SigningTypeOK
  BY DEF SigningInv
<1>2. QED
  BY <1>1, SigningInvInit, SigningInvNext, PTL DEF SigningSpec

\* Whatever key the next signature would use is in the DID document and in the
\* JWKS, with its algorithm or as the operator's file has it.
THEOREM NextSignerIsPublished == SigningSpec => []SignerIsPublished
<1>1. SigningInv => SignerIsPublished
  <2> SUFFICES ASSUME SigningInv, NEW pref \in Algs \cup {NoAlg},
                      NEW document \in {DidDocument, IcaJwks}, Signer(pref).kid # NoKid
               PROVE  \E p \in document :
                          /\ p.kid = Signer(pref).kid
                          /\ p.alg = Signer(pref).alg \/ p \in DidFile \cup JwksFile
    BY DEF SignerIsPublished
  <2> DEFINE m == [kid |-> Signer(pref).kid, alg |-> Signer(pref).alg]
  <2>1. m \in SigningMethods
    <3>1. CASE Signer(pref).kid \in Activated /\ Signer(pref).alg = keyAlg[Signer(pref).kid]
      BY <3>1 DEF SigningMethods, ActivatedMethods
    <3>2. CASE /\ Preferred(pref) = NoKid /\ EnvKid # NoKid
               /\ Signer(pref).kid = EnvKid /\ Signer(pref).alg = EnvAlg
      <4>1. Activated = {}
        BY <3>2, PreferredIs DEF SigningInv, FirstHasKey
      <4>2. QED
        BY <3>2, <4>1 DEF SigningMethods
    <3>3. QED
      BY <3>1, <3>2, SignerIs DEF SigningInv
  <2>2. m.kid = Signer(pref).kid /\ m.alg = Signer(pref).alg
    OBVIOUS
  <2> HIDE DEF m
  <2>3. QED
    BY <2>1, <2>2, DocumentsHold
<1>2. QED
  BY <1>1, SigningInvInit, SigningInvNext, PTL DEF SigningSpec

\* The key of every signature of an activated key is in all later documents of
\* the process.
THEOREM SignaturesStayVerifiable == SigningSpec => []SignedStaysVerifiable
<1>1. SigningInv => SignedStaysVerifiable
  <2> SUFFICES ASSUME SigningInv, NEW s \in signed,
                      NEW document \in {DidDocument, IcaJwks}, ~s.env
               PROVE  \E p \in document : p.kid = s.kid
    BY DEF SignedStaysVerifiable
  <2> DEFINE m == [kid |-> s.kid, alg |-> keyAlg[s.kid]]
  <2>1. s.kid \in Activated
    BY DEF SigningInv, SignedIsKept
  <2>2. m \in SigningMethods
    BY <2>1 DEF SigningMethods, ActivatedMethods
  <2>3. m.kid = s.kid
    OBVIOUS
  <2> HIDE DEF m
  <2>4. QED
    BY <2>2, <2>3, DocumentsHold
<1>2. QED
  BY <1>1, SigningInvInit, SigningInvNext, PTL DEF SigningSpec

=============================================================================
