------------------------ MODULE MembershipRefinement ------------------------
(***************************************************************************)
(* In the default deployment (the memory provider, no rebinding, a key in  *)
(* every _verify) polls, _create and _remove keep the promise of           *)
(* MembershipContract, although each awaits its reads and writes.  An      *)
(* operation acts when it writes the binding; the mapping forgets where    *)
(* operations are, the identities and the superseded keys.                 *)
(***************************************************************************)
EXTENDS OrganizationLifecycle

\* The document of an organization, that of a worker between its two writes
\* being written already.
Finishing(o) == {x \in Ops : ops[x].org = o /\ ops[x].step = "storeDocs"}
DocumentOf(o) == IF Finishing(o) = {} THEN docs[o] ELSE ops[CHOOSE x \in Finishing(o) : TRUE].doc

\* A published organization stands by its document, any other by its binding.
MemberOf(o) ==
    LET binding == bindings[o]
        document == DocumentOf(o)
    IN  CASE document.status = "confirmed" -> [standing |-> "published", key |-> document.key]
          [] document.status # "confirmed" /\ binding.status = "removed" ->
                [standing |-> "left", key |-> None]
          [] document.status # "confirmed" /\ binding.status = "absent" ->
                [standing |-> "unknown", key |-> None]
          [] OTHER -> [standing |-> "verified", key |-> binding.key]

Contract == INSTANCE MembershipContract
                WITH member <- [o \in Orgs |-> MemberOf(o)]

\* However polls, _create and _remove of an organization overlap, they act on
\* its binding and its document as one after the other would.
ImplementsMembershipContract == Contract!Spec
=============================================================================
