--------------------------- MODULE MCTenantDocuments ---------------------------
(***************************************************************************)
(* Instances of TenantDocuments for TLC.                                   *)
(***************************************************************************)
EXTENDS TenantDocuments, TLC

CONSTANTS r1, r2, r3, owner, viewer

Requests2 == {r1, r2}
Requests3 == {r1, r2, r3}
Symmetry == Permutations(Reqs)

MCEmails == {owner, viewer}
MCAdmins == [e \in Emails |-> [role |-> IF e = owner THEN "owner" ELSE "viewer",
                               addedBy |-> NoEmail]]

TenantAndSwarm == {<<"tenant", "acme">>, <<"swarm", "train">>}
EveryKind      == Kinds \X Names

\* A budget of 0 means unlimited, a negative one is refused.
SmallNums == {-1, 0, 1}

\* Every document exists, but for agents.
SomeDocs ==
  [key \in Keys |->
     IF key[1] = "agent" \/ key[2] \notin ValidNames THEN NoDoc
     ELSE [text |-> "a", list |-> IF key[1] = "swarm" THEN "crew" ELSE "nil",
           num |-> 0, disabled |-> FALSE, by |-> NoEmail]]
=============================================================================
