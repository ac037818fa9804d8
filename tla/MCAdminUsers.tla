----------------------------- MODULE MCAdminUsers -----------------------------
(***************************************************************************)
(* Instances of AdminUsers for TLC.                                        *)
(***************************************************************************)
EXTENDS AdminUsers, TLC

CONSTANTS r1, r2, r3, alice, bob

Requests2 == {r1, r2}
Requests3 == {r1, r2, r3}
Symmetry == Permutations(Reqs)

TwoEmails == {alice, bob}

\* A persistent table with one owner and one viewer.
OwnerAndViewer ==
  [e \in Emails |-> [role |-> IF e = alice THEN "owner" ELSE "viewer",
                     addedBy |-> NoEmail]]
Empty == [e \in Emails |-> NoUser]
=============================================================================
