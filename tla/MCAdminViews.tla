----------------------------- MODULE MCAdminViews -----------------------------
(***************************************************************************)
(* Instances of AdminViews for TLC.                                        *)
(***************************************************************************)
EXTENDS AdminViews, TLC

CONSTANTS r1, r2, r3, owner

Symmetry == Permutations(Reqs)

\* A single owner both changes and looks, in requests that overlap.
MCAdmins == [e \in Emails |-> [role |-> "owner", addedBy |-> NoEmail]]

\* Everything of one type, with no limit.
MCQueries == {[limit |-> -1, actor |-> owner, type |-> "agent"]}
=============================================================================
