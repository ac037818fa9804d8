------------------------------ MODULE MCMemStore ------------------------------
(***************************************************************************)
(* An instance of MemStore for TLC: three goroutines that share a tenant   *)
(* (a flat table, softly deleted) and the agents of a tenant (an inner map *)
(* made on demand, entries erased). Each may read and write.               *)
(***************************************************************************)
EXTENDS MemStore

CONSTANTS p1, p2, p3

Tenant1 == [of |-> tenants, tid |-> "acme"]
Agents1 == [of |-> agents, tid |-> "acme"]

MCCollections == {Tenant1, Agents1}

put(coll, id, v) == [op |-> "put", key |-> <<coll, id>>,
                     doc |-> [val |-> v, disabled |-> FALSE]]
delete(coll, id) == [op |-> "delete", key |-> <<coll, id>>]
get(coll, id)    == [op |-> "get", key |-> <<coll, id>>]
list(coll)       == [op |-> "list", coll |-> coll]

MCMayCall ==
  [p \in Clients |->
     CASE p = p1 -> {put(Tenant1, 1, 1), delete(Tenant1, 1), put(Agents1, 1, 1), list(Agents1)}
       [] p = p2 -> {put(Tenant1, 1, 2), get(Tenant1, 1), put(Agents1, 2, 1), list(Agents1)}
       [] p = p3 -> {delete(Tenant1, 1), delete(Agents1, 1), get(Agents1, 1), list(Agents1)}]
=============================================================================
