------------------------------ MODULE StoreCalls ------------------------------
(***************************************************************************)
(* The calls of config.Store on its keyed documents (pkg/config/store.go), *)
(* as MemStore offers them: five tables that differ in their shape and in  *)
(* what a deletion does.  The audit entries are the matter of AdminViews.  *)
(***************************************************************************)
EXTENDS Integers, FiniteSets, Sequences

CONSTANTS
  Clients,      \* goroutines that call the store, one call at a time
  NoClient,
  Collections,  \* what a List call lists: the documents of a table and tenant
  Ids,          \* the keys in a collection, in the order of the sort
  Vals,         \* the contents a document may have
  MayCall       \* client -> the calls it makes, again and again

tenants    == [table |-> "tenants", nested |-> FALSE, deletes |-> "soft"]
connectors == [table |-> "connectors", nested |-> TRUE, deletes |-> "never"]
agents     == [table |-> "agents", nested |-> TRUE, deletes |-> "hard"]
swarms     == [table |-> "swarms", nested |-> TRUE, deletes |-> "hard"]
adminUsers == [table |-> "admins", nested |-> FALSE, deletes |-> "hard"]

Tables == {tenants, connectors, agents, swarms, adminUsers}

ASSUME StoreAssumption ==
  /\ NoClient \notin Clients
  /\ \A coll \in Collections : coll.of \in Tables
  /\ Ids \subseteq Nat
  /\ 0 \notin Vals

Keys  == Collections \X Ids
Docs  == [val : Vals, disabled : BOOLEAN]
NoDoc == [val |-> 0, disabled |-> FALSE]

Calls == [op : {"get"}, key : Keys]
         \cup [op : {"put"}, key : Keys, doc : [val : Vals, disabled : {FALSE}]]
         \cup [op : {"delete"},
               key : {k \in Keys : k[1].of.deletes # "never"}]
         \cup [op : {"list"}, coll : Collections]

NoCall == [op |-> "none"]

ASSUME CallsAssumption == MayCall \in [Clients -> SUBSET Calls]

\* What a call returns: a document, an error value, or a list of documents.
Returned(docs) == [err |-> "nil", docs |-> docs]
ErrNotFound    == [err |-> "not found", docs |-> <<>>]
NoResult       == [err |-> "none", docs |-> <<>>]

Lists   == Seq([id : Ids, doc : Docs])
Results == {ErrNotFound, NoResult} \cup [err : {"nil"}, docs : Lists]

\* "t.Disabled = true", on a copy.
Disabled(doc) == [val |-> doc.val, disabled |-> TRUE]

Item(key, doc) == [id |-> key[2], doc |-> doc]
=============================================================================
