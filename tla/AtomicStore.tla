------------------------------ MODULE AtomicStore ------------------------------
(***************************************************************************)
(* What the rest of the admin plane takes a Store to be: a call has its    *)
(* whole effect, and fixes its result, at one instant between the moment   *)
(* it is made and the moment it returns.                                   *)
(***************************************************************************)
EXTENDS StoreCalls

VARIABLES
  table,   \* key -> document, or NoDoc
  call,    \* client -> the call it is making, or NoCall
  result   \* client -> NoResult until the call has taken effect

vars == <<table, call, result>>

\* The documents of a collection in the order of their ids.
Present(coll) == {id \in Ids : table[<<coll, id>>] # NoDoc}

Rank(id, S) == Cardinality({i \in S : i <= id})

Listing(coll) ==
  LET S == Present(coll)
  IN  [n \in 1..Cardinality(S) |->
         LET id == CHOOSE i \in S : Rank(i, S) = n
         IN  [id |-> id, doc |-> table[<<coll, id>>]]]

-----------------------------------------------------------------------------
Init ==
  /\ table = [key \in Keys |-> NoDoc]
  /\ call = [p \in Clients |-> NoCall]
  /\ result = [p \in Clients |-> NoResult]

Invoke(p) ==
  /\ call[p] = NoCall
  /\ \E c \in MayCall[p] : call' = [call EXCEPT ![p] = c]
  /\ UNCHANGED <<table, result>>

\* The call takes effect, and returns this.
Takes(p, op, r) ==
  /\ call[p].op = op
  /\ result[p] = NoResult
  /\ result' = [result EXCEPT ![p] = r]
  /\ UNCHANGED call

List(p) ==
  /\ Takes(p, "list", Returned(Listing(call[p].coll)))
  /\ UNCHANGED table

Put(p) ==
  /\ Takes(p, "put", Returned(<<>>))
  /\ table' = [table EXCEPT ![call[p].key] = call[p].doc]

Get(p) ==
  LET key == call[p].key
  IN  /\ Takes(p, "get", Returned(<<Item(key, table[key])>>))
      /\ table[key] # NoDoc
      /\ UNCHANGED table

\* A deletion leaves a tenant in place, disabled, and removes anything else.
Delete(p) ==
  LET key == call[p].key
  IN  /\ Takes(p, "delete", Returned(<<>>))
      /\ table[key] # NoDoc
      /\ table' = [table EXCEPT ![key] =
                     IF key[1].of.deletes = "soft" THEN Disabled(@)
                     ELSE NoDoc]

Miss(p) ==
  /\ Takes(p, "get", ErrNotFound) \/ Takes(p, "delete", ErrNotFound)
  /\ table[call[p].key] = NoDoc
  /\ UNCHANGED table

Effect(p) == List(p) \/ Put(p) \/ Get(p) \/ Delete(p) \/ Miss(p)

Return(p) ==
  /\ result[p] # NoResult
  /\ call' = [call EXCEPT ![p] = NoCall]
  /\ result' = [result EXCEPT ![p] = NoResult]
  /\ UNCHANGED table

Next == \E p \in Clients : Invoke(p) \/ Effect(p) \/ Return(p)

Spec == Init /\ [][Next]_vars
=============================================================================
