------------------------------- MODULE MemStore -------------------------------
(***************************************************************************)
(* MemStore (pkg/config/memstore.go): maps guarded by one sync.RWMutex,    *)
(* whose calls read and write them step by step while they hold it.        *)
(*                                                                         *)
(* The RWMutex is modelled as package sync documents it: a Lock waits for  *)
(* the readers there are and keeps later ones out, and Unlock lets every   *)
(* waiting reader in before another Lock is granted.                       *)
(***************************************************************************)
EXTENDS StoreCalls

VARIABLES
  entries,  \* the maps: key -> document, or NoDoc
  made,     \* the nested collections whose inner map exists
  pc,       \* client -> the next step of its call
  call,     \* client -> its call, or NoCall
  copy,     \* client -> the document it has in a local variable
  out,      \* client -> the list it is filling
  result,   \* client -> its return value, NoResult until it is known
  pending,  \* mu: the client that called Lock last and has not unlocked
  readers,  \* mu: the clients that hold it for reading
  parked    \* mu: the clients whose RLock waits

mu   == <<pending, readers, parked>>
maps == <<entries, made>>
vars == <<maps, mu, pc, call, copy, out, result>>

\* Mutant: a deletion takes RLock.
Exclusive_NotDelete(c) == c.op = "put"

\* The calls that take Lock; the others take RLock.
Exclusive(c) == c.op \in {"put", "delete"}

Holds(p) == p \in readers \/ (pending = p /\ readers = {})

\* The goroutine runs between its two calls on mu.
Inside(p, label) == pc[p] = label /\ Holds(p)

Finish(p, r) ==
  /\ pc' = [pc EXCEPT ![p] = "unlock"]
  /\ result' = [result EXCEPT ![p] = r]
  /\ UNCHANGED <<mu, call>>

Init ==
  /\ entries = [key \in Keys |-> NoDoc]
  /\ made = {}
  /\ pc = [p \in Clients |-> "idle"]
  /\ call = [p \in Clients |-> NoCall]
  /\ copy = [p \in Clients |-> NoDoc]
  /\ out = [p \in Clients |-> <<>>]
  /\ result = [p \in Clients |-> NoResult]
  /\ pending = NoClient
  /\ readers = {}
  /\ parked = {}

Invoke(p) ==
  /\ pc[p] = "idle"
  /\ \E c \in MayCall[p] : call' = [call EXCEPT ![p] = c]
  /\ pc' = [pc EXCEPT ![p] = "lock"]
  /\ UNCHANGED <<maps, mu, copy, out, result>>

-----------------------------------------------------------------------------
(***************************************************************************)
(* sync.RWMutex                                                            *)
(***************************************************************************)
RLock(p) ==
  /\ pc[p] = "lock"
  /\ ~Exclusive(call[p])
  /\ IF pending = NoClient
       THEN readers' = readers \cup {p} /\ UNCHANGED parked
       ELSE parked' = parked \cup {p} /\ UNCHANGED readers
  /\ pc' = [pc EXCEPT ![p] = "body"]
  /\ UNCHANGED <<maps, pending, call, copy, out, result>>

Lock(p) ==
  /\ pc[p] = "lock"
  /\ Exclusive(call[p])
  /\ pending = NoClient
  /\ pending' = p
  /\ pc' = [pc EXCEPT ![p] = "body"]
  /\ UNCHANGED <<maps, readers, parked, call, copy, out, result>>

\* The deferred Unlock or RUnlock, and the return.
Unlock(p) ==
  /\ pc[p] = "unlock"
  /\ IF p = pending
       THEN /\ pending' = NoClient
            /\ readers' = parked
            /\ parked' = {}
       ELSE /\ readers' = readers \ {p}
            /\ UNCHANGED <<pending, parked>>
  /\ pc' = [pc EXCEPT ![p] = "idle"]
  /\ call' = [call EXCEPT ![p] = NoCall]
  /\ result' = [result EXCEPT ![p] = NoResult]
  /\ copy' = [copy EXCEPT ![p] = NoDoc]
  /\ out' = [out EXCEPT ![p] = <<>>]
  /\ UNCHANGED maps

-----------------------------------------------------------------------------
(***************************************************************************)
(* The bodies                                                              *)
(***************************************************************************)

\* The lookups "m, ok := s.agents[tid]" and "a, ok := m[id]".
Has(key) == (key[1].of.nested => key[1] \in made) /\ entries[key] # NoDoc

\* Mutant: a document that is missing is waited for.
Get_Waits(p) ==
  /\ Inside(p, "body")
  /\ call[p].op = "get"
  /\ IF Has(call[p].key)
       THEN Finish(p, Returned(<<Item(call[p].key, entries[call[p].key])>>))
       ELSE /\ pc' = [pc EXCEPT ![p] = "lock"]
            /\ readers' = readers \ {p}
            /\ UNCHANGED <<pending, parked, call, result>>
  /\ UNCHANGED <<maps, copy, out>>

Get(p) ==
  /\ Inside(p, "body")
  /\ call[p].op = "get"
  /\ Finish(p, IF Has(call[p].key)
                 THEN Returned(<<Item(call[p].key, entries[call[p].key])>>)
                 ELSE ErrNotFound)
  /\ UNCHANGED <<maps, copy, out>>

\* A Put on a nested table makes the inner map when it is the first one.
MakeInner(p) ==
  /\ Inside(p, "body")
  /\ call[p].op = "put"
  /\ call[p].key[1].of.nested
  /\ call[p].key[1] \notin made
  /\ made' = made \cup {call[p].key[1]}
  /\ UNCHANGED <<entries, mu, pc, call, copy, out, result>>

Put(p) ==
  /\ Inside(p, "body")
  /\ call[p].op = "put"
  /\ call[p].key[1].of.nested => call[p].key[1] \in made
  /\ entries' = [entries EXCEPT ![call[p].key] = call[p].doc]
  /\ Finish(p, Returned(<<>>))
  /\ UNCHANGED <<made, copy, out>>

\* Mutant: a deletion does not look at "ok".
Missing_Never(key) == FALSE

Missing(key) == ~Has(key)

DeleteMissing(p) ==
  /\ Inside(p, "body")
  /\ call[p].op = "delete"
  /\ Missing(call[p].key)
  /\ Finish(p, ErrNotFound)
  /\ UNCHANGED <<maps, copy, out>>

\* The deletion found its document; that of a tenant has taken a copy of it.
DeleteLoad(p) ==
  /\ Inside(p, "body")
  /\ call[p].op = "delete"
  /\ ~Missing(call[p].key)
  /\ copy' = [copy EXCEPT ![p] = entries[call[p].key]]
  /\ pc' = [pc EXCEPT ![p] = "change"]
  /\ UNCHANGED <<maps, mu, call, out, result>>

DeleteChange(p) ==
  /\ Inside(p, "change")
  /\ entries' = [entries EXCEPT ![call[p].key] =
                   IF call[p].key[1].of.deletes = "soft"
                     THEN Disabled(copy[p])
                     ELSE NoDoc]
  /\ Finish(p, Returned(<<>>))
  /\ UNCHANGED <<made, copy, out>>

\* "for _, t := range": the entries in any order, each visited once.
Visited(p) == {out[p][n].id : n \in DOMAIN out[p]}

ToVisit(p) ==
  {id \in Ids : Has(<<call[p].coll, id>>) /\ id \notin Visited(p)}

ListVisit(p) ==
  /\ Inside(p, "body")
  /\ call[p].op = "list"
  /\ \E id \in ToVisit(p) :
       LET key == <<call[p].coll, id>>
       IN  out' = [out EXCEPT ![p] = Append(@, Item(key, entries[key]))]
  /\ UNCHANGED <<maps, mu, pc, call, copy, result>>

\* sort.Slice by id; no two entries of a list have the same one.
Sorted(list) ==
  CHOOSE s \in [DOMAIN list -> {list[n] : n \in DOMAIN list}] :
    \A m, n \in DOMAIN s : m < n => s[m].id < s[n].id

ListSort(p) ==
  /\ Inside(p, "body")
  /\ call[p].op = "list"
  /\ ToVisit(p) = {}
  /\ Finish(p, Returned(Sorted(out[p])))
  /\ UNCHANGED <<maps, copy, out>>

Body(p) == \/ Get(p) \/ MakeInner(p) \/ Put(p)
           \/ DeleteMissing(p) \/ DeleteLoad(p) \/ DeleteChange(p)
           \/ ListVisit(p) \/ ListSort(p)

Next == \E p \in Clients : Invoke(p) \/ RLock(p) \/ Lock(p) \/ Unlock(p) \/ Body(p)

Spec == Init /\ [][Next]_vars

\* The Go scheduler starves no goroutine that can run. Lock may find mu taken
\* again and again; a sync.Mutex (the writers' lock inside RWMutex) hands itself
\* to the longest waiter after a millisecond, hence strong fairness.
Fairness == \A p \in Clients :
              WF_vars(RLock(p) \/ Unlock(p) \/ Body(p)) /\ SF_vars(Lock(p))

FairSpec == Spec /\ Fairness

-----------------------------------------------------------------------------
(***************************************************************************)
(* Properties                                                              *)
(***************************************************************************)

\* Type correctness: the maps, the lock and the local variables of the calls
\* have their types; a stored document has contents that somebody put there.
TypeOK ==
  /\ entries \in [Keys -> Docs \cup {NoDoc}]
  /\ made \subseteq Collections
  /\ pc \in [Clients -> {"idle", "lock", "body", "change", "unlock"}]
  /\ call \in [Clients -> Calls \cup {NoCall}]
  /\ copy \in [Clients -> Docs \cup {NoDoc}]
  /\ out \in [Clients -> Lists]
  /\ result \in [Clients -> Results]
  /\ pending \in Clients \cup {NoClient}
  /\ readers \subseteq Clients
  /\ parked \subseteq Clients

Atomic == INSTANCE AtomicStore WITH
  table  <- [key \in Keys |-> IF Has(key) THEN entries[key] ELSE NoDoc]

\* "Safe for concurrent use" (memstore.go:11-12): whatever the calls do step by
\* step, each takes effect at one instant between call and return, a deletion
\* of a tenant with its read and its write together, a listing with all its
\* entries from one moment. The other modules rest on this.
ImplementsAtomicStore == Atomic!Spec

\* No call waits for ever on the lock, whoever else keeps calling: readers that
\* keep coming do not shut out a writer, nor writers a reader or each other.
EveryCallReturns == \A p \in Clients : pc[p] = "lock" ~> pc[p] = "idle"
=============================================================================
