----------------------------- MODULE MemStoreProofs -----------------------------
(***************************************************************************)
(* Proofs about MemStore, for any set of goroutines, collections, ids and  *)
(* documents and whatever calls they make: the lock excludes, and the      *)
(* store implements AtomicStore.                                           *)
(***************************************************************************)
EXTENDS MemStore, FiniteSetTheorems, FunctionTheorems, SequenceTheorems, TLAPS

-----------------------------------------------------------------------------
(***************************************************************************)
(* Sorted lists and ranks                                                  *)
(***************************************************************************)

\* The instance counts as this module does.
LEMMA RankIs ==
  ASSUME NEW S, NEW i
  PROVE  Atomic!Rank(i, S) = Cardinality({j \in S : j <= i})
<1>1. \A T : Atomic!Cardinality(T) = Cardinality(T)
  BY DEF Atomic!Cardinality, Cardinality
<1> QED BY <1>1 DEF Atomic!Rank

\* The ids up to i are a finite part of a finite set that contains i.
LEMMA RankBounds ==
  ASSUME NEW S \in SUBSET Nat, IsFiniteSet(S), NEW i \in S
  PROVE  Atomic!Rank(i, S) \in 1..Cardinality(S)
<1> DEFINE T == {j \in S : j <= i}
<1>1. T \in SUBSET S /\ i \in T
  OBVIOUS
<1>2. IsFiniteSet(T) /\ Cardinality(T) <= Cardinality(S)
  BY <1>1, FS_Subset
<1>3. Cardinality(T) \in Nat /\ Cardinality(S) \in Nat
  BY <1>2, FS_CardinalityType
<1>4. Cardinality(T) # 0
  BY <1>1, <1>2, FS_EmptySet
<1> HIDE DEF T
<1>5. Cardinality(T) \in 1..Cardinality(S)
  BY <1>2, <1>3, <1>4
<1> QED BY <1>5, RankIs DEF T

\* A smaller id has a smaller rank.
LEMMA RankAscends ==
  ASSUME NEW S \in SUBSET Nat, IsFiniteSet(S), NEW i \in S, NEW j \in S, i < j
  PROVE  Atomic!Rank(i, S) < Atomic!Rank(j, S)
<1> DEFINE Below(k) == {m \in S : m <= k}
<1>1. Below(i) \in SUBSET Below(j) /\ Below(j) \in SUBSET S
  <2>1. \A m \in S : m <= i => m <= j
    BY S \subseteq Nat
  <2> QED BY <2>1
<1>2. j \in Below(j) /\ j \notin Below(i)
  OBVIOUS
<1>3. IsFiniteSet(Below(j)) /\ IsFiniteSet(Below(i))
  BY <1>1, FS_Subset
<1>4. /\ Cardinality(Below(i)) <= Cardinality(Below(j))
      /\ Cardinality(Below(j)) # Cardinality(Below(i))
  BY <1>1, <1>2, <1>3, FS_Subset
<1>5. Cardinality(Below(i)) \in Nat /\ Cardinality(Below(j)) \in Nat
  BY <1>3, FS_CardinalityType
<1>6. Atomic!Rank(i, S) = Cardinality(Below(i)) /\ Atomic!Rank(j, S) = Cardinality(Below(j))
  BY RankIs
<1> HIDE DEF Below
<1> QED BY <1>4, <1>5, <1>6

\* Different ids have different ranks, and each rank is taken.
LEMMA RankIsBijective ==
  ASSUME NEW S \in SUBSET Nat, IsFiniteSet(S)
  PROVE  /\ \A i, j \in S : Atomic!Rank(i, S) = Atomic!Rank(j, S) => i = j
         /\ \A n \in 1..Cardinality(S) : \E i \in S : Atomic!Rank(i, S) = n
<1>1. ASSUME NEW i \in S, NEW j \in S, Atomic!Rank(i, S) = Atomic!Rank(j, S)
      PROVE  i = j
  <2>1. Atomic!Rank(i, S) \in Int /\ Atomic!Rank(j, S) \in Int
    BY RankBounds
  <2>2. ~(i < j) /\ ~(j < i)
    BY <1>1, <2>1, RankAscends
  <2>3. i \in Nat /\ j \in Nat
    OBVIOUS
  <2> QED BY <2>2, <2>3
<1> DEFINE R == 1..Cardinality(S)
           f == [i \in S |-> Atomic!Rank(i, S)]
<1>2. Cardinality(S) \in Nat
  BY FS_CardinalityType
<1>3. IsFiniteSet(R) /\ Cardinality(R) = Cardinality(S)
  BY <1>2, FS_Interval
<1>4. f \in [S -> R]
  BY RankBounds
<1>5. \A i, j \in S : f[i] = f[j] => i = j
  BY <1>1
<1>6. f \in Injection(S, R)
  BY <1>4, <1>5, Fun_IsInj
<1>7. f \in Surjection(S, R)
  BY <1>3, <1>6, FS_Injection
<1>8. \A n \in R : \E i \in S : f[i] = n
  BY <1>7 DEF Surjection
<1> QED BY <1>1, <1>8

\* In a list that ascends, an id has the rank of its place.
LEMMA PlaceIsRank ==
  ASSUME NEW n \in Nat, NEW S, NEW ids \in [1..n -> S], S \in SUBSET Nat,
         \A k, m \in 1..n : k < m => ids[k] < ids[m],
         \A i \in S : \E k \in 1..n : ids[k] = i,
         NEW k \in 1..n
  PROVE  Atomic!Rank(ids[k], S) = k
<1> DEFINE T == {i \in S : i <= ids[k]}
           g == [m \in 1..k |-> ids[m]]
<1>1. \A m \in 1..n : ids[m] \in Nat
  OBVIOUS
<1>2. \A m \in 1..n : ids[m] <= ids[k] <=> m <= k
  BY <1>1
<1>3. g \in [1..k -> T]
  BY <1>2
<1>4. \A a, b \in 1..k : g[a] = g[b] => a = b
  <2> SUFFICES ASSUME NEW a \in 1..k, NEW b \in 1..k, ids[a] = ids[b] PROVE a = b
    OBVIOUS
  <2>1. ~(a < b) /\ ~(b < a)
    BY <1>1
  <2> QED BY <2>1
<1>5. \A i \in T : \E m \in 1..k : g[m] = i
  BY <1>2
<1>6. g \in Bijection(1..k, T)
  BY <1>3, <1>4, <1>5, Fun_IsBij
<1>7. ExistsBijection(1..k, T)
  BY <1>6 DEF ExistsBijection
<1>8. Cardinality(T) = k
  BY <1>7, FS_CountingElements
<1> QED BY <1>8, RankIs

\* 1..n has n members.
LEMMA CountUp ==
  ASSUME NEW n \in Nat
  PROVE  IsFiniteSet(1..n) /\ Cardinality(1..n) = n
<1>1. IsFiniteSet(1..n) /\ Cardinality(1..n) = IF 1 > n THEN 0 ELSE n - 1 + 1
  BY FS_Interval
<1> QED BY <1>1

\* The ids in a list, and the documents that ids have in a table, by rank.
IdsOf(list) == {list[n].id : n \in DOMAIN list}

ByRank(S, tab, coll) ==
  [n \in 1..Cardinality(S) |->
     LET id == CHOOSE i \in S : Atomic!Rank(i, S) = n
     IN  [id |-> id, doc |-> tab[<<coll, id>>]]]

\* Whatever order a listing was visited in, sorting it yields the same list: the
\* documents by the rank of their ids.
LEMMA SortedByRank ==
  ASSUME NEW list \in Lists, NEW tab, NEW coll,
         \A n \in DOMAIN list : list[n].doc = tab[<<coll, list[n].id>>],
         \A m, n \in DOMAIN list : list[m].id = list[n].id => m = n
  PROVE  Sorted(list) = ByRank(IdsOf(list), tab, coll) /\ Sorted(list) \in Lists
<1> SUFFICES ASSUME NEW S, S = {list[n].id : n \in DOMAIN list}
             PROVE  Sorted(list) = ByRank(S, tab, coll) /\ Sorted(list) \in Lists
  BY DEF IdsOf
<1> DEFINE N == Len(list)
           Items == {list[n] : n \in 1..N}
           Id(n) == CHOOSE i \in S : Atomic!Rank(i, S) = n
           L == [n \in 1..Cardinality(S) |-> [id |-> Id(n), doc |-> tab[<<coll, Id(n)>>]]]
<1>1. /\ N \in Nat /\ DOMAIN list = 1..N
      /\ \A n \in 1..N : list[n] \in [id : Ids, doc : Docs]
  <2> DEFINE X == [id : Ids, doc : Docs]
  <2>1. list \in Seq(X)
    BY DEF Lists
  <2> HIDE DEF X
  <2>2. N \in Nat /\ DOMAIN list = 1..N /\ \A n \in 1..N : list[n] \in X
    BY <2>1, LenProperties, ElementOfSeq
  <2> QED BY <2>2 DEF X
<1>2. S \in SUBSET Nat /\ \A n \in 1..N : list[n].id \in S
  <2>1. \A n \in 1..N : list[n].id \in Nat
    BY <1>1, StoreAssumption
  <2>2. S = {list[n].id : n \in 1..N}
    BY <1>1
  <2> QED BY <2>1, <2>2
<1>3. \A i \in S : \E n \in 1..N : list[n].id = i
  BY <1>1
<1>4. IsFiniteSet(S) /\ Cardinality(S) = N /\ IsFiniteSet(1..N) /\ Cardinality(1..N) = N
  <2> DEFINE f == [n \in 1..N |-> list[n].id]
  <2>1. f \in [1..N -> S]
    BY <1>2
  <2>2. \A a, b \in 1..N : f[a] = f[b] => a = b
    BY <1>1
  <2>3. \A i \in S : \E n \in 1..N : f[n] = i
    BY <1>3
  <2>4. f \in Bijection(1..N, S)
    BY <2>1, <2>2, <2>3, Fun_IsBij
  <2>5. ExistsBijection(1..N, S)
    BY <2>4 DEF ExistsBijection
  <2> HIDE DEF N
  <2>6. IsFiniteSet(1..N) /\ Cardinality(1..N) = N
    BY <1>1, CountUp
  <2> QED BY <2>5, <2>6, FS_Bijection
<1>5. /\ \A n \in 1..N : Id(n) \in S /\ Atomic!Rank(Id(n), S) = n
      /\ \A i, j \in S : Atomic!Rank(i, S) = Atomic!Rank(j, S) => i = j
  BY <1>2, <1>4, RankIsBijective
<1>6. \A s \in Items, t \in Items : s.id = t.id => s = t
  BY <1>1
<1>7. \A s \in Items : s.id \in S /\ s.id \in Nat /\ s = [id |-> s.id, doc |-> tab[<<coll, s.id>>]]
  BY <1>1, <1>2
<1>8. L \in [1..N -> Items]
  <2>1. ASSUME NEW n \in 1..N
        PROVE  [id |-> Id(n), doc |-> tab[<<coll, Id(n)>>]] \in Items
    <3>1. PICK m \in 1..N : list[m].id = Id(n)
      BY <1>3, <1>5
    <3>2. list[m] \in Items
      OBVIOUS
    <3> QED BY <3>1, <3>2, <1>7
  <2> QED BY <1>4, <2>1
<1>9. \A n \in 1..N : L[n].id = Id(n)
  BY <1>4
<1> HIDE DEF L, Id, Items
<1>10. \A m, n \in 1..N : m < n => L[m].id < L[n].id
  <2> SUFFICES ASSUME NEW m \in 1..N, NEW n \in 1..N, m < n, ~(Id(m) < Id(n)) PROVE FALSE
    BY <1>9
  <2>1. Id(m) \in Nat /\ Id(n) \in Nat /\ Id(m) \in S /\ Id(n) \in S
    BY <1>2, <1>5
  <2>2. Id(m) = Id(n) \/ Id(n) < Id(m)
    BY <2>1
  <2>3. Id(n) < Id(m) => n < m
    <3> SUFFICES ASSUME Id(n) < Id(m) PROVE n < m
      OBVIOUS
    <3>1. Atomic!Rank(Id(n), S) < Atomic!Rank(Id(m), S)
      BY <1>2, <1>4, <2>1, RankAscends
    <3> QED BY <1>5, <3>1
  <2>4. Id(m) = Id(n) => m = n
    BY <1>5
  <2> QED BY <2>2, <2>3, <2>4
<1>11. ASSUME NEW s \in [1..N -> Items], \A m, n \in 1..N : m < n => s[m].id < s[n].id
       PROVE  s = L
  <2> DEFINE ids == [n \in 1..N |-> s[n].id]
  <2>1. ids \in [1..N -> S] /\ \A n \in 1..N : ids[n] \in Nat
    BY <1>7
  <2>2. \A a, b \in 1..N : ids[a] = ids[b] => a = b
    <3> SUFFICES ASSUME NEW a \in 1..N, NEW b \in 1..N, s[a].id = s[b].id PROVE a = b
      OBVIOUS
    <3>1. ~(a < b) /\ ~(b < a)
      BY <1>11, <2>1
    <3> QED BY <1>1, <3>1
  <2>3. ids \in Injection(1..N, S)
    BY <2>1, <2>2, Fun_IsInj
  <2>4. ids \in Surjection(1..N, S)
    BY <1>4, <2>3, FS_Injection
  <2>5. \A i \in S : \E k \in 1..N : ids[k] = i
    BY <2>4 DEF Surjection
  <2>6. \A k, m \in 1..N : k < m => ids[k] < ids[m]
    BY <1>11
  <2>7. \A k \in 1..N : Atomic!Rank(ids[k], S) = k
    <3> HIDE DEF ids
    <3> QED BY <1>1, <1>2, <2>1, <2>5, <2>6, PlaceIsRank
  <2>8. ASSUME NEW k \in 1..N PROVE s[k] = L[k]
    <3>1. s[k].id = Id(k)
      <4>1. s[k].id \in S /\ Atomic!Rank(s[k].id, S) = k
        BY <2>1, <2>7
      <4>2. Id(k) \in S /\ Atomic!Rank(Id(k), S) = k
        BY <1>5
      <4> QED BY <1>5, <4>1, <4>2
    <3> QED BY <1>6, <1>8, <1>9, <3>1
  <2> QED BY <1>8, <2>8
<1>12. Sorted(list) = L
  <2> DEFINE Asc(s) == \A m, n \in DOMAIN s : m < n => s[m].id < s[n].id
  <2>1. Sorted(list) = CHOOSE s \in [1..N -> Items] : Asc(s)
    BY <1>1 DEF Sorted, Items
  <2>2. L \in [1..N -> Items] /\ Asc(L)
    BY <1>8, <1>10
  <2>3. ASSUME NEW s \in [1..N -> Items], Asc(s) PROVE s = L
    BY <1>11, <2>3
  <2> HIDE DEF Asc
  <2> QED BY <2>1, <2>2, <2>3
<1>13. L \in Lists
  <2>1. Items \subseteq [id : Ids, doc : Docs]
    BY <1>1 DEF Items
  <2>2. L \in [1..N -> [id : Ids, doc : Docs]]
    BY <1>8, <2>1
  <2> QED BY <1>1, <2>2 DEF Lists
<1> QED BY <1>12, <1>13 DEF L, Id, ByRank

-----------------------------------------------------------------------------
(***************************************************************************)
(* The inductive invariant                                                 *)
(***************************************************************************)

\* The steps of a call after Lock or RLock.
Granted == {"body", "change", "unlock"}

\* Who has called Lock or RLock and not yet Unlock or RUnlock is in the state of
\* the mutex; a reader that waits has done nothing, and a writer that has begun
\* is alone.
MutexOf(p) ==
  /\ pc[p] = "idle" <=> call[p] = NoCall
  /\ pending = p <=> pc[p] \in Granted /\ Exclusive(call[p])
  /\ p \in readers \cup parked <=> pc[p] \in Granted /\ ~Exclusive(call[p])
  /\ p \in parked => pc[p] = "body"
  /\ pending = p /\ pc[p] # "body" => readers = {}
  /\ pc[p] = "change" => call[p].op = "delete"

Mutex ==
  /\ \A p \in Clients : MutexOf(p)
  /\ readers \cap parked = {}
  /\ pending = NoClient => parked = {}

\* A listing has visited different entries, and each is still as it was.
VisitedOf(p) ==
  /\ \A n \in DOMAIN out[p] :
       LET key == <<call[p].coll, out[p][n].id>>
       IN  Has(key) /\ out[p][n] = Item(key, entries[key])
  /\ \A m, n \in DOMAIN out[p] : out[p][m].id = out[p][n].id => m = n

\* What a call has in its local variables is what the maps still hold.
LocalsOf(p) ==
  /\ result[p] = NoResult <=> pc[p] # "unlock"
  /\ pc[p] \in {"idle", "lock"} \/ p \in parked => out[p] = <<>>
  /\ pc[p] = "body" /\ call[p].op = "list" => VisitedOf(p)
  /\ pc[p] = "change" => Has(call[p].key) /\ copy[p] = entries[call[p].key]

Locals == \A p \in Clients : LocalsOf(p)

\* A nested table without an inner map has no documents.
Inner == \A key \in Keys :
  key[1].of.nested /\ key[1] \notin made => entries[key] = NoDoc

Inv == TypeOK /\ Mutex /\ Locals /\ Inner

-----------------------------------------------------------------------------
(***************************************************************************)
(* Exclusion                                                               *)
(***************************************************************************)

\* A goroutine between Lock and Unlock that has been let in is the only one; a
\* goroutine that was let in by RLock is among readers only.
LEMMA Excludes ==
  ASSUME TypeOK, Mutex, NEW p \in Clients, Holds(p), pc[p] \in Granted
  PROVE  /\ p \notin parked
         /\ Exclusive(call[p]) =>
              /\ pending = p /\ readers = {}
              /\ \A q \in Clients \ {p} : ~(Holds(q) /\ pc[q] \in Granted)
         /\ ~Exclusive(call[p]) => p \in readers
BY DEF Holds, Mutex, MutexOf

\* What a step within the lock may change.
LEMMA BodyFrame ==
  ASSUME TypeOK, Mutex, NEW p \in Clients, Body(p)
  PROVE  /\ Holds(p) /\ pc[p] \in {"body", "change"}
         /\ pc'[p] \in Granted /\ pc' = [pc EXCEPT ![p] = pc'[p]]
         /\ UNCHANGED <<mu, call>>
         /\ \A q \in Clients \ {p} :
              copy'[q] = copy[q] /\ out'[q] = out[q] /\ result'[q] = result[q]
         /\ UNCHANGED maps \/ Exclusive(call[p])
<1> USE DEF Inside, TypeOK, Granted, Finish, mu, maps, Exclusive
<1>1. CASE Get(p)
  BY <1>1 DEF Get
<1>2. CASE MakeInner(p) \/ Put(p)
  BY <1>2 DEF MakeInner, Put
<1>3. CASE DeleteMissing(p) \/ DeleteLoad(p)
  BY <1>3 DEF DeleteMissing, DeleteLoad
<1>4. CASE DeleteChange(p)
  BY <1>4 DEF DeleteChange, Mutex, MutexOf, Holds
<1>5. CASE ListVisit(p) \/ ListSort(p)
  BY <1>5 DEF ListVisit, ListSort
<1> QED BY <1>1, <1>2, <1>3, <1>4, <1>5 DEF Body

\* Who holds the lock together with a writer is that writer: the maps do not
\* change under a goroutine that was let in.
LEMMA MapsStill ==
  ASSUME TypeOK, Mutex, NEW p \in Clients, Body(p),
         NEW q \in Clients, q # p, Holds(q), pc[q] \in Granted
  PROVE  UNCHANGED maps
BY BodyFrame, Excludes DEF Granted

-----------------------------------------------------------------------------
(***************************************************************************)
(* The invariant is inductive                                              *)
(***************************************************************************)

\* A document with contents is not the absent one.
LEMMA DocsExist ==
  ASSUME NEW doc \in Docs
  PROVE  doc # NoDoc /\ Disabled(doc) \in Docs
<1>1. doc.val \in Vals
  BY DEF Docs
<1>2. doc.val # 0
  BY <1>1, StoreAssumption
<1>3. Disabled(doc) \in Docs
  BY <1>1 DEF Disabled, Docs
<1> QED BY <1>2, <1>3 DEF NoDoc

\* The arguments of each kind of call.
LEMMA Arguments ==
  ASSUME NEW c \in Calls
  PROVE  /\ c # NoCall
         /\ c.op \in {"get", "put", "delete", "list"}
         /\ c.op = "list" => c.coll \in Collections
         /\ c.op # "list" => c.key \in Keys
         /\ c.op = "put" => c.doc \in Docs /\ c.doc # NoDoc
<1> USE DEF NoCall
<1>1. CASE c \in [op : {"get"}, key : Keys]
  BY <1>1
<1>2. CASE c \in [op : {"put"}, key : Keys, doc : [val : Vals, disabled : {FALSE}]]
  <2>1. c.op = "put" /\ c.key \in Keys /\ c.doc \in [val : Vals, disabled : {FALSE}]
    BY <1>2
  <2>2. c.doc \in Docs
    BY <2>1 DEF Docs
  <2> QED BY <2>1, <2>2, DocsExist
<1>3. CASE c \in [op : {"delete"}, key : {k \in Keys : k[1].of.deletes # "never"}]
  BY <1>3
<1>4. CASE c \in [op : {"list"}, coll : Collections]
  BY <1>4
<1> QED BY <1>1, <1>2, <1>3, <1>4 DEF Calls

\* The lock goes on excluding.
LEMMA MutexKept ==
  ASSUME TypeOK, Mutex, NEW p \in Clients,
         Invoke(p) \/ RLock(p) \/ Lock(p) \/ Unlock(p) \/ Body(p)
  PROVE  Mutex'
<1> USE DEF TypeOK, Mutex, MutexOf, Granted, maps, mu
<1>1. CASE Invoke(p)
  <2>1. PICK c \in Calls : call' = [call EXCEPT ![p] = c]
    BY <1>1, CallsAssumption DEF Invoke
  <2>2. c # NoCall
    BY Arguments
  <2> QED BY <1>1, <2>1, <2>2 DEF Invoke
<1>2. CASE RLock(p)
  BY <1>2, StoreAssumption DEF RLock
<1>3. CASE Lock(p)
  BY <1>3, StoreAssumption DEF Lock
<1>4. CASE Unlock(p)
  <2>1. ~Exclusive(NoCall)
    BY DEF Exclusive, NoCall
  <2>2. CASE p = pending
    <3>1. readers = {} /\ pending' = NoClient /\ readers' = parked /\ parked' = {}
      BY <1>4, <2>2 DEF Unlock
    <3>2. \A q \in Clients : q # p => MutexOf(q)'
      BY <1>4, <2>2, <3>1, StoreAssumption DEF Unlock
    <3>3. MutexOf(p)'
      BY <1>4, <2>1, <2>2, <3>1, StoreAssumption DEF Unlock
    <3> QED BY <3>1, <3>2, <3>3
  <2>3. CASE p # pending
    <3>1. readers' = readers \ {p} /\ UNCHANGED <<pending, parked>> /\ p \notin parked
      BY <1>4, <2>3 DEF Unlock
    <3>2. \A q \in Clients : q # p => MutexOf(q)'
      BY <1>4, <2>3, <3>1 DEF Unlock
    <3>3. MutexOf(p)'
      BY <1>4, <2>1, <2>3, <3>1 DEF Unlock
    <3> QED BY <3>1, <3>2, <3>3
  <2> QED BY <2>2, <2>3
<1>5. CASE Body(p)
  <2>1. pc'[p] = "change" => call[p].op = "delete"
    BY <1>5 DEF Body, Get, MakeInner, Put, DeleteMissing, DeleteLoad, DeleteChange,
       ListVisit, ListSort, Finish, Inside
  <2>2. \A q \in Clients : q # p => MutexOf(q)'
    BY <1>5, BodyFrame
  <2>3. MutexOf(p)'
    BY <1>5, <2>1, BodyFrame, Excludes
  <2> QED BY <1>5, <2>2, <2>3, BodyFrame
<1> QED BY <1>1, <1>2, <1>3, <1>4, <1>5

\* Inner maps go on being there for the entries in them.
LEMMA InnerKept ==
  ASSUME TypeOK, Locals, Inner, NEW p \in Clients,
         Invoke(p) \/ RLock(p) \/ Lock(p) \/ Unlock(p) \/ Body(p)
  PROVE  Inner'
<1> SUFFICES ASSUME UNCHANGED maps => FALSE PROVE Inner'
  BY DEF Inner, maps
<1> USE DEF TypeOK, Finish
<1>1. MakeInner(p) \/ Put(p) \/ DeleteChange(p)
  BY DEF Invoke, RLock, Lock, Unlock, Body, Get, DeleteMissing, DeleteLoad, ListVisit,
     ListSort, maps, Inside
<1>2. CASE MakeInner(p)
  BY <1>2 DEF MakeInner, Inner
<1>3. CASE Put(p)
  BY <1>3 DEF Put, Inner
<1>4. CASE DeleteChange(p)
  <2>1. Has(call[p].key)
    BY <1>4 DEF DeleteChange, Inside, Locals, LocalsOf
  <2> QED BY <1>4, <2>1 DEF DeleteChange, Inner, Has
<1> QED BY <1>1, <1>2, <1>3, <1>4

\* What a call has read goes on agreeing with the maps while it holds the lock.
LEMMA LocalsKept ==
  ASSUME TypeOK, Mutex, Locals, NEW p \in Clients,
         Invoke(p) \/ RLock(p) \/ Lock(p) \/ Unlock(p) \/ Body(p)
  PROVE  Locals'
<1> USE DEF TypeOK, Granted, maps, mu
<1>1. ASSUME NEW q \in Clients, q # p PROVE LocalsOf(q)'
  <2>0. LocalsOf(q) /\ MutexOf(q)
    BY DEF Locals, Mutex
  <2>1. /\ pc'[q] = pc[q] /\ call'[q] = call[q] /\ copy'[q] = copy[q]
        /\ out'[q] = out[q] /\ result'[q] = result[q]
    BY <1>1, BodyFrame DEF Invoke, RLock, Lock, Unlock
  <2>2. q \in parked' => q \in parked
    BY <1>1, BodyFrame DEF Invoke, RLock, Lock, Unlock
  <2>3. CASE UNCHANGED maps
    BY <2>0, <2>1, <2>2, <2>3 DEF LocalsOf, VisitedOf, Has
  <2>4. CASE ~UNCHANGED maps
    <3>1. Body(p)
      BY <2>4 DEF Invoke, RLock, Lock, Unlock
    <3>2. ~(Holds(q) /\ pc[q] \in Granted)
      BY <1>1, <2>4, <3>1, MapsStill
    <3>3. pc[q] # "change"
      BY <2>0, <3>2 DEF MutexOf, Holds, Exclusive
    <3>4. pc[q] = "body" /\ call[q].op = "list" => q \in parked
      BY <2>0, <3>2 DEF MutexOf, Holds, Exclusive
    <3>5. pc'[q] = "body" /\ call'[q].op = "list" => VisitedOf(q)'
      BY <2>0, <2>1, <3>4 DEF LocalsOf, VisitedOf
    <3> QED BY <2>0, <2>1, <2>2, <3>3, <3>5 DEF LocalsOf
  <2> QED BY <2>3, <2>4
<1>2. LocalsOf(p)'
  <2>0. LocalsOf(p) /\ MutexOf(p)
    BY DEF Locals, Mutex
  <2>1. CASE Invoke(p)
    BY <2>0, <2>1 DEF Invoke, LocalsOf, MutexOf
  <2>2. CASE RLock(p) \/ Lock(p)
    BY <2>0, <2>2 DEF RLock, Lock, LocalsOf, MutexOf, VisitedOf, Exclusive
  <2>3. CASE Unlock(p)
    BY <2>0, <2>3 DEF Unlock, LocalsOf, MutexOf, VisitedOf
  <2>4. CASE Get(p) \/ Put(p) \/ DeleteMissing(p) \/ DeleteChange(p) \/ ListSort(p)
    <3>0. ErrNotFound # NoResult /\ \A docs : Returned(docs) # NoResult
      BY DEF Returned, ErrNotFound, NoResult
    <3>1. \E r : Finish(p, r) /\ r # NoResult
      <4>1. CASE Get(p)
        BY <3>0, <4>1 DEF Get
      <4>2. CASE Put(p)
        BY <3>0, <4>2 DEF Put
      <4>3. CASE DeleteMissing(p)
        BY <3>0, <4>3 DEF DeleteMissing
      <4>4. CASE DeleteChange(p)
        BY <3>0, <4>4 DEF DeleteChange
      <4>5. CASE ListSort(p)
        BY <3>0, <4>5 DEF ListSort
      <4> QED BY <2>4, <4>1, <4>2, <4>3, <4>4, <4>5
    <3>2. pc'[p] = "unlock" /\ result'[p] # NoResult
      BY <3>1 DEF Finish
    <3>3. p \notin parked'
      BY <2>4, BodyFrame, Excludes DEF Body
    <3> QED BY <3>2, <3>3 DEF LocalsOf
  <2>5. CASE MakeInner(p)
    BY <2>0, <2>5 DEF MakeInner, Inside, LocalsOf
  <2>6. CASE DeleteLoad(p)
    BY <2>0, <2>6 DEF DeleteLoad, Inside, LocalsOf, Missing, Has, MutexOf, Holds, Exclusive
  <2>7. CASE ListVisit(p)
    <3> DEFINE coll == call[p].coll
    <3>1. PICK id \in ToVisit(p) :
            out' = [out EXCEPT ![p] = Append(@, Item(<<coll, id>>, entries[<<coll, id>>]))]
      BY <2>7 DEF ListVisit
    <3> DEFINE it == Item(<<coll, id>>, entries[<<coll, id>>])
    <3>2. /\ id \in Ids /\ Has(<<coll, id>>) /\ it.id = id
          /\ \A n \in DOMAIN out[p] : out[p][n].id # id
      BY DEF ToVisit, Visited, Item
    <3>3. /\ UNCHANGED <<maps, mu, pc, call, copy, result>>
          /\ pc[p] = "body" /\ call[p].op = "list" /\ Holds(p)
      BY <2>7 DEF ListVisit, Inside
    <3>4. VisitedOf(p) /\ p \notin parked
      BY <2>0, <3>3, Excludes DEF LocalsOf
    <3>5. /\ DOMAIN out'[p] = 1..(Len(out[p]) + 1)
          /\ \A n \in DOMAIN out[p] : out'[p][n] = out[p][n]
          /\ out'[p][Len(out[p]) + 1] = it
          /\ DOMAIN out[p] = 1..Len(out[p]) /\ Len(out[p]) \in Nat
      <4> HIDE DEF it
      <4>1. out[p] \in Lists /\ out'[p] = Append(out[p], it)
        BY <3>1 DEF it
      <4> QED BY <4>1 DEF Lists
    <3>6. \A n \in DOMAIN out'[p] : n \in DOMAIN out[p] \/ n = Len(out[p]) + 1
      BY <3>5
    <3>7. VisitedOf(p)'
      <4> HIDE DEF it
      <4>1. ASSUME NEW n \in DOMAIN out'[p]
            PROVE  /\ Has(<<coll, out'[p][n].id>>)
                   /\ out'[p][n] = Item(<<coll, out'[p][n].id>>,
                                        entries[<<coll, out'[p][n].id>>])
        BY <3>2, <3>4, <3>5, <3>6 DEF VisitedOf, it
      <4>2. ASSUME NEW m \in DOMAIN out'[p], NEW n \in DOMAIN out'[p],
                   out'[p][m].id = out'[p][n].id
            PROVE  m = n
        BY <3>2, <3>4, <3>5, <3>6, <4>2 DEF VisitedOf
      <4> QED BY <3>3, <4>1, <4>2 DEF VisitedOf, Has
    <3> QED BY <2>0, <3>3, <3>4, <3>7 DEF LocalsOf
  <2> QED BY <2>1, <2>2, <2>3, <2>4, <2>5, <2>6, <2>7 DEF Body
<1> QED BY <1>1, <1>2 DEF Locals

\* What a call returns has the type of a result.
LEMMA ResultTypes ==
  /\ ErrNotFound \in Results /\ Returned(<<>>) \in Results
  /\ \A list \in Lists : Returned(list) \in Results
  /\ \A key \in Keys, doc \in Docs : Returned(<<Item(key, doc)>>) \in Results
<1>1. \A list \in Lists : Returned(list) \in Results
  BY DEF Returned, Results
<1>2. <<>> \in Lists
  BY DEF Lists
<1>3. ASSUME NEW key \in Keys, NEW doc \in Docs PROVE <<Item(key, doc)>> \in Lists
  <2>1. Item(key, doc) \in [id : Ids, doc : Docs]
    BY DEF Item, Keys
  <2> HIDE DEF Item
  <2> QED BY <2>1 DEF Lists
<1> QED BY <1>1, <1>2, <1>3 DEF Results

\* A listing that has visited every entry holds the documents of its collection.
LEMMA VisitedAll ==
  ASSUME TypeOK, NEW p \in Clients, VisitedOf(p), ToVisit(p) = {}
  PROVE  /\ IdsOf(out[p]) = {id \in Ids : Has(<<call[p].coll, id>>)}
         /\ \A n \in DOMAIN out[p] : out[p][n].doc = entries[<<call[p].coll, out[p][n].id>>]
         /\ \A m, n \in DOMAIN out[p] : out[p][m].id = out[p][n].id => m = n
<1>1. \A n \in DOMAIN out[p] : out[p][n].id \in Ids
  <2> DEFINE X == [id : Ids, doc : Docs]
  <2>1. out[p] \in Seq(X)
    BY DEF TypeOK, Lists
  <2> HIDE DEF X
  <2>2. \A n \in DOMAIN out[p] : out[p][n] \in X
    BY <2>1, LenProperties, ElementOfSeq
  <2> QED BY <2>2 DEF X
<1>2. \A id \in Visited(p) : id \in Ids /\ Has(<<call[p].coll, id>>)
  BY <1>1 DEF Visited, VisitedOf
<1>3. \A id \in Ids : Has(<<call[p].coll, id>>) => id \in Visited(p)
  BY DEF ToVisit
<1>4. Visited(p) = {id \in Ids : Has(<<call[p].coll, id>>)}
  BY <1>2, <1>3
<1>5. \A n \in DOMAIN out[p] :
        out[p][n].doc = entries[<<call[p].coll, out[p][n].id>>]
  <2> SUFFICES ASSUME NEW n \in DOMAIN out[p]
               PROVE  out[p][n].doc = entries[<<call[p].coll, out[p][n].id>>]
    OBVIOUS
  <2> DEFINE key == <<call[p].coll, out[p][n].id>>
  <2>1. out[p][n] = Item(key, entries[key])
    BY DEF VisitedOf
  <2>2. Item(key, entries[key]).doc = entries[key]
    BY DEF Item
  <2> QED BY <2>1, <2>2
<1>6. IdsOf(out[p]) = Visited(p)
  BY DEF IdsOf, Visited
<1>7. \A m, n \in DOMAIN out[p] : out[p][m].id = out[p][n].id => m = n
  BY DEF VisitedOf
<1> QED BY <1>4, <1>5, <1>6, <1>7

\* The types are inductive, given the rest.
LEMMA TypeKept ==
  ASSUME TypeOK, Mutex, Locals, NEW p \in Clients,
         Invoke(p) \/ RLock(p) \/ Lock(p) \/ Unlock(p) \/ Body(p)
  PROVE  TypeOK'
<1> USE DEF TypeOK, maps, mu
<1>0. /\ NoCall \in Calls \cup {NoCall} /\ NoResult \in Results
      /\ NoDoc \in Docs \cup {NoDoc} /\ <<>> \in Lists
  BY DEF Results, Lists
<1>1. CASE Invoke(p)
  <2>1. PICK c \in MayCall[p] : call' = [call EXCEPT ![p] = c]
    BY <1>1 DEF Invoke
  <2>2. c \in Calls
    BY CallsAssumption
  <2>3. call' \in [Clients -> Calls \cup {NoCall}]
    BY <2>1, <2>2
  <2> QED BY <1>1, <2>3 DEF Invoke
<1>2. CASE RLock(p)
  BY <1>2 DEF RLock
<1>3. CASE Lock(p)
  BY <1>3 DEF Lock
<1>4. CASE Unlock(p)
  BY <1>0, <1>4 DEF Unlock
<1>5. ASSUME NEW r \in Results, Finish(p, r), UNCHANGED <<copy, out, made>>,
             entries' \in [Keys -> Docs \cup {NoDoc}]
      PROVE  TypeOK'
  BY <1>5 DEF Finish
<1>6. ASSUME Inside(p, "body") \/ Inside(p, "change")
      PROVE  /\ call[p] \in Calls /\ LocalsOf(p)
             /\ pc[p] = "change" => call[p].op = "delete"
  BY <1>6 DEF Inside, Mutex, MutexOf, Locals
<1>7. CASE Get(p)
  <2>1. call[p].key \in Keys
    BY <1>6, <1>7, Arguments DEF Get
  <2>2. Has(call[p].key) => entries[call[p].key] \in Docs
    BY <2>1 DEF Has
  <2>3. CASE Has(call[p].key)
    BY <1>5, <1>7, <2>1, <2>2, <2>3, ResultTypes DEF Get
  <2>4. CASE ~Has(call[p].key)
    BY <1>5, <1>7, <2>4, ResultTypes DEF Get
  <2> QED BY <2>3, <2>4
<1>8. CASE MakeInner(p)
  <2>1. call[p].key \in Keys
    BY <1>6, <1>8, Arguments DEF MakeInner
  <2> QED BY <1>8, <2>1 DEF MakeInner, Keys
<1>9. CASE Put(p)
  <2>1. call[p].key \in Keys /\ call[p].doc \in Docs
    BY <1>6, <1>9, Arguments DEF Put
  <2>2. entries' \in [Keys -> Docs \cup {NoDoc}]
    BY <1>9, <2>1 DEF Put
  <2> QED BY <1>5, <1>9, <2>2, ResultTypes DEF Put
<1>10. CASE DeleteMissing(p)
  BY <1>5, <1>10, ResultTypes DEF DeleteMissing
<1>11. CASE DeleteLoad(p)
  <2>1. call[p].key \in Keys
    BY <1>6, <1>11, Arguments DEF DeleteLoad
  <2> QED BY <1>11, <2>1 DEF DeleteLoad
<1>12. CASE DeleteChange(p)
  <2>1. call[p].key \in Keys /\ pc[p] = "change" /\ LocalsOf(p)
    BY <1>6, <1>12, Arguments DEF DeleteChange, Inside
  <2>2. copy[p] \in Docs
    BY <2>1 DEF LocalsOf, Has
  <2>3. Disabled(copy[p]) \in Docs
    BY <2>2, DocsExist
  <2>4. entries' \in [Keys -> Docs \cup {NoDoc}]
    BY <1>12, <2>1, <2>3 DEF DeleteChange
  <2> QED BY <1>5, <1>12, <2>4, ResultTypes DEF DeleteChange
<1>13. CASE ListVisit(p)
  <2>1. call[p].coll \in Collections
    BY <1>6, <1>13, Arguments DEF ListVisit
  <2>2. PICK id \in ToVisit(p) :
          out' = [out EXCEPT ![p] = Append(@, Item(<<call[p].coll, id>>,
                                                   entries[<<call[p].coll, id>>]))]
    BY <1>13 DEF ListVisit
  <2> DEFINE it == Item(<<call[p].coll, id>>, entries[<<call[p].coll, id>>])
  <2>3. it \in [id : Ids, doc : Docs]
    <3>1. id \in Ids /\ Has(<<call[p].coll, id>>) /\ <<call[p].coll, id>> \in Keys
      BY <2>1 DEF ToVisit, Keys
    <3>2. entries[<<call[p].coll, id>>] \in Docs
      BY <3>1 DEF Has
    <3> QED BY <3>1, <3>2 DEF Item
  <2> HIDE DEF it
  <2>4. Append(out[p], it) \in Lists
    <3> DEFINE X == [id : Ids, doc : Docs]
    <3>1. out[p] \in Seq(X) /\ it \in X
      BY <2>3 DEF Lists
    <3> HIDE DEF X
    <3>2. Append(out[p], it) \in Seq(X)
      BY <3>1, AppendProperties
    <3> QED BY <3>2 DEF Lists, X
  <2>5. out' \in [Clients -> Lists]
    BY <2>2, <2>4 DEF it
  <2> QED BY <1>13, <2>5 DEF ListVisit
<1>14. CASE ListSort(p)
  <2>1. VisitedOf(p) /\ ToVisit(p) = {}
    BY <1>6, <1>14 DEF ListSort, Inside, LocalsOf
  <2>2. Sorted(out[p]) \in Lists
    <3>1. out[p] \in Lists
      OBVIOUS
    <3>2. /\ \A n \in DOMAIN out[p] :
               out[p][n].doc = entries[<<call[p].coll, out[p][n].id>>]
          /\ \A m, n \in DOMAIN out[p] : out[p][m].id = out[p][n].id => m = n
      BY <2>1, VisitedAll
    <3> HIDE DEF TypeOK
    <3> QED BY <3>1, <3>2, SortedByRank
  <2> QED BY <1>5, <1>14, <2>2, ResultTypes DEF ListSort
<1> QED BY <1>1, <1>2, <1>3, <1>4, <1>7, <1>8, <1>9, <1>10, <1>11, <1>12, <1>13, <1>14
    DEF Body

\* The invariant holds in the beginning.
LEMMA InitInv == Init => Inv
<1> SUFFICES ASSUME Init PROVE Inv
  OBVIOUS
<1> USE DEF Init
<1>1. TypeOK
  BY DEF TypeOK, Results, Lists
<1>2. Mutex
  BY StoreAssumption DEF Mutex, MutexOf, Granted
<1>3. Locals
  BY DEF Locals, LocalsOf
<1>4. Inner
  BY DEF Inner
<1> QED BY <1>1, <1>2, <1>3, <1>4 DEF Inv

\* The invariant is inductive.
LEMMA NextInv == Inv /\ [Next]_vars => Inv'
<1> SUFFICES ASSUME Inv, [Next]_vars PROVE Inv'
  OBVIOUS
<1>1. CASE UNCHANGED vars
  BY <1>1 DEF Inv, vars, maps, mu, TypeOK, Mutex, MutexOf, Exclusive, Granted, Locals,
     LocalsOf, VisitedOf, Inner, Has, Item
<1>2. CASE Next
  BY <1>2, TypeKept, MutexKept, LocalsKept, InnerKept DEF Next, Inv
<1> QED BY <1>1, <1>2

\* In every behaviour of the store.
LEMMA Invariance == Spec => []Inv
BY InitInv, NextInv, PTL DEF Spec

\* The maps, the mutex and the local variables of the calls have their types in
\* every state: no call returns anything but a document, a list or an error, and
\* no listing returns anything but a list of documents.
THEOREM TypeCorrect == Spec => []TypeOK
<1>1. Inv => TypeOK
  BY DEF Inv
<1> QED BY <1>1, Invariance, PTL

-----------------------------------------------------------------------------
(***************************************************************************)
(* The store implements AtomicStore                                        *)
(***************************************************************************)

\* The instance has the constants of this module.
LEMMA SameCalls ==
  /\ Atomic!NoCall = NoCall /\ Atomic!NoDoc = NoDoc
  /\ Atomic!NoResult = NoResult /\ Atomic!ErrNotFound = ErrNotFound
  /\ \A docs : Atomic!Returned(docs) = Returned(docs)
  /\ \A key, doc : Atomic!Item(key, doc) = Item(key, doc)
  /\ \A doc : Atomic!Disabled(doc) = Disabled(doc)
  /\ Atomic!Keys = Keys
BY DEF Atomic!NoCall, NoCall, Atomic!NoDoc, NoDoc, Atomic!NoResult, NoResult,
   Atomic!ErrNotFound, ErrNotFound, Atomic!Returned, Returned, Atomic!Item, Item,
   Atomic!Disabled, Disabled, Atomic!Keys, Keys

\* The table the rest of the system sees.
Table == [key \in Keys |-> IF Has(key) THEN entries[key] ELSE NoDoc]

\* It is the maps as they stand: a table without an inner map is empty.
LEMMA TableIsEntries ==
  ASSUME TypeOK, Inner
  PROVE  /\ Table = entries
         /\ \A key \in Keys : Has(key) <=> entries[key] # NoDoc
<1>1. \A key \in Keys : Has(key) <=> entries[key] # NoDoc
  BY DEF Has, Inner
<1> QED BY <1>1 DEF Table, TypeOK

\* A sorted listing is the abstract one.
LEMMA ListingIsSorted ==
  ASSUME Inv, NEW p \in Clients, VisitedOf(p), ToVisit(p) = {},
         call[p].coll \in Collections
  PROVE  Sorted(out[p]) = Atomic!Listing(call[p].coll)
<1> DEFINE coll == call[p].coll
           S == Atomic!Present(coll)
<1>1. TypeOK /\ Inner
  BY DEF Inv
<1>2. S = {id \in Ids : Table[<<coll, id>>] # NoDoc}
  BY SameCalls DEF Atomic!Present, Table
<1>3. \A id \in Ids : <<coll, id>> \in Keys
  BY DEF Keys
<1>4. S = IdsOf(out[p])
  <2>1. S = {id \in Ids : Has(<<coll, id>>)}
    BY <1>1, <1>2, <1>3, TableIsEntries
  <2> QED BY <1>1, <2>1, VisitedAll
<1>5. \A T : Atomic!Cardinality(T) = Cardinality(T)
  BY DEF Atomic!Cardinality, Cardinality
<1>6. Atomic!Listing(coll) = ByRank(S, Table, coll)
  BY <1>5 DEF Atomic!Listing, Table, ByRank
<1>7. /\ \A n \in DOMAIN out[p] : out[p][n].doc = Table[<<coll, out[p][n].id>>]
      /\ \A m, n \in DOMAIN out[p] : out[p][m].id = out[p][n].id => m = n
  BY <1>1, TableIsEntries, VisitedAll
<1>8. out[p] \in Lists
  BY <1>1 DEF TypeOK
<1>9. Sorted(out[p]) = ByRank(IdsOf(out[p]), Table, coll)
  BY <1>7, <1>8, SortedByRank
<1> QED BY <1>4, <1>6, <1>9

\* The empty maps are the empty table, with every client idle.
LEMMA InitRefines == Init => Atomic!Init
BY SameCalls DEF Init, Atomic!Init, Has

\* Each step of a call is its effect, or nothing that another call can see.
LEMMA StepRefines ==
  ASSUME Inv, Inv', NEW p \in Clients,
         Invoke(p) \/ RLock(p) \/ Lock(p) \/ Unlock(p) \/ Body(p)
  PROVE  [Atomic!Next]_(Atomic!vars)
<1>1. /\ Table = entries /\ \A key \in Keys : Has(key) <=> entries[key] # NoDoc
      /\ Table' = entries'
  <2>1. \A key \in Keys : Has(key)' <=> entries'[key] # NoDoc
    BY DEF Inv, Inner, Has
  <2>2. Table' = entries'
    BY <2>1 DEF Inv, TypeOK, Table
  <2> QED BY <2>2, TableIsEntries DEF Inv
<1>2. TypeOK /\ LocalsOf(p) /\ MutexOf(p)
  BY DEF Inv, Mutex, Locals
<1>3. ASSUME UNCHANGED <<entries, call, result>> PROVE [Atomic!Next]_(Atomic!vars)
  BY <1>1, <1>3 DEF Atomic!vars, Table
<1>4. ASSUME Atomic!Invoke(p) \/ Atomic!Effect(p) \/ Atomic!Return(p)
      PROVE  [Atomic!Next]_(Atomic!vars)
  BY <1>4 DEF Atomic!Next
<1>5. CASE Invoke(p)
  <2>1. call[p] = NoCall
    BY <1>2, <1>5 DEF Invoke, MutexOf
  <2>2. Atomic!Invoke(p)
    BY <1>1, <1>5, <2>1, SameCalls DEF Invoke, maps, Atomic!Invoke, Table
  <2> QED BY <1>4, <2>2
<1>6. CASE RLock(p) \/ Lock(p)
  BY <1>3, <1>6 DEF RLock, Lock, maps
<1>7. CASE Unlock(p)
  <2>1. result[p] # NoResult
    BY <1>2, <1>7 DEF Unlock, LocalsOf
  <2>2. Atomic!Return(p)
    BY <1>1, <1>7, <2>1, SameCalls DEF Unlock, maps, Atomic!Return, Table
  <2> QED BY <1>4, <2>2
<1>8. CASE MakeInner(p) \/ DeleteLoad(p) \/ ListVisit(p)
  BY <1>3, <1>8 DEF MakeInner, DeleteLoad, ListVisit, maps
<1>9. ASSUME NEW r, Finish(p, r), Inside(p, "body") \/ Inside(p, "change")
      PROVE  /\ result[p] = NoResult /\ result' = [result EXCEPT ![p] = r]
             /\ UNCHANGED call /\ call[p] \in Calls
             /\ call[p].op # "list" => call[p].key \in Keys
             /\ \A op : call[p].op = op => Atomic!Takes(p, op, r)
  <2>1. /\ result[p] = NoResult /\ result' = [result EXCEPT ![p] = r]
        /\ UNCHANGED call /\ call[p] \in Calls
    BY <1>2, <1>9 DEF Finish, Inside, LocalsOf, MutexOf, TypeOK
  <2> QED BY <2>1, Arguments, SameCalls DEF Atomic!Takes
<1>10. CASE Get(p)
  <2> DEFINE key == call[p].key
  <2>1. key \in Keys /\ call[p].op = "get" /\ UNCHANGED Table
    BY <1>1, <1>9, <1>10 DEF Get, maps
  <2>2. CASE Has(key)
    <3>1. Atomic!Takes(p, "get", Returned(<<Item(key, Table[key])>>))
      BY <1>1, <1>9, <1>10, <2>1, <2>2 DEF Get
    <3>2. Atomic!Get(p)
      BY <1>1, <2>1, <2>2, <3>1, SameCalls DEF Atomic!Get, Table
    <3> QED BY <1>4, <3>2 DEF Atomic!Effect
  <2>3. CASE ~Has(key)
    <3>1. Atomic!Takes(p, "get", ErrNotFound)
      BY <1>9, <1>10, <2>1, <2>3 DEF Get
    <3>2. Atomic!Miss(p)
      BY <1>1, <2>1, <2>3, <3>1, SameCalls DEF Atomic!Miss, Table
    <3> QED BY <1>4, <3>2 DEF Atomic!Effect
  <2> QED BY <2>2, <2>3
<1>11. CASE Put(p)
  <2>1. Atomic!Takes(p, "put", Returned(<<>>))
    BY <1>9, <1>11 DEF Put
  <2>2. Table' = [Table EXCEPT ![call[p].key] = call[p].doc]
    BY <1>1, <1>11 DEF Put
  <2>3. Atomic!Put(p)
    BY <2>1, <2>2, SameCalls DEF Atomic!Put, Table
  <2> QED BY <1>4, <2>3 DEF Atomic!Effect
<1>12. CASE DeleteMissing(p)
  <2>1. Atomic!Takes(p, "delete", ErrNotFound)
    BY <1>9, <1>12 DEF DeleteMissing
  <2>2. call[p].key \in Keys /\ ~Has(call[p].key) /\ UNCHANGED Table
    BY <1>1, <1>9, <1>12 DEF DeleteMissing, Missing, maps
  <2>3. Atomic!Miss(p)
    BY <1>1, <2>1, <2>2, SameCalls DEF Atomic!Miss, Table
  <2> QED BY <1>4, <2>3 DEF Atomic!Effect
<1>13. CASE DeleteChange(p)
  <2> DEFINE key == call[p].key
  <2>1. /\ call[p].op = "delete" /\ Has(key) /\ copy[p] = entries[key]
    BY <1>2, <1>13 DEF DeleteChange, Inside, LocalsOf, MutexOf
  <2>2. Atomic!Takes(p, "delete", Returned(<<>>)) /\ key \in Keys
    BY <1>9, <1>13, <2>1 DEF DeleteChange
  <2>3. Table' = [Table EXCEPT ![key] =
                    IF key[1].of.deletes = "soft" THEN Disabled(Table[key]) ELSE NoDoc]
    BY <1>1, <1>13, <2>1 DEF DeleteChange
  <2>4. Table[key] # NoDoc
    BY <1>1, <2>1, <2>2
  <2>5. Atomic!Delete(p)
    BY <2>2, <2>3, <2>4, SameCalls DEF Atomic!Delete, Table
  <2> QED BY <1>4, <2>5 DEF Atomic!Effect
<1>14. CASE ListSort(p)
  <2>1. /\ call[p].op = "list" /\ ToVisit(p) = {} /\ UNCHANGED Table
        /\ VisitedOf(p) /\ call[p].coll \in Collections
    BY <1>1, <1>2, <1>9, <1>14, Arguments DEF ListSort, Inside, LocalsOf, maps
  <2>2. Atomic!Takes(p, "list", Returned(Atomic!Listing(call[p].coll)))
    BY <1>9, <1>14, <2>1, ListingIsSorted DEF ListSort
  <2>3. Atomic!List(p)
    BY <2>1, <2>2, SameCalls DEF Atomic!List, Table
  <2> QED BY <1>4, <2>3 DEF Atomic!Effect
<1> QED BY <1>5, <1>6, <1>7, <1>8, <1>10, <1>11, <1>12, <1>13, <1>14 DEF Body

\* "Safe for concurrent use" (memstore.go:11-12): whatever the goroutines call
\* and however their steps interleave, every call behaves as one that takes
\* effect at an instant: a deletion of a tenant with its read and its write, a
\* listing with entries of one moment, in the order of their ids.
THEOREM StoreIsAtomic == Spec => ImplementsAtomicStore
<1>1. Inv /\ Inv' /\ [Next]_vars => [Atomic!Next]_(Atomic!vars)
  <2> SUFFICES ASSUME Inv, Inv', [Next]_vars PROVE [Atomic!Next]_(Atomic!vars)
    OBVIOUS
  <2>1. CASE UNCHANGED vars
    BY <2>1 DEF vars, maps, Atomic!vars, Has
  <2>2. CASE Next
    BY <2>2, StepRefines DEF Next
  <2> QED BY <2>1, <2>2
<1> QED BY <1>1, InitRefines, Invariance, PTL DEF Spec, Atomic!Spec, ImplementsAtomicStore
=============================================================================
