---------------------------- MODULE AdminViewsProofs ----------------------------
(***************************************************************************)
(* Proofs about AdminViews, for any set of requests, identities, pages and *)
(* queries, and a clock of any range.                                      *)
(***************************************************************************)
EXTENDS AdminViews, FiniteSetTheorems, FunctionTheorems, SequenceTheorems, TLAPS

USE DEF requestVars, viewVars, time

-----------------------------------------------------------------------------
(***************************************************************************)
(* The inductive invariant                                                 *)
(***************************************************************************)

\* The calls a request may be admitted for.
Calls == [op : {"write"}, section : Writes]
         \cup [op : {"list"}, query : Queries]
         \cup [op : {"auditPage"}, query : {AuditPage}]
         \cup [op : {"page"}, page : Pages]

\* What a page may hold for one of its sections.
Reads == [section : Sections, ok : BOOLEAN, docs : SUBSET Reqs] \cup {EmptyPage}

\* TypeOK, with the sequences and the calls.
Types ==
  /\ RequestsTypeOK
  /\ pc \in [Reqs -> {"new", "admitted", "stamp", "mirror", "reply", "done"}]
  /\ call \in [Reqs -> Calls \cup {NoCall}]
  /\ audit \subseteq Entries /\ IsFiniteSet(audit)
  /\ clock \in 0..MaxTime
  /\ steppedBack \in BOOLEAN
  /\ written \in [Sections -> SUBSET Reqs]
  /\ stamp \in [Reqs -> 0..MaxTime \cup {NoStamp}]
  /\ listed \in [Reqs -> Seq(Entries)]
  /\ shown \in [Reqs -> Seq(Reads)]
  /\ \A r \in Reqs : Len(shown[r]) <= 4

Started == {"admitted", "stamp", "mirror", "reply"}

\* The document of r is in the Store.
Committed(r) ==
  call[r].op = "write" /\ (pc[r] \in {"stamp", "mirror", "reply"} \/ reply[r] = 200)

ControlOf(r) ==
  /\ pc[r] = "new" => call[r] = NoCall /\ reply[r] = 0 /\ before[r] = {}
  /\ pc[r] \in Started =>
       /\ call[r] # NoCall /\ reply[r] = 0
       /\ caller[r].email \in Emails
  /\ pc[r] \in {"stamp", "mirror", "reply"} => call[r].op = "write"
  /\ reply[r] = 200 => pc[r] = "done" /\ call[r] # NoCall
  /\ \A q \in before[r] : pc[q] = "done"
  /\ pc[r] \in {"new", "admitted", "stamp"} => stamp[r] = NoStamp
  /\ pc[r] \in {"mirror", "reply"} => stamp[r] # NoStamp
  /\ pc[r] # "done" => listed[r] = <<>>
  /\ listed[r] # <<>> => call[r] # NoCall
  /\ shown[r] # <<>> => pc[r] = "done" \/ call[r].op = "page"

Control == \A r \in Reqs : ControlOf(r)

\* The Store holds the documents of the requests that have written.
Stored == \A s \in Sections :
  written[s] = {r \in Reqs : Committed(r) /\ call[r].section = s}

\* An entry is the one of a request whose document is in the Store and which has
\* been past PutAudit.
Logged == \A e \in audit :
  /\ e.id \in Reqs /\ call[e.id].op = "write" /\ e = EntryOf(e.id)
  /\ pc[e.id] = "reply" \/ reply[e.id] = 200

\* A listing holds entries of the log, from the newest to the oldest.
ListedOf(r) ==
  /\ \A n \in DOMAIN listed[r] : listed[r][n] \in audit
  /\ \A m, n \in DOMAIN listed[r] : m < n => listed[r][m].at >= listed[r][n].at

\* A page shows documents that are in the Store.
ShownOf(p) == \A n \in DOMAIN shown[p] :
  \A w \in shown[p][n].docs : w \in Reqs /\ Committed(w)

Views == \A r \in Reqs : ListedOf(r) /\ ShownOf(r)

\* Unless it was set back, the clock is past every stamp, and a request that was
\* answered before another one arrived has no later stamp.
Clock == ~steppedBack =>
  \A p \in Reqs :
    /\ stamp[p] <= clock
    /\ stamp[p] # NoStamp => \A q \in before[p] : stamp[q] <= stamp[p]

Inv == /\ Types /\ Control
       /\ Stored /\ Logged /\ Views /\ Clock
       /\ ListingComplete /\ PagesAreCausal
-----------------------------------------------------------------------------
(***************************************************************************)
(* Lemmas about the operators                                              *)
(***************************************************************************)

\* The identity of a request that is let in is in admin_users, with a role.
LEMMA OnlyKnownEnter ==
  ASSUME RequestsTypeOK, NEW jwt \in Emails \cup {NoEmail},
         \/ AuthStatus(resolveEmail(jwt)) = 200
         \/ IAPStatus(resolveEmail(jwt)) = 200
  PROVE  /\ resolveEmail(jwt) \in Emails
         /\ admins[resolveEmail(jwt)].role \in Roles
<1>1. resolveEmail(jwt) \in Emails
  BY EmailsAssumption DEF AuthStatus, IAPStatus, resolveEmail
<1>2. admins[resolveEmail(jwt)] # NoUser
  BY <1>1, EmailsAssumption DEF AuthStatus, IAPStatus, NoUser
<1> QED BY <1>1, <1>2 DEF RequestsTypeOK, Users

\* A page reads at most four sections.
LEMMA PagesReadSections ==
  ASSUME NEW page \in DOMAIN PageReads
  PROVE  /\ Len(PageReads[page]) \in 1..4
         /\ \A n \in 1..Len(PageReads[page]) : PageReads[page][n] \in Sections
BY DEF PageReads, Sections

\* A sorting of a finite set of entries has all of them, the newest first.
LEMMA SortingsSort ==
  ASSUME NEW S \in SUBSET Entries, IsFiniteSet(S), NEW s \in Sortings(S)
  PROVE  /\ s \in Seq(S) /\ Len(s) \in Nat /\ DOMAIN s = 1..Len(s)
         /\ \A m, n \in 1..Len(s) : m < n => s[m].at >= s[n].at
         /\ \A e \in S : \E n \in 1..Len(s) : s[n] = e
<1> DEFINE c == Cardinality(S)
<1>1. c \in Nat
  BY FS_CardinalityType
<1>2. /\ s \in [1..c -> S]
      /\ \A m, n \in 1..c : m < n => s[m] # s[n] /\ s[m].at >= s[n].at
  BY DEF Sortings, Precedes
<1> HIDE DEF c
<1>3. s \in Seq(S) /\ Len(s) = c
  BY <1>1, <1>2
<1>4. s \in Injection(1..c, S)
  <2>1. \A m, n \in 1..c : s[m] = s[n] => m = n
    BY <1>1, <1>2
  <2> QED BY <1>2, <2>1, Fun_IsInj
<1>5. IsFiniteSet(1..c) /\ Cardinality(1..c) = c
  BY <1>1, FS_Interval
<1>6. s \in Surjection(1..c, S)
  BY <1>4, <1>5, FS_Injection DEF c
<1>7. \A e \in S : \E n \in 1..c : s[n] = e
  BY <1>6 DEF Surjection
<1> QED BY <1>1, <1>2, <1>3, <1>7

\* Truncating keeps the front.
LEMMA TruncateKeepsFront ==
  ASSUME NEW S, NEW s \in Seq(S), NEW n \in Int, NEW t, t = Truncate(s, n)
  PROVE  /\ t \in Seq(S)
         /\ Len(t) \in 0..Len(s)
         /\ \A m \in 1..Len(t) : t[m] = s[m]
         /\ Len(t) # Len(s) => Len(t) = n
<1>1. Len(s) \in Nat /\ \A m \in 1..Len(s) : s[m] \in S
  BY LenProperties, ElementOfSeq
<1>2. CASE n > 0 /\ Len(s) > n
  <2>1. \A i \in 1..n : s[i] \in S
    BY <1>1, <1>2
  <2>2. /\ SubSeq(s, 1, n) \in Seq(S)
        /\ Len(SubSeq(s, 1, n)) = IF 1 <= n THEN n - 1 + 1 ELSE 0
        /\ \A i \in 1..(n - 1 + 1) : SubSeq(s, 1, n)[i] = s[1 + i - 1]
    BY <2>1, SubSeqProperties
  <2>3. t = SubSeq(s, 1, n)
    BY <1>2 DEF Truncate
  <2>4. Len(t) = n
    BY <2>2, <2>3, <1>2
  <2>5. ASSUME NEW i \in 1..n PROVE t[i] = s[i]
    <3>1. i \in 1..(n - 1 + 1) /\ 1 + i - 1 = i
      OBVIOUS
    <3> QED BY <2>2, <2>3, <3>1
  <2>6. n \in 0..Len(s)
    BY <1>1, <1>2
  <2> QED BY <2>2, <2>3, <2>4, <2>5, <2>6
<1>3. CASE ~(n > 0 /\ Len(s) > n)
  <2>1. t = s
    BY <1>3 DEF Truncate
  <2> QED BY <1>1, <2>1
<1> QED BY <1>2, <1>3

\* What an audit listing returns: entries of the log, the newest first, and of
\* those that match all, unless the limit is filled by none that are older.
LEMMA ListingsList ==
  ASSUME audit \subseteq Entries, IsFiniteSet(audit),
         NEW q, Limit(q) \in Int, NEW t \in Listings(q)
  PROVE  /\ t \in Seq(Entries) /\ DOMAIN t = 1..Len(t)
         /\ \A n \in DOMAIN t : t[n] \in audit
         /\ \A m, n \in DOMAIN t : m < n => t[m].at >= t[n].at
         /\ \A e \in audit : Matches(e, q) =>
              \/ \E n \in DOMAIN t : t[n] = e
              \/ Len(t) = Limit(q) /\ \A n \in DOMAIN t : t[n].at >= e.at
<1> DEFINE S == {e \in audit : Matches(e, q)}
<1>1. S \in SUBSET Entries /\ IsFiniteSet(S)
  BY FS_Subset
<1>2. PICK s \in Sortings(S) : t = Truncate(s, Limit(q))
  BY DEF Listings
<1>3. \A e \in S : e \in audit
  OBVIOUS
<1>4. \A e \in audit : Matches(e, q) => e \in S
  OBVIOUS
<1> HIDE DEF S
<1>5. /\ s \in Seq(S) /\ Len(s) \in Nat /\ DOMAIN s = 1..Len(s)
      /\ \A m, n \in 1..Len(s) : m < n => s[m].at >= s[n].at
      /\ \A e \in S : \E n \in 1..Len(s) : s[n] = e
  BY <1>1, SortingsSort
<1>6. /\ t \in Seq(S)
      /\ Len(t) \in 0..Len(s)
      /\ \A m \in 1..Len(t) : t[m] = s[m]
      /\ Len(t) # Len(s) => Len(t) = Limit(q)
  <2>1. s \in Seq(S) /\ Limit(q) \in Int
    BY <1>5
  <2> HIDE DEF Limit
  <2> QED BY <1>2, <2>1, TruncateKeepsFront
<1>7. DOMAIN t = 1..Len(t) /\ \A n \in 1..Len(t) : t[n] \in S
  BY <1>6, LenProperties, ElementOfSeq
<1>8. t \in Seq(Entries)
  BY <1>1, <1>6, SeqMonotonic
<1> DEFINE k == Len(s)  l == Len(t)  limit == Limit(q)
<1>9. /\ k \in Nat /\ l \in 0..k /\ DOMAIN t = 1..l
      /\ l # k => l = limit
      /\ \A m, n \in 1..k : m < n => s[m].at >= s[n].at
      /\ \A m \in 1..l : t[m] = s[m]
      /\ \A e \in S : \E n \in 1..k : s[n] = e
  BY <1>5, <1>6, <1>7
<1> HIDE DEF k, l, limit
<1>10. ASSUME NEW m \in DOMAIN t, NEW n \in DOMAIN t, m < n
       PROVE  t[m].at >= t[n].at
  <2>1. m \in 1..k /\ n \in 1..k /\ t[m] = s[m] /\ t[n] = s[n]
    BY <1>9
  <2> QED BY <1>9, <1>10, <2>1
<1>11. ASSUME NEW e \in audit, Matches(e, q)
       PROVE  \/ \E n \in DOMAIN t : t[n] = e
              \/ l = limit /\ \A n \in DOMAIN t : t[n].at >= e.at
  <2>1. PICK i \in 1..k : s[i] = e
    BY <1>4, <1>9, <1>11
  <2>2. CASE i <= l
    <3>1. i \in 1..l
      BY <1>9, <2>2
    <3> QED BY <1>9, <2>1, <3>1
  <2>3. CASE ~(i <= l)
    <3>1. ASSUME NEW n \in DOMAIN t PROVE t[n].at >= e.at
      <4>1. n \in 1..k /\ n < i /\ t[n] = s[n]
        BY <1>9, <2>3
      <4> QED BY <1>9, <2>1, <4>1
    <3>2. l = limit
      BY <1>9, <2>3
    <3> QED BY <3>1, <3>2
  <2> QED BY <2>2, <2>3
<1> QED BY <1>3, <1>7, <1>8, <1>10, <1>11 DEF l, limit

\* The range of the clock.
LEMMA TimeIsNat == MaxTime \in Nat
BY ViewsAssumption, Zenon

\* The limit of a query that is asked is a number.
LEMMA LimitsAreNumbers ==
  ASSUME NEW q \in Queries \cup {AuditPage}
  PROVE  Limit(q) \in Int
<1>1. DefaultLimit \in Int
  <2>1. DefaultLimit \in Nat \ {0}
    BY ViewsAssumption, Zenon
  <2> QED BY <2>1
<1>2. q.limit \in Int
  <2>1. CASE q \in Queries
    <3>1. q \in [limit : Int, actor : Emails \cup {NoEmail}, type : Sections \cup {""}]
      BY <2>1, ViewsAssumption
    <3> QED BY <3>1
  <2>2. CASE q = AuditPage
    BY <1>1, <2>2 DEF AuditPage
  <2> QED BY <2>1, <2>2
<1> QED BY <1>1, <1>2 DEF Limit

\* Types has all that TypeOK has.
LEMMA TypesSuffice ==
  ASSUME Types
  PROVE  TypeOK
<1>1. ASSUME NEW r \in Reqs, NEW n \in DOMAIN listed[r] PROVE listed[r][n] \in Entries
  <2>1. listed[r] \in Seq(Entries)
    BY DEF Types
  <2> QED BY <1>1, <2>1, LenProperties, ElementOfSeq
<1>2. ASSUME NEW r \in Reqs, NEW n \in DOMAIN shown[r]
      PROVE  \/ shown[r][n] \in [section : Sections, ok : BOOLEAN, docs : SUBSET Reqs]
             \/ shown[r][n] = EmptyPage
  <2>1. shown[r] \in Seq(Reads)
    BY DEF Types
  <2>2. shown[r][n] \in Reads
    BY <1>2, <2>1, LenProperties, ElementOfSeq
  <2> QED BY <2>2 DEF Reads
<1> QED BY <1>1, <1>2 DEF Types, TypeOK
\* A write goes to one of the sections of a tenant, a page has its reads, and the
\* other calls ask for a listing.
LEMMA CallsAre ==
  ASSUME Types, NEW r \in Reqs
  PROVE  /\ call[r].op = "write" => call[r] # NoCall /\ call[r].section \in Sections
         /\ call[r].op \in {"list", "auditPage"} =>
              call[r] # NoCall /\ call[r].query \in Queries \cup {AuditPage}
         /\ call[r].op = "page" => call[r] # NoCall /\ call[r].page \in DOMAIN PageReads
<1> DEFINE c == call[r]
<1>1. c \in Calls \cup {NoCall}
  BY DEF Types
<1>2. Writes \subseteq Sections /\ Pages \subseteq DOMAIN PageReads
  BY ViewsAssumption, Zenon
<1>3. \/ c = NoCall
      \/ c \in [op : {"write"}, section : Writes]
      \/ c \in [op : {"list"}, query : Queries]
      \/ c \in [op : {"auditPage"}, query : {AuditPage}]
      \/ c \in [op : {"page"}, page : Pages]
  BY <1>1 DEF Calls
<1> HIDE DEF c
<1>4. CASE c = NoCall
  BY <1>4 DEF c, NoCall
<1>5. CASE c \in [op : {"write"}, section : Writes]
  <2>1. c.op = "write" /\ c # NoCall /\ c.section \in Writes
    BY <1>5 DEF NoCall
  <2> QED BY <1>2, <2>1 DEF c
<1>6. CASE c \in [op : {"list"}, query : Queries]
  <2>1. c.op = "list" /\ c # NoCall /\ c.query \in Queries
    BY <1>6 DEF NoCall
  <2> QED BY <2>1 DEF c
<1>7. CASE c \in [op : {"auditPage"}, query : {AuditPage}]
  <2>1. c.op = "auditPage" /\ c # NoCall /\ c.query = AuditPage
    BY <1>7 DEF NoCall
  <2> QED BY <2>1 DEF c
<1>8. CASE c \in [op : {"page"}, page : Pages]
  <2>1. c.op = "page" /\ c # NoCall /\ c.page \in Pages
    BY <1>8 DEF NoCall
  <2> QED BY <1>2, <2>1 DEF c
<1> QED BY <1>3, <1>4, <1>5, <1>6, <1>7, <1>8

-----------------------------------------------------------------------------
(***************************************************************************)
(* What a step changes                                                     *)
(***************************************************************************)

\* A request arrives: it is admitted with a call, or refused.
LEMMA Arrives ==
  ASSUME Types, NEW r \in Reqs, Arrive(r)
  PROVE  /\ pc[r] = "new" /\ UNCHANGED <<admins, audit, viewVars, time>>
         /\ \/ \E c \in Calls, e \in Emails, role \in Roles :
                 /\ pc' = [pc EXCEPT ![r] = "admitted"]
                 /\ call' = [call EXCEPT ![r] = c]
                 /\ caller' = [caller EXCEPT ![r] = [email |-> e, role |-> role]]
                 /\ before' = [before EXCEPT ![r] = Answered]
                 /\ UNCHANGED reply
            \/ \E status \in {401, 403} : Answer(r, status)
<1>1. RequestsTypeOK
  BY DEF Types
<1>2. PICK jwt \in Emails \cup {NoEmail} :
        \/ \E s \in Writes : Admit(r, jwt, [op |-> "write", section |-> s])
        \/ \E q \in Queries : AdmitReader(r, jwt, [op |-> "list", query |-> q])
        \/ AdmitReader(r, jwt, [op |-> "auditPage", query |-> AuditPage])
        \/ \E page \in Pages : AdmitReader(r, jwt, [op |-> "page", page |-> page])
        \/ Refuse(r, jwt)
  BY DEF Arrive
<1>3. UNCHANGED <<viewVars, time>>
  BY DEF Arrive
<1> DEFINE Entered == \E c \in Calls, e \in Emails, role \in Roles :
             /\ pc' = [pc EXCEPT ![r] = "admitted"]
             /\ call' = [call EXCEPT ![r] = c]
             /\ caller' = [caller EXCEPT ![r] = [email |-> e, role |-> role]]
             /\ before' = [before EXCEPT ![r] = Answered]
             /\ UNCHANGED reply
<1>4. ASSUME NEW c \in Calls, Admit(r, jwt, c) \/ AdmitReader(r, jwt, c)
      PROVE  Entered /\ pc[r] = "new" /\ UNCHANGED <<admins, audit>>
  <2>1. /\ resolveEmail(jwt) \in Emails
        /\ admins[resolveEmail(jwt)].role \in Roles
    BY <1>1, <1>4, OnlyKnownEnter DEF Admit, AdmitReader
  <2>2. Enter(r, resolveEmail(jwt), c)
    BY <1>4 DEF Admit, AdmitReader
  <2> QED BY <2>1, <2>2 DEF Enter
<1>5. CASE \E s \in Writes : Admit(r, jwt, [op |-> "write", section |-> s])
  <2>1. PICK s \in Writes : Admit(r, jwt, [op |-> "write", section |-> s])
    BY <1>5
  <2>2. [op |-> "write", section |-> s] \in Calls
    BY DEF Calls
  <2> QED BY <1>3, <1>4, <2>1, <2>2
<1>6. CASE \E q \in Queries : AdmitReader(r, jwt, [op |-> "list", query |-> q])
  <2>1. PICK q \in Queries : AdmitReader(r, jwt, [op |-> "list", query |-> q])
    BY <1>6
  <2>2. [op |-> "list", query |-> q] \in Calls
    BY DEF Calls
  <2> QED BY <1>3, <1>4, <2>1, <2>2
<1>7. CASE AdmitReader(r, jwt, [op |-> "auditPage", query |-> AuditPage])
  <2>1. [op |-> "auditPage", query |-> AuditPage] \in Calls
    BY DEF Calls
  <2> QED BY <1>3, <1>4, <1>7, <2>1
<1>8. CASE \E page \in Pages : AdmitReader(r, jwt, [op |-> "page", page |-> page])
  <2>1. PICK page \in Pages : AdmitReader(r, jwt, [op |-> "page", page |-> page])
    BY <1>8
  <2>2. [op |-> "page", page |-> page] \in Calls
    BY DEF Calls
  <2> QED BY <1>3, <1>4, <2>1, <2>2
<1>9. CASE Refuse(r, jwt)
  <2>1. AuthStatus(resolveEmail(jwt)) # 200 =>
          AuthStatus(resolveEmail(jwt)) \in {401, 403}
    BY DEF AuthStatus
  <2> QED BY <1>3, <1>9, <2>1 DEF Refuse
<1> QED BY <1>2, <1>5, <1>6, <1>7, <1>8, <1>9

\* A step of r leaves every other request alone.
LEMMA StepFrame ==
  ASSUME Types, NEW r \in Reqs, Arrive(r) \/ Step(r)
  PROVE  /\ pc[r] # "done" /\ pc'[r] # "new" /\ UNCHANGED <<admins, time>>
         /\ \A q \in Reqs \ {r} :
              /\ pc'[q] = pc[q] /\ call'[q] = call[q] /\ caller'[q] = caller[q]
              /\ reply'[q] = reply[q] /\ before'[q] = before[q]
              /\ stamp'[q] = stamp[q] /\ listed'[q] = listed[q] /\ shown'[q] = shown[q]
<1> USE DEF Types, RequestsTypeOK, Goto, Answer, At
<1>1. CASE Arrive(r)
  <2>0. pc[r] = "new" /\ UNCHANGED <<admins, audit, viewVars, time>>
    BY <1>1, Arrives
  <2>1. CASE \E status \in {401, 403} : Answer(r, status)
    BY <2>0, <2>1
  <2>2. CASE \E c \in Calls, e \in Emails, role \in Roles :
               /\ pc' = [pc EXCEPT ![r] = "admitted"]
               /\ call' = [call EXCEPT ![r] = c]
               /\ caller' = [caller EXCEPT ![r] = [email |-> e, role |-> role]]
               /\ before' = [before EXCEPT ![r] = Answered]
               /\ UNCHANGED reply
    <3>1. PICK c \in Calls, e \in Emails, role \in Roles :
               /\ pc' = [pc EXCEPT ![r] = "admitted"]
               /\ call' = [call EXCEPT ![r] = c]
               /\ caller' = [caller EXCEPT ![r] = [email |-> e, role |-> role]]
               /\ before' = [before EXCEPT ![r] = Answered]
               /\ UNCHANGED reply
      BY <2>2
    <3> QED BY <2>0, <3>1
  <2> QED BY <1>1, <2>1, <2>2, Arrives
<1>2. CASE Write(r) \/ WriteRefused(r)
  BY <1>2 DEF Write, WriteRefused
<1>3. CASE Stamp(r) \/ Mirror(r) \/ Reply(r)
  BY <1>3 DEF Stamp, Mirror, Reply
<1>4. CASE List(r)
  <2>1. CASE ListAudit(r)
    <3>1. PICK s : listed' = [listed EXCEPT ![r] = s]
      BY <2>1 DEF ListAudit
    <3> QED BY <1>4, <3>1 DEF List
  <2>2. CASE UNCHANGED listed
    BY <1>4, <2>2 DEF List
  <2> QED BY <1>4, <2>1, <2>2 DEF List
<1>5. CASE RenderAudit(r)
  <2>1. CASE ListAudit(r) /\ UNCHANGED shown
    <3>1. PICK s : listed' = [listed EXCEPT ![r] = s]
      BY <2>1 DEF ListAudit
    <3> QED BY <1>5, <2>1, <3>1 DEF RenderAudit
  <2>2. CASE shown' = [shown EXCEPT ![r] = <<EmptyPage>>] /\ UNCHANGED listed
    BY <1>5, <2>2 DEF RenderAudit
  <2> QED BY <1>5, <2>1, <2>2 DEF RenderAudit
<1>6. CASE PageRead(r)
  <2>1. PICK x : shown' = [shown EXCEPT ![r] = x]
    BY <1>6 DEF PageRead
  <2> QED BY <1>6, <2>1 DEF PageRead
<1>7. CASE Render(r)
  BY <1>7 DEF Render
<1> QED BY <1>1, <1>2, <1>3, <1>4, <1>5, <1>6, <1>7 DEF Step

\* So what holds of the control of the others goes on holding.
LEMMA OthersControlled ==
  ASSUME Types, Control, NEW r \in Reqs, Arrive(r) \/ Step(r)
  PROVE  \A s \in Reqs \ {r} : ControlOf(s)'
<1> SUFFICES ASSUME NEW s \in Reqs \ {r} PROVE ControlOf(s)'
  OBVIOUS
<1>1. ControlOf(s)
  BY DEF Control
<1>2. /\ pc'[s] = pc[s] /\ call'[s] = call[s] /\ caller'[s] = caller[s]
      /\ reply'[s] = reply[s] /\ before'[s] = before[s]
      /\ stamp'[s] = stamp[s] /\ listed'[s] = listed[s] /\ shown'[s] = shown[s]
  BY StepFrame
<1>3. \A q \in before[s] : pc'[q] = "done"
  <2>1. ASSUME NEW q \in before[s] PROVE pc'[q] = "done"
    <3>1. q \in Reqs /\ pc[q] = "done"
      BY <1>1 DEF ControlOf, Types, RequestsTypeOK
    <3> QED BY <3>1, StepFrame
  <2> QED BY <2>1
<1> QED BY <1>1, <1>2, <1>3 DEF ControlOf

-----------------------------------------------------------------------------
(***************************************************************************)
(* The types and the control invariant are inductive: one lemma per action *)
(***************************************************************************)

\* An arrival starts a handler with its call, or ends in a refusal.
LEMMA ArriveKeeps ==
  ASSUME Types, Control, NEW r \in Reqs, Arrive(r)
  PROVE  Types' /\ Control'
<1>1. /\ pc[r] = "new" /\ ControlOf(r)
      /\ UNCHANGED <<admins, audit, viewVars, time>>
  BY Arrives DEF Control
<1>2. CASE \E status \in {401, 403} : Answer(r, status)
  <2>1. PICK status \in {401, 403} : Answer(r, status)
    BY <1>2
  <2>2. Types'
    BY <1>1, <2>1 DEF Types, RequestsTypeOK, Statuses, Answer
  <2>3. ControlOf(r)'
    BY <1>1, <2>1 DEF Types, RequestsTypeOK, Answer, ControlOf, Started
  <2> QED BY <2>2, <2>3, OthersControlled DEF Control
<1>3. CASE \E c \in Calls, e \in Emails, role \in Roles :
             /\ pc' = [pc EXCEPT ![r] = "admitted"]
             /\ call' = [call EXCEPT ![r] = c]
             /\ caller' = [caller EXCEPT ![r] = [email |-> e, role |-> role]]
             /\ before' = [before EXCEPT ![r] = Answered]
             /\ UNCHANGED reply
  <2>1. PICK c \in Calls, e \in Emails, role \in Roles :
             /\ pc' = [pc EXCEPT ![r] = "admitted"]
             /\ call' = [call EXCEPT ![r] = c]
             /\ caller' = [caller EXCEPT ![r] = [email |-> e, role |-> role]]
             /\ before' = [before EXCEPT ![r] = Answered]
             /\ UNCHANGED reply
    BY <1>3
  <2>2. c # NoCall
    <3>1. c.op \in {"write", "list", "auditPage", "page"}
      BY DEF Calls
    <3> QED BY <3>1 DEF NoCall
  <2>3. Types'
    <3>1. RequestsTypeOK'
      <4>1. [email |-> e, role |-> role] \in Callers
        BY DEF Callers
      <4>2. Answered \in SUBSET Reqs
        BY DEF Answered
      <4> QED BY <1>1, <2>1, <4>1, <4>2 DEF Types, RequestsTypeOK
    <3>2. /\ pc' \in [Reqs -> {"new", "admitted", "stamp", "mirror", "reply", "done"}]
          /\ call' \in [Reqs -> Calls \cup {NoCall}]
      BY <2>1 DEF Types
    <3> QED BY <1>1, <3>1, <3>2 DEF Types
  <2>4. ControlOf(r)'
    <3>1. pc'[r] = "admitted" /\ call'[r] = c /\ reply'[r] = 0 /\ caller'[r].email \in Emails
      BY <1>1, <2>1 DEF Types, RequestsTypeOK, ControlOf
    <3>2. \A q \in before'[r] : pc'[q] = "done"
      BY <1>1, <2>1 DEF Types, RequestsTypeOK, Answered
    <3>3. stamp'[r] = NoStamp /\ listed'[r] = <<>> /\ shown'[r] = <<>>
      BY <1>1 DEF ControlOf, NoCall
    <3> QED BY <2>2, <3>1, <3>2, <3>3 DEF ControlOf, Started
  <2> QED BY <2>3, <2>4, OthersControlled DEF Control
<1> QED BY <1>2, <1>3, Arrives

\* A write puts a document in its section, or is refused.
LEMMA WriteKeeps ==
  ASSUME Types, Control, NEW r \in Reqs, Write(r) \/ WriteRefused(r)
  PROVE  Types' /\ Control'
<1>1. pc[r] = "admitted" /\ call[r].op = "write" /\ call[r].section \in Sections /\ ControlOf(r)
  BY CallsAre DEF Write, WriteRefused, At, Control
<1>2. ControlOf(r)'
  BY <1>1 DEF Write, WriteRefused, Goto, Answer, Types, RequestsTypeOK, ControlOf, Started
<1>3. CASE Write(r)
  <2>1. Types'
    <3>1. written' \in [Sections -> SUBSET Reqs]
      BY <1>3 DEF Write, Types
    <3> QED BY <1>3, <3>1 DEF Write, Goto, Types, RequestsTypeOK
  <2> QED BY <1>2, <1>3, <2>1, OthersControlled DEF Control, Step
<1>4. CASE WriteRefused(r)
  <2>1. PICK status \in {400, 500} : Answer(r, status)
    BY <1>4 DEF WriteRefused
  <2>2. Types'
    BY <1>4, <2>1 DEF WriteRefused, Answer, Types, RequestsTypeOK, Statuses
  <2> QED BY <1>2, <1>4, <2>2, OthersControlled DEF Control, Step
<1> QED BY <1>3, <1>4

\* A stamp is the time of the clock.
LEMMA StampKeeps ==
  ASSUME Types, Control, NEW r \in Reqs, Stamp(r)
  PROVE  Types' /\ Control'
<1>1. pc[r] = "stamp" /\ ControlOf(r)
  BY DEF Stamp, Control
<1>2. Types'
  <2>1. stamp' \in [Reqs -> 0..MaxTime \cup {NoStamp}]
    BY DEF Stamp, Types
  <2> QED BY <2>1 DEF Stamp, Goto, Types, RequestsTypeOK
<1>3. ControlOf(r)'
  <2>1. stamp'[r] # NoStamp
    BY TimeIsNat DEF Stamp, Types, NoStamp
  <2> QED BY <1>1, <2>1 DEF Stamp, Goto, Types, RequestsTypeOK, ControlOf, Started
<1> QED BY <1>2, <1>3, OthersControlled DEF Control, Step

\* The entry of a request is of the type of entries.
LEMMA EntriesAre ==
  ASSUME Types, Control, NEW r \in Reqs, pc[r] = "mirror"
  PROVE  EntryOf(r) \in Entries
<1>1. call[r].section \in Sections /\ caller[r].email \in Emails /\ stamp[r] # NoStamp
  BY CallsAre DEF Control, ControlOf, Started
<1>2. stamp[r] \in 0..MaxTime
  BY <1>1 DEF Types
<1> QED BY <1>1, <1>2 DEF EntryOf, Entries

\* PutAudit adds one entry, or drops it.
LEMMA MirrorKeeps ==
  ASSUME Types, Control, NEW r \in Reqs, Mirror(r)
  PROVE  Types' /\ Control'
<1>1. pc[r] = "mirror" /\ ControlOf(r)
  BY DEF Mirror, Control
<1>2. audit' \subseteq Entries /\ IsFiniteSet(audit')
  <2>1. CASE audit' = audit \cup {EntryOf(r)}
    <3>1. EntryOf(r) \in Entries
      BY <1>1, EntriesAre
    <3>2. audit \subseteq Entries /\ IsFiniteSet(audit)
      BY DEF Types
    <3>3. IsFiniteSet(audit \cup {EntryOf(r)})
      BY <3>2, FS_AddElement
    <3> HIDE DEF EntryOf
    <3> QED BY <2>1, <3>1, <3>2, <3>3
  <2>2. CASE audit' = audit
    BY <2>2 DEF Types
  <2> QED BY <2>1, <2>2 DEF Mirror
<1>3. Types'
  BY <1>2 DEF Mirror, Goto, Types, RequestsTypeOK
<1>4. ControlOf(r)'
  BY <1>1 DEF Mirror, Goto, Types, RequestsTypeOK, ControlOf, Started
<1> QED BY <1>3, <1>4, OthersControlled DEF Control, Step

\* The status line ends a request.
LEMMA ReplyKeeps ==
  ASSUME Types, Control, NEW r \in Reqs, Reply(r)
  PROVE  Types' /\ Control'
<1>1. pc[r] = "reply" /\ ControlOf(r)
  BY DEF Reply, Control
<1>2. Types'
  BY DEF Reply, Answer, Types, RequestsTypeOK, Statuses
<1>3. ControlOf(r)'
  BY <1>1 DEF Reply, Answer, Types, RequestsTypeOK, ControlOf, Started
<1> QED BY <1>2, <1>3, OthersControlled DEF Control, Step

\* A listing is put together from the log.
LEMMA ListKeeps ==
  ASSUME Types, Control, NEW r \in Reqs, List(r) \/ RenderAudit(r)
  PROVE  Types' /\ Control'
<1>1. /\ pc[r] = "admitted" /\ call[r].op \in {"list", "auditPage"} /\ ControlOf(r)
      /\ call[r].query \in Queries \cup {AuditPage}
  BY CallsAre DEF List, RenderAudit, At, Control
<1>2. PICK status \in {200, 500} : Answer(r, status)
  BY DEF List, RenderAudit
<1>3. /\ UNCHANGED <<admins, audit, written, stamp, time>>
      /\ shown' = shown \/ shown' = [shown EXCEPT ![r] = <<EmptyPage>>]
  BY DEF List, RenderAudit
<1>4. ListAudit(r) \/ UNCHANGED listed
  BY DEF List, RenderAudit
<1>5. listed' \in [Reqs -> Seq(Entries)]
  <2>1. CASE UNCHANGED listed
    BY <2>1 DEF Types
  <2>2. CASE ListAudit(r)
    <3>1. PICK s \in Listings(call[r].query) : listed' = [listed EXCEPT ![r] = s]
      BY <2>2 DEF ListAudit
    <3>2. s \in Seq(Entries)
      BY <1>1, <3>1, LimitsAreNumbers, ListingsList DEF Types
    <3> QED BY <3>1, <3>2 DEF Types
  <2> QED BY <1>4, <2>1, <2>2
<1>6. shown' \in [Reqs -> Seq(Reads)] /\ \A q \in Reqs : Len(shown'[q]) <= 4
  <2>1. CASE shown' = shown
    BY <2>1 DEF Types
  <2>2. CASE shown' = [shown EXCEPT ![r] = <<EmptyPage>>]
    <3>1. <<EmptyPage>> \in Seq(Reads) /\ Len(<<EmptyPage>>) = 1
      BY DEF Reads
    <3> QED BY <2>2, <3>1 DEF Types
  <2> QED BY <1>3, <2>1, <2>2
<1>7. Types'
  <2>1. RequestsTypeOK'
    BY <1>2, <1>3 DEF Answer, Types, RequestsTypeOK, Statuses
  <2>2. /\ pc' \in [Reqs -> {"new", "admitted", "stamp", "mirror", "reply", "done"}]
        /\ UNCHANGED call
    BY <1>2 DEF Answer, Types
  <2> QED BY <1>3, <1>5, <1>6, <2>1, <2>2 DEF Types
<1>8. ControlOf(r)'
  BY <1>1, <1>2, <1>3 DEF Answer, Types, RequestsTypeOK, ControlOf, Started
<1> QED BY <1>7, <1>8, OthersControlled DEF Control, Step

\* A read of a page is put after those it has: it is what the Store holds in the
\* section, or empty, after an error.
ReadOf(x) ==
  /\ x.section \in Sections
  /\ x = [section |-> x.section, ok |-> TRUE, docs |-> written[x.section]]
     \/ x = [section |-> x.section, ok |-> FALSE, docs |-> {}]

\* What one Store read of a page changes.
LEMMA ReadsAppend ==
  ASSUME Types, NEW r \in Reqs, PageRead(r)
  PROVE  /\ Len(shown[r]) \in 0..3 /\ Len(shown'[r]) = Len(shown[r]) + 1
         /\ shown' \in [Reqs -> Seq(Reads)]
         /\ DOMAIN shown[r] = 1..Len(shown[r])
         /\ DOMAIN shown'[r] = 1..Len(shown[r]) + 1
         /\ \A n \in 1..Len(shown[r]) : shown'[r][n] = shown[r][n]
         /\ ReadOf(shown'[r][Len(shown[r]) + 1])
<1> DEFINE s == NextRead(r)
           l == Len(shown[r])
<1>1. call[r].page \in DOMAIN PageReads /\ l < Len(PageReads[call[r].page])
  BY CallsAre DEF PageRead, At
<1>2. shown[r] \in Seq(Reads) /\ l \in Nat /\ DOMAIN shown[r] = 1..l
  BY LenProperties DEF Types
<1>3. s \in Sections /\ l \in 0..3
  <2>1. /\ Len(PageReads[call[r].page]) \in 1..4
        /\ \A n \in 1..Len(PageReads[call[r].page]) :
             PageReads[call[r].page][n] \in Sections
    BY <1>1, PagesReadSections
  <2>2. l + 1 \in 1..Len(PageReads[call[r].page])
    BY <1>1, <1>2, <2>1
  <2>3. s = PageReads[call[r].page][l + 1]
    BY DEF NextRead
  <2> HIDE DEF s, l
  <2>4. l \in 0..3
    <3> DEFINE k == Len(PageReads[call[r].page])
    <3>1. l \in Nat /\ l < k /\ k \in 1..4
      BY <1>1, <1>2, <2>1
    <3> HIDE DEF k
    <3> QED BY <3>1
  <2> QED BY <2>1, <2>2, <2>3, <2>4
<1>4. PICK x : /\ shown' = [shown EXCEPT ![r] = Append(shown[r], x)]
               /\ \/ x = [section |-> s, ok |-> TRUE, docs |-> written[s]]
                  \/ x = [section |-> s, ok |-> FALSE, docs |-> {}]
  BY DEF PageRead
<1> HIDE DEF s, l
<1>5. x \in Reads /\ ReadOf(x)
  <2>1. written[s] \in SUBSET Reqs
    BY <1>3 DEF Types
  <2>2. CASE x = [section |-> s, ok |-> TRUE, docs |-> written[s]]
    BY <1>3, <2>1, <2>2 DEF Reads, ReadOf
  <2>3. CASE x = [section |-> s, ok |-> FALSE, docs |-> {}]
    BY <1>3, <2>3 DEF Reads, ReadOf
  <2> QED BY <1>4, <2>2, <2>3
<1>6. shown'[r] = Append(shown[r], x)
  BY <1>4 DEF Types
<1>7. /\ Append(shown[r], x) \in Seq(Reads)
      /\ Len(Append(shown[r], x)) = l + 1
      /\ \A n \in 1..l : Append(shown[r], x)[n] = shown[r][n]
      /\ Append(shown[r], x)[l + 1] = x
  BY <1>2, <1>5, AppendProperties DEF l
<1>8. DOMAIN shown'[r] = 1..l + 1
  BY <1>6, <1>7, LenProperties
<1>9. shown' \in [Reqs -> Seq(Reads)]
  BY <1>4, <1>7 DEF Types
<1> QED BY <1>2, <1>3, <1>5, <1>6, <1>7, <1>8, <1>9 DEF l

\* A page reads its sections, and is rendered when it has read them all.
LEMMA PageKeeps ==
  ASSUME Types, Control, NEW r \in Reqs, PageRead(r) \/ Render(r)
  PROVE  Types' /\ Control'
<1>1. pc[r] = "admitted" /\ call[r].op = "page" /\ ControlOf(r)
  BY DEF PageRead, Render, At, Control
<1>2. CASE PageRead(r)
  <2>1. /\ shown' \in [Reqs -> Seq(Reads)]
        /\ Len(shown'[r]) <= 4
    BY <1>2, ReadsAppend
  <2>2. \A q \in Reqs : Len(shown'[q]) <= 4
    BY <1>2, <2>1, StepFrame DEF Types, Step
  <2>3. Types'
    BY <1>2, <2>1, <2>2 DEF PageRead, Types, RequestsTypeOK
  <2>4. ControlOf(r)'
    BY <1>1, <1>2 DEF PageRead, ControlOf, Started
  <2> QED BY <1>2, <2>3, <2>4, OthersControlled DEF Control, Step
<1>3. CASE Render(r)
  <2>1. Types'
    BY <1>3 DEF Render, Answer, Types, RequestsTypeOK, Statuses
  <2>2. ControlOf(r)'
    BY <1>1, <1>3 DEF Render, Answer, Types, RequestsTypeOK, ControlOf, Started
  <2> QED BY <1>3, <2>1, <2>2, OthersControlled DEF Control, Step
<1> QED BY <1>2, <1>3

\* Whatever moves, the types and the control of the requests are kept.
LEMMA ControlKept ==
  ASSUME Types, Control, [Next]_vars
  PROVE  Types' /\ Control'
<1>1. CASE UNCHANGED vars
  BY <1>1 DEF vars, Types, RequestsTypeOK, Control, ControlOf, Started
<1>2. CASE Tick
  <2>1. clock' \in 0..MaxTime /\ steppedBack' \in BOOLEAN
    <3>1. clock \in 0..MaxTime /\ steppedBack \in BOOLEAN
      BY DEF Types
    <3>2. CASE clock' \in (clock + 1)..MaxTime /\ UNCHANGED steppedBack
      BY <3>1, <3>2, TimeIsNat
    <3>3. CASE clock' \in 0..(clock - 1) /\ steppedBack' = TRUE
      BY <3>1, <3>3, TimeIsNat
    <3> QED BY <1>2, <3>2, <3>3 DEF Tick
  <2>2. Types'
    BY <1>2, <2>1 DEF Tick, Types, RequestsTypeOK
  <2>3. Control'
    BY <1>2 DEF Tick, Control, ControlOf, Started
  <2> QED BY <2>2, <2>3
<1>3. ASSUME NEW r \in Reqs, Arrive(r) \/ Step(r)
      PROVE  Types' /\ Control'
  BY <1>3, ArriveKeeps, WriteKeeps, StampKeeps, MirrorKeeps, ReplyKeeps,
     ListKeeps, PageKeeps DEF Step
<1> QED BY <1>1, <1>2, <1>3 DEF Next

-----------------------------------------------------------------------------
(***************************************************************************)
(* What a step keeps, and how the log, the listings and the pages grow     *)
(***************************************************************************)

\* A request that is not new keeps its call, its caller and its past; one that
\* has a stamp keeps it; one that has written stays so; one that is answered is
\* over.
Kept(r) ==
  /\ pc[r] # "new" => /\ pc'[r] # "new" /\ call'[r] = call[r]
                      /\ caller'[r] = caller[r] /\ before'[r] = before[r]
  /\ pc[r] = "done" => /\ pc'[r] = "done" /\ reply'[r] = reply[r]
                       /\ listed'[r] = listed[r] /\ shown'[r] = shown[r]
  /\ stamp[r] # NoStamp => stamp'[r] = stamp[r]
  /\ Committed(r) => Committed(r)'
  /\ pc[r] = "reply" => pc'[r] = "reply" \/ reply'[r] = 200

\* Whatever moves, a request keeps what Kept names.
LEMMA RequestsKept ==
  ASSUME Types, Control, [Next]_vars
  PROVE  \A r \in Reqs : Kept(r)
<1> SUFFICES ASSUME NEW r \in Reqs PROVE Kept(r)
  OBVIOUS
<1> USE DEF Kept, Committed
<1>0. ControlOf(r)
  BY DEF Control
<1>1. CASE UNCHANGED vars
  BY <1>1 DEF vars
<1>2. CASE Tick
  BY <1>2 DEF Tick
<1>3. ASSUME NEW s \in Reqs, Arrive(s) \/ Step(s) PROVE Kept(r)
  <2>1. CASE r # s
    BY <1>3, <2>1, StepFrame
  <2>2. CASE r = s /\ Arrive(r)
    <3>1. pc[r] = "new" /\ UNCHANGED viewVars
      BY <2>2, Arrives
    <3> QED BY <1>0, <3>1 DEF ControlOf, NoCall
  <2>3. CASE r = s /\ Write(r)
    BY <1>0, <2>3 DEF Write, Goto, At, Types, ControlOf, Started
  <2>4. CASE r = s /\ WriteRefused(r)
    BY <1>0, <2>4 DEF WriteRefused, Answer, At, Types, RequestsTypeOK, ControlOf, Started
  <2>5. CASE r = s /\ (Stamp(r) \/ Mirror(r))
    BY <1>0, <2>5 DEF Stamp, Mirror, Goto, Types, ControlOf, Started
  <2>6. CASE r = s /\ Reply(r)
    BY <1>0, <2>6 DEF Reply, Answer, Types, RequestsTypeOK, ControlOf, Started
  <2>7. CASE r = s /\ (List(r) \/ RenderAudit(r))
    <3>1. pc[r] = "admitted" /\ call[r].op \in {"list", "auditPage"}
      BY <2>7 DEF List, RenderAudit, At
    <3>2. PICK status \in {200, 500} : Answer(r, status)
      BY <2>7 DEF List, RenderAudit
    <3>3. UNCHANGED stamp
      BY <2>7 DEF List, RenderAudit
    <3> QED BY <1>0, <3>1, <3>2, <3>3 DEF Answer, Types, ControlOf, Started
  <2>8. CASE r = s /\ (PageRead(r) \/ Render(r))
    BY <1>0, <2>8 DEF PageRead, Render, Answer, At, Types, ControlOf, Started
  <2> QED BY <1>3, <2>1, <2>2, <2>3, <2>4, <2>5, <2>6, <2>7, <2>8 DEF Step
<1> QED BY <1>1, <1>2, <1>3 DEF Next

\* The log only grows, by the entry of a request that stands at PutAudit.
LEMMA LogGrows ==
  ASSUME Types, Control, [Next]_vars
  PROVE  /\ audit \subseteq audit'
         /\ \A e \in audit' \ audit :
              \E r \in Reqs : /\ pc[r] = "mirror" /\ pc'[r] = "reply"
                              /\ stamp'[r] = stamp[r] /\ e = EntryOf(r)
<1>1. CASE UNCHANGED audit
  BY <1>1
<1>2. ASSUME NEW r \in Reqs, Mirror(r)
      PROVE  /\ audit \subseteq audit'
             /\ \A e \in audit' \ audit :
                  /\ pc[r] = "mirror" /\ pc'[r] = "reply"
                  /\ stamp'[r] = stamp[r] /\ e = EntryOf(r)
  BY <1>2 DEF Mirror, Goto, Types
<1>3. UNCHANGED audit \/ \E r \in Reqs : Mirror(r)
  <2>1. CASE UNCHANGED vars \/ Tick
    BY <2>1 DEF vars, Tick
  <2>2. ASSUME NEW r \in Reqs, Arrive(r) \/ Step(r) PROVE UNCHANGED audit \/ Mirror(r)
    <3>1. CASE Arrive(r)
      BY <3>1, Arrives
    <3>2. CASE Step(r)
      BY <3>2 DEF Step, Write, WriteRefused, Stamp, Reply, List, RenderAudit,
                  PageRead, Render
    <3> QED BY <2>2, <3>1, <3>2
  <2> QED BY <2>1, <2>2 DEF Next
<1> QED BY <1>1, <1>2, <1>3

\* A listing that is new, or that changes, is one that ListAudit returns.
LEMMA ListingsChange ==
  ASSUME Types, Control, [Next]_vars, NEW r \in Reqs
  PROVE  \/ listed'[r] = listed[r] /\ (Listing(r)' => Listing(r))
         \/ /\ UNCHANGED audit /\ call'[r] = call[r]
            /\ call[r].query \in Queries \cup {AuditPage}
            /\ listed'[r] \in Listings(call[r].query)
<1> DEFINE Same == listed'[r] = listed[r] /\ (Listing(r)' => Listing(r))
           New == /\ UNCHANGED audit /\ call'[r] = call[r]
                  /\ call[r].query \in Queries \cup {AuditPage}
                  /\ listed'[r] \in Listings(call[r].query)
<1>0. ControlOf(r)
  BY DEF Control
<1>1. CASE UNCHANGED vars \/ Tick
  BY <1>1 DEF vars, Tick, Listing
<1>2. ASSUME NEW s \in Reqs, Arrive(s) \/ Step(s) PROVE Same \/ New
  <2>1. CASE r # s
    BY <1>2, <2>1, StepFrame DEF Listing
  <2>2. CASE r = s /\ Arrive(r)
    <3>1. ControlOf(r)' /\ pc[r] = "new" /\ UNCHANGED viewVars
      BY <2>2, Arrives, ArriveKeeps DEF Control
    <3>2. (pc'[r] = "admitted" /\ reply'[r] = reply[r]) \/ reply'[r] \in {401, 403}
      BY <2>2, Arrives DEF Types, RequestsTypeOK, Answer
    <3>3. reply'[r] # 200
      BY <1>0, <3>1, <3>2 DEF ControlOf
    <3> QED BY <3>1, <3>3 DEF Listing
  <2>3. CASE r = s /\ (Write(r) \/ WriteRefused(r))
    BY <2>3 DEF Write, WriteRefused, Goto, Answer, At, Listing
  <2>4. CASE r = s /\ (Stamp(r) \/ Mirror(r) \/ Reply(r))
    BY <1>0, <2>4 DEF Stamp, Mirror, Reply, Goto, Answer, Listing, ControlOf
  <2>5. CASE r = s /\ (List(r) \/ RenderAudit(r))
    <3>1. /\ pc[r] = "admitted" /\ call[r].query \in Queries \cup {AuditPage}
          /\ UNCHANGED <<audit, call>>
      BY <2>5, CallsAre DEF List, RenderAudit, At, Answer
    <3>2. CASE ListAudit(r)
      <4>1. PICK t \in Listings(call[r].query) : listed' = [listed EXCEPT ![r] = t]
        BY <3>2 DEF ListAudit
      <4>2. listed'[r] = t
        BY <4>1 DEF Types
      <4> QED BY <3>1, <4>1, <4>2
    <3>3. CASE ~ListAudit(r)
      <4>1. CASE List(r)
        <5>1. Answer(r, 500) /\ UNCHANGED listed
          BY <3>3, <4>1 DEF List
        <5> QED BY <5>1 DEF Answer, Listing, Types, RequestsTypeOK
      <4>2. CASE RenderAudit(r)
        <5>1. shown' = [shown EXCEPT ![r] = <<EmptyPage>>] /\ UNCHANGED listed
          BY <3>3, <4>2 DEF RenderAudit
        <5>2. shown'[r] # <<>>
          BY <5>1 DEF Types
        <5> QED BY <5>1, <5>2 DEF Listing
      <4> QED BY <2>5, <4>1, <4>2
    <3> QED BY <3>2, <3>3
  <2>6. CASE r = s /\ (PageRead(r) \/ Render(r))
    BY <2>6 DEF PageRead, Render, Answer, At, Listing
  <2> QED BY <1>2, <2>1, <2>2, <2>3, <2>4, <2>5, <2>6 DEF Step
<1> QED BY <1>1, <1>2 DEF Next

\* A page stays as it is, reads another section, or is the empty audit page.
LEMMA PagesChange ==
  ASSUME Types, [Next]_vars, NEW r \in Reqs
  PROVE  \/ shown'[r] = shown[r]
         \/ PageRead(r)
         \/ call[r].op = "auditPage" /\ call'[r] = call[r] /\ shown'[r] = <<EmptyPage>>
<1>1. CASE UNCHANGED vars \/ Tick
  BY <1>1 DEF vars, Tick
<1>2. ASSUME NEW s \in Reqs, Arrive(s) \/ Step(s)
      PROVE  \/ shown'[r] = shown[r]
             \/ PageRead(r)
             \/ call[r].op = "auditPage" /\ call'[r] = call[r] /\ shown'[r] = <<EmptyPage>>
  <2>1. CASE r # s
    BY <1>2, <2>1, StepFrame
  <2>2. CASE r = s /\ Arrive(r)
    BY <2>2, Arrives
  <2>3. CASE r = s /\ (Write(r) \/ WriteRefused(r) \/ Stamp(r) \/ Mirror(r) \/ Reply(r)
                         \/ List(r) \/ Render(r))
    BY <2>3 DEF Write, WriteRefused, Stamp, Mirror, Reply, List, Render
  <2>4. CASE r = s /\ RenderAudit(r)
    BY <2>4 DEF RenderAudit, At, Answer, Types
  <2> QED BY <1>2, <2>1, <2>2, <2>3, <2>4 DEF Step
<1> QED BY <1>1, <1>2 DEF Next

\* What an answered listing contains is settled.
LEMMA ListsKept ==
  ASSUME Types, Control, [Next]_vars, NEW l \in Reqs, pc[l] = "done"
  PROVE  /\ Listing(l)' <=> Listing(l)
         /\ \A q : Lists(l, q)' <=> Lists(l, q)
<1>1. Kept(l)
  BY RequestsKept
<1> QED BY <1>1 DEF Kept, Listing, Lists

-----------------------------------------------------------------------------
(***************************************************************************)
(* The rest of the invariant is inductive                                  *)
(***************************************************************************)

\* The Store holds what has been written: only a write commits a document.
LEMMA StoredKept ==
  ASSUME Types, Control, Stored, [Next]_vars
  PROVE  Stored'
<1> USE DEF Committed
<1>1. CASE UNCHANGED vars \/ Tick
  BY <1>1 DEF vars, Tick, Stored
<1>2. ASSUME NEW r \in Reqs, Arrive(r) \/ Step(r) PROVE Stored'
  <2>0. ControlOf(r) /\ \A q \in Reqs \ {r} :
          pc'[q] = pc[q] /\ call'[q] = call[q] /\ reply'[q] = reply[q]
    BY <1>2, StepFrame DEF Control
  <2>1. CASE Write(r)
    <3>1. /\ pc[r] = "admitted" /\ call[r].op = "write" /\ call[r].section \in Sections
          /\ reply[r] = 0 /\ pc'[r] = "stamp" /\ UNCHANGED call
      BY <2>0, <2>1, CallsAre DEF Write, Goto, At, Types, ControlOf, Started
    <3>2. \A q \in Reqs : Committed(q)' <=> Committed(q) \/ q = r
      BY <2>0, <3>1
    <3>3. ~Committed(r)
      BY <3>1
    <3>4. \A s \in Sections :
            written'[s] = IF s = call[r].section THEN written[s] \cup {r} ELSE written[s]
      BY <2>1, <3>1 DEF Write, Types
    <3> HIDE DEF Committed
    <3> SUFFICES ASSUME NEW s \in Sections
                 PROVE  written'[s] = {q \in Reqs : Committed(q)' /\ call'[q].section = s}
      BY DEF Stored
    <3>5. written[s] = {q \in Reqs : Committed(q) /\ call[q].section = s}
      BY DEF Stored
    <3>6. \A q \in Reqs : call'[q] = call[q]
      BY <3>1
    <3>7. CASE s = call[r].section
      BY <3>2, <3>4, <3>5, <3>6, <3>7
    <3>8. CASE s # call[r].section
      <4>1. \A q \in Reqs : Committed(q)' /\ call'[q].section = s
                              <=> Committed(q) /\ call[q].section = s
        BY <3>2, <3>6, <3>8
      <4> QED BY <3>4, <3>5, <3>8, <4>1
    <3> QED BY <3>7, <3>8
  <2>2. CASE ~Write(r)
    <3>1. UNCHANGED written
      BY <1>2, <2>2, Arrives DEF Step, WriteRefused, Stamp, Mirror, Reply, List,
                                 RenderAudit, PageRead, Render
    <3>2. /\ Committed(r)' <=> Committed(r)
          /\ Committed(r) => call'[r] = call[r]
      <4>1. Committed(r) => Committed(r)' /\ call'[r] = call[r]
        BY <1>2, <2>0, RequestsKept DEF Next, Kept, ControlOf, NoCall
      <4>2. ASSUME Committed(r)' PROVE Committed(r)
        <5>1. CASE Arrive(r)
          <6>1. pc[r] = "new" /\ reply[r] = 0
            BY <2>0, <5>1, Arrives DEF ControlOf
          <6>2. \/ pc'[r] = "admitted" /\ reply'[r] = 0
                \/ pc'[r] = "done" /\ reply'[r] \in {401, 403}
            BY <5>1, <6>1, Arrives DEF Types, RequestsTypeOK, Answer
          <6> QED BY <4>2, <6>2
        <5>2. CASE WriteRefused(r)
          BY <4>2, <5>2 DEF WriteRefused, Answer, Types, RequestsTypeOK
        <5>3. CASE Stamp(r) \/ Mirror(r)
          BY <2>0, <5>3 DEF Stamp, Mirror, ControlOf
        <5>4. CASE Reply(r)
          BY <2>0, <5>4 DEF Reply, ControlOf
        <5>5. CASE List(r) \/ RenderAudit(r) \/ PageRead(r) \/ Render(r)
          BY <4>2, <5>5 DEF List, RenderAudit, PageRead, Render, At, Answer
        <5> QED BY <1>2, <2>2, <5>1, <5>2, <5>3, <5>4, <5>5 DEF Step
      <4> QED BY <4>1, <4>2
    <3>3. \A q \in Reqs : /\ Committed(q)' <=> Committed(q)
                          /\ Committed(q) => call'[q] = call[q]
      BY <2>0, <3>2
    <3> HIDE DEF Committed
    <3> QED BY <3>1, <3>3 DEF Stored
  <2> QED BY <2>1, <2>2
<1> QED BY <1>1, <1>2 DEF Next

\* An entry stays the one of its request, which has been past PutAudit.
LEMMA LoggedKept ==
  ASSUME Types, Control, Logged, [Next]_vars
  PROVE  Logged'
<1> SUFFICES ASSUME NEW e \in audit'
             PROVE  /\ e.id \in Reqs /\ call'[e.id].op = "write" /\ e = EntryOf(e.id)'
                    /\ pc'[e.id] = "reply" \/ reply'[e.id] = 200
  BY DEF Logged
<1>1. CASE e \in audit
  <2> DEFINE r == e.id
  <2>1. /\ r \in Reqs /\ call[r].op = "write" /\ e = EntryOf(r)
        /\ pc[r] = "reply" \/ reply[r] = 200
    BY <1>1 DEF Logged
  <2>2. ControlOf(r) /\ Kept(r)
    BY <2>1, RequestsKept DEF Control
  <2>3. stamp[r] # NoStamp
    <3>1. e.at \in 0..MaxTime /\ e.at = stamp[r]
      BY <1>1, <2>1 DEF Types, Entries, EntryOf
    <3> QED BY <3>1, TimeIsNat DEF NoStamp
  <2>4. /\ call'[r] = call[r] /\ caller'[r] = caller[r] /\ stamp'[r] = stamp[r]
        /\ pc'[r] = "reply" \/ reply'[r] = 200
    BY <2>1, <2>2, <2>3 DEF ControlOf, Kept
  <2> QED BY <2>1, <2>4 DEF EntryOf
<1>2. CASE e \notin audit
  <2>1. PICK r \in Reqs : /\ pc[r] = "mirror" /\ pc'[r] = "reply"
                          /\ stamp'[r] = stamp[r] /\ e = EntryOf(r)
    BY <1>2, LogGrows
  <2>2. Kept(r) /\ ControlOf(r)
    BY RequestsKept DEF Control
  <2>3. /\ call'[r] = call[r] /\ caller'[r] = caller[r] /\ call[r].op = "write"
    BY <2>1, <2>2 DEF Kept, ControlOf
  <2> QED BY <2>1, <2>3 DEF EntryOf
<1> QED BY <1>1, <1>2

\* What a page shows after a step was in the Store before it.
LEMMA ShownCommitted ==
  ASSUME Types, Control, Stored, Views, [Next]_vars, NEW p \in Reqs,
         NEW n \in DOMAIN shown'[p], NEW w \in shown'[p][n].docs
  PROVE  w \in Reqs /\ Committed(w)
<1>1. ShownOf(p)
  BY DEF Views
<1>2. CASE shown'[p] = shown[p]
  BY <1>1, <1>2 DEF ShownOf
<1>3. CASE PageRead(p)
  <2> DEFINE l == Len(shown[p])
  <2>1. /\ l \in 0..3 /\ DOMAIN shown[p] = 1..l /\ DOMAIN shown'[p] = 1..l + 1
        /\ \A m \in 1..l : shown'[p][m] = shown[p][m]
        /\ ReadOf(shown'[p][l + 1])
    BY <1>3, ReadsAppend
  <2> HIDE DEF l
  <2>2. CASE n \in 1..l
    BY <1>1, <2>1, <2>2 DEF ShownOf
  <2>3. CASE n = l + 1
    <3> DEFINE x == shown'[p][n]
    <3>1. x.section \in Sections /\ w \in written[x.section]
      BY <2>1, <2>3 DEF ReadOf
    <3> QED BY <3>1 DEF Stored
  <2> QED BY <2>1, <2>2, <2>3
<1>4. CASE shown'[p] = <<EmptyPage>>
  BY <1>4 DEF EmptyPage
<1> QED BY <1>2, <1>3, <1>4, PagesChange

\* Listings and pages go on holding what the log and the Store hold.
LEMMA ViewsKept ==
  ASSUME Types, Control, Stored, Views, [Next]_vars
  PROVE  Views'
<1> SUFFICES ASSUME NEW r \in Reqs PROVE ListedOf(r)' /\ ShownOf(r)'
  BY DEF Views
<1>1. ShownOf(r)'
  BY ShownCommitted, RequestsKept DEF ShownOf, Kept
<1>2. ListedOf(r)'
  <2>1. CASE listed'[r] = listed[r]
    BY <2>1, LogGrows DEF Views, ListedOf
  <2>2. CASE /\ UNCHANGED audit /\ call[r].query \in Queries \cup {AuditPage}
             /\ listed'[r] \in Listings(call[r].query)
    BY <2>2, LimitsAreNumbers, ListingsList DEF Types, ListedOf
  <2> QED BY <2>1, <2>2, ListingsChange
<1> QED BY <1>1, <1>2

\* A stamp is the time of the clock, and those of answered requests are settled.
LEMMA ClockKept ==
  ASSUME Types, Control, Clock, [Next]_vars
  PROVE  Clock'
<1> SUFFICES ASSUME ~steppedBack', NEW p \in Reqs
             PROVE  /\ stamp'[p] <= clock'
                    /\ stamp'[p] # NoStamp => \A q \in before'[p] : stamp'[q] <= stamp'[p]
  BY DEF Clock
<1>0. /\ \A q \in Reqs : stamp[q] \in 0..MaxTime \cup {NoStamp}
      /\ clock \in 0..MaxTime /\ before[p] \subseteq Reqs
  BY DEF Types, RequestsTypeOK
<1>1. CASE UNCHANGED vars
  BY <1>1 DEF vars, Clock
<1>2. CASE Tick
  <2>1. ~steppedBack /\ clock' \in (clock + 1)..MaxTime /\ UNCHANGED <<stamp, before>>
    BY <1>2 DEF Tick
  <2>2. clock <= clock'
    BY <1>0, <2>1, TimeIsNat
  <2>3. clock' \in Int /\ stamp[p] \in Int
    BY <1>0, <2>1, TimeIsNat DEF NoStamp
  <2> QED BY <1>0, <2>1, <2>2, <2>3, TimeIsNat DEF Clock
<1>3. ASSUME NEW r \in Reqs, Arrive(r) \/ Step(r)
      PROVE  /\ stamp'[p] <= clock'
             /\ stamp'[p] # NoStamp => \A q \in before'[p] : stamp'[q] <= stamp'[p]
  <2>0. UNCHANGED time /\ ~steppedBack
    BY <1>3, StepFrame
  <2>1. CASE Stamp(r)
    <3>1. stamp' = [stamp EXCEPT ![r] = clock] /\ UNCHANGED before
      BY <2>1 DEF Stamp, Goto
    <3>2. \A q \in before[p] : q # r
      BY <2>1 DEF Stamp, Control, ControlOf
    <3>3. \A q \in Reqs : stamp[q] <= clock
      BY <2>0 DEF Clock
    <3>4. CASE p = r
      <4>1. stamp'[p] = clock /\ \A q \in before[p] : stamp'[q] = stamp[q]
        BY <1>0, <3>1, <3>2, <3>4 DEF Types
      <4> QED BY <1>0, <2>0, <3>1, <3>3, <4>1, TimeIsNat
    <3>5. CASE p # r
      <4>1. stamp'[p] = stamp[p] /\ \A q \in before[p] : stamp'[q] = stamp[q]
        BY <1>0, <3>1, <3>2, <3>5 DEF Types
      <4> QED BY <2>0, <3>1, <3>3, <4>1 DEF Clock
    <3> QED BY <3>4, <3>5
  <2>2. CASE ~Stamp(r)
    <3>1. UNCHANGED stamp
      BY <1>3, <2>2, Arrives DEF Step, Write, WriteRefused, Mirror, Reply, List,
                                 RenderAudit, PageRead, Render
    <3>2. stamp[p] # NoStamp => before'[p] = before[p]
      BY RequestsKept DEF Kept, Control, ControlOf
    <3> QED BY <2>0, <3>1, <3>2 DEF Clock
  <2> QED BY <2>1, <2>2
<1> QED BY <1>1, <1>2, <1>3 DEF Next

\* A listing names only changes whose document is in the Store and whose entry
\* has been put.
LEMMA ListsLogged ==
  ASSUME Types, Control, Logged, Views, NEW l \in Reqs, NEW q, Lists(l, q)
  PROVE  q \in Reqs /\ pc[q] \in {"reply", "done"} /\ Committed(q)
<1>1. PICK n \in DOMAIN listed[l] : listed[l][n].id = q
  BY DEF Lists
<1>2. listed[l][n] \in audit
  BY DEF Views, ListedOf
<1>3. q \in Reqs /\ call[q].op = "write" /\ (pc[q] = "reply" \/ reply[q] = 200)
  BY <1>1, <1>2 DEF Logged
<1> QED BY <1>3 DEF Control, ControlOf, Committed

\* A new listing is complete for the log it is made from, and an entry that is
\* put later had not been announced before.
LEMMA ListingsStayComplete ==
  ASSUME Types, Control, Logged, Views, ListingComplete, [Next]_vars
  PROVE  ListingComplete'
<1> SUFFICES ASSUME NEW r \in Reqs, Listing(r)', NEW e \in audit',
                    Matches(e, call'[r].query),
                    \/ e.id \in before'[r]
                    \/ \E l \in before'[r] : Lists(l, e.id)'
             PROVE  \/ Lists(r, e.id)'
                    \/ /\ Len(listed'[r]) = Limit(call'[r].query)
                       /\ \A n \in DOMAIN listed'[r] : listed'[r][n].at >= e.at
  BY DEF ListingComplete
<1>1. CASE listed'[r] = listed[r] /\ Listing(r)
  <2>1. pc[r] = "done" /\ \A l \in before[r] : l \in Reqs /\ pc[l] = "done"
    BY <1>1 DEF Listing, Control, ControlOf, Types, RequestsTypeOK
  <2>2. call'[r] = call[r] /\ before'[r] = before[r]
    BY <2>1, RequestsKept DEF Kept
  <2>3. \/ e.id \in before[r]
        \/ \E l \in before[r] : Lists(l, e.id)
    BY <2>1, <2>2, ListsKept
  <2>4. e \in audit
    <3> SUFFICES ASSUME e \notin audit PROVE FALSE
      OBVIOUS
    <3>1. PICK q \in Reqs : pc[q] = "mirror" /\ e = EntryOf(q)
      BY LogGrows
    <3>2. e.id = q
      BY <3>1 DEF EntryOf
    <3> QED BY <2>1, <2>3, <3>1, <3>2, ListsLogged
  <2>5. \/ Lists(r, e.id)
        \/ /\ Len(listed[r]) = Limit(call[r].query)
           /\ \A n \in DOMAIN listed[r] : listed[r][n].at >= e.at
    BY <1>1, <2>2, <2>3, <2>4 DEF ListingComplete
  <2> QED BY <1>1, <2>1, <2>2, <2>5, ListsKept
<1>2. CASE /\ UNCHANGED audit /\ call'[r] = call[r]
           /\ call[r].query \in Queries \cup {AuditPage}
           /\ listed'[r] \in Listings(call[r].query)
  <2>1. \/ \E n \in DOMAIN listed'[r] : listed'[r][n] = e
        \/ /\ Len(listed'[r]) = Limit(call[r].query)
           /\ \A n \in DOMAIN listed'[r] : listed'[r][n].at >= e.at
    BY <1>2, LimitsAreNumbers, ListingsList DEF Types
  <2> QED BY <1>2, <2>1 DEF Lists
<1> QED BY <1>1, <1>2, ListingsChange

\* What a request that is not new knows of was in the Store before the step.
LEMMA KnownKept ==
  ASSUME Types, Control, Logged, Views, [Next]_vars,
         NEW p \in Reqs, pc[p] # "new", NEW q \in Reqs, call'[q].op = "write", Known(q, p)'
  PROVE  Known(q, p) /\ Committed(q)
<1>1. /\ before'[p] = before[p]
      /\ \A l \in before[p] : l \in Reqs /\ pc[l] = "done"
  BY RequestsKept DEF Kept, Control, ControlOf, Types, RequestsTypeOK
<1>2. CASE q \in before[p] /\ reply'[q] = 200
  BY <1>1, <1>2, RequestsKept DEF Kept, Known, Committed
<1>3. CASE \E l \in before[p] : Lists(l, q)'
  <2>1. PICK l \in before[p] : Lists(l, q)
    BY <1>1, <1>3, ListsKept
  <2> QED BY <1>1, <2>1, ListsLogged DEF Known
<1> QED BY <1>1, <1>2, <1>3 DEF Known

\* A new read shows all that is in the Store, and so all that was known before;
\* what is shown and what its readers and authors knew is settled.
LEMMA PagesStayCausal ==
  ASSUME Types, Control, Stored, Logged, Views, PagesAreCausal, [Next]_vars
  PROVE  PagesAreCausal'
<1> SUFFICES ASSUME NEW p \in Reqs, NEW q \in Reqs,
                    call'[p].op = "page", call'[q].op = "write",
                    NEW n \in DOMAIN shown'[p],
                    shown'[p][n].ok, shown'[p][n].section = call'[q].section,
                    Precedent(q, p, n)'
             PROVE  q \in shown'[p][n].docs
  BY DEF PagesAreCausal
<1>0. shown[p] \in Seq(Reads) /\ Len(shown[p]) \in Nat /\ DOMAIN shown[p] = 1..Len(shown[p])
  BY LenProperties DEF Types
<1>1. shown'[p] = shown[p] \/ PageRead(p)
  BY PagesChange
<1>2. pc[p] # "new"
  <2>1. CASE PageRead(p)
    BY <2>1 DEF PageRead, At
  <2>2. CASE shown'[p] = shown[p] /\ pc[p] = "new"
    <3>1. shown[p] = <<>>
      BY <2>2 DEF Control, ControlOf, NoCall
    <3> QED BY <2>2, <3>1
  <2> QED BY <1>1, <2>1, <2>2
<1>3. call'[p] = call[p]
  BY <1>2, RequestsKept DEF Kept
<1>4. /\ n \in Int /\ 1..n \subseteq DOMAIN shown'[p]
      /\ n \in DOMAIN shown[p] =>
           1..n \subseteq DOMAIN shown[p] /\ \A m \in 1..n : shown'[p][m] = shown[p][m]
  <2> DEFINE l == Len(shown[p])
  <2>1. CASE shown'[p] = shown[p]
    BY <1>0, <2>1
  <2>2. CASE PageRead(p)
    <3>1. /\ l \in 0..3 /\ DOMAIN shown'[p] = 1..l + 1
          /\ \A m \in 1..l : shown'[p][m] = shown[p][m]
      BY <2>2, ReadsAppend
    <3> HIDE DEF l
    <3> QED BY <1>0, <3>1 DEF l
  <2> QED BY <1>1, <2>1, <2>2
<1>5. /\ Committed(q)
      /\ n \in DOMAIN shown[p] => Precedent(q, p, n)
  <2>1. CASE Known(q, p)'
    BY <1>2, <2>1, KnownKept DEF Precedent
  <2>2. ASSUME NEW m \in 1..n, NEW w \in shown'[p][m].docs, Known(q, w)'
        PROVE  /\ Committed(q)
               /\ n \in DOMAIN shown[p] => Precedent(q, p, n)
    <3>1. w \in Reqs /\ Committed(w)
      BY <1>4, ShownCommitted
    <3>2. pc[w] # "new"
      BY <3>1 DEF Committed, Control, ControlOf
    <3>3. Known(q, w) /\ Committed(q)
      BY <2>2, <3>1, <3>2, KnownKept
    <3> QED BY <1>4, <3>3 DEF Precedent
  <2> QED BY <2>1, <2>2 DEF Precedent
<1>6. call'[q] = call[q] /\ call[q] # NoCall /\ call[q].section \in Sections
  BY <1>5, CallsAre, RequestsKept DEF Kept, Committed, Control, ControlOf
<1>7. CASE n \in DOMAIN shown[p]
  <2>1. call[p].op = "page" /\ call[p] # NoCall
    BY <1>3 DEF NoCall
  <2>2. shown'[p][n] = shown[p][n]
    <3>1. n \in 1..n
      BY <1>0, <1>7
    <3> QED BY <1>4, <1>7, <3>1
  <2> QED BY <1>5, <1>6, <1>7, <2>1, <2>2 DEF PagesAreCausal
<1>8. CASE n \notin DOMAIN shown[p]
  <2> DEFINE l == Len(shown[p])
             x == shown'[p][n]
  <2>1. PageRead(p)
    BY <1>1, <1>8
  <2>2. DOMAIN shown[p] = 1..l /\ DOMAIN shown'[p] = 1..l + 1 /\ l \in 0..3 /\ ReadOf(shown'[p][l + 1])
    BY <2>1, ReadsAppend
  <2> HIDE DEF l
  <2>3. n = l + 1
    BY <1>8, <2>2
  <2>4. x.docs = written[call[q].section]
    BY <1>6, <2>2, <2>3 DEF ReadOf
  <2> QED BY <1>5, <1>6, <2>4 DEF Stored
<1> QED BY <1>7, <1>8

-----------------------------------------------------------------------------
(***************************************************************************)
(* The theorems                                                            *)
(***************************************************************************)

\* The invariant holds in the beginning.
LEMMA InitInv ==
  ASSUME Init
  PROVE  Inv
<1>1. Types
  <2>1. RequestsTypeOK
    BY EmailsAssumption DEF Init, InitRequests, RequestsTypeOK, Callers, Statuses
  <2>2. audit = {} /\ IsFiniteSet({})
    BY FS_EmptySet DEF Init, InitRequests
  <2>3. listed \in [Reqs -> Seq(Entries)]
    BY DEF Init
  <2>4. shown \in [Reqs -> Seq(Reads)]
    BY DEF Init
  <2>5. /\ pc \in [Reqs -> {"new", "admitted", "stamp", "mirror", "reply", "done"}]
        /\ call \in [Reqs -> Calls \cup {NoCall}]
        /\ stamp \in [Reqs -> 0..MaxTime \cup {NoStamp}]
        /\ steppedBack \in BOOLEAN
        /\ written \in [Sections -> SUBSET Reqs]
    BY DEF Init, InitRequests
  <2>6. clock \in 0..MaxTime
    BY TimeIsNat DEF Init
  <2>7. audit \subseteq Entries /\ IsFiniteSet(audit)
    BY <2>2
  <2>8. \A r \in Reqs : Len(shown[r]) <= 4
    <3>1. Len(<<>>) = 0
      OBVIOUS
    <3>2. \A r \in Reqs : shown[r] = <<>>
      BY DEF Init
    <3>3. 0 <= 4
      OBVIOUS
    <3> QED BY <3>1, <3>2, <3>3, Zenon
  <2> QED BY <2>1, <2>3, <2>4, <2>5, <2>6, <2>7, <2>8 DEF Types
<1>2. \A r \in Reqs : /\ pc[r] = "new" /\ call[r] = NoCall /\ reply[r] = 0 /\ before[r] = {}
                      /\ stamp[r] = NoStamp /\ listed[r] = <<>> /\ shown[r] = <<>>
  BY DEF Init, InitRequests
<1>3. Control
  <2> SUFFICES ASSUME NEW r \in Reqs PROVE ControlOf(r)
    BY DEF Control
  <2> QED BY <1>2 DEF ControlOf, Started
<1>4. \A r \in Reqs : ~Committed(r) /\ ~Listing(r)
  <2> SUFFICES ASSUME NEW r \in Reqs PROVE ~Committed(r) /\ ~Listing(r)
    OBVIOUS
  <2>1. call[r].op = "none"
    BY <1>2 DEF NoCall
  <2> QED BY <2>1 DEF Committed, Listing
<1>5. Stored
  <2>1. \A s \in Sections : written[s] = {}
    BY DEF Init
  <2> QED BY <1>4, <2>1 DEF Stored
<1>6. Logged /\ Views
  <2>1. audit = {}
    BY DEF Init, InitRequests
  <2> QED BY <1>2, <2>1 DEF Logged, Views, ListedOf, ShownOf
<1>7. Clock
  <2>1. clock = 0
    BY DEF Init
  <2> QED BY <1>2, <2>1 DEF Clock, NoStamp
<1>8. ListingComplete /\ PagesAreCausal
  BY <1>2, <1>4 DEF ListingComplete, PagesAreCausal
<1> QED BY <1>1, <1>3, <1>5, <1>6, <1>7, <1>8 DEF Inv

\* The invariant is inductive.
LEMMA NextInv ==
  ASSUME Inv, [Next]_vars
  PROVE  Inv'
BY ControlKept, StoredKept, LoggedKept, ViewsKept, ClockKept, ListingsStayComplete,
   PagesStayCausal DEF Inv

\* The invariant holds throughout.
LEMMA Invariance == Spec => []Inv
BY InitInv, NextInv, PTL DEF Spec

\* Type correctness: entries and listings carry stamps that the clock may show,
\* and a page reads no more sections than it has.
THEOREM TypeCorrect == Spec => []TypeOK
<1>1. Inv => TypeOK
  BY TypesSuffice DEF Inv
<1> QED BY <1>1, Invariance, PTL

\* ListAudit leaves out no entry that its caller could expect, unless the limit
\* is filled by entries as new or newer; wherever the clock goes.
THEOREM ListingsComplete == Spec => []ListingComplete
<1>1. Inv => ListingComplete
  BY DEF Inv
<1> QED BY <1>1, Invariance, PTL

\* Unless the clock was set back, a listing shows no change above one that was
\* asked for after it had been answered, but for equal stamps.
THEOREM ListingsInOrder == Spec => []ListingInOrder
<1>1. ASSUME Inv PROVE ListingInOrder
  <2> SUFFICES ASSUME ~steppedBack, NEW r \in Reqs,
                      NEW m \in DOMAIN listed[r], NEW n \in DOMAIN listed[r], m < n,
                      listed[r][m].id \in before[listed[r][n].id]
               PROVE  listed[r][m].at = listed[r][n].at
    BY DEF ListingInOrder
  <2> DEFINE a == listed[r][m]
             b == listed[r][n]
  <2>1. a \in audit /\ b \in audit /\ a.at >= b.at
    BY <1>1 DEF Inv, Views, ListedOf
  <2>2. /\ a.at \in 0..MaxTime /\ b.at \in 0..MaxTime
        /\ a.id \in Reqs /\ b.id \in Reqs
    BY <1>1, <2>1 DEF Inv, Types, Entries
  <2>3. a.at = stamp[a.id] /\ b.at = stamp[b.id]
    <3>1. a = EntryOf(a.id) /\ b = EntryOf(b.id)
      BY <1>1, <2>1 DEF Inv, Logged
    <3> QED BY <3>1 DEF EntryOf
  <2>4. stamp[b.id] # NoStamp
    BY <2>2, <2>3, TimeIsNat DEF NoStamp
  <2>5. a.at <= b.at
    BY <1>1, <2>2, <2>3, <2>4 DEF Inv, Clock
  <2> HIDE DEF a, b
  <2>6. a.at = b.at
    BY <2>1, <2>2, <2>5, TimeIsNat
  <2> QED BY <2>6 DEF a, b
<1> QED BY <1>1, Invariance, PTL

\* A page of the web UI shows no change without those that its author, or the
\* reader, could know of in the sections it reads.
THEOREM PagesCausal == Spec => []PagesAreCausal
<1>1. Inv => PagesAreCausal
  BY DEF Inv
<1> QED BY <1>1, Invariance, PTL
=============================================================================
