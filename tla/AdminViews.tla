------------------------------ MODULE AdminViews ------------------------------
(***************************************************************************)
(* What somebody sees who looks at the admin plane while others change it: *)
(* the audit listing (handlers/audit.go, ListAudit in memstore.go) and the *)
(* pages of the web UI (handlers/ui.go). Both only read, and are open to   *)
(* every role.                                                             *)
(*                                                                         *)
(* The requests that change something are those of the other modules, cut  *)
(* down to what a reader can tell: a document of some section of a tenant  *)
(* is written, then Recorder.Record (pkg/config/audit.go) stamps an entry  *)
(* with the wall clock and passes it to PutAudit, then the reply is sent.  *)
(***************************************************************************)
EXTENDS AdminRequests, FiniteSets, Sequences

CONSTANTS
  Writes,        \* bound: the sections that requests write to
  Pages,         \* bound: the pages asked for
  Queries,       \* bound: filters and limits of the listings asked for
  DefaultLimit,  \* 200 in the code
  MaxTime        \* bound: the wall clock shows 0..MaxTime

\* The parts of a tenant that a page shows and an entry's resource type names.
Sections == {"tenant", "connector", "agent", "swarm"}

\* The Store reads of each page under /ui/tenants/{tid}, in their order; any
\* other last segment shows the overview.
PageReads ==
  [overview   |-> <<"tenant", "connector", "agent", "swarm">>,
   connectors |-> <<"tenant", "connector">>,
   agents     |-> <<"tenant", "agent">>,
   swarms     |-> <<"tenant", "swarm">>]

\* A query is empty in a field it does not filter on; its limit is 0 when the
\* parameter is absent or no number.
ASSUME ViewsAssumption ==
  /\ Writes \subseteq Sections
  /\ Pages \subseteq DOMAIN PageReads
  /\ Queries \subseteq [limit : Int, actor : Emails \cup {NoEmail},
                        type : Sections \cup {""}]
  /\ DefaultLimit \in Nat \ {0}
  /\ MaxTime \in Nat

VARIABLES
  clock,        \* the wall clock of the process
  steppedBack,  \* history: the clock has been set back
  written,      \* Store: section -> the requests whose document is in it
  stamp,        \* request -> At of its entry, NoStamp until Record sets it
  listed,       \* request -> the entries its listing returned
  shown         \* request -> the Store reads its page has made, in their order

viewVars == <<written, stamp, listed, shown>>
time     == <<clock, steppedBack>>
vars     == <<admins, audit, requestVars, viewVars, time>>

NoStamp == -1
Entries == [id : Reqs, actor : Emails, type : Sections, at : 0..MaxTime]

\* The audit page asks for 200 entries of any kind.
AuditPage == [limit |-> DefaultLimit, actor |-> NoEmail, type |-> ""]
EmptyPage == [section |-> "audit", ok |-> FALSE, docs |-> {}]

Init ==
  /\ InitRequests
  /\ clock = 0
  /\ steppedBack = FALSE
  /\ written = [s \in Sections |-> {}]
  /\ stamp = [r \in Reqs |-> NoStamp]
  /\ listed = [r \in Reqs |-> <<>>]
  /\ shown = [r \in Reqs |-> <<>>]

Arrive(r) ==
  /\ \E jwt \in Emails \cup {NoEmail} :
       \/ \E s \in Writes : Admit(r, jwt, [op |-> "write", section |-> s])
       \/ \E q \in Queries :
            AdmitReader(r, jwt, [op |-> "list", query |-> q])
       \/ AdmitReader(r, jwt, [op |-> "auditPage", query |-> AuditPage])
       \/ \E page \in Pages :
            AdmitReader(r, jwt, [op |-> "page", page |-> page])
       \/ Refuse(r, jwt)
  /\ UNCHANGED <<viewVars, time>>

\* time.Now().UTC() has no monotonic reading, so that the entries are ordered
\* by the wall clock, which an adjustment may set back.
Tick ==
  /\ \/ clock' \in (clock + 1)..MaxTime /\ UNCHANGED steppedBack
     \/ clock' \in 0..(clock - 1) /\ steppedBack' = TRUE
  /\ UNCHANGED <<admins, audit, requestVars, viewVars>>

-----------------------------------------------------------------------------
(***************************************************************************)
(* Requests that change something                                          *)
(***************************************************************************)
Write(r) ==
  /\ At(r, "write", "admitted")
  /\ written' = [written EXCEPT ![call[r].section] = @ \cup {r}]
  /\ Goto(r, "stamp")
  /\ UNCHANGED <<admins, audit, stamp, listed, shown, time>>

\* Mutant: the error of the Store is dropped.
WriteRefused_Dropped(r) ==
  /\ At(r, "write", "admitted")
  /\ StoreMayFail
  /\ Goto(r, "stamp")
  /\ UNCHANGED <<admins, audit, viewVars, time>>

\* A body that is not valid, or a Store error: no entry is recorded.
WriteRefused(r) ==
  /\ At(r, "write", "admitted")
  /\ \E status \in {400} \cup (IF StoreMayFail THEN {500} ELSE {}) :
       Answer(r, status)
  /\ UNCHANGED <<admins, audit, viewVars, time>>

\* Mutant: At is left for the Store to fill in.
Stamp_Skipped(r) ==
  /\ pc[r] = "stamp"
  /\ Goto(r, "mirror")
  /\ UNCHANGED <<admins, audit, viewVars, time>>

Stamp(r) ==
  /\ pc[r] = "stamp"
  /\ stamp' = [stamp EXCEPT ![r] = clock]
  /\ Goto(r, "mirror")
  /\ UNCHANGED <<admins, audit, written, listed, shown, time>>

EntryOf(r) == [id |-> r, actor |-> caller[r].email, type |-> call[r].section,
               at |-> stamp[r]]

\* PutAudit. Record drops its error, and the request succeeds all the same.
Mirror(r) ==
  /\ pc[r] = "mirror"
  /\ \/ audit' = audit \cup {EntryOf(r)}
     \/ StoreMayFail /\ UNCHANGED audit
  /\ Goto(r, "reply")
  /\ UNCHANGED <<admins, viewVars, time>>

Reply(r) ==
  /\ pc[r] = "reply"
  /\ Answer(r, 200)
  /\ UNCHANGED <<admins, audit, viewVars, time>>

-----------------------------------------------------------------------------
(***************************************************************************)
(* The audit listing                                                       *)
(***************************************************************************)
Limit(q) == IF q.limit = 0 THEN DefaultLimit ELSE q.limit

Matches(e, q) ==
  /\ q.actor # NoEmail => e.actor = q.actor
  /\ q.type # "" => e.type = q.type

\* Mutant: oldest first.
Precedes_Oldest(e, f) == e.at <= f.at

\* "Most recent first"; sort.Slice leaves equal stamps in any order.
Precedes(e, f) == e.at >= f.at

Sortings(S) ==
  {s \in [1..Cardinality(S) -> S] :
     \A m, n \in DOMAIN s : m < n => s[m] # s[n] /\ Precedes(s[m], s[n])}

Truncate(s, n) == IF n > 0 /\ Len(s) > n THEN SubSeq(s, 1, n) ELSE s

\* Mutant: the limit cuts the scan, before the sort.
Listings_CutFirst(q) ==
  UNION {Sortings(S) : S \in {T \in SUBSET {e \in audit : Matches(e, q)} :
    \/ T = {e \in audit : Matches(e, q)} /\ (Limit(q) < 0 \/ Cardinality(T) <= Limit(q))
    \/ Cardinality(T) = Limit(q)}}

\* What ListAudit may return: filter, sort, truncate.
Listings(q) ==
  {Truncate(s, Limit(q)) : s \in Sortings({e \in audit : Matches(e, q)})}

ListAudit(r) == \E s \in Listings(call[r].query) : listed' = [listed EXCEPT ![r] = s]

List(r) ==
  /\ At(r, "list", "admitted")
  /\ \/ ListAudit(r) /\ Answer(r, 200)
     \/ StoreMayFail /\ Answer(r, 500) /\ UNCHANGED listed
  /\ UNCHANGED <<admins, audit, written, stamp, shown, time>>

\* The audit page is empty after an error, and answered 200 all the same.
RenderAudit(r) ==
  /\ At(r, "auditPage", "admitted")
  /\ \/ ListAudit(r) /\ UNCHANGED shown
     \/ /\ StoreMayFail
        /\ shown' = [shown EXCEPT ![r] = <<EmptyPage>>]
        /\ UNCHANGED listed
  /\ Answer(r, 200)
  /\ UNCHANGED <<admins, audit, written, stamp, time>>

-----------------------------------------------------------------------------
(***************************************************************************)
(* The pages of a tenant                                                   *)
(***************************************************************************)
NextRead(r) == PageReads[call[r].page][Len(shown[r]) + 1]

\* One Store read of a page. After an error the section stays empty.
PageRead(r) ==
  /\ At(r, "page", "admitted")
  /\ Len(shown[r]) < Len(PageReads[call[r].page])
  /\ LET s == NextRead(r)
     IN  \/ shown' = [shown EXCEPT ![r] = Append(@,
                        [section |-> s, ok |-> TRUE, docs |-> written[s]])]
         \/ /\ StoreMayFail
            /\ shown' = [shown EXCEPT ![r] = Append(@,
                           [section |-> s, ok |-> FALSE, docs |-> {}])]
  /\ UNCHANGED <<admins, audit, requestVars, written, stamp, listed, time>>

Render(r) ==
  /\ At(r, "page", "admitted")
  /\ Len(shown[r]) = Len(PageReads[call[r].page])
  /\ Answer(r, 200)
  /\ UNCHANGED <<admins, audit, viewVars, time>>

Step(r) == \/ Write(r) \/ WriteRefused(r) \/ Stamp(r) \/ Mirror(r) \/ Reply(r)
           \/ List(r) \/ RenderAudit(r) \/ PageRead(r) \/ Render(r)

Next == Tick \/ \E r \in Reqs : Arrive(r) \/ Step(r)

Spec == Init /\ [][Next]_vars

-----------------------------------------------------------------------------
(***************************************************************************)
(* Properties                                                              *)
(***************************************************************************)

\* The listing r succeeded, as a reply or as a page; it contains the entry of q.
Listing(r) ==
  /\ call[r] # NoCall
  /\ call[r].op \in {"list", "auditPage"}
  /\ reply[r] = 200
  /\ shown[r] = <<>>
Lists(r, q) == Listing(r) /\ \E n \in DOMAIN listed[r] : listed[r][n].id = q

\* Type correctness: entries and listings carry stamps the clock has shown, and
\* a page has read no more sections than it has.
TypeOK ==
  /\ RequestsTypeOK
  /\ audit \subseteq Entries
  /\ clock \in 0..MaxTime
  /\ steppedBack \in BOOLEAN
  /\ written \in [Sections -> SUBSET Reqs]
  /\ stamp \in [Reqs -> 0..MaxTime \cup {NoStamp}]
  /\ \A r \in Reqs :
       /\ \A n \in DOMAIN listed[r] : listed[r][n] \in Entries
       /\ Len(shown[r]) <= 4
       /\ \A n \in DOMAIN shown[r] :
            \/ shown[r][n] \in [section : Sections, ok : BOOLEAN, docs : SUBSET Reqs]
            \/ shown[r][n] = EmptyPage

\* A listing leaves out no entry it should have: one whose request had been
\* answered, or that an earlier listing had contained, is there unless it does
\* not match, or the limit is filled by entries that are as new or newer.
\* (PutAudit may have failed: then the entry was never there.) This does not
\* depend on the clock.
ListingComplete ==
  \A r \in Reqs : Listing(r) =>
    \A e \in audit :
      (/\ Matches(e, call[r].query)
       /\ \/ e.id \in before[r]
          \/ \E l \in before[r] : Lists(l, e.id))
      => \/ Lists(r, e.id)
         \/ /\ Len(listed[r]) = Limit(call[r].query)
            /\ \A n \in DOMAIN listed[r] : listed[r][n].at >= e.at

\* "Most recent first" (templates/audit.html:3), as far as somebody can tell who
\* waits for answers: unless the clock was set back, a listing never puts a
\* change above one that was asked for after it had been answered, except that
\* changes within one tick of the clock come in any order.
ListingInOrder ==
  ~steppedBack =>
    \A r \in Reqs : \A m, n \in DOMAIN listed[r] :
      (m < n /\ listed[r][m].id \in before[listed[r][n].id])
        => listed[r][m].at = listed[r][n].at

\* q had taken effect before p was asked for, or before a change was asked for
\* that p shows in one of its first n reads: q had been answered, or an audit
\* listing had announced it.
Known(q, p) == \/ q \in before[p] /\ reply[q] = 200
               \/ \E l \in before[p] : Lists(l, q)

Precedent(q, p, n) ==
  \/ Known(q, p)
  \/ \E m \in 1..n : \E w \in shown[p][m].docs : Known(q, w)

\* A page is read section by section while others write, so that it may show a
\* state that never was (a later section may be newer than an earlier one). But
\* it never shows a change without the changes its author could know of in the
\* sections read later, nor lacks one its reader could know of, by an answer or
\* by the audit listing, which names a change only once it is in the Store. A
\* section whose read failed is empty.
PagesAreCausal ==
  \A p, q \in Reqs :
    (call[p] # NoCall /\ call[p].op = "page" /\ call[q] # NoCall /\ call[q].op = "write") =>
      \A n \in DOMAIN shown[p] :
        (/\ shown[p][n].ok
         /\ shown[p][n].section = call[q].section
         /\ Precedent(q, p, n))
        => q \in shown[p][n].docs
=============================================================================
