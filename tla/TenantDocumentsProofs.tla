------------------------ MODULE TenantDocumentsProofs ------------------------
(***************************************************************************)
(* Proofs about TenantDocuments, for any set of requests, documents, texts,*)
(* lists and numbers.                                                      *)
(***************************************************************************)
EXTENDS TenantDocuments, TLAPS

USE DEF requestVars, documentVars

-----------------------------------------------------------------------------
(***************************************************************************)
(* Lemmas about the operators                                              *)
(***************************************************************************)

\* Only a known owner passes IAPAuth and ownerOnly.
LEMMA OnlyOwnersPass ==
  ASSUME RequestsTypeOK, NEW jwt \in Emails \cup {NoEmail},
         AuthStatus(resolveEmail(jwt)) = 200
  PROVE  /\ resolveEmail(jwt) \in Emails
         /\ admins[resolveEmail(jwt)].role = "owner"
BY EmailsAssumption DEF AuthStatus, resolveEmail

\* A body has values of every field, whatever the kind it was read for.
LEMMA BodyFields ==
  ASSUME NEW kind \in Kinds, NEW b \in Bodies(kind)
  PROVE  /\ b.text \in Text /\ b.list \in List /\ b.num \in Nums /\ b.disabled \in BOOLEAN
         /\ b \in UNION {Bodies(k) : k \in Kinds}
<1>1. b.text \in Text
  BY DEF Bodies
<1>2. b.list \in List
  BY DEF Bodies, List
<1>3. b.num \in Nums
  BY DocumentsAssumption DEF Bodies
<1>4. b.disabled \in BOOLEAN
  BY DEF Bodies
<1>5. b \in UNION {Bodies(k) : k \in Kinds}
  OBVIOUS
<1> QED BY <1>1, <1>2, <1>3, <1>4, <1>5

\* No document is the absent one.
LEMMA DocsExist ==
  ASSUME NEW d \in Docs
  PROVE  d # NoDoc
<1>1. d.text \in Text
  BY DEF Docs
<1>2. "none" \notin Text
  BY DocumentsAssumption DEF Text
<1> QED BY <1>1, <1>2 DEF NoDoc

\* Merging a body into a document, under any author, yields a document with the
\* present fields of the body and the other fields of the document.
LEMMA MergeFields ==
  ASSUME NEW kind \in Kinds, NEW d \in Docs, NEW b \in Bodies(kind),
         NEW by \in Emails \cup {NoEmail}
  PROVE  LET m == Authored(Merge(kind, d, b), by)
         IN  /\ m \in Docs
             /\ \A f \in Fields :
                  m[f] = IF f \in Present(kind, b) THEN b[f] ELSE d[f]
<1> DEFINE n == Merge(kind, d, b)
<1>1. DOMAIN d = {"text", "list", "num", "disabled", "by"}
  BY DEF Docs
<1>2. \A f \in Fields : n[f] = IF f \in Present(kind, b) THEN b[f] ELSE d[f]
  BY <1>1 DEF Merge, Fields
<1>3. n.text \in Text /\ n.list \in List /\ n.num \in Nums /\ n.disabled \in BOOLEAN
  <2>1. d.text \in Text /\ d.list \in List /\ d.num \in Nums /\ d.disabled \in BOOLEAN
    BY DEF Docs
  <2> QED BY <1>2, <2>1, BodyFields DEF Fields
<1> HIDE DEF n
<1>4. Authored(n, by) \in Docs /\ \A f \in Fields : Authored(n, by)[f] = n[f]
  BY <1>3 DEF Authored, Docs, Fields
<1> QED BY <1>2, <1>4 DEF n

\* A new document has the fields of the body.
LEMMA AuthoredFields ==
  ASSUME NEW kind \in Kinds, NEW b \in Bodies(kind), NEW by \in Emails \cup {NoEmail}
  PROVE  /\ Authored(b, by) \in Docs
         /\ \A f \in Fields : Authored(b, by)[f] = b[f]
<1>1. Authored(b, by) \in Docs
  BY BodyFields DEF Authored, Docs
<1>2. \A f \in Fields : Authored(b, by)[f] = b[f]
  BY DEF Authored, Fields
<1> QED BY <1>1, <1>2

\* Disabling a tenant leaves the rest of it alone.
LEMMA DisabledFields ==
  ASSUME NEW d \in Docs
  PROVE  /\ Disabled(d) \in Docs /\ Disabled(d).disabled = TRUE
         /\ \A f \in Fields \ {"disabled"} : Disabled(d)[f] = d[f]
         /\ \A key : Valid(key, d) => Valid(key, Disabled(d))
         /\ Disabled(Disabled(d)) = Disabled(d)
<1>1. d.text \in Text /\ d.list \in List /\ d.num \in Nums /\ d.by \in Emails \cup {NoEmail}
  BY DEF Docs
<1>2. Disabled(d) \in Docs
  BY <1>1 DEF Docs, Disabled
<1>3. \A f \in Fields \ {"disabled"} : Disabled(d)[f] = d[f]
  BY DEF Fields, Disabled
<1>4. \A key : Valid(key, d) => Valid(key, Disabled(d))
  BY DEF Valid, Disabled
<1> QED BY <1>2, <1>3, <1>4 DEF Disabled
-----------------------------------------------------------------------------
(***************************************************************************)
(* The inductive invariant                                                 *)
(***************************************************************************)

Started == {"admitted", "write", "record"}

\* The document of r is ready to be written, or has been.
Ready(r) == pc[r] = "write" \/ Written(r)

\* What a write is made of: a valid document with the fields of the body, that a
\* patch merged into the one it read.
DocumentOf(r) ==
  LET kind == call[r].key[1]
  IN  /\ body[r] \in Bodies(kind)
      /\ doc[r] \in Docs /\ Valid(call[r].key, doc[r])
      /\ \A f \in Fields \cap Sets(r) : doc[r][f] = body[r][f]
      /\ call[r].op = "patch" =>
           /\ prior[r] \in Docs
           /\ \A f \in Fields \ Sets(r) : doc[r][f] = prior[r][f]

ControlOf(r) ==
  /\ pc[r] = "new" => call[r] = NoCall /\ reply[r] = 0 /\ before[r] = {}
  /\ pc[r] \in Started =>
       /\ call[r] # NoCall /\ reply[r] = 0
       /\ caller[r].email \in Emails
  /\ reply[r] = 200 => pc[r] = "done"
  /\ Ready(r) => call[r] # NoCall
  /\ pc[r] = "write" => call[r].op = "patch"
  /\ Ready(r) /\ call[r].op # "delete" => DocumentOf(r)
  /\ \A q \in before[r] : pc[q] = "done"

Control == \A r \in Reqs : ControlOf(r)

\* An entry is on record only once its request has been answered.
Logged == \A e \in audit : e.id \in Reqs /\ pc[e.id] = "done"

\* What a patch that is alone with its document read is what is stored.
SoloOf(r) ==
  (~StoreMayFail /\ pc[r] = "write" /\ Solo(r)) => docs[call[r].key] = prior[r]

\* r has written, with no other request on its document in flight meanwhile.
Settled(r) == ~StoreMayFail /\ Written(r) /\ Isolated(r)

\* A patch admitted after r was answered is about to write.
Pending(q, r) == pc[q] = "write" /\ Targets(q, call[r].key) /\ r \in before[q]

\* The fields an isolated write decided hold in the store, and in every document
\* that a later patch is about to write, unless decided again.
WriteSticksOf(r) ==
  (Settled(r) /\ call[r].op \in {"create", "patch"}) =>
    \A f \in Sets(r) :
      /\ docs[call[r].key][f] = body[r][f] \/ Superseded(r, f)
      /\ \A q \in Reqs : Pending(q, r) =>
           doc[q][f] = body[r][f] \/ f \in Sets(q) \/ Superseded(r, f)

\* A request that came after the answer of r has created the document anew.
Recreated(r) ==
  \E q \in Reqs : /\ r \in before[q] /\ Targets(q, call[r].key)
                  /\ call[q].op = "create" /\ Written(q)

\* An isolated deletion holds, and a later patch finds the document only if it
\* has been created anew.
DeletionSticksOf(r) ==
  (Settled(r) /\ call[r].op = "delete") =>
    IF call[r].key[1] = "tenant"
      THEN docs[call[r].key].disabled \/ Superseded(r, "disabled")
      ELSE /\ docs[call[r].key] = NoDoc \/ Recreated(r)
           /\ \A q \in Reqs : Pending(q, r) => Recreated(r)

Alone == \A r \in Reqs : SoloOf(r) /\ WriteSticksOf(r) /\ DeletionSticksOf(r)

Inv == TypeOK /\ Control /\ Logged /\ AuditExplainsDocuments /\ Alone
-----------------------------------------------------------------------------
(***************************************************************************)
(* The types and the control invariant are inductive                       *)
(***************************************************************************)

\* A step of r leaves every other request alone.
LEMMA StepFrame ==
  ASSUME TypeOK, NEW r \in Reqs, Arrive(r) \/ Step(r)
  PROVE  /\ pc[r] # "done" /\ pc'[r] # "new"
         /\ \A q \in Reqs \ {r} :
              /\ pc'[q] = pc[q] /\ call'[q] = call[q] /\ caller'[q] = caller[q]
              /\ reply'[q] = reply[q] /\ before'[q] = before[q]
              /\ prior'[q] = prior[q] /\ body'[q] = body[q] /\ doc'[q] = doc[q]
<1> USE DEF TypeOK, RequestsTypeOK, Goto, Answer, At
<1>1. CASE Arrive(r)
  BY <1>1 DEF Arrive, Admit, Enter, Refuse
<1>2. CASE Create(r)
  <2>1. PICK b, d : body' = [body EXCEPT ![r] = b] /\ doc' = [doc EXCEPT ![r] = d]
    BY <1>2 DEF Create
  <2> QED BY <1>2, <2>1 DEF Create
<1>3. CASE PatchRead(r)
  <2>1. PICK existing \in Found(call[r].key), b \in Bodies(call[r].key[1]) :
          LET d == Authored(Merge(call[r].key[1], existing, b), Author(r))
          IN  /\ prior' = [prior EXCEPT ![r] = existing]
              /\ body' = [body EXCEPT ![r] = b]
              /\ doc' = [doc EXCEPT ![r] = d]
    BY <1>3 DEF PatchRead
  <2> QED BY <1>3, <2>1 DEF PatchRead
<1>4. CASE CreateFails(r) \/ PatchReadFails(r) \/ DeleteFails(r)
  BY <1>4 DEF CreateFails, PatchReadFails, DeleteFails
<1>5. CASE PatchWrite(r) \/ PatchWriteFails(r) \/ Delete(r)
  BY <1>5 DEF PatchWrite, PatchWriteFails, Delete
<1>6. CASE DocumentRecord(r)
  BY <1>6 DEF DocumentRecord, Record
<1> QED BY <1>1, <1>2, <1>3, <1>4, <1>5, <1>6 DEF Step

\* So what held of another request still holds, if the request moves on.
LEMMA OthersKeepControl ==
  ASSUME TypeOK, Control, NEW r \in Reqs, Arrive(r) \/ Step(r), ControlOf(r)'
  PROVE  Control'
<1> SUFFICES ASSUME NEW q \in Reqs, q # r
             PROVE  ControlOf(q)'
  BY DEF Control
<1>1. /\ pc'[q] = pc[q] /\ call'[q] = call[q] /\ caller'[q] = caller[q]
      /\ reply'[q] = reply[q] /\ before'[q] = before[q]
      /\ prior'[q] = prior[q] /\ body'[q] = body[q] /\ doc'[q] = doc[q]
  BY StepFrame
<1>2. ControlOf(q)
  BY DEF Control
<1>3. \A s \in before[q] : s \in Reqs /\ pc[s] = "done"
  BY <1>2 DEF ControlOf, TypeOK, RequestsTypeOK
<1>4. \A s \in before[q] : pc'[s] = "done"
  BY <1>3, StepFrame
<1>5. Sets(q)' = Sets(q)
  BY <1>1 DEF Sets
<1>6. (DocumentOf(q) <=> DocumentOf(q)') /\ (Ready(q) <=> Ready(q)')
  BY <1>1, <1>5 DEF DocumentOf, Ready, Written
<1> QED BY <1>1, <1>2, <1>4, <1>6 DEF ControlOf

\* An arrival starts a handler, for an owner, or ends in a refusal.
LEMMA ArriveKeeps ==
  ASSUME TypeOK, Control, NEW r \in Reqs, Arrive(r)
  PROVE  TypeOK' /\ ControlOf(r)'
<1> USE DEF TypeOK, RequestsTypeOK, Statuses, Ready, Written
<1>1. PICK jwt \in Emails \cup {NoEmail} :
         \/ \E op \in {"create", "patch", "delete"}, key \in Keys :
              Admit(r, jwt, [op |-> op, key |-> key])
         \/ Refuse(r, jwt)
  BY DEF Arrive
<1>2. UNCHANGED documentVars
  BY DEF Arrive
<1>3. ControlOf(r)
  BY DEF Control
<1>4. ASSUME NEW op \in {"create", "patch", "delete"}, NEW key \in Keys,
             Admit(r, jwt, [op |-> op, key |-> key])
      PROVE  TypeOK' /\ ControlOf(r)'
  <2>1. /\ resolveEmail(jwt) \in Emails
        /\ admins[resolveEmail(jwt)].role = "owner"
    BY <1>4, OnlyOwnersPass DEF Admit, Enter
  <2>2. caller' \in [Reqs -> Callers]
    BY <1>4, <2>1 DEF Admit, Enter, Callers, Roles
  <2>3. before' \in [Reqs -> SUBSET Reqs]
    BY <1>4 DEF Admit, Enter, Answered
  <2>4. call' \in [Reqs -> [op : {"create", "patch", "delete"}, key : Keys] \cup {NoCall}]
    BY <1>4 DEF Admit, Enter
  <2>5. TypeOK'
    BY <1>2, <1>4, <2>2, <2>3, <2>4 DEF Admit, Enter
  <2>6. ControlOf(r)'
    BY <1>2, <1>3, <1>4, <2>1 DEF Admit, Enter, ControlOf, Started, Answered, NoCall
  <2> QED BY <2>5, <2>6
<1>5. CASE Refuse(r, jwt)
  <2>1. PICK status \in {401, 403} : Answer(r, status)
    BY <1>5 DEF Refuse, AuthStatus
  <2>2. UNCHANGED <<admins, audit>> /\ pc[r] = "new"
    BY <1>5 DEF Refuse
  <2>3. TypeOK'
    BY <1>2, <2>1, <2>2 DEF Answer
  <2>4. ControlOf(r)'
    BY <1>2, <1>3, <2>1, <2>2 DEF Answer, ControlOf, Started
  <2> QED BY <2>3, <2>4
<1> QED BY <1>1, <1>4, <1>5

\* The kind and the author of an admitted request.
LEMMA AdmittedCall ==
  ASSUME TypeOK, Control, NEW r \in Reqs, pc[r] \in Started
  PROVE  /\ ControlOf(r) /\ call[r] # NoCall /\ reply[r] = 0
         /\ call[r].key \in Keys /\ call[r].key[1] \in Kinds
         /\ call[r].op \in {"create", "patch", "delete"}
         /\ Author(r) \in Emails \cup {NoEmail}
<1>1. ControlOf(r) /\ call[r] # NoCall /\ reply[r] = 0 /\ caller[r].email \in Emails
  BY DEF Control, ControlOf
<1>2. call[r].key \in Keys /\ call[r].op \in {"create", "patch", "delete"}
  BY <1>1 DEF TypeOK
<1>3. call[r].key[1] \in Kinds
  BY <1>2, DocumentsAssumption
<1> QED BY <1>1, <1>2, <1>3 DEF Author

\* A create stores a valid document of the body.
LEMMA CreateKeeps ==
  ASSUME TypeOK, Control, NEW r \in Reqs, Create(r)
  PROVE  TypeOK' /\ ControlOf(r)'
<1> USE DEF TypeOK, RequestsTypeOK
<1> DEFINE key == call[r].key
<1>1. pc[r] = "admitted" /\ call[r].op = "create" /\ Goto(r, "record")
      /\ UNCHANGED <<admins, audit, prior>>
  BY DEF Create, At
<1>2. /\ ControlOf(r) /\ call[r] # NoCall /\ reply[r] = 0
      /\ key \in Keys /\ key[1] \in Kinds /\ Author(r) \in Emails \cup {NoEmail}
  BY <1>1, AdmittedCall DEF Started
<1>3. PICK b \in Bodies(key[1]) :
        LET d == Authored(b, Author(r))
        IN  /\ Valid(key, d)
            /\ body' = [body EXCEPT ![r] = b]
            /\ doc' = [doc EXCEPT ![r] = d]
            /\ docs' = [docs EXCEPT ![key] = d]
  BY DEF Create
<1> DEFINE d == Authored(b, Author(r))
<1>4. d \in Docs /\ \A f \in Fields : d[f] = b[f]
  BY <1>2, AuthoredFields
<1>5. b \in UNION {Bodies(k) : k \in Kinds}
  BY <1>2, BodyFields
<1> HIDE DEF d
<1>6. TypeOK'
  <2>1. docs' \in [Keys -> Docs \cup {NoDoc}] /\ doc' \in [Reqs -> Docs \cup {NoDoc}]
    BY <1>2, <1>3, <1>4 DEF d
  <2>2. \A k \in Keys : docs'[k] # NoDoc => Valid(k, docs'[k])
    BY <1>2, <1>3 DEF d
  <2>3. body' \in [Reqs -> UNION {Bodies(k) : k \in Kinds}]
    BY <1>3, <1>5
  <2> QED BY <1>1, <2>1, <2>2, <2>3 DEF Goto
<1>7. ControlOf(r)'
  <2>1. body'[r] = b /\ doc'[r] = d
    BY <1>3 DEF d
  <2>2. DocumentOf(r)'
    BY <1>1, <1>2, <1>3, <1>4, <2>1 DEF DocumentOf, Goto, Sets, d
  <2> QED BY <1>1, <1>2, <2>2, AdmittedCall DEF ControlOf, Started, Ready, Written, Goto
<1> QED BY <1>6, <1>7

\* A patch prepares a valid document of what it read and its body.
LEMMA PatchReadKeeps ==
  ASSUME TypeOK, Control, NEW r \in Reqs, PatchRead(r)
  PROVE  TypeOK' /\ ControlOf(r)' /\ prior'[r] = docs[call[r].key]
<1> USE DEF TypeOK, RequestsTypeOK
<1> DEFINE key == call[r].key
<1>1. pc[r] = "admitted" /\ call[r].op = "patch" /\ Goto(r, "write")
      /\ UNCHANGED <<admins, audit, docs>>
  BY DEF PatchRead, At
<1>2. /\ ControlOf(r) /\ call[r] # NoCall /\ reply[r] = 0
      /\ key \in Keys /\ key[1] \in Kinds /\ Author(r) \in Emails \cup {NoEmail}
  BY <1>1, AdmittedCall DEF Started
<1>3. PICK existing \in Found(key), b \in Bodies(key[1]) :
        LET d == Authored(Merge(key[1], existing, b), Author(r))
        IN  /\ Valid(key, d)
            /\ prior' = [prior EXCEPT ![r] = existing]
            /\ body' = [body EXCEPT ![r] = b]
            /\ doc' = [doc EXCEPT ![r] = d]
  BY DEF PatchRead
<1> DEFINE d == Authored(Merge(key[1], existing, b), Author(r))
<1>4. existing \in Docs /\ existing = docs[key]
  BY <1>2 DEF Found
<1>5. /\ d \in Docs
      /\ \A f \in Fields : d[f] = IF f \in Present(key[1], b) THEN b[f] ELSE existing[f]
  BY <1>2, <1>4, MergeFields
<1>6. b \in UNION {Bodies(k) : k \in Kinds}
  BY <1>2, BodyFields
<1> HIDE DEF d
<1>7. TypeOK'
  <2>1. doc' \in [Reqs -> Docs \cup {NoDoc}] /\ prior' \in [Reqs -> Docs \cup {NoDoc}]
    BY <1>3, <1>4, <1>5 DEF d
  <2>2. body' \in [Reqs -> UNION {Bodies(k) : k \in Kinds}]
    BY <1>3, <1>6
  <2> QED BY <1>1, <2>1, <2>2 DEF Goto
<1>8. body'[r] = b /\ doc'[r] = d /\ prior'[r] = existing
  BY <1>3 DEF d
<1>9. ControlOf(r)'
  <2>1. Sets(r)' = {f \in Fields : f \in Present(key[1], b)}
    BY <1>1, <1>8 DEF Sets, Goto
  <2>2. DocumentOf(r)'
    BY <1>1, <1>2, <1>3, <1>4, <1>5, <1>8, <2>1 DEF DocumentOf, Goto, d
  <2> QED BY <1>1, <1>2, <2>2 DEF ControlOf, Started, Ready, Written, Goto
<1> QED BY <1>4, <1>7, <1>8, <1>9

\* A patch stores its document.
LEMMA PatchWriteKeeps ==
  ASSUME TypeOK, Control, NEW r \in Reqs, PatchWrite(r)
  PROVE  TypeOK' /\ ControlOf(r)'
<1> USE DEF TypeOK, RequestsTypeOK, PatchWrite, Goto
<1>1. /\ ControlOf(r) /\ call[r] # NoCall /\ reply[r] = 0 /\ call[r].key \in Keys
  BY AdmittedCall DEF Started
<1>2. DocumentOf(r)
  BY <1>1 DEF ControlOf, Ready
<1>3. doc[r] \in Docs /\ Valid(call[r].key, doc[r])
  BY <1>2 DEF DocumentOf
<1>4. TypeOK'
  <2>1. docs' \in [Keys -> Docs \cup {NoDoc}]
    BY <1>1, <1>3
  <2>2. \A k \in Keys : docs'[k] # NoDoc => Valid(k, docs'[k])
    BY <1>1, <1>3
  <2> QED BY <2>1, <2>2
<1>5. DocumentOf(r)'
  BY <1>2 DEF DocumentOf, Sets
<1>6. ControlOf(r)'
  BY <1>1, <1>5 DEF ControlOf, Started, Ready, Written
<1> QED BY <1>4, <1>6

\* A deletion removes the document, or disables the tenant.
LEMMA DeleteKeeps ==
  ASSUME TypeOK, Control, NEW r \in Reqs, Delete(r)
  PROVE  TypeOK' /\ ControlOf(r)'
<1> USE DEF TypeOK, RequestsTypeOK, Delete, Goto, At
<1> DEFINE key == call[r].key
<1>1. ControlOf(r) /\ call[r] # NoCall /\ reply[r] = 0 /\ key \in Keys
  BY AdmittedCall DEF Started
<1>2. docs[key] \in Docs /\ Valid(key, docs[key])
  BY <1>1
<1>3. Deleted(key) \in Docs \cup {NoDoc} /\ (Deleted(key) # NoDoc => Valid(key, Deleted(key)))
  BY <1>2, DisabledFields DEF Deleted
<1>4. TypeOK'
  <2>1. docs' \in [Keys -> Docs \cup {NoDoc}]
    BY <1>1, <1>3
  <2>2. \A k \in Keys : docs'[k] # NoDoc => Valid(k, docs'[k])
    BY <1>1, <1>3
  <2> QED BY <2>1, <2>2
<1>5. ControlOf(r)'
  BY <1>1 DEF ControlOf, Started, Ready, Written
<1> QED BY <1>4, <1>5

\* The steps that answer with an error.
Declines(r) == \/ CreateFails(r) \/ PatchReadFails(r) \/ PatchWriteFails(r)
               \/ DeleteFails(r)

\* Refusals and failures change no document.
LEMMA DeclinesKeep ==
  ASSUME TypeOK, Control, NEW r \in Reqs, Declines(r)
  PROVE  TypeOK' /\ ControlOf(r)'
<1> USE DEF Declines, CreateFails, PatchReadFails, PatchWriteFails, DeleteFails
<1>1. PICK status \in {400, 404, 500} : Answer(r, status)
  OBVIOUS
<1>2. ControlOf(r) /\ pc[r] \in Started
  BY DEF Control, Started, At
<1>3. UNCHANGED <<admins, audit, docs, prior, body, doc>>
  OBVIOUS
<1>4. TypeOK'
  BY <1>1, <1>3 DEF TypeOK, RequestsTypeOK, Answer, Statuses
<1>5. ControlOf(r)'
  BY <1>1, <1>2, <1>3
  DEF ControlOf, Answer, Started, Ready, Written, TypeOK, RequestsTypeOK
<1> QED BY <1>4, <1>5

\* The record adds an entry, or drops it, and ends the request.
LEMMA RecordKeeps ==
  ASSUME TypeOK, Control, NEW r \in Reqs, DocumentRecord(r)
  PROVE  TypeOK' /\ ControlOf(r)'
<1> USE DEF DocumentRecord, Record, Answer
<1>1. ControlOf(r) /\ pc[r] = "record"
  BY DEF Control
<1>2. TypeOK'
  BY DEF TypeOK, RequestsTypeOK, Statuses
<1>3. Ready(r) /\ (DocumentOf(r) => DocumentOf(r)')
  BY <1>1 DEF Ready, Written, DocumentOf, Sets
<1>4. ControlOf(r)'
  BY <1>1, <1>3 DEF ControlOf, Started, TypeOK, RequestsTypeOK
<1> QED BY <1>2, <1>4

\* So every step of a handler keeps the types and the control.
LEMMA StepKeeps ==
  ASSUME TypeOK, Control, NEW r \in Reqs, Arrive(r) \/ Step(r)
  PROVE  TypeOK' /\ Control'
<1>1. TypeOK' /\ ControlOf(r)'
  BY ArriveKeeps, CreateKeeps, PatchReadKeeps, PatchWriteKeeps, DeleteKeeps,
     DeclinesKeep, RecordKeeps DEF Step, Declines
<1> QED BY <1>1, OthersKeepControl

\* The types and the control hold in the beginning.
LEMMA InitKeeps == Init => TypeOK /\ Control
<1> SUFFICES ASSUME Init PROVE TypeOK /\ Control
  OBVIOUS
<1> USE DEF Init, InitRequests
<1>1. RequestsTypeOK
  BY EmailsAssumption DEF RequestsTypeOK, Callers, Statuses
<1>2. NoBody \in UNION {Bodies(k) : k \in Kinds}
  <2>1. NoBody \in Bodies("tenant")
    BY DocumentsAssumption DEF NoBody, Bodies, Text
  <2> QED BY <2>1 DEF Kinds
<1>3. TypeOK
  <2>1. \A key \in Keys : docs[key] # NoDoc => Valid(key, docs[key])
    BY DocumentsAssumption
  <2> HIDE DEF Init
  <2>2. docs \in [Keys -> Docs \cup {NoDoc}]
    BY DocumentsAssumption DEF Init
  <2>3. body \in [Reqs -> UNION {Bodies(k) : k \in Kinds}]
    BY <1>2 DEF Init
  <2> USE DEF Init
  <2> QED BY <1>1, <2>1, <2>2, <2>3 DEF TypeOK
<1>4. ASSUME NEW r \in Reqs PROVE ControlOf(r)
  <2>1. /\ pc[r] = "new" /\ call[r] = NoCall /\ reply[r] = 0 /\ before[r] = {}
    OBVIOUS
  <2> QED BY <2>1 DEF ControlOf, Started, Ready, Written
<1> QED BY <1>3, <1>4 DEF Control
-----------------------------------------------------------------------------
(***************************************************************************)
(* What a step changes, and what it cannot                                 *)
(***************************************************************************)

\* The steps that write to the table of documents.
Writes(r) == Create(r) \/ PatchWrite(r) \/ Delete(r)

\* Which step does what.
LEMMA Steps ==
  ASSUME TypeOK, Control, NEW r \in Reqs, Arrive(r) \/ Step(r)
  PROVE  /\ docs' = docs \/ Writes(r)
         /\ pc'[r] = "write" => PatchRead(r)
         /\ Written(r)' => Written(r) \/ Writes(r)
         /\ Written(r) => DocumentRecord(r)
         /\ call[r] # NoCall => Step(r)
<1> USE DEF TypeOK, RequestsTypeOK, Written, Goto, Answer, Writes
<1>0. ControlOf(r)
  BY DEF Control
<1>1. CASE Arrive(r)
  <2>1. pc[r] = "new" /\ call[r] = NoCall /\ reply[r] = 0 /\ docs' = docs
    BY <1>0, <1>1 DEF Arrive, Admit, Enter, Refuse, ControlOf
  <2>2. pc'[r] \in {"admitted", "done"} /\ reply'[r] # 200
    BY <1>1, <2>1 DEF Arrive, Admit, Enter, Refuse, AuthStatus
  <2> QED BY <2>1, <2>2
<1>2. CASE Create(r) \/ PatchRead(r) \/ Delete(r)
  BY <1>0, <1>2 DEF Create, PatchRead, Delete, At, Step, ControlOf, Started
<1>3. CASE Declines(r)
  BY <1>0, <1>3 DEF Declines, CreateFails, PatchReadFails, PatchWriteFails, DeleteFails,
     At, Step, ControlOf, Started
<1>4. CASE PatchWrite(r)
  BY <1>0, <1>4 DEF PatchWrite, Step, ControlOf, Started
<1>5. CASE DocumentRecord(r)
  BY <1>5 DEF DocumentRecord, Record, Step
<1> QED BY <1>1, <1>2, <1>3, <1>4, <1>5 DEF Step, Declines

\* What an admitted request was called for, and when it was, never changes.
LEMMA AdmittedStays ==
  ASSUME TypeOK, Control, NEW r \in Reqs, Arrive(r) \/ Step(r),
         NEW q \in Reqs, call[q] # NoCall
  PROVE  call'[q] = call[q] /\ before'[q] = before[q] /\ caller'[q] = caller[q]
<1>1. CASE q # r
  BY <1>1, StepFrame
<1>2. CASE q = r
  <2>1. Step(r)
    BY <1>2, Steps
  <2> QED BY <1>2, <2>1 DEF Step, Create, CreateFails, PatchRead, PatchReadFails,
       PatchWrite, PatchWriteFails, Delete, DeleteFails, DocumentRecord, Record, Goto, Answer
<1> QED BY <1>1, <1>2

\* Nor does anything of a request that has written.
LEMMA WrittenStays ==
  ASSUME TypeOK, Control, NEW r \in Reqs, Arrive(r) \/ Step(r),
         NEW q \in Reqs, Written(q)
  PROVE  /\ Written(q)' /\ call[q] # NoCall
         /\ call'[q] = call[q] /\ before'[q] = before[q] /\ caller'[q] = caller[q]
         /\ prior'[q] = prior[q] /\ body'[q] = body[q] /\ doc'[q] = doc[q]
         /\ Sets(q)' = Sets(q)
<1>1. call[q] # NoCall
  BY DEF Control, ControlOf, Ready
<1>2. /\ Written(q)'
      /\ prior'[q] = prior[q] /\ body'[q] = body[q] /\ doc'[q] = doc[q]
  <2>1. CASE q # r
    BY <2>1, StepFrame DEF Written
  <2>2. CASE q = r
    BY <2>2, Steps DEF DocumentRecord, Record, Answer, Written, TypeOK, RequestsTypeOK
  <2> QED BY <2>1, <2>2
<1>3. call'[q] = call[q] /\ before'[q] = before[q] /\ caller'[q] = caller[q]
  BY <1>1, AdmittedStays
<1> QED BY <1>1, <1>2, <1>3 DEF Sets

\* A request that writes is in flight, and has written after the step.
LEMMA WriterIs ==
  ASSUME TypeOK, Control, NEW r \in Reqs, Writes(r)
  PROVE  /\ pc[r] \in Started /\ call[r] # NoCall /\ call[r].key \in Keys
         /\ call' = call /\ before' = before /\ caller' = caller
         /\ pc'[r] = "record" /\ Written(r)' /\ audit' = audit
         /\ \A key \in Keys : key # call[r].key => docs'[key] = docs[key]
         /\ Create(r) \/ PatchWrite(r) => docs'[call[r].key] = doc'[r] /\ doc'[r] \in Docs
         /\ PatchWrite(r) => UNCHANGED <<prior, body, doc>> /\ pc[r] = "write"
         /\ Delete(r) => docs'[call[r].key] = Deleted(call[r].key)
<1>1. pc[r] \in Started
  BY DEF Writes, Create, PatchWrite, Delete, At, Started
<1>2. call[r] # NoCall /\ call[r].key \in Keys
  BY <1>1, AdmittedCall
<1>3. CASE Create(r)
  <2>1. PICK b \in Bodies(call[r].key[1]) :
          LET d == Authored(b, Author(r))
          IN  doc' = [doc EXCEPT ![r] = d] /\ docs' = [docs EXCEPT ![call[r].key] = d]
    BY <1>3 DEF Create
  <2>2. Authored(b, Author(r)) \in Docs
    BY <1>1, AdmittedCall, AuthoredFields
  <2>3. pc[r] = "admitted" /\ ~PatchWrite(r) /\ ~Delete(r)
    BY <1>3 DEF Create, At, PatchWrite, Delete
  <2> QED BY <1>1, <1>2, <1>3, <2>1, <2>2, <2>3 DEF Create, Goto, Written, TypeOK
<1>4. CASE PatchWrite(r)
  <2>1. pc[r] = "write" /\ ~Create(r) /\ ~Delete(r)
    BY <1>4 DEF Create, At, PatchWrite, Delete
  <2>2. DocumentOf(r)
    BY <2>1 DEF Control, ControlOf, Ready
  <2> QED BY <1>1, <1>2, <1>4, <2>1, <2>2 DEF PatchWrite, Goto, Written, TypeOK, DocumentOf
<1>5. CASE Delete(r)
  <2>1. ~Create(r) /\ ~PatchWrite(r)
    BY <1>5 DEF Create, At, PatchWrite, Delete
  <2> QED BY <1>1, <1>2, <1>5, <2>1 DEF Delete, Goto, Written, TypeOK
<1> QED BY <1>3, <1>4, <1>5 DEF Writes

-----------------------------------------------------------------------------
(***************************************************************************)
(* The audit log                                                           *)
(***************************************************************************)

\* The log only grows, by the entry of the request that is answered.
LEMMA LogGrows ==
  ASSUME TypeOK, NEW r \in Reqs, Arrive(r) \/ Step(r)
  PROVE  /\ audit \subseteq audit'
         /\ audit' = audit
            \/ (/\ pc[r] = "record" /\ pc'[r] = "done"
                /\ audit' = audit \cup {DocumentEntry(r)})
         /\ pc[r] = "record" /\ ~StoreMayFail => DocumentEntry(r) \in audit'
         /\ pc[r] = "record" => DocumentEntry(r)' = DocumentEntry(r)
<1> USE DEF TypeOK, RequestsTypeOK
<1>1. CASE Arrive(r)
  BY <1>1 DEF Arrive, Admit, Enter, Refuse
<1>2. CASE Create(r) \/ PatchRead(r) \/ PatchWrite(r) \/ Delete(r)
  BY <1>2 DEF Create, PatchRead, PatchWrite, Delete, At
<1>3. CASE Declines(r)
  BY <1>3 DEF Declines, CreateFails, PatchReadFails, PatchWriteFails, DeleteFails, At
<1>4. CASE DocumentRecord(r)
  BY <1>4 DEF DocumentRecord, Record, Answer, DocumentEntry, Entry
<1> QED BY <1>1, <1>2, <1>3, <1>4 DEF Step, Declines

\* An entry goes on being the one of an answered request.
LEMMA LoggedKept ==
  ASSUME TypeOK, Logged, NEW r \in Reqs, Arrive(r) \/ Step(r)
  PROVE  Logged'
<1> SUFFICES ASSUME NEW e \in audit' PROVE e.id \in Reqs /\ pc'[e.id] = "done"
  BY DEF Logged
<1>1. CASE e \in audit
  <2>1. e.id \in Reqs /\ pc[e.id] = "done"
    BY <1>1 DEF Logged
  <2> QED BY <2>1, StepFrame
<1>2. CASE e \notin audit
  <2>1. e = DocumentEntry(r) /\ pc'[r] = "done"
    BY <1>2, LogGrows
  <2> QED BY <2>1 DEF DocumentEntry, Entry
<1> QED BY <1>1, <1>2

\* A request that is accounted for remains so; one becomes so by its write.
LEMMA AccountedStays ==
  ASSUME TypeOK, Control, Logged, NEW r \in Reqs, Arrive(r) \/ Step(r), ~StoreMayFail,
         NEW q \in Reqs
  PROVE  /\ Accounted(q) => Accounted(q)' /\ doc'[q] = doc[q] /\ call'[q] = call[q]
         /\ Accounted(q)' => Accounted(q) \/ (q = r /\ Writes(r))
<1> DEFINE e == DocumentEntry(q)
<1>1. e \in audit => q # r
  <2>1. e.id = q
    BY DEF DocumentEntry, Entry
  <2> QED BY <2>1, StepFrame DEF Logged
<1>2. q # r => e' = e /\ pc'[q] = pc[q] /\ doc'[q] = doc[q] /\ call'[q] = call[q]
  BY StepFrame DEF DocumentEntry, Entry
<1>3. CASE q # r
  <2>1. e \in audit <=> e \in audit'
    <3>1. e # DocumentEntry(r)
      BY <1>3 DEF DocumentEntry, Entry
    <3> QED BY <3>1, LogGrows
  <2> QED BY <1>2, <1>3, <2>1 DEF Accounted
<1>4. CASE q = r /\ pc[r] = "record"
  <2>1. Written(r)
    BY <1>4 DEF Written
  <2>2. e' \in audit'
    BY <1>4, LogGrows
  <2> QED BY <1>4, <2>1, <2>2, WrittenStays DEF Accounted
<1>5. CASE q = r /\ pc[r] # "record"
  <2>1. audit' = audit
    BY <1>5, LogGrows
  <2>2. e' \notin audit
    <3>1. e'.id = r
      BY <1>5 DEF DocumentEntry, Entry
    <3> QED BY <3>1, StepFrame DEF Logged
  <2>3. pc'[r] = "record" => Writes(r)
    <3>1. pc'[r] = "record" => Written(r)'
      BY DEF Written
    <3>2. ~Written(r)
      BY <1>5, StepFrame DEF Written, Control, ControlOf
    <3> QED BY <3>1, <3>2, Steps
  <2> QED BY <1>1, <1>5, <2>1, <2>2, <2>3 DEF Accounted
<1> QED BY <1>3, <1>4, <1>5

\* The accounted requests on a document, and what the log says of it.
Accounts(key, ops) ==
  {r \in Reqs : Targets(r, key) /\ call[r].op \in ops /\ Accounted(r)}

Explained(key) ==
  LET now == docs[key]
  IN  IF now = NoDoc
        THEN \/ InitialDocs[key] = NoDoc /\ Accounts(key, {"create"}) = {}
             \/ Accounts(key, {"delete"}) # {}
        ELSE \E d \in {InitialDocs[key]} \cup
                      {doc[r] : r \in Accounts(key, {"create", "patch"})} :
               \/ now = d
               \/ /\ key[1] = "tenant" /\ Accounts(key, {"delete"}) # {}
                  /\ now = Disabled(d)

\* AuditExplainsDocuments is inductive.
LEMMA AuditExplainedKept ==
  ASSUME TypeOK, Control, Logged, AuditExplainsDocuments,
         NEW s \in Reqs, Arrive(s) \/ Step(s)
  PROVE  AuditExplainsDocuments'
<1> SUFFICES ASSUME ~StoreMayFail, NEW key \in Keys PROVE Explained(key)'
  BY DEF AuditExplainsDocuments, Explained, Accounts
<1>1. Explained(key)
  BY DEF AuditExplainsDocuments, Explained, Accounts
<1>2. ASSUME NEW ops, NEW r \in Accounts(key, ops)
      PROVE  r \in Accounts(key, ops)' /\ doc'[r] = doc[r]
  <2>1. r \in Reqs /\ Accounted(r) /\ Targets(r, key) /\ call[r].op \in ops
    BY <1>2 DEF Accounts
  <2>2. Accounted(r)' /\ doc'[r] = doc[r] /\ call'[r] = call[r]
    BY <2>1, AccountedStays
  <2> QED BY <2>1, <2>2 DEF Accounts, Targets
<1>3. CASE docs'[key] = docs[key]
  <2>1. CASE docs[key] = NoDoc /\ InitialDocs[key] = NoDoc /\ Accounts(key, {"create"}) = {}
    <3>1. ASSUME NEW r \in Accounts(key, {"create"})' PROVE FALSE
      <4>1. r \in Reqs /\ Accounted(r)' /\ Targets(r, key)' /\ call'[r].op = "create"
        BY <3>1 DEF Accounts
      <4>2. CASE Accounted(r)
        <5>1. call'[r] = call[r]
          BY <4>1, <4>2, AccountedStays
        <5> QED BY <2>1, <4>1, <4>2, <5>1 DEF Accounts, Targets
      <4>3. CASE ~Accounted(r)
        <5>1. r = s /\ Writes(s)
          BY <4>1, <4>3, AccountedStays
        <5>2. call' = call
          BY <5>1, WriterIs
        <5>3. Create(s)
          BY <4>1, <5>1, <5>2 DEF Writes, Delete, At, PatchWrite, Control, ControlOf
        <5>4. docs'[key] \in Docs
          BY <4>1, <5>1, <5>2, <5>3, WriterIs DEF Targets
        <5> QED BY <1>3, <2>1, <5>4, DocsExist
      <4> QED BY <4>2, <4>3
    <3>2. Accounts(key, {"create"})' = {}
      BY <3>1
    <3> QED BY <1>3, <2>1, <3>2 DEF Explained
  <2>2. CASE docs[key] = NoDoc /\ Accounts(key, {"delete"}) # {}
    BY <1>2, <1>3, <2>2 DEF Explained
  <2>3. CASE docs[key] # NoDoc
    <3>1. PICK d \in {InitialDocs[key]} \cup
                     {doc[r] : r \in Accounts(key, {"create", "patch"})} :
             \/ docs[key] = d
             \/ /\ key[1] = "tenant" /\ Accounts(key, {"delete"}) # {}
                /\ docs[key] = Disabled(d)
      BY <1>1, <2>3 DEF Explained
    <3>2. d \in {InitialDocs[key]} \cup
                {doc'[r] : r \in Accounts(key, {"create", "patch"})'}
      BY <1>2
    <3>3. Accounts(key, {"delete"}) # {} => Accounts(key, {"delete"})' # {}
      BY <1>2
    <3> QED BY <1>3, <2>3, <3>1, <3>2, <3>3 DEF Explained
  <2> QED BY <1>1, <2>1, <2>2, <2>3 DEF Explained
<1>4. CASE docs'[key] # docs[key]
  <2>1. Writes(s) /\ key = call[s].key
    <3>1. Writes(s)
      BY <1>4, Steps
    <3> QED BY <1>4, <3>1, WriterIs
  <2>2. /\ call' = call /\ call[s] # NoCall /\ Accounted(s)' /\ Targets(s, key)'
        /\ call[s].op \in {"create", "patch", "delete"}
    BY <2>1, WriterIs, AdmittedCall DEF Accounted, Targets
  <2>3. CASE Create(s) \/ PatchWrite(s)
    <3>1. docs'[key] = doc'[s] /\ docs'[key] # NoDoc
      BY <2>1, <2>3, WriterIs, DocsExist
    <3>2. call[s].op \in {"create", "patch"}
      BY <2>3 DEF Create, At, PatchWrite, Control, ControlOf
    <3>3. s \in Accounts(key, {"create", "patch"})'
      BY <2>2, <3>2 DEF Accounts
    <3> QED BY <3>1, <3>3 DEF Explained
  <2>4. CASE Delete(s)
    <3>1. s \in Accounts(key, {"delete"})'
      BY <2>2, <2>4 DEF Accounts, Delete, At
    <3>2. docs'[key] = Deleted(key) /\ docs[key] # NoDoc
      BY <2>1, <2>4, WriterIs DEF Delete
    <3>3. CASE key[1] # "tenant"
      BY <3>1, <3>2, <3>3 DEF Explained, Deleted
    <3>4. CASE key[1] = "tenant"
      <4>1. docs'[key] = Disabled(docs[key]) /\ docs'[key] # NoDoc
        BY <3>2, <3>4, DisabledFields, DocsExist DEF Deleted, TypeOK
      <4>2. PICK d \in {InitialDocs[key]} \cup
                       {doc[r] : r \in Accounts(key, {"create", "patch"})} :
               docs[key] = d \/ docs[key] = Disabled(d)
        BY <1>1, <3>2 DEF Explained
      <4>3. docs'[key] = Disabled(d)
        <5>1. Disabled(Disabled(d)) = Disabled(d)
          BY DEF Disabled
        <5> QED BY <4>1, <4>2, <5>1
      <4>4. d \in {InitialDocs[key]} \cup
                  {doc'[r] : r \in Accounts(key, {"create", "patch"})'}
        BY <1>2
      <4> QED BY <3>1, <3>4, <4>1, <4>3, <4>4 DEF Explained
    <3> QED BY <3>3, <3>4
  <2> QED BY <2>1, <2>3, <2>4 DEF Writes
<1> QED BY <1>3, <1>4
-----------------------------------------------------------------------------
(***************************************************************************)
(* What a request that is alone with its document can rely on              *)
(***************************************************************************)

\* A request that is alone, or isolated, after a step was so before it.
LEMMA SoloBefore ==
  ASSUME TypeOK, Control, NEW r \in Reqs, Arrive(r) \/ Step(r),
         NEW q \in Reqs, call[q] # NoCall
  PROVE  (Solo(q)' => Solo(q)) /\ (Isolated(q)' => Isolated(q))
<1>1. call'[q] = call[q] /\ before'[q] = before[q]
  BY AdmittedStays
<1>2. ASSUME NEW s \in Reqs, Targets(s, call[q].key)
      PROVE  /\ Targets(s, call[q].key)'
             /\ before'[s] = before[s]
  BY <1>1, <1>2, AdmittedStays DEF Targets
<1> QED BY <1>1, <1>2 DEF Solo, Isolated, Apart

\* A request in flight on the document rules out that another one is alone with
\* it, and puts an isolated one in its past.
LEMMA Crowded ==
  ASSUME TypeOK, Control, NEW r \in Reqs, NEW q \in Reqs, q # r,
         pc[q] \in Started, Targets(q, call[r].key)
  PROVE  /\ ~Solo(r)
         /\ Isolated(r) => r \in before[q] /\ pc[r] = "done"
BY DEF Solo, Isolated, Apart, Control, ControlOf, Started

\* What a patch that is alone read goes on being stored.
LEMMA SoloKept ==
  ASSUME TypeOK, Control, Alone, NEW s \in Reqs, Arrive(s) \/ Step(s)
  PROVE  \A r \in Reqs : SoloOf(r)'
<1> SUFFICES ASSUME NEW r \in Reqs, ~StoreMayFail, pc'[r] = "write", Solo(r)'
             PROVE  docs'[call'[r].key] = prior'[r]
  BY DEF SoloOf
<1>1. CASE r # s
  <2>1. /\ pc[r] = "write" /\ call[r] # NoCall /\ call'[r] = call[r] /\ prior'[r] = prior[r]
    BY <1>1, StepFrame DEF Control, ControlOf, Started
  <2>2. Solo(r) /\ docs[call[r].key] = prior[r]
    BY <2>1, SoloBefore DEF Alone, SoloOf
  <2>3. docs'[call[r].key] = docs[call[r].key]
    <3>1. CASE Writes(s)
      <4>1. call[s].key # call[r].key
        BY <1>1, <2>2, <3>1, Crowded, WriterIs DEF Targets
      <4>2. call[r].key \in Keys
        BY <2>1, AdmittedCall DEF Started
      <4> QED BY <3>1, <4>1, <4>2, WriterIs
    <3> QED BY <3>1, Steps
  <2> QED BY <2>1, <2>2, <2>3
<1>2. CASE r = s
  <2>1. PatchRead(s)
    BY <1>2, Steps
  <2> QED BY <1>2, <2>1, PatchReadKeeps DEF PatchRead, Goto
<1> QED BY <1>1, <1>2

\* What has decided a field, or created the document anew, has done so for good.
LEMMA SupersededStays ==
  ASSUME TypeOK, Control, NEW s \in Reqs, Arrive(s) \/ Step(s),
         NEW r \in Reqs, call[r] # NoCall
  PROVE  /\ \A f : Superseded(r, f) => Superseded(r, f)'
         /\ Recreated(r) => Recreated(r)'
<1>1. call'[r] = call[r]
  BY AdmittedStays
<1>2. ASSUME NEW f, Superseded(r, f) PROVE Superseded(r, f)'
  <2>1. PICK q \in Reqs : /\ r \in before[q] /\ Targets(q, call[r].key)
                          /\ Written(q) /\ f \in Sets(q)
    BY <1>2 DEF Superseded
  <2>2. /\ r \in before'[q] /\ Targets(q, call[r].key)'
        /\ Written(q)' /\ f \in Sets(q)'
    BY <1>1, <2>1, WrittenStays DEF Targets
  <2> QED BY <2>2 DEF Superseded
<1>3. ASSUME Recreated(r) PROVE Recreated(r)'
  <2>1. PICK q \in Reqs : /\ r \in before[q] /\ Targets(q, call[r].key)
                          /\ call[q].op = "create" /\ Written(q)
    BY <1>3 DEF Recreated
  <2>2. /\ r \in before'[q] /\ Targets(q, call[r].key)'
        /\ call'[q].op = "create" /\ Written(q)'
    BY <1>1, <2>1, WrittenStays DEF Targets
  <2> QED BY <2>2 DEF Recreated
<1> QED BY <1>2, <1>3

\* A request that is settled after a step was settled before it, or has just
\* written, and then nobody has come later.
LEMMA SettledBefore ==
  ASSUME TypeOK, Control, Control', NEW s \in Reqs, Arrive(s) \/ Step(s),
         NEW r \in Reqs, Settled(r)'
  PROVE  Settled(r) \/ (r = s /\ Writes(s) /\ \A q \in Reqs : ~Pending(q, r)')
<1>1. CASE Written(r)
  <2>1. call[r] # NoCall
    BY <1>1, WrittenStays
  <2> QED BY <1>1, <2>1, SoloBefore DEF Settled
<1>2. CASE ~Written(r)
  <2>1. r = s /\ Writes(s)
    <3>1. r = s
      BY <1>2, StepFrame DEF Settled, Written
    <3> QED BY <1>2, <3>1, Steps DEF Settled
  <2>2. pc'[r] = "record"
    BY <2>1, WriterIs
  <2>3. \A q \in Reqs : r \notin before'[q]
    BY <2>2 DEF Control, ControlOf
  <2> QED BY <2>1, <2>3 DEF Pending
<1> QED BY <1>1, <1>2

\* While r stays settled, a request that writes to its document came later, and
\* has then decided the fields it sets.
LEMMA LaterWriter ==
  ASSUME TypeOK, Control, NEW s \in Reqs, Arrive(s) \/ Step(s), Writes(s),
         NEW r \in Reqs, Settled(r), call[s].key = call[r].key
  PROVE  /\ r \in before[s] /\ Targets(s, call[r].key)
         /\ \A f \in Sets(s)' : Superseded(r, f)'
         /\ Create(s) => Recreated(r)'
<1>1. s # r
  BY Steps DEF Settled, Writes, Create, PatchWrite, Delete, DocumentRecord, Record, At
<1>2. Targets(s, call[r].key)
  BY WriterIs DEF Targets
<1>3. r \in before[s]
  BY <1>1, <1>2, WriterIs, Crowded DEF Settled
<1>4. /\ r \in before'[s] /\ Targets(s, call[r].key)' /\ Written(s)'
      /\ Create(s) => call'[s].op = "create"
  BY <1>2, <1>3, WriterIs DEF Targets, Create, At
<1> QED BY <1>2, <1>3, <1>4 DEF Superseded, Recreated

\* What an isolated write decided goes on holding, in the store and in memory.
LEMMA WriteSticksKept ==
  ASSUME TypeOK, Control, Control', Alone, NEW s \in Reqs, Arrive(s) \/ Step(s)
  PROVE  \A r \in Reqs : WriteSticksOf(r)'
<1> SUFFICES ASSUME NEW r \in Reqs, Settled(r)', call'[r].op \in {"create", "patch"},
                    NEW f \in Sets(r)'
             PROVE  /\ docs'[call'[r].key][f] = body'[r][f] \/ Superseded(r, f)'
                    /\ \A q \in Reqs : Pending(q, r)' =>
                         doc'[q][f] = body'[r][f] \/ f \in Sets(q)' \/ Superseded(r, f)'
  BY DEF WriteSticksOf
<1> DEFINE key == call[r].key
<1>0. f \in Fields
  BY DEF Sets
<1>1. CASE Settled(r)
  <2>1. /\ Written(r) /\ call[r] # NoCall /\ call'[r] = call[r] /\ body'[r] = body[r]
        /\ Sets(r)' = Sets(r)
    BY <1>1, WrittenStays DEF Settled
  <2>2. key \in Keys
    BY <2>1 DEF TypeOK
  <2>3. /\ docs[key][f] = body[r][f] \/ Superseded(r, f)
        /\ \A q \in Reqs : Pending(q, r) =>
             doc[q][f] = body[r][f] \/ f \in Sets(q) \/ Superseded(r, f)
    BY <1>1, <2>1 DEF Alone, WriteSticksOf
  <2>4. Superseded(r, f) => Superseded(r, f)'
    BY <2>1, SupersededStays
  <2>5. docs'[key][f] = body[r][f] \/ Superseded(r, f)'
    <3>1. CASE docs'[key] = docs[key]
      BY <2>3, <2>4, <3>1
    <3>2. CASE docs'[key] # docs[key]
      <4>1. Writes(s) /\ call[s].key = key
        BY <2>2, <3>2, Steps, WriterIs
      <4>2. /\ r \in before[s] /\ Targets(s, key)
            /\ \A g \in Sets(s)' : Superseded(r, g)'
        BY <1>1, <4>1, LaterWriter
      <4>3. CASE Create(s)
        <5>1. f \in Sets(s)'
          BY <1>0, <4>1, <4>3, WriterIs DEF Sets, Create, At
        <5> QED BY <4>2, <5>1
      <4>4. CASE PatchWrite(s)
        <5>1. docs'[key] = doc[s] /\ Pending(s, r)
          BY <4>1, <4>2, <4>4, WriterIs DEF Pending
        <5>2. Sets(s)' = Sets(s)
          BY <4>1, <4>4, WriterIs DEF Sets
        <5> QED BY <2>3, <2>4, <4>2, <5>1, <5>2
      <4>5. CASE Delete(s)
        <5>1. call'[s] = call[s] /\ call[s].op = "delete"
          BY <4>1, <4>5, WriterIs DEF Delete, At
        <5>2. f \in Sets(s)' \/ (key[1] = "tenant" /\ f # "disabled")
          BY <1>0, <4>1, <5>1 DEF Sets
        <5>3. CASE key[1] = "tenant" /\ f # "disabled"
          <6>1. docs[key] \in Docs
            BY <2>2, <4>1, <4>5 DEF Delete, TypeOK
          <6>2. docs'[key][f] = docs[key][f]
            <7>1. docs'[key] = Disabled(docs[key])
              BY <4>1, <4>5, <5>3, WriterIs DEF Deleted
            <7>2. \A g \in Fields \ {"disabled"} : Disabled(docs[key])[g] = docs[key][g]
              BY <6>1, DisabledFields
            <7>3. f \in Fields \ {"disabled"}
              BY <1>0, <5>3
            <7> QED BY <7>1, <7>2, <7>3
          <6> QED BY <2>3, <2>4, <6>2
        <5> QED BY <4>2, <5>2, <5>3
      <4> QED BY <4>1, <4>3, <4>4, <4>5 DEF Writes
    <3> QED BY <3>1, <3>2
  <2>6. ASSUME NEW q \in Reqs, Pending(q, r)'
        PROVE  doc'[q][f] = body[r][f] \/ f \in Sets(q)' \/ Superseded(r, f)'
    <3>1. CASE q # s
      <4>1. Pending(q, r) /\ doc'[q] = doc[q] /\ Sets(q)' = Sets(q)
        BY <2>1, <2>6, <3>1, StepFrame DEF Pending, Targets, Sets
      <4> QED BY <2>3, <2>4, <4>1
    <3>2. CASE q = s
      <4>1. PatchRead(s)
        BY <2>6, <3>2, Steps DEF Pending
      <4>2. /\ call' = call /\ call[s].op = "patch" /\ call[s].key = key
            /\ pc'[s] = "write"
        BY <2>1, <2>6, <3>2, <4>1 DEF PatchRead, At, Goto, Pending, Targets
      <4>3. prior'[s] = docs[key]
        BY <4>1, <4>2, PatchReadKeeps
      <4>4. DocumentOf(s)'
        BY <4>2 DEF Control, ControlOf, Ready
      <4>5. f \notin Sets(s)' => doc'[s][f] = docs[key][f]
        BY <1>0, <4>2, <4>3, <4>4 DEF DocumentOf
      <4> QED BY <2>3, <2>4, <3>2, <4>5
    <3> QED BY <3>1, <3>2
  <2> QED BY <2>1, <2>5, <2>6
<1>2. CASE ~Settled(r)
  <2>1. r = s /\ Writes(s) /\ \A q \in Reqs : ~Pending(q, r)'
    BY <1>2, SettledBefore
  <2>2. call' = call
    BY <2>1, WriterIs
  <2>3. Create(s) \/ PatchWrite(s)
    BY <2>1, <2>2 DEF Writes, Delete, At
  <2>4. docs'[key] = doc'[r]
    BY <2>1, <2>3, WriterIs
  <2>5. DocumentOf(r)'
    BY <2>1, WriterIs DEF Control, ControlOf, Ready
  <2>6. doc'[r][f] = body'[r][f]
    BY <1>0, <2>5 DEF DocumentOf
  <2> QED BY <2>1, <2>2, <2>4, <2>6
<1> QED BY <1>1, <1>2

\* An isolated deletion goes on holding.
LEMMA DeletionSticksKept ==
  ASSUME TypeOK, Control, Control', Alone, NEW s \in Reqs, Arrive(s) \/ Step(s)
  PROVE  \A r \in Reqs : DeletionSticksOf(r)'
<1> SUFFICES ASSUME NEW r \in Reqs, Settled(r)', call'[r].op = "delete"
             PROVE  DeletionSticksOf(r)'
  BY DEF DeletionSticksOf
<1> DEFINE key == call[r].key
<1>1. CASE Settled(r)
  <2>1. Written(r) /\ call[r] # NoCall /\ call'[r] = call[r]
    BY <1>1, WrittenStays DEF Settled
  <2>2. key \in Keys
    BY <2>1 DEF TypeOK
  <2>3. CASE docs'[key] = docs[key]
    <3>1. CASE key[1] = "tenant"
      BY <1>1, <2>1, <2>3, <3>1, SupersededStays DEF Alone, DeletionSticksOf
    <3>2. CASE key[1] # "tenant"
      <4>1. docs[key] = NoDoc \/ Recreated(r)
        BY <1>1, <2>1, <3>2 DEF Alone, DeletionSticksOf
      <4>2. ASSUME NEW q \in Reqs, Pending(q, r)' PROVE Recreated(r)'
        <5>1. CASE q # s
          <6>1. Pending(q, r)
            BY <2>1, <4>2, <5>1, StepFrame DEF Pending, Targets
          <6>2. Recreated(r)
            BY <1>1, <2>1, <3>2, <6>1 DEF Alone, DeletionSticksOf
          <6> QED BY <2>1, <6>2, SupersededStays
        <5>2. CASE q = s
          <6>1. PatchRead(s)
            BY <4>2, <5>2, Steps DEF Pending
          <6>2. call[s].key = key
            BY <2>1, <4>2, <5>2, <6>1 DEF PatchRead, Goto, Pending, Targets
          <6>3. docs[key] # NoDoc
            BY <6>1, <6>2 DEF PatchRead, Found
          <6> QED BY <2>1, <4>1, <6>3, SupersededStays
        <5> QED BY <5>1, <5>2
      <4>3. docs'[key] = NoDoc \/ Recreated(r)'
        BY <2>1, <2>3, <4>1, SupersededStays
      <4> QED BY <2>1, <3>2, <4>2, <4>3 DEF DeletionSticksOf
    <3> QED BY <3>1, <3>2
  <2>4. CASE docs'[key] # docs[key]
    <3>1. Writes(s) /\ call[s].key = key
      BY <2>2, <2>4, Steps, WriterIs
    <3>2. /\ r \in before[s] /\ Targets(s, key) /\ call' = call
          /\ \A g \in Sets(s)' : Superseded(r, g)'
          /\ Create(s) => Recreated(r)'
      BY <1>1, <3>1, LaterWriter, WriterIs
    <3>3. CASE key[1] = "tenant"
      <4>1. CASE Create(s) \/ PatchWrite(s)
        <5>1. call[s].op \in {"create", "patch"}
          BY <4>1 DEF Create, At, PatchWrite, Control, ControlOf
        <5>2. "disabled" \in Sets(s)'
          BY <3>1, <3>2, <3>3, <5>1 DEF Sets, Present, Fields
        <5> QED BY <2>1, <3>2, <3>3, <5>2 DEF DeletionSticksOf
      <4>2. CASE Delete(s)
        <5>1. docs'[key] = Disabled(docs[key])
          BY <3>1, <3>3, <4>2, WriterIs DEF Deleted
        <5>2. docs'[key].disabled
          BY <5>1 DEF Disabled
        <5> QED BY <2>1, <3>3, <5>2 DEF DeletionSticksOf
      <4> QED BY <3>1, <4>1, <4>2 DEF Writes
    <3>4. CASE key[1] # "tenant"
      <4>1. \A q \in Reqs : Pending(q, r)' => Recreated(r)'
        <5> SUFFICES ASSUME NEW q \in Reqs, Pending(q, r)' PROVE Recreated(r)'
          OBVIOUS
        <5>1. q # s
          BY <3>1, WriterIs DEF Pending
        <5>2. Pending(q, r)
          BY <2>1, <5>1, StepFrame DEF Pending, Targets
        <5>3. Recreated(r)
          BY <1>1, <2>1, <3>4, <5>2 DEF Alone, DeletionSticksOf
        <5> QED BY <2>1, <5>3, SupersededStays
      <4>2. docs'[key] = NoDoc \/ Recreated(r)'
        <5>1. CASE PatchWrite(s)
          <6>1. Pending(s, r)
            BY <3>1, <3>2, <5>1, WriterIs DEF Pending
          <6>2. Recreated(r)
            BY <1>1, <2>1, <3>4, <6>1 DEF Alone, DeletionSticksOf
          <6> QED BY <2>1, <6>2, SupersededStays
        <5>2. CASE Delete(s)
          BY <3>1, <3>4, <5>2, WriterIs DEF Deleted
        <5> QED BY <3>1, <3>2, <5>1, <5>2 DEF Writes
      <4> QED BY <2>1, <3>4, <4>1, <4>2 DEF DeletionSticksOf
    <3> QED BY <3>3, <3>4
  <2> QED BY <2>3, <2>4
<1>2. CASE ~Settled(r)
  <2>1. r = s /\ Writes(s) /\ \A q \in Reqs : ~Pending(q, r)'
    BY <1>2, SettledBefore
  <2>2. call' = call
    BY <2>1, WriterIs
  <2>3. Delete(s)
    BY <2>1, <2>2 DEF Writes, Create, At, PatchWrite, Control, ControlOf
  <2>4. docs'[key] = Deleted(key)
    BY <2>1, <2>3, WriterIs
  <2>5. key[1] = "tenant" => docs'[key].disabled
    BY <2>4 DEF Deleted, Disabled
  <2>6. key[1] # "tenant" => docs'[key] = NoDoc
    BY <2>4 DEF Deleted
  <2> QED BY <2>1, <2>2, <2>5, <2>6 DEF DeletionSticksOf
<1> QED BY <1>1, <1>2

-----------------------------------------------------------------------------
(***************************************************************************)
(* The theorems                                                            *)
(***************************************************************************)

\* The invariant holds in the beginning.
LEMMA InitInv == Init => Inv
<1> SUFFICES ASSUME Init PROVE Logged /\ AuditExplainsDocuments /\ Alone
  BY InitKeeps DEF Inv
<1> USE DEF Init, InitRequests
<1>1. Logged
  BY DEF Logged
<1>2. AuditExplainsDocuments
  <2>1. ASSUME NEW key \in Keys PROVE Explained(key)
    <3>1. docs[key] = InitialDocs[key] /\ Accounts(key, {"create"}) = {}
      BY DEF Accounts, Targets
    <3> QED BY <3>1 DEF Explained
  <2> QED BY <2>1 DEF AuditExplainsDocuments, Explained, Accounts
<1>3. ASSUME NEW r \in Reqs PROVE SoloOf(r) /\ WriteSticksOf(r) /\ DeletionSticksOf(r)
  <2>1. pc[r] = "new" /\ reply[r] = 0
    OBVIOUS
  <2> QED BY <2>1 DEF SoloOf, WriteSticksOf, DeletionSticksOf, Settled, Written
<1> QED BY <1>1, <1>2, <1>3 DEF Alone

\* The invariant is inductive.
LEMMA NextInv == Inv /\ [Next]_vars => Inv'
<1> SUFFICES ASSUME Inv, [Next]_vars PROVE Inv'
  OBVIOUS
<1> USE DEF Inv
<1>1. CASE Next
  <2>1. PICK s \in Reqs : Arrive(s) \/ Step(s)
    BY <1>1 DEF Next
  <2>2. TypeOK' /\ Control' /\ Logged' /\ AuditExplainsDocuments'
    BY <2>1, StepKeeps, LoggedKept, AuditExplainedKept
  <2>3. Alone'
    BY <2>1, <2>2, SoloKept, WriteSticksKept, DeletionSticksKept DEF Alone
  <2> QED BY <2>2, <2>3
<1>2. CASE UNCHANGED vars
  <2>1. TypeOK'
    BY <1>2 DEF vars, TypeOK, RequestsTypeOK
  <2>2. \A r \in Reqs : Sets(r)' = Sets(r)
    BY <1>2 DEF vars, Sets
  <2>3. Control'
    BY <1>2, <2>2 DEF vars, Control, ControlOf, DocumentOf, Started, Ready, Written
  <2>4. Logged'
    BY <1>2 DEF vars, Logged
  <2>5. AuditExplainsDocuments'
    <3> SUFFICES ASSUME ~StoreMayFail, NEW key \in Keys PROVE Explained(key)'
      BY DEF AuditExplainsDocuments, Explained, Accounts
    <3>1. Explained(key)
      BY DEF AuditExplainsDocuments, Explained, Accounts
    <3>2. \A ops : Accounts(key, ops)' = Accounts(key, ops)
      BY <1>2 DEF vars, Accounts, Targets, Accounted, DocumentEntry, Entry
    <3> QED BY <1>2, <3>1, <3>2 DEF vars, Explained
  <2>6. \A r \in Reqs : SoloOf(r)'
    BY <1>2 DEF vars, Alone, SoloOf, Solo, Targets
  <2>7. /\ \A r \in Reqs : Settled(r)' => Settled(r)
        /\ \A r, f : Superseded(r, f) => Superseded(r, f)'
        /\ \A r : Recreated(r) => Recreated(r)'
        /\ \A q, r : Pending(q, r)' => Pending(q, r)
    BY <1>2, <2>2 DEF vars, Settled, Isolated, Apart, Superseded, Recreated, Pending,
       Targets, Written
  <2>8. \A r \in Reqs : WriteSticksOf(r)'
    BY <1>2, <2>2, <2>7 DEF vars, Alone, WriteSticksOf
  <2>9. \A r \in Reqs : DeletionSticksOf(r)'
    BY <1>2, <2>7 DEF vars, Alone, DeletionSticksOf
  <2> QED BY <2>1, <2>3, <2>4, <2>5, <2>6, <2>8, <2>9 DEF Alone
<1> QED BY <1>1, <1>2

\* The invariant holds throughout.
LEMMA Invariance == Spec => []Inv
BY InitInv, NextInv, PTL DEF Spec

\* Every variable keeps its type, and every stored document is valid, whatever
\* was merged into what (TypeOK).
THEOREM TypeCorrect == Spec => []TypeOK
<1>1. Inv => TypeOK
  BY DEF Inv
<1> QED BY <1>1, Invariance, PTL

\* The audit log explains every stored document and every one that is gone
\* (AuditExplainsDocuments).
THEOREM AuditExplains == Spec => []AuditExplainsDocuments
<1>1. Inv => AuditExplainsDocuments
  BY DEF Inv
<1> QED BY <1>1, Invariance, PTL

\* What an acknowledged create or patch decided while it overlapped no request
\* on its document is undone by no race, until a later request decides it again
\* (IsolatedWritesStick).
THEOREM WritesStick == Spec => []IsolatedWritesStick
<1>1. Inv => IsolatedWritesStick
  BY DEF Inv, Alone, WriteSticksOf, Settled, Written, IsolatedWritesStick
<1> QED BY <1>1, Invariance, PTL

\* A deletion that overlapped no request on its document is final until a later
\* create (IsolatedDeletionSticks).
THEOREM DeletionsStick == Spec => []IsolatedDeletionSticks
<1>1. Inv => IsolatedDeletionSticks
  BY DEF Inv, Alone, DeletionSticksOf, Settled, Written, Recreated, IsolatedDeletionSticks
<1> QED BY <1>1, Invariance, PTL

\* A patch that is alone with its document changes the fields of its body and no
\* other, and has recorded what it overwrote (SoloPatchesAreExact).
THEOREM SoloPatchesExact == Spec => SoloPatchesAreExact
<1> DEFINE Exact ==
      \A r \in Reqs :
        (~StoreMayFail /\ pc[r] = "write" /\ pc'[r] = "record" /\ Solo(r)) =>
          LET old == docs[call[r].key]
              new == docs'[call[r].key]
          IN  /\ old = prior[r]
              /\ \A f \in Fields \ Sets(r) : new[f] = old[f]
              /\ \A f \in Sets(r) : new[f] = body[r][f]
<1>1. Inv /\ [Next]_vars => [Exact]_vars
  <2> SUFFICES ASSUME Inv, Next, NEW r \in Reqs, ~StoreMayFail, pc[r] = "write",
                      pc'[r] = "record", Solo(r)
               PROVE  LET old == docs[call[r].key]
                          new == docs'[call[r].key]
                      IN  /\ old = prior[r]
                          /\ \A f \in Fields \ Sets(r) : new[f] = old[f]
                          /\ \A f \in Sets(r) : new[f] = body[r][f]
    OBVIOUS
  <2>1. PICK s \in Reqs : Arrive(s) \/ Step(s)
    BY DEF Next
  <2>2. s = r
    BY <2>1, StepFrame DEF Inv
  <2>3. Writes(r)
    <3>1. ~Written(r) /\ Written(r)'
      BY DEF Written, Inv, Control, ControlOf
    <3> QED BY <2>1, <2>2, <3>1, Steps DEF Inv
  <2>4. PatchWrite(r)
    BY <2>3 DEF Writes, Create, Delete, At
  <2>5. docs'[call[r].key] = doc[r]
    BY <2>3, <2>4, WriterIs DEF Inv
  <2>6. DocumentOf(r) /\ call[r].op = "patch"
    BY DEF Inv, Control, ControlOf, Ready
  <2>7. docs[call[r].key] = prior[r]
    BY DEF Inv, Alone, SoloOf
  <2>8. Sets(r) \subseteq Fields
    BY DEF Sets
  <2> QED BY <2>5, <2>6, <2>7, <2>8 DEF DocumentOf
<1> QED BY <1>1, Invariance, PTL DEF Spec, SoloPatchesAreExact
=============================================================================
