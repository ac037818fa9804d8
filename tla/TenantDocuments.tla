---------------------------- MODULE TenantDocuments ----------------------------
(***************************************************************************)
(* Tenants, agent profiles and swarm definitions: the create, patch and    *)
(* delete handlers of cmd/admin-api/handlers/{tenants,agents,swarms}.go.   *)
(*                                                                         *)
(* The three kinds share their control. A create writes whatever was there *)
(* before; a patch reads a document, merges the fields of its body into it *)
(* and writes the whole of it back; a delete disables a tenant and removes *)
(* an agent or a swarm. Nothing relates a document to the tenant it is     *)
(* filed under, so a name stands for the whole path of a document.         *)
(***************************************************************************)
EXTENDS AdminRequests

CONSTANTS
  Names,        \* ids of documents, their tenant's included
  Keys,         \* the documents requests are about, as <<kind, name>>
  ValidNames,   \* those that match idPattern
  Texts,        \* values of the required texts other than ""
  ValidTexts,   \* those that are not blank, and name a known topology or scope
  Lists,        \* lists of skills or roles, other than nil and the empty one
  ValidRosters, \* those that name known roles only
  Nums,         \* values of budgets and envelope counts
  InitialDocs   \* the documents when the server starts serving

Kinds == {"tenant", "agent", "swarm"}

\* display_name, name and model, topology
Text  == Texts \cup {""}
\* skills and mcp_servers, roster: JSON distinguishes an absent list from []
List  == Lists \cup {"nil", "empty"}

Docs  == [text : Text, list : List, num : Nums, disabled : BOOLEAN,
          by : Emails \cup {NoEmail}]
NoDoc == [text |-> "none", list |-> "nil", num |-> 0, disabled |-> FALSE,
          by |-> NoEmail]
Fields == {"text", "list", "num", "disabled"}

\* ValidateTenant, ValidateAgent, ValidateSwarm
Valid(key, d) ==
  /\ key[2] \in ValidNames
  /\ d.text \in ValidTexts
  /\ d.num >= 0
  /\ key[1] = "swarm" => d.list \in ValidRosters

ASSUME DocumentsAssumption ==
  /\ Keys \subseteq Kinds \X Names
  /\ ValidNames \subseteq Names
  /\ ValidTexts \subseteq Texts
  /\ "" \notin Texts /\ "none" \notin Texts
  /\ ValidRosters \subseteq Lists
  /\ "nil" \notin Lists /\ "empty" \notin Lists
  /\ 0 \in Nums /\ Nums \subseteq Int
  /\ InitialDocs \in [Keys -> Docs \cup {NoDoc}]
  /\ \A key \in Keys : InitialDocs[key] = NoDoc \/ Valid(key, InitialDocs[key])

VARIABLES
  docs,   \* Store: key -> the document, or NoDoc
  prior,  \* request -> the document a patch read ("before")
  body,   \* request -> the body it decoded
  doc     \* request -> the document it writes

documentVars == <<docs, prior, body, doc>>
vars == <<admins, audit, requestVars, documentVars>>

\* What readJSON accepts: an unknown field is an error, and each kind has its
\* own (a tenant no lists or numbers, the others no flag).
Bodies(kind) ==
  [text : Text,
   list : IF kind = "tenant" THEN {"nil"} ELSE List,
   num : IF kind = "tenant" THEN {0} ELSE Nums,
   disabled : IF kind = "tenant" THEN BOOLEAN ELSE {FALSE}]

NoBody == [text |-> "", list |-> "nil", num |-> 0, disabled |-> FALSE]

\* A tenant carries no author.
Author(r) == IF call[r].key[1] = "tenant" THEN NoEmail ELSE caller[r].email

\* The document with these fields and this author.
Authored(b, email) ==
  [text |-> b.text, list |-> b.list, num |-> b.num, disabled |-> b.disabled,
   by |-> email]

\* The fields a patch body assigns: zero values read as absent, except that of
\* Disabled.
Present(kind, b) ==
  {f \in Fields : \/ f = "text" /\ b.text # ""
                  \/ f = "list" /\ b.list # "nil"
                  \/ f = "num" /\ b.num # 0
                  \/ f = "disabled" /\ kind = "tenant"}

\* Mutant: FALSE is taken for an absent flag, like the other zero values.
Merge_FalseIsAbsent(kind, d, b) ==
  [f \in DOMAIN d |->
     IF f \in Present(kind, b) /\ (f = "disabled" => b.disabled) THEN b[f] ELSE d[f]]

\* mergeAgent, and its likes inside patchTenant and patchSwarm
Merge(kind, d, b) ==
  [f \in DOMAIN d |-> IF f \in Present(kind, b) THEN b[f] ELSE d[f]]

\* Mutant: a patch of a missing document starts from an empty one.
Found_Upserts(key) == {docs[key]}

\* What GetTenant, GetAgent, GetSwarm find.
Found(key) == {docs[key]} \ {NoDoc}

-----------------------------------------------------------------------------
Init ==
  /\ InitRequests
  /\ docs = InitialDocs
  /\ prior = [r \in Reqs |-> NoDoc]
  /\ body = [r \in Reqs |-> NoBody]
  /\ doc = [r \in Reqs |-> NoDoc]

Arrive(r) ==
  /\ \E jwt \in Emails \cup {NoEmail} :
       \/ \E op \in {"create", "patch", "delete"}, key \in Keys :
            Admit(r, jwt, [op |-> op, key |-> key])
       \/ Refuse(r, jwt)
  /\ UNCHANGED documentVars

\* createTenant, createAgent, createSwarm: whatever is there is overwritten.
Create(r) ==
  /\ At(r, "create", "admitted")
  /\ \E b \in Bodies(call[r].key[1]) :
       LET d == Authored(b, Author(r))
       IN  /\ Valid(call[r].key, d)
           /\ body' = [body EXCEPT ![r] = b]
           /\ doc' = [doc EXCEPT ![r] = d]
           /\ docs' = [docs EXCEPT ![call[r].key] = d]
  /\ Goto(r, "record")
  /\ UNCHANGED <<admins, audit, prior>>

\* A body that does not decode or validate, or a failing write.
CreateFails(r) ==
  /\ At(r, "create", "admitted")
  /\ \E status \in {400} \cup (IF StoreMayFail THEN {500} ELSE {}) :
       Answer(r, status)
  /\ UNCHANGED <<admins, audit, documentVars>>

\* patchTenant, patchAgent, patchSwarm up to the write.
PatchRead(r) ==
  /\ At(r, "patch", "admitted")
  /\ \E existing \in Found(call[r].key), b \in Bodies(call[r].key[1]) :
       LET d == Authored(Merge(call[r].key[1], existing, b), Author(r))
       IN  /\ Valid(call[r].key, d)
           /\ prior' = [prior EXCEPT ![r] = existing]
           /\ body' = [body EXCEPT ![r] = b]
           /\ doc' = [doc EXCEPT ![r] = d]
  /\ Goto(r, "write")
  /\ UNCHANGED <<admins, audit, docs>>

\* Mutant: a patch waits for its document.
PatchReadFails_Waits(r) ==
  /\ At(r, "patch", "admitted")
  /\ docs[call[r].key] # NoDoc
  /\ Answer(r, 400)
  /\ UNCHANGED <<admins, audit, documentVars>>

\* The document is looked up first: a missing one is 404 whatever the body.
PatchReadFails(r) ==
  /\ At(r, "patch", "admitted")
  /\ \E status \in (IF docs[call[r].key] = NoDoc THEN {404} ELSE {400})
                  \cup (IF StoreMayFail THEN {500} ELSE {}) :
       Answer(r, status)
  /\ UNCHANGED <<admins, audit, documentVars>>

PatchWrite(r) ==
  /\ pc[r] = "write"
  /\ docs' = [docs EXCEPT ![call[r].key] = doc[r]]
  /\ Goto(r, "record")
  /\ UNCHANGED <<admins, audit, prior, body, doc>>

PatchWriteFails(r) ==
  /\ pc[r] = "write"
  /\ StoreMayFail
  /\ Answer(r, 500)
  /\ UNCHANGED <<admins, audit, documentVars>>

\* "t.Disabled = true", and the rest as it was.
Disabled(d) ==
  [text |-> d.text, list |-> d.list, num |-> d.num, disabled |-> TRUE, by |-> d.by]

\* Mutant: the soft delete keeps nothing but the flag.
Deleted_Blank(key) ==
  IF key[1] = "tenant" THEN Disabled(NoDoc) ELSE NoDoc

\* DeleteTenant is soft, DeleteAgent and DeleteSwarm are not.
Deleted(key) ==
  IF key[1] = "tenant" THEN Disabled(docs[key]) ELSE NoDoc

Delete(r) ==
  /\ At(r, "delete", "admitted")
  /\ docs[call[r].key] # NoDoc
  /\ docs' = [docs EXCEPT ![call[r].key] = Deleted(call[r].key)]
  /\ Goto(r, "record")
  /\ UNCHANGED <<admins, audit, prior, body, doc>>

DeleteFails(r) ==
  /\ At(r, "delete", "admitted")
  /\ \E status \in (IF docs[call[r].key] = NoDoc THEN {404} ELSE {})
                  \cup (IF StoreMayFail THEN {500} ELSE {}) :
       Answer(r, status)
  /\ UNCHANGED <<admins, audit, documentVars>>

DocumentEntry(r) ==
  Entry(r, call[r].op, call[r].key, [before |-> prior[r], after |-> doc[r]])

DocumentRecord(r) ==
  /\ Record(r, DocumentEntry(r))
  /\ UNCHANGED documentVars

Step(r) == \/ Create(r) \/ CreateFails(r) \/ PatchRead(r) \/ PatchReadFails(r)
           \/ PatchWrite(r) \/ PatchWriteFails(r) \/ Delete(r) \/ DeleteFails(r)
           \/ DocumentRecord(r)

Next == \E r \in Reqs : Arrive(r) \/ Step(r)

Spec == Init /\ [][Next]_vars

\* The goroutines of admitted requests run; clients owe nothing.
Fairness == \A r \in Reqs : WF_vars(Step(r))

FairSpec == Spec /\ Fairness

-----------------------------------------------------------------------------
(***************************************************************************)
(* Properties                                                              *)
(***************************************************************************)

Targets(r, key) == call[r] # NoCall /\ call[r].key = key

\* r was alone with its document from its admission until now.
Solo(r) ==
  \A q \in Reqs \ {r} : Targets(q, call[r].key) => q \in before[r]

\* r was alone with its document from its admission to its reply.
Isolated(r) ==
  \A q \in Reqs \ {r} : Targets(q, call[r].key) => Apart(q, r)

\* r is on record, or will be with its next step.
Accounted(r) == pc[r] = "record" \/ DocumentEntry(r) \in audit

\* The fields whose value r decides.
Sets(r) ==
  LET kind == call[r].key[1]
  IN  {f \in Fields : \/ call[r].op = "create"
                      \/ call[r].op = "patch" /\ f \in Present(kind, body[r])
                      \/ call[r].op = "delete" /\ (kind = "tenant" => f = "disabled")}

\* A request on the same document, admitted after r had been answered, has
\* decided this field.
Superseded(r, f) ==
  \E q \in Reqs :
    /\ r \in before[q] /\ Targets(q, call[r].key)
    /\ Written(q) /\ f \in Sets(q)

\* Type correctness; a stored document is valid, whatever was merged into what.
TypeOK ==
  /\ RequestsTypeOK
  /\ pc \in [Reqs -> {"new", "admitted", "write", "record", "done"}]
  /\ call \in [Reqs -> [op : {"create", "patch", "delete"}, key : Keys]
                        \cup {NoCall}]
  /\ docs \in [Keys -> Docs \cup {NoDoc}]
  /\ \A key \in Keys : docs[key] # NoDoc => Valid(key, docs[key])
  /\ {prior, doc} \subseteq [Reqs -> Docs \cup {NoDoc}]
  /\ body \in [Reqs -> UNION {Bodies(kind) : kind \in Kinds}]

\* The audit log explains the documents (types.go: an entry "is written for
\* every mutating call"): a stored document is the one an accounted create or
\* patch left, but for the flag of a tenant that an accounted delete set, and
\* one that is gone was removed by an accounted delete.
AuditExplainsDocuments ==
  ~StoreMayFail =>
    \A key \in Keys :
      LET now == docs[key]
          Accounts(ops) == {r \in Reqs : /\ Targets(r, key)
                                         /\ call[r].op \in ops
                                         /\ Accounted(r)}
      IN  IF now = NoDoc
            THEN \/ InitialDocs[key] = NoDoc /\ Accounts({"create"}) = {}
                 \/ Accounts({"delete"}) # {}
            ELSE \E d \in {InitialDocs[key]} \cup
                          {doc[r] : r \in Accounts({"create", "patch"})} :
                   \/ now = d
                   \/ /\ key[1] = "tenant" /\ Accounts({"delete"}) # {}
                      /\ now = Disabled(d)

\* A write that overlapped no other request on its document is lost to no race:
\* each field it decided keeps its value until a request that came after its
\* answer decides that field again, even if later patches of other fields race
\* with each other and write stale documents back.
IsolatedWritesStick ==
  ~StoreMayFail =>
    \A r \in Reqs :
      (reply[r] = 200 /\ call[r].op \in {"create", "patch"} /\ Isolated(r)) =>
        \A f \in Sets(r) :
          docs[call[r].key][f] = body[r][f] \/ Superseded(r, f)

\* A deletion that overlapped no other request on its document is final: the
\* agent or swarm is gone, and the tenant disabled, until a later create (of a
\* tenant, also a patch, which always assigns the flag).
IsolatedDeletionSticks ==
  ~StoreMayFail =>
    \A r \in Reqs :
      (reply[r] = 200 /\ call[r].op = "delete" /\ Isolated(r)) =>
        IF call[r].key[1] = "tenant"
          THEN docs[call[r].key].disabled \/ Superseded(r, "disabled")
          ELSE \/ docs[call[r].key] = NoDoc
               \/ \E q \in Reqs : /\ r \in before[q] /\ Targets(q, call[r].key)
                                  /\ call[q].op = "create" /\ Written(q)

\* A patch that is alone with its document changes the fields of its body and
\* no other, and its audit entry shows exactly what it overwrote.
SoloPatchesAreExact ==
  [][\A r \in Reqs :
       (~StoreMayFail /\ pc[r] = "write" /\ pc'[r] = "record" /\ Solo(r)) =>
         LET old == docs[call[r].key]
             new == docs'[call[r].key]
         IN  /\ old = prior[r]
             /\ \A f \in Fields \ Sets(r) : new[f] = old[f]
             /\ \A f \in Sets(r) : new[f] = body[r][f]]_vars

\* Every admitted request is answered, whatever fails around it.
EveryDocumentRequestAnswered ==
  \A r \in Reqs : pc[r] = "admitted" ~> pc[r] = "done"
=============================================================================
