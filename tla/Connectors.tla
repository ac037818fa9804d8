------------------------------ MODULE Connectors ------------------------------
(***************************************************************************)
(* Connector configuration: the handlers putConnector and rotateSecret     *)
(* (cmd/admin-api/handlers/connectors.go), the SecretRotator they use      *)
(* (pkg/config/secretwriter.go), and the secret store behind it.           *)
(*                                                                         *)
(* Both handlers read a whole connector document, change their copy and    *)
(* write the whole copy back, with nothing held in between.                *)
(***************************************************************************)
EXTENDS AdminRequests, Sequences

CONSTANTS
  Parts,         \* what stands between the hyphens of a name
  Tenants,       \* tenant ids named in a path, as sequences of parts
  ValidTenants,  \* those that match idPattern
  Platforms,     \* platforms named in a path, as sequences of parts
  Rates,         \* values of rate_limit_per_conv a body may carry
  BodyRefs,      \* secret refs a PUT body may carry
  Provisioned,   \* secret resources that Terraform created
  WriterWired,   \* SecretRotator.Writer != nil
  InitialConns,  \* the connectors stored when the server starts serving
  InitialLatest  \* the newest version of each secret at that time

Kinds == {"signing_secret", "oauth_token"}
Refs  == [name : Seq(Parts), version : Nat]
NoRef == [name |-> <<>>, version |-> 0]

ASSUME ConnectorsAssumption ==
  /\ {"sclawion", "signing", "oauth"} \subseteq Parts
  /\ Tenants \subseteq Seq(Parts)
  /\ Platforms \subseteq Seq(Parts)
  /\ ValidTenants \subseteq Tenants
  /\ Rates \subseteq Int
  /\ NoRef \in BodyRefs
  /\ BodyRefs \subseteq Refs
  /\ WriterWired \in BOOLEAN

VARIABLES
  conns,   \* Store: <<tenant, platform>> -> ConnectorConfig, or NoDoc
  latest,  \* secret store: resource name -> number of its newest version
  doc,     \* request -> the ConnectorConfig it has in memory
  minted   \* request -> the kind it rotates and the ref AddVersion returned

connectorVars == <<conns, latest, doc, minted>>
vars == <<admins, audit, requestVars, connectorVars>>

Keys  == Tenants \X Platforms
Docs  == [rate : Int, refs : [Kinds -> Refs], by : Emails]
NoDoc == [rate |-> 0, refs |-> [k \in Kinds |-> NoRef], by |-> NoEmail]
NoMint == [kind |-> "none", ref |-> NoRef]

validPlatforms ==
  {<<"slack">>, <<"discord">>, <<"gchat">>, <<"whatsapp">>, <<"imessage">>}

\* The body of a PUT. The stored WebhookPath is always the platform's own one
\* (putConnector fills it in, ValidateConnector refuses another), so a
\* document does not carry it; what a body says still decides its fate.
\* "malformed" stands for a body that readJSON refuses.
Bodies == [path : {"", "own", "other", "malformed"}, rate : Rates,
           refs : [Kinds -> BodyRefs]]

\* Mutant: any platform will do.
ValidateConnector_AnyPlatform(key, body) ==
  /\ key[1] \in ValidTenants
  /\ body.path \in {"", "own"}
  /\ body.rate \in 0..600

ValidateConnector(key, body) ==
  /\ key[1] \in ValidTenants
  /\ key[2] \in validPlatforms
  /\ body.path \in {"", "own"}
  /\ body.rate \in 0..600

secretSlot(kind) == IF kind = "signing_secret" THEN "signing" ELSE "oauth"

\* "sclawion-<tenant>-<platform>-<slot>", as its hyphen-separated parts.
SecretNamer(key, kind) ==
  <<"sclawion">> \o key[1] \o key[2] \o <<secretSlot(kind)>>

SecretNames == {SecretNamer(key, kind) : key \in Keys, kind \in Kinds}

\* What GetConnector may return: the handlers treat an error as an absence.
GetConnector(key) == {conns[key]} \cup (IF StoreMayFail THEN {NoDoc} ELSE {})

\* Mutant: a rotation goes on with an empty document when there is none.
Found_Creates(key) == GetConnector(key)

Found(key) == GetConnector(key) \ {NoDoc}

\* Mutant: the refs of the body win over the stored ones.
KeepRefs_Body(in, existing) == in.refs

\* "Preserve existing secret refs across non-secret PUTs."
KeepRefs(in, existing) == IF existing = NoDoc THEN in.refs ELSE existing.refs

\* Mutant: the two cases of the switch assign each other's field.
PointSlot_Swapped(d, m) ==
  [d EXCEPT !.refs[CHOOSE k \in Kinds : k # m.kind] = m.ref]

PointSlot(d, m) == [d EXCEPT !.refs[m.kind] = m.ref]

\* What an earlier server left behind: valid connectors, with refs that came in
\* a body or point at an existing version of the connector's own secret.
ASSUME InitialAssumption ==
  /\ InitialConns \in [Keys -> Docs \cup {NoDoc}]
  /\ InitialLatest \in [SecretNames -> Nat]
  /\ \A key \in Keys : InitialConns[key] # NoDoc =>
       /\ key[1] \in ValidTenants /\ key[2] \in validPlatforms
       /\ InitialConns[key].rate \in 0..600
       /\ \A kind \in Kinds :
            LET ref == InitialConns[key].refs[kind]
            IN  \/ ref \in BodyRefs
                \/ /\ ref.name = SecretNamer(key, kind)
                   /\ ref.version \in 1..InitialLatest[ref.name]

-----------------------------------------------------------------------------
Init ==
  /\ InitRequests
  /\ conns = InitialConns
  /\ latest = InitialLatest
  /\ doc = [r \in Reqs |-> NoDoc]
  /\ minted = [r \in Reqs |-> NoMint]

Arrive(r) ==
  /\ \E jwt \in Emails \cup {NoEmail} :
       \/ \E op \in {"put", "rotate"}, key \in Keys :
            Admit(r, jwt, [op |-> op, key |-> key])
       \/ Refuse(r, jwt)
  /\ UNCHANGED connectorVars

\* putConnector: decode, validate, and look for a document to keep refs from.
PutRead(r) ==
  /\ At(r, "put", "admitted")
  /\ \E in \in Bodies, existing \in GetConnector(call[r].key) :
       /\ ValidateConnector(call[r].key, in)
       /\ doc' = [doc EXCEPT
            ![r] = [rate |-> in.rate, refs |-> KeepRefs(in, existing),
                    by |-> caller[r].email]]
  /\ Goto(r, "write")
  /\ UNCHANGED <<admins, audit, conns, latest, minted>>

PutInvalid(r) ==
  /\ At(r, "put", "admitted")
  /\ \E in \in Bodies : ~ValidateConnector(call[r].key, in)
  /\ Answer(r, 400)
  /\ UNCHANGED <<admins, audit, connectorVars>>

\* rotateSecret and AddVersion: the secret gains a version before anything
\* is known of the connector.
RotateAddVersion(r) ==
  /\ At(r, "rotate", "admitted")
  /\ WriterWired
  /\ \E kind \in Kinds :
       LET name == SecretNamer(call[r].key, kind)
       IN  /\ name \in Provisioned
           /\ latest' = [latest EXCEPT ![name] = @ + 1]
           /\ minted' = [minted EXCEPT
                ![r] = [kind |-> kind,
                        ref |-> [name |-> name, version |-> latest[name] + 1]]]
  /\ Goto(r, "read")
  /\ UNCHANGED <<admins, audit, conns, doc>>

\* The refusals before AddVersion: an unknown kind, an empty value or a body
\* that does not decode (400), no writer (503).
RotateInvalid(r) ==
  /\ At(r, "rotate", "admitted")
  /\ \E status \in {400} \cup (IF WriterWired THEN {} ELSE {503}) :
       Answer(r, status)
  /\ UNCHANGED <<admins, audit, connectorVars>>

\* AddVersion returns an error: the resource does not exist (409), or the
\* call failed (500), in which case the version may exist all the same.
RotateAddVersionFails(r) ==
  /\ At(r, "rotate", "admitted")
  /\ WriterWired
  /\ \E kind \in Kinds :
       LET name == SecretNamer(call[r].key, kind)
       IN  IF name \notin Provisioned
             THEN Answer(r, 409) /\ UNCHANGED latest
             ELSE /\ Answer(r, 500)
                  /\ latest' \in {latest, [latest EXCEPT ![name] = @ + 1]}
  /\ UNCHANGED <<admins, audit, conns, doc, minted>>

\* Rotate: read the document and point the slot of the kind at the new version.
RotateRead(r) ==
  /\ At(r, "rotate", "read")
  /\ \E existing \in Found(call[r].key) :
       doc' = [doc EXCEPT ![r] = PointSlot(existing, minted[r])]
  /\ Goto(r, "write")
  /\ UNCHANGED <<admins, audit, conns, latest, minted>>

\* Mutant: the read is repeated until the connector exists.
RotateReadFails_Retries(r) ==
  /\ At(r, "rotate", "read")
  /\ NoDoc \in GetConnector(call[r].key)
  /\ Goto(r, "read")
  /\ UNCHANGED <<admins, audit, connectorVars>>

\* Rotate is not a connector creator: an absence is answered 404, any other
\* error 500, and the new version stays behind.
RotateReadFails(r) ==
  /\ At(r, "rotate", "read")
  /\ \E status \in (IF conns[call[r].key] = NoDoc THEN {404} ELSE {})
                  \cup (IF StoreMayFail THEN {500} ELSE {}) :
       Answer(r, status)
  /\ UNCHANGED <<admins, audit, connectorVars>>

\* PutConnector, the last Store write of both handlers.
Write(r) ==
  /\ pc[r] = "write"
  /\ conns' = [conns EXCEPT ![call[r].key] = doc[r]]
  /\ Goto(r, "record")
  /\ UNCHANGED <<admins, audit, latest, doc, minted>>

WriteFails(r) ==
  /\ pc[r] = "write"
  /\ StoreMayFail
  /\ Answer(r, 500)
  /\ UNCHANGED <<admins, audit, connectorVars>>

PutRecord(r) ==
  /\ call[r].op = "put"
  /\ Record(r, Entry(r, "connector.put", call[r].key, doc[r]))
  /\ UNCHANGED connectorVars

RotateRecord(r) ==
  /\ call[r].op = "rotate"
  /\ Record(r, Entry(r, "connector.rotate_secret", call[r].key,
                     [kind |-> minted[r].kind, version |-> minted[r].ref.version]))
  /\ UNCHANGED connectorVars

Put(r)    == PutRead(r) \/ PutInvalid(r) \/ PutRecord(r)
Rotate(r) == \/ RotateAddVersion(r) \/ RotateInvalid(r) \/ RotateAddVersionFails(r)
             \/ RotateRead(r) \/ RotateReadFails(r) \/ RotateRecord(r)

\* The handler goroutine of an admitted request takes its next step.
Step(r) == Put(r) \/ Rotate(r) \/ Write(r) \/ WriteFails(r)

Next == \E r \in Reqs : Arrive(r) \/ Step(r)

Spec == Init /\ [][Next]_vars

\* net/http runs each request in its own goroutine, which the Go scheduler does
\* not starve; clients owe nothing, so Arrive is not fair.
Fairness == \A r \in Reqs : WF_vars(Step(r))

FairSpec == Spec /\ Fairness

-----------------------------------------------------------------------------
(***************************************************************************)
(* Properties                                                              *)
(***************************************************************************)

Targets(r, key) == call[r] # NoCall /\ call[r].key = key

\* r rotates the slot of this kind of this connector, and minted the ref.
Rotates(r, key, kind, ref) ==
  /\ Targets(r, key)
  /\ call[r].op = "rotate"
  /\ minted[r] = [kind |-> kind, ref |-> ref]

\* r was alone with its connector from its admission until now.
Solo(r) ==
  \A q \in Reqs \ {r} : Targets(q, call[r].key) => q \in before[r]

\* r was alone with its connector from its admission to its reply.
Isolated(r) ==
  \A q \in Reqs \ {r} : Targets(q, call[r].key) => Apart(q, r)

\* Type correctness: every variable of the request pipeline, of the store and
\* of the secret store has its type, and a stored document has an author.
TypeOK ==
  /\ RequestsTypeOK
  /\ pc \in [Reqs -> {"new", "admitted", "read", "write", "record", "done"}]
  /\ call \in [Reqs -> [op : {"put", "rotate"}, key : Keys] \cup {NoCall}]
  /\ conns \in [Keys -> Docs \cup {NoDoc}]
  /\ latest \in [SecretNames -> Nat]
  /\ doc \in [Reqs -> Docs \cup {NoDoc}]
  /\ minted \in [Reqs -> [kind : Kinds, ref : Refs] \cup {NoMint}]

\* r is a PUT that may have set the refs of this connector: when it was admitted
\* nobody could know that there was a connector, for there was none at first and
\* no request on it had succeeded. (With a Store whose reads fail, any PUT may.)
MaySetRefs(r, key) ==
  /\ Targets(r, key) /\ call[r].op = "put"
  /\ ~StoreMayFail =>
       /\ InitialConns[key] = NoDoc
       /\ \A q \in before[r] : ~(Targets(q, key) /\ reply[q] = 200)

\* r wrote a document with this ref, which its body brought.
Brings(r, key, kind, ref) ==
  /\ MaySetRefs(r, key) /\ Written(r)
  /\ ref \in BodyRefs /\ doc[r].refs[kind] = ref

\* Whatever the interleaving of PUTs, rotations and failures, a ref in a stored
\* connector that was not there from the start was brought by a PUT of that very
\* connector, admitted before any request on it had succeeded ("Preserve
\* existing secret refs", connectors.go:51: the refs of a later body are
\* ignored), or names the connector's own secret for that very kind at a version
\* that exists, minted by a rotation of that slot that has written ("SecretRef
\* points at a specific Secret Manager version", pkg/secrets/writer.go): no
\* rotation shows before it commits, and a failed one never does.
RefsGenuine ==
  \A key \in Keys, kind \in Kinds :
    LET ref == conns[key].refs[kind]
    IN  \/ ref = InitialConns[key].refs[kind]
        \/ \E r \in Reqs : Brings(r, key, kind, ref)
        \/ /\ ref.name = SecretNamer(key, kind)
           /\ ref.version \in 1..latest[ref.name]
           /\ \E r \in Reqs : Rotates(r, key, kind, ref) /\ Written(r)

\* Two stored connectors never share a secret: SecretNamer joins tenant and
\* platform with hyphens (secretwriter.go:14-16), which both may contain, and
\* only what ValidateConnector lets through keeps the joined names apart.
SecretsAreNotShared ==
  \A key, other \in Keys, kind, slot \in Kinds :
    (/\ conns[key] # NoDoc /\ conns[other] # NoDoc
     /\ SecretNamer(key, kind) = SecretNamer(other, slot))
    => key = other /\ kind = slot

\* The audit log explains the store (types.go: an entry "is written for every
\* mutating call"): what the server did not find there it can account for. The
\* settings and author of each stored connector are those of an audited PUT of
\* it, and each of its refs is that of an audited PUT that may set it or of an
\* audited rotation of it, or the request is about to be recorded. In particular
\* a rotation never brings a connector into being. A Store whose PutAudit fails
\* loses entries, since Record drops the error.
AuditExplainsStore ==
  ~StoreMayFail =>
    \A key \in Keys : conns[key] # NoDoc =>
      /\ \/ /\ conns[key].rate = InitialConns[key].rate
            /\ conns[key].by = InitialConns[key].by
         \/ \E r \in Reqs :
              /\ Targets(r, key) /\ call[r].op = "put"
              /\ doc[r].rate = conns[key].rate /\ doc[r].by = conns[key].by
              /\ \/ pc[r] = "record"
                 \/ Entry(r, "connector.put", key, doc[r]) \in audit
      /\ \A kind \in Kinds :
           LET ref == conns[key].refs[kind]
           IN  \/ ref = InitialConns[key].refs[kind]
               \/ \E r \in Reqs :
                    /\ Brings(r, key, kind, ref)
                    /\ \/ pc[r] = "record"
                       \/ Entry(r, "connector.put", key, doc[r]) \in audit
               \/ \E r \in Reqs :
                    /\ Rotates(r, key, kind, ref)
                    /\ \/ pc[r] = "record"
                       \/ Entry(r, "connector.rotate_secret", key,
                                [kind |-> kind, version |-> ref.version]) \in audit

\* A rotation that overlapped no other request on its connector sticks: once
\* acknowledged, the connector points at that version or at a newer one for
\* ever, even if later PUTs and rotations race with each other.
IsolatedRotationSticks ==
  ~StoreMayFail =>
    \A r \in Reqs :
      (/\ reply[r] = 200
       /\ call[r].op = "rotate"
       /\ Isolated(r))
      => LET ref == conns[call[r].key].refs[minted[r].kind]
         IN  /\ ref.name = minted[r].ref.name
             /\ ref.version >= minted[r].ref.version

\* A request that is alone with its connector writes exactly what it promises:
\* a PUT leaves the refs of an existing connector as they are
\* (connectors.go:33-35), a rotation changes its own slot and nothing else.
SoloWritesAreExact ==
  [][\A r \in Reqs :
       (~StoreMayFail /\ pc[r] = "write" /\ pc'[r] = "record" /\ Solo(r)) =>
         LET old == conns[call[r].key]
             new == conns'[call[r].key]
         IN  IF call[r].op = "put"
               THEN old # NoDoc => new.refs = old.refs
               ELSE new = PointSlot(old, minted[r])]_vars

\* Every admitted request is answered, whatever fails around it.
EveryRequestAnswered ==
  \A r \in Reqs : pc[r] = "admitted" ~> pc[r] = "done"

-----------------------------------------------------------------------------
(***************************************************************************)
(* What the documentation says, and concurrent or failing calls refute     *)
(***************************************************************************)

\* An acknowledged rotation is in force until a newer one is: "Rotate ...
\* updates the connector doc's SecretRef to point at the new version"
\* (secretwriter.go:43-44) and "Secret refs are preserved" by a PUT
\* (connectors.go:33-35).
RotationSticks ==
  \A r \in Reqs :
    (reply[r] = 200 /\ call[r].op = "rotate") =>
      LET ref == conns[call[r].key].refs[minted[r].kind]
      IN  /\ ref.name = minted[r].ref.name
          /\ ref.version >= minted[r].ref.version

\* "the audit trail captures the version bump" (docs/INSTALL.md:180-181): a
\* rotation that has been answered and added a version has an audit entry.
VersionBumpAudited ==
  \A r \in Reqs :
    (pc[r] = "done" /\ minted[r] # NoMint) => \E e \in audit : e.id = r
=============================================================================
