--------------------------- MODULE ConnectorsProofs ---------------------------
(***************************************************************************)
(* Proofs about Connectors, for any set of requests, tenants, platforms,   *)
(* bodies and secrets.                                                     *)
(***************************************************************************)
EXTENDS Connectors, SequenceTheorems, TLAPS

USE DEF requestVars, connectorVars

-----------------------------------------------------------------------------
(***************************************************************************)
(* Lemmas about the operators                                              *)
(***************************************************************************)

\* The name SecretNamer derives is a sequence of strings.
LEMMA SecretNamerType ==
  ASSUME NEW key \in Keys, NEW kind \in Kinds
  PROVE  /\ SecretNamer(key, kind) \in Seq(Parts)
         /\ SecretNamer(key, kind) \in SecretNames
<1>1. key[1] \in Seq(Parts) /\ key[2] \in Seq(Parts)
  BY ConnectorsAssumption DEF Keys
<1>2. <<"sclawion">> \in Seq(Parts) /\ <<secretSlot(kind)>> \in Seq(Parts)
  BY ConnectorsAssumption DEF secretSlot
<1>3. SecretNamer(key, kind) \in Seq(Parts)
  BY <1>1, <1>2 DEF SecretNamer
<1>4. SecretNamer(key, kind) \in SecretNames
  BY DEF SecretNames
<1> QED BY <1>3, <1>4

\* A name made of a first part, a middle and two last parts.
Joined(x, t, p, a) == <<x>> \o t \o <<p>> \o <<a>>

\* The places of the parts in a joined name.
HasParts(n, t, p, a) ==
  /\ Len(n) = Len(t) + 3 /\ n[Len(t) + 2] = p /\ n[Len(t) + 3] = a
  /\ \A i \in 1..Len(t) : n[i + 1] = t[i]

\* A joined name has its parts in their places.
LEMMA JoinedParts ==
  ASSUME NEW S, NEW x \in S, NEW t \in Seq(S), NEW p \in S, NEW a \in S
  PROVE  HasParts(Joined(x, t, p, a), t, p, a)
<1> DEFINE c == <<x>> \o t
           d == c \o <<p>>
<1>1. c \in Seq(S) /\ Len(c) = Len(t) + 1 /\ \A i \in 1..Len(t) : c[i + 1] = t[i]
  OBVIOUS
<1>2. Len(t) \in Nat
  OBVIOUS
<1>3. Joined(x, t, p, a) = d \o <<a>>
  BY DEF Joined
<1> HIDE DEF c
<1>4. /\ d \in Seq(S) /\ Len(d) = Len(c) + 1 /\ d[Len(c) + 1] = p
      /\ \A i \in 1..Len(c) : d[i] = c[i]
  BY <1>1
<1> HIDE DEF d
<1>5. /\ Len(d \o <<a>>) = Len(d) + 1 /\ (d \o <<a>>)[Len(d) + 1] = a
      /\ \A i \in 1..Len(d) : (d \o <<a>>)[i] = d[i]
  BY <1>4
<1>6. ASSUME NEW i \in 1..Len(t) PROVE (d \o <<a>>)[i + 1] = t[i]
  <2>1. i + 1 \in 1..Len(c) /\ i + 1 \in 1..Len(d)
    BY <1>1, <1>2, <1>4
  <2> QED BY <1>1, <1>4, <1>5, <2>1
<1>7. Len(t) + 2 \in 1..Len(d)
  BY <1>1, <1>2, <1>4
<1>8. HasParts(d \o <<a>>, t, p, a)
  BY <1>1, <1>2, <1>4, <1>5, <1>6, <1>7 DEF HasParts
<1> QED BY <1>3, <1>8

\* A joined name tells its parts.
LEMMA SplitName ==
  ASSUME NEW S, NEW x \in S, NEW t \in Seq(S), NEW u \in Seq(S), NEW p \in S,
         NEW o \in S, NEW a \in S, NEW b \in S, Joined(x, t, p, a) = Joined(x, u, o, b)
  PROVE  t = u /\ p = o /\ a = b
<1> DEFINE n == Joined(x, t, p, a)
           m == Joined(x, u, o, b)
<1>1. HasParts(n, t, p, a)
  BY JoinedParts
<1>2. HasParts(m, u, o, b)
  BY JoinedParts
<1>3. n = m /\ Len(t) \in Nat /\ Len(u) \in Nat
  OBVIOUS
<1> HIDE DEF n, m
<1>4. Len(t) = Len(u) /\ p = o /\ a = b
  BY <1>1, <1>2, <1>3 DEF HasParts
<1>5. \A i \in 1..Len(t) : t[i] = u[i]
  BY <1>1, <1>2, <1>3, <1>4 DEF HasParts
<1>6. t = u
  BY <1>4, <1>5, SeqEqual
<1> QED BY <1>4, <1>6

\* On the platforms there are, the joined name tells its parts: the slot is the
\* last one, the platform the one before it, the tenant what is left.
LEMMA NamesStayApart ==
  ASSUME NEW key \in Keys, NEW other \in Keys, NEW kind \in Kinds, NEW slot \in Kinds,
         key[2] \in validPlatforms, other[2] \in validPlatforms,
         SecretNamer(key, kind) = SecretNamer(other, slot)
  PROVE  key = other /\ kind = slot
<1>1. PICK p, o : key[2] = <<p>> /\ other[2] = <<o>>
  BY DEF validPlatforms
<1>2. /\ key[1] \in Seq(Parts) /\ other[1] \in Seq(Parts)
      /\ p \in Parts /\ o \in Parts
      /\ key = <<key[1], key[2]>> /\ other = <<other[1], other[2]>>
      /\ "sclawion" \in Parts /\ secretSlot(kind) \in Parts /\ secretSlot(slot) \in Parts
  <2>1. key[2] \in Seq(Parts) /\ other[2] \in Seq(Parts)
    BY ConnectorsAssumption DEF Keys
  <2> QED BY <1>1, <2>1, ConnectorsAssumption DEF Keys, secretSlot
<1>3. Joined("sclawion", key[1], p, secretSlot(kind))
        = Joined("sclawion", other[1], o, secretSlot(slot))
  BY <1>1 DEF SecretNamer, Joined
<1>4. key[1] = other[1] /\ p = o /\ secretSlot(kind) = secretSlot(slot)
  BY <1>2, <1>3, SplitName
<1>5. kind = slot
  BY <1>4 DEF secretSlot, Kinds
<1> QED BY <1>1, <1>2, <1>4, <1>5

\* Only a known owner passes IAPAuth and ownerOnly.
LEMMA OnlyOwnersPass ==
  ASSUME RequestsTypeOK, NEW jwt \in Emails \cup {NoEmail},
         AuthStatus(resolveEmail(jwt)) = 200
  PROVE  /\ resolveEmail(jwt) \in Emails
         /\ admins[resolveEmail(jwt)].role = "owner"
BY EmailsAssumption DEF AuthStatus, resolveEmail

\* A new version of one secret takes no version from any.
LEMMA Bump ==
  ASSUME NEW names, NEW l \in [names -> Nat], NEW name
  PROVE  LET m == [l EXCEPT ![name] = @ + 1]
         IN  m \in [names -> Nat] /\ \A n \in names : l[n] <= m[n]
<1> DEFINE m == [l EXCEPT ![name] = @ + 1]
<1>1. ASSUME NEW n \in names PROVE m[n] \in Nat /\ l[n] <= m[n]
  <2>1. CASE n = name
    BY <2>1
  <2>2. CASE n # name
    BY <2>2
  <2> QED BY <2>1, <2>2
<1> QED BY <1>1

\* Pointing a slot at a version yields a connector.
LEMMA PointSlotType ==
  ASSUME NEW d \in Docs, NEW m \in [kind : Kinds, ref : Refs]
  PROVE  PointSlot(d, m) \in Docs
BY DEF PointSlot, Docs

-----------------------------------------------------------------------------
(***************************************************************************)
(* What holds of one request at each step of its handler                   *)
(***************************************************************************)

Started == {"admitted", "read", "write", "record"}

\* The document of r is ready to be written, or has been.
Ready(r) == pc[r] \in {"write", "record"} \/ reply[r] = 200

ControlOf(r) ==
  /\ pc[r] = "new" => call[r] = NoCall /\ reply[r] = 0 /\ before[r] = {}
  /\ pc[r] \in Started =>
       /\ call[r] # NoCall /\ reply[r] = 0
       /\ caller[r].email \in Emails
  /\ pc[r] \in {"new", "admitted"} => minted[r] = NoMint
  /\ pc[r] = "read" => minted[r] # NoMint
  /\ reply[r] = 200 => pc[r] = "done"
  /\ Ready(r) => /\ call[r] # NoCall
                 /\ doc[r] \in Docs
                 /\ call[r].op = "rotate" => minted[r] # NoMint
  /\ minted[r] # NoMint =>
       /\ call[r] # NoCall /\ call[r].op = "rotate"
       /\ minted[r].ref.name = SecretNamer(call[r].key, minted[r].kind)
       /\ minted[r].ref.version \in 1..latest[minted[r].ref.name]
  /\ \A q \in before[r] : pc[q] = "done"

Control == \A r \in Reqs : ControlOf(r)

\* A step of r leaves every other request alone, and no secret loses a version.
LEMMA StepFrame ==
  ASSUME TypeOK, NEW r \in Reqs, Arrive(r) \/ Step(r)
  PROVE  /\ pc[r] # "done" /\ pc'[r] # "new"
         /\ \A q \in Reqs \ {r} :
              /\ pc'[q] = pc[q] /\ call'[q] = call[q] /\ caller'[q] = caller[q]
              /\ reply'[q] = reply[q] /\ before'[q] = before[q]
              /\ doc'[q] = doc[q] /\ minted'[q] = minted[q]
         /\ latest' \in [SecretNames -> Nat]
         /\ \A n \in SecretNames : latest[n] <= latest'[n]
<1> USE DEF TypeOK, RequestsTypeOK, Goto, Answer, At
<1>1. CASE Arrive(r)
  BY <1>1 DEF Arrive, Admit, Enter, Refuse
<1>2. CASE Put(r)
  BY <1>2 DEF Put, PutRead, PutInvalid, PutRecord, Record
<1>3. CASE RotateAddVersion(r)
  <2>1. PICK name : latest' = [latest EXCEPT ![name] = @ + 1]
    BY <1>3 DEF RotateAddVersion
  <2>2. latest' \in [SecretNames -> Nat] /\ \A n \in SecretNames : latest[n] <= latest'[n]
    BY <2>1, Bump
  <2> QED BY <1>3, <2>2 DEF RotateAddVersion
<1>4. CASE RotateAddVersionFails(r)
  <2>1. PICK name : latest' = latest \/ latest' = [latest EXCEPT ![name] = @ + 1]
    BY <1>4 DEF RotateAddVersionFails
  <2>2. latest' \in [SecretNames -> Nat] /\ \A n \in SecretNames : latest[n] <= latest'[n]
    BY <2>1, Bump
  <2> QED BY <1>4, <2>2 DEF RotateAddVersionFails
<1>5. CASE RotateInvalid(r) \/ RotateRead(r) \/ RotateReadFails(r) \/ RotateRecord(r)
  BY <1>5 DEF RotateInvalid, RotateRead, RotateReadFails, RotateRecord, Record
<1>6. CASE Write(r) \/ WriteFails(r)
  BY <1>6 DEF Write, WriteFails
<1> QED BY <1>1, <1>2, <1>3, <1>4, <1>5, <1>6 DEF Step, Rotate

\* So what held of another request still holds, if the request moves on.
LEMMA OthersKeepControl ==
  ASSUME TypeOK, Control, NEW r \in Reqs, Arrive(r) \/ Step(r), ControlOf(r)'
  PROVE  Control'
<1> SUFFICES ASSUME NEW q \in Reqs, q # r
             PROVE  ControlOf(q)'
  BY DEF Control
<1>1. /\ pc'[q] = pc[q] /\ call'[q] = call[q] /\ caller'[q] = caller[q]
      /\ reply'[q] = reply[q] /\ before'[q] = before[q]
      /\ doc'[q] = doc[q] /\ minted'[q] = minted[q]
  BY StepFrame
<1>2. ControlOf(q)
  BY DEF Control
<1>3. \A s \in before[q] : s \in Reqs /\ pc[s] = "done"
  BY <1>2 DEF ControlOf, TypeOK, RequestsTypeOK
<1>4. \A s \in before[q] : pc'[s] = "done"
  BY <1>3, StepFrame
<1>5. minted[q] # NoMint =>
        minted[q].ref.version \in 1..latest'[minted[q].ref.name]
  <2> SUFFICES ASSUME minted[q] # NoMint
               PROVE  minted[q].ref.version \in 1..latest'[minted[q].ref.name]
    OBVIOUS
  <2> DEFINE name == minted[q].ref.name
  <2>1. /\ call[q].key \in Keys /\ minted[q].kind \in Kinds
        /\ name = SecretNamer(call[q].key, minted[q].kind)
        /\ minted[q].ref.version \in 1..latest[name]
    BY <1>2 DEF ControlOf, TypeOK
  <2>2. name \in SecretNames
    BY <2>1, SecretNamerType
  <2>3. latest[name] <= latest'[name] /\ latest[name] \in Nat
    BY <2>2, StepFrame DEF TypeOK
  <2>4. latest'[name] \in Nat
    BY <2>2, StepFrame
  <2> QED BY <2>1, <2>3, <2>4
<1> QED BY <1>1, <1>2, <1>4, <1>5 DEF ControlOf, Ready, Started

-----------------------------------------------------------------------------
(***************************************************************************)
(* The types and the control invariant are inductive: one lemma per action *)
(***************************************************************************)

\* An arrival starts a handler, for an owner, or ends in a refusal.
LEMMA ArriveKeeps ==
  ASSUME TypeOK, Control, NEW r \in Reqs, Arrive(r)
  PROVE  TypeOK' /\ ControlOf(r)'
<1> USE DEF TypeOK, RequestsTypeOK, Goto, Answer, At, Statuses
<1>1. PICK jwt \in Emails \cup {NoEmail} :
         \/ \E op \in {"put", "rotate"}, key \in Keys :
              Admit(r, jwt, [op |-> op, key |-> key])
         \/ Refuse(r, jwt)
  BY DEF Arrive
<1>2. UNCHANGED connectorVars
  BY DEF Arrive
<1>3. ControlOf(r) /\ minted[r] = NoMint
  BY <1>1 DEF Control, ControlOf, Admit, Enter, Refuse
<1>4. ASSUME NEW op \in {"put", "rotate"}, NEW key \in Keys,
             Admit(r, jwt, [op |-> op, key |-> key])
      PROVE  TypeOK' /\ ControlOf(r)'
  <2>1. /\ resolveEmail(jwt) \in Emails
        /\ admins[resolveEmail(jwt)].role = "owner"
    BY <1>4, OnlyOwnersPass DEF Admit, Enter
  <2>2. caller' \in [Reqs -> Callers]
    BY <1>4, <2>1 DEF Admit, Enter, Callers, Roles
  <2>3. before' \in [Reqs -> SUBSET Reqs]
    BY <1>4 DEF Admit, Enter, Answered
  <2>4. TypeOK'
    BY <1>2, <1>4, <2>2, <2>3 DEF Admit, Enter
  <2>5. ControlOf(r)'
    BY <1>2, <1>3, <1>4, <2>1
    DEF Admit, Enter, ControlOf, Started, Ready, Answered, NoCall
  <2> QED BY <2>4, <2>5
<1>5. CASE Refuse(r, jwt)
  <2>1. TypeOK'
    BY <1>2, <1>5 DEF Refuse, AuthStatus
  <2>2. ControlOf(r)'
    BY <1>2, <1>3, <1>5 DEF Refuse, AuthStatus, ControlOf, Started, Ready
  <2> QED BY <2>1, <2>2
<1> QED BY <1>1, <1>4, <1>5

\* A PUT reads the connector and prepares its document.
LEMMA PutReadKeeps ==
  ASSUME TypeOK, Control, NEW r \in Reqs, PutRead(r)
  PROVE  TypeOK' /\ ControlOf(r)'
<1> USE DEF TypeOK, RequestsTypeOK, Goto, At
<1>1. PICK in \in Bodies, existing \in GetConnector(call[r].key) :
        doc' = [doc EXCEPT ![r] = [rate |-> in.rate, refs |-> KeepRefs(in, existing),
                                   by |-> caller[r].email]]
  BY DEF PutRead
<1>2. ControlOf(r) /\ call[r].key \in Keys /\ caller[r].email \in Emails
  BY DEF PutRead, Control, ControlOf, Started
<1>3. existing \in Docs \cup {NoDoc}
  BY <1>2 DEF GetConnector
<1>4. in.rate \in Int /\ in.refs \in [Kinds -> Refs]
  BY ConnectorsAssumption DEF Bodies
<1>5. KeepRefs(in, existing) \in [Kinds -> Refs]
  BY <1>3, <1>4 DEF KeepRefs, Docs
<1>6. doc'[r] \in Docs /\ doc' \in [Reqs -> Docs \cup {NoDoc}]
  BY <1>1, <1>2, <1>4, <1>5 DEF Docs
<1>7. TypeOK'
  BY <1>6 DEF PutRead
<1>8. ControlOf(r)'
  BY <1>2, <1>6 DEF PutRead, ControlOf, Started, Ready
<1> QED BY <1>7, <1>8

\* A rotation adds a version of its secret.
LEMMA AddVersionKeeps ==
  ASSUME TypeOK, Control, NEW r \in Reqs, RotateAddVersion(r)
  PROVE  TypeOK' /\ ControlOf(r)'
<1> USE DEF TypeOK, RequestsTypeOK, Goto, At
<1>1. PICK kind \in Kinds :
        LET name == SecretNamer(call[r].key, kind)
        IN  /\ latest' = [latest EXCEPT ![name] = @ + 1]
            /\ minted' = [minted EXCEPT
                 ![r] = [kind |-> kind,
                         ref |-> [name |-> name, version |-> latest[name] + 1]]]
  BY DEF RotateAddVersion
<1> DEFINE name == SecretNamer(call[r].key, kind)
<1>2. ControlOf(r) /\ call[r].key \in Keys
  BY DEF RotateAddVersion, Control, ControlOf, Started
<1>3. name \in Seq(Parts) /\ name \in SecretNames
  BY <1>2, SecretNamerType
<1>4. latest' \in [SecretNames -> Nat] /\ latest'[name] = latest[name] + 1
  BY <1>1, <1>3
<1>5. minted'[r] = [kind |-> kind, ref |-> [name |-> name, version |-> latest[name] + 1]]
  BY <1>1
<1>6. minted' \in [Reqs -> [kind : Kinds, ref : Refs] \cup {NoMint}]
  <2>1. [name |-> name, version |-> latest[name] + 1] \in Refs
    BY <1>3 DEF Refs
  <2> QED BY <1>1, <2>1
<1>7. minted'[r] # NoMint
  BY <1>5 DEF NoMint, Kinds
<1>8. TypeOK'
  BY <1>4, <1>6 DEF RotateAddVersion
<1>9. ControlOf(r)'
  <2>1. minted'[r].ref.version \in 1..latest'[minted'[r].ref.name]
    BY <1>3, <1>4, <1>5
  <2> QED
    BY <1>2, <1>5, <1>7, <2>1 DEF RotateAddVersion, ControlOf, Started, Ready
<1> QED BY <1>8, <1>9

\* A rotation reads the connector and points its slot at the version.
LEMMA RotateReadKeeps ==
  ASSUME TypeOK, Control, NEW r \in Reqs, RotateRead(r)
  PROVE  TypeOK' /\ ControlOf(r)'
<1> USE DEF TypeOK, RequestsTypeOK, Goto, At
<1>1. PICK existing \in Found(call[r].key) :
        doc' = [doc EXCEPT ![r] = PointSlot(existing, minted[r])]
  BY DEF RotateRead
<1>2. ControlOf(r) /\ call[r].key \in Keys /\ minted[r] \in [kind : Kinds, ref : Refs]
  BY DEF RotateRead, Control, ControlOf, Started
<1>3. existing \in Docs
  BY <1>1, <1>2 DEF Found, GetConnector
<1>4. doc'[r] \in Docs /\ doc' \in [Reqs -> Docs \cup {NoDoc}]
  BY <1>1, <1>2, <1>3, PointSlotType
<1>5. TypeOK'
  BY <1>4 DEF RotateRead
<1>6. ControlOf(r)'
  BY <1>2, <1>4 DEF RotateRead, ControlOf, Started, Ready
<1> QED BY <1>5, <1>6

\* A write stores the document of the request.
LEMMA WriteKeeps ==
  ASSUME TypeOK, Control, NEW r \in Reqs, Write(r)
  PROVE  TypeOK' /\ ControlOf(r)'
<1> USE DEF TypeOK, RequestsTypeOK, Goto
<1>1. ControlOf(r) /\ call[r].key \in Keys
  BY DEF Write, Control, ControlOf, Started
<1>2. TypeOK'
  BY <1>1 DEF Write
<1>3. ControlOf(r)'
  BY <1>1 DEF Write, ControlOf, Started, Ready
<1> QED BY <1>2, <1>3

\* The steps that answer with an error.
Declines(r) == \/ PutInvalid(r) \/ RotateInvalid(r) \/ RotateAddVersionFails(r)
               \/ RotateReadFails(r) \/ WriteFails(r)

\* Refusals and failures change no document.
LEMMA DeclinesKeep ==
  ASSUME TypeOK, Control, NEW r \in Reqs, Declines(r)
  PROVE  TypeOK' /\ ControlOf(r)'
<1> USE DEF Declines, PutInvalid, RotateInvalid, RotateAddVersionFails, RotateReadFails,
            WriteFails
<1>1. PICK status \in {400, 404, 409, 500, 503} : Answer(r, status)
  OBVIOUS
<1>2. ControlOf(r) /\ pc[r] \in Started
  BY DEF Control, Started, At
<1>3. latest' \in [SecretNames -> Nat]
  BY DEF TypeOK
<1>4. UNCHANGED <<admins, audit, conns, doc, minted>>
  OBVIOUS
<1>5. TypeOK'
  BY <1>1, <1>3, <1>4 DEF TypeOK, RequestsTypeOK, Answer, Statuses
<1>6. minted[r] # NoMint => UNCHANGED latest
  BY <1>2 DEF ControlOf, At
<1>7. ControlOf(r)'
  BY <1>1, <1>2, <1>4, <1>6
  DEF ControlOf, Answer, Started, Ready, TypeOK, RequestsTypeOK
<1> QED BY <1>5, <1>7

\* The record adds an entry, or drops it, and ends the request.
LEMMA RecordKeeps ==
  ASSUME TypeOK, Control, NEW r \in Reqs, PutRecord(r) \/ RotateRecord(r)
  PROVE  TypeOK' /\ ControlOf(r)'
<1> USE DEF PutRecord, RotateRecord, Record, Answer
<1>1. ControlOf(r) /\ pc[r] = "record"
  BY DEF Control
<1>2. TypeOK'
  BY DEF TypeOK, RequestsTypeOK, Statuses
<1>3. ControlOf(r)'
  BY <1>1 DEF ControlOf, Started, Ready, TypeOK, RequestsTypeOK
<1> QED BY <1>2, <1>3

-----------------------------------------------------------------------------
\* So every step of a handler keeps the types and the control.
LEMMA StepKeeps ==
  ASSUME TypeOK, Control, NEW r \in Reqs, Arrive(r) \/ Step(r)
  PROVE  TypeOK' /\ Control'
<1>1. TypeOK' /\ ControlOf(r)'
  BY ArriveKeeps, PutReadKeeps, AddVersionKeeps, RotateReadKeeps, WriteKeeps,
     DeclinesKeep, RecordKeeps DEF Step, Put, Rotate, Declines
<1> QED BY <1>1, OthersKeepControl

\* The types and the control hold in the beginning.
LEMMA InitKeeps == Init => TypeOK /\ Control
<1> SUFFICES ASSUME Init PROVE TypeOK /\ Control
  OBVIOUS
<1> USE DEF Init, InitRequests
<1>1. RequestsTypeOK
  BY EmailsAssumption DEF RequestsTypeOK, Callers, Statuses
<1>2. TypeOK
  <2>1. conns \in [Keys -> Docs \cup {NoDoc}] /\ latest \in [SecretNames -> Nat]
    BY InitialAssumption
  <2> QED BY <1>1, <2>1 DEF TypeOK
<1>3. ASSUME NEW r \in Reqs PROVE ControlOf(r)
  <2>1. /\ pc[r] = "new" /\ call[r] = NoCall /\ reply[r] = 0
        /\ before[r] = {} /\ minted[r] = NoMint
    OBVIOUS
  <2> QED BY <2>1 DEF ControlOf, Started, Ready
<1> QED BY <1>2, <1>3 DEF Control

\* Every variable keeps its type, for every instance (TypeOK).
THEOREM TypeCorrect == Spec => []TypeOK
<1>1. TypeOK /\ Control /\ [Next]_vars => (TypeOK /\ Control)'
  <2> SUFFICES ASSUME TypeOK, Control, [Next]_vars PROVE (TypeOK /\ Control)'
    OBVIOUS
  <2>1. CASE Next
    BY <2>1, StepKeeps DEF Next
  <2>2. CASE UNCHANGED vars
    BY <2>2 DEF vars, TypeOK, RequestsTypeOK, Control, ControlOf, Started, Ready
  <2> QED BY <2>1, <2>2
<1> QED BY InitKeeps, <1>1, PTL DEF Spec

-----------------------------------------------------------------------------
(***************************************************************************)
(* Where the stored documents come from                                    *)
(***************************************************************************)

\* The settings of d were there from the start, or a PUT wrote them that is
\* recorded, or about to be.
PutOf(key, d) ==
  \/ d.rate = InitialConns[key].rate /\ d.by = InitialConns[key].by
  \/ \E q \in Reqs :
       /\ Targets(q, key) /\ call[q].op = "put" /\ Written(q)
       /\ doc[q].rate = d.rate /\ doc[q].by = d.by
       /\ \/ StoreMayFail
          \/ pc[q] = "record"
          \/ Entry(q, "connector.put", key, doc[q]) \in audit

\* A recorded PUT, or one about to be, brought the ref.
BodyOf(key, kind, ref) ==
  \E q \in Reqs :
    /\ Brings(q, key, kind, ref)
    /\ \/ StoreMayFail
       \/ pc[q] = "record"
       \/ Entry(q, "connector.put", key, doc[q]) \in audit

\* A recorded rotation, or one about to be, wrote the ref to this slot.
RotationOf(key, kind, ref) ==
  \E q \in Reqs :
    /\ Rotates(q, key, kind, ref) /\ Written(q)
    /\ \/ StoreMayFail
       \/ pc[q] = "record"
       \/ Entry(q, "connector.rotate_secret", key,
                [kind |-> kind, version |-> ref.version]) \in audit

Explained(key, kind, ref) ==
  \/ ref = InitialConns[key].refs[kind]
  \/ BodyOf(key, kind, ref)
  \/ RotationOf(key, kind, ref)

\* A stored document goes back to what was there first and to requests that have
\* written, and belongs to a platform there is.
StoredOf(key) ==
  conns[key] # NoDoc =>
    /\ key[2] \in validPlatforms
    /\ PutOf(key, conns[key])
    /\ \A kind \in Kinds : Explained(key, kind, conns[key].refs[kind])

\* A connector that was there, or that a request has written, is there.
PresentOf(key) ==
  (InitialConns[key] # NoDoc \/ \E q \in Reqs : Targets(q, key) /\ Written(q))
  => conns[key] # NoDoc

\* So does a document that is about to be stored, up to the change its own
\* request makes.
InFlightOf(r) ==
  pc[r] = "write" =>
    /\ call[r].key[2] \in validPlatforms
    /\ call[r].op = "rotate" => PutOf(call[r].key, doc[r])
    /\ \A kind \in Kinds :
         \/ Explained(call[r].key, kind, doc[r].refs[kind])
         \/ Rotates(r, call[r].key, kind, doc[r].refs[kind])
         \/ MaySetRefs(r, call[r].key) /\ doc[r].refs[kind] \in BodyRefs

History ==
  /\ \A key \in Keys : StoredOf(key) /\ PresentOf(key)
  /\ \A r \in Reqs : InFlightOf(r)

\* What an admitted request was called for, and when it was, never changes.
LEMMA AdmittedStays ==
  ASSUME TypeOK, Control, NEW r \in Reqs, Arrive(r) \/ Step(r),
         NEW q \in Reqs, call[q] # NoCall
  PROVE  /\ call'[q] = call[q] /\ before'[q] = before[q]
         /\ minted[q] # NoMint => minted'[q] = minted[q]
<1>1. CASE q # r
  BY <1>1, StepFrame
<1>2. CASE q = r
  <2>1. pc[r] # "new"
    BY <1>2 DEF Control, ControlOf
  <2>2. Step(r)
    BY <2>1 DEF Arrive, Admit, Enter, Refuse
  <2>3. CASE Put(r)
    BY <2>3 DEF Put, PutRead, PutInvalid, PutRecord, Record, Goto, Answer
  <2>4. CASE RotateAddVersion(r) \/ RotateAddVersionFails(r)
    <3>1. call' = call /\ before' = before
      BY <2>4 DEF RotateAddVersion, RotateAddVersionFails, Goto, Answer
    <3>2. minted[r] = NoMint
      BY <2>4 DEF RotateAddVersion, RotateAddVersionFails, Control, ControlOf, At
    <3> QED BY <1>2, <3>1, <3>2
  <2>5. CASE RotateInvalid(r) \/ RotateRead(r) \/ RotateReadFails(r) \/ RotateRecord(r)
    BY <1>2, <2>5 DEF RotateInvalid, RotateRead, RotateReadFails, RotateRecord, Record,
       Goto, Answer
  <2>6. CASE Write(r) \/ WriteFails(r)
    BY <2>6 DEF Write, WriteFails, Goto, Answer
  <2> QED BY <2>2, <2>3, <2>4, <2>5, <2>6 DEF Step, Rotate
<1> QED BY <1>1, <1>2

\* No audit entry is ever removed.
LEMMA AuditGrows ==
  ASSUME NEW r \in Reqs, Arrive(r) \/ Step(r)
  PROVE  audit \subseteq audit'
BY DEF Arrive, Admit, Enter, Refuse, Step, Put, Rotate, PutRead, PutInvalid, PutRecord,
       RotateAddVersion, RotateInvalid, RotateAddVersionFails, RotateRead,
       RotateReadFails, RotateRecord, Record, Write, WriteFails

\* The only step a request takes after its write is to record it.
LEMMA LastStep ==
  ASSUME NEW r \in Reqs, Arrive(r) \/ Step(r), pc[r] = "record"
  PROVE  PutRecord(r) \/ RotateRecord(r)
BY DEF Arrive, Admit, Enter, Refuse, Step, Put, Rotate, PutRead, PutInvalid, At,
       RotateAddVersion, RotateInvalid, RotateAddVersionFails, RotateRead,
       RotateReadFails, Write, WriteFails

\* What a request has written and what it says of it never change.
LEMMA WrittenStays ==
  ASSUME TypeOK, Control, NEW r \in Reqs, Arrive(r) \/ Step(r),
         NEW q \in Reqs, Written(q)
  PROVE  /\ Written(q)'
         /\ call'[q] = call[q] /\ caller'[q] = caller[q]
         /\ doc'[q] = doc[q] /\ minted'[q] = minted[q]
<1>1. CASE q # r
  BY <1>1, StepFrame DEF Written
<1>2. CASE q = r
  <2>1. pc[r] = "record"
    BY <1>2, StepFrame DEF Written, Control, ControlOf
  <2>2. PutRecord(r) \/ RotateRecord(r)
    BY <2>1, LastStep
  <2> QED
    BY <1>2, <2>2 DEF PutRecord, RotateRecord, Record, Answer, Written, TypeOK,
                      RequestsTypeOK
<1> QED BY <1>1, <1>2

\* An explained write stays explained: when it is recorded, the entry that the
\* explanation looks for is the one that Record appends.
LEMMA PutOfStays ==
  ASSUME TypeOK, Control, NEW r \in Reqs, Arrive(r) \/ Step(r),
         NEW key \in Keys, NEW d, PutOf(key, d)
  PROVE  PutOf(key, d)'
<1> SUFFICES ASSUME ~(d.rate = InitialConns[key].rate /\ d.by = InitialConns[key].by)
             PROVE  PutOf(key, d)'
  BY DEF PutOf
<1>1. PICK q \in Reqs :
        /\ Targets(q, key) /\ call[q].op = "put" /\ Written(q)
        /\ doc[q].rate = d.rate /\ doc[q].by = d.by
        /\ \/ StoreMayFail
           \/ pc[q] = "record"
           \/ Entry(q, "connector.put", key, doc[q]) \in audit
  BY DEF PutOf
<1>2. /\ Written(q)'
      /\ call'[q] = call[q] /\ caller'[q] = caller[q] /\ doc'[q] = doc[q]
  BY <1>1, WrittenStays
<1>3. Targets(q, key)' /\ Entry(q, "connector.put", key, doc[q])'
                          = Entry(q, "connector.put", key, doc[q])
  BY <1>1, <1>2 DEF Targets, Entry
<1>4. \/ StoreMayFail
      \/ pc'[q] = "record"
      \/ Entry(q, "connector.put", key, doc[q]) \in audit'
  <2>1. CASE q # r
    BY <1>1, <2>1, StepFrame, AuditGrows
  <2>2. CASE q = r /\ pc[q] = "record"
    <3>1. PutRecord(r)
      BY <1>1, <2>2, LastStep DEF RotateRecord
    <3> QED BY <1>1, <2>2, <3>1 DEF PutRecord, Record, Targets
  <2> QED BY <1>1, <2>1, <2>2, AuditGrows
<1> QED BY <1>1, <1>2, <1>3, <1>4 DEF PutOf

\* A rotation that explains a reference goes on doing so.
LEMMA RotationOfStays ==
  ASSUME TypeOK, Control, NEW r \in Reqs, Arrive(r) \/ Step(r),
         NEW key \in Keys, NEW kind \in Kinds, NEW ref, RotationOf(key, kind, ref)
  PROVE  RotationOf(key, kind, ref)'
<1> DEFINE E(q) == Entry(q, "connector.rotate_secret", key,
                         [kind |-> kind, version |-> ref.version])
<1>1. PICK q \in Reqs :
        /\ Rotates(q, key, kind, ref) /\ Written(q)
        /\ StoreMayFail \/ pc[q] = "record" \/ E(q) \in audit
  BY DEF RotationOf
<1>2. /\ Written(q)'
      /\ call'[q] = call[q] /\ caller'[q] = caller[q] /\ minted'[q] = minted[q]
  BY <1>1, WrittenStays
<1>3. Rotates(q, key, kind, ref)' /\ E(q)' = E(q)
  BY <1>1, <1>2 DEF Rotates, Targets, Entry
<1>4. StoreMayFail \/ pc'[q] = "record" \/ E(q) \in audit'
  <2>1. CASE q # r
    BY <1>1, <2>1, StepFrame, AuditGrows
  <2>2. CASE q = r /\ pc[q] = "record"
    <3>1. RotateRecord(r)
      BY <1>1, <2>2, LastStep DEF PutRecord, Rotates
    <3> QED BY <1>1, <2>2, <3>1 DEF RotateRecord, Record, Rotates, Targets
  <2> QED BY <1>1, <2>1, <2>2, AuditGrows
<1> QED BY <1>1, <1>2, <1>3, <1>4 DEF RotationOf

\* A request gets a document to write from one of the two reads, and the store
\* changes by one of those writes.
LEMMA DocSteps ==
  ASSUME TypeOK, NEW r \in Reqs, Arrive(r) \/ Step(r)
  PROVE  /\ pc'[r] = "write" => PutRead(r) \/ RotateRead(r)
         /\ conns' = conns \/ Write(r)
<1> USE DEF TypeOK, RequestsTypeOK, Goto, Answer, At
<1>1. CASE Arrive(r)
  BY <1>1 DEF Arrive, Admit, Enter, Refuse, AuthStatus
<1>2. CASE PutInvalid(r) \/ PutRecord(r) \/ PutRead(r)
  BY <1>2 DEF PutInvalid, PutRecord, PutRead, Record
<1>3. CASE RotateAddVersion(r) \/ RotateAddVersionFails(r) \/ RotateRead(r)
  BY <1>3 DEF RotateAddVersion, RotateAddVersionFails, RotateRead
<1>4. CASE RotateInvalid(r) \/ RotateReadFails(r) \/ RotateRecord(r)
  BY <1>4 DEF RotateInvalid, RotateReadFails, RotateRecord, Record
<1>5. CASE Write(r) \/ WriteFails(r)
  BY <1>5 DEF Write, WriteFails
<1> QED BY <1>1, <1>2, <1>3, <1>4, <1>5 DEF Step, Put, Rotate

\* The step that makes a request one that has written is its write.
LEMMA FirstWritten ==
  ASSUME TypeOK, Control, NEW r \in Reqs, Arrive(r) \/ Step(r),
         NEW q \in Reqs, ~Written(q), Written(q)'
  PROVE  q = r /\ Write(r)
<1>1. q = r
  BY StepFrame DEF Written
<1>2. Write(r)
  BY <1>1 DEF Written, Arrive, Admit, Enter, Refuse, AuthStatus, Step, Put, Rotate, PutRead,
     PutInvalid, PutRecord, RotateAddVersion, RotateInvalid, RotateAddVersionFails,
     RotateRead, RotateReadFails, RotateRecord, Record, WriteFails, Goto, Answer, TypeOK,
     RequestsTypeOK
<1> QED BY <1>1, <1>2

\* A PUT that may set the refs of a connector goes on being one: what it could
\* know when it was admitted was over by then.
LEMMA MaySetStays ==
  ASSUME TypeOK, Control, NEW r \in Reqs, Arrive(r) \/ Step(r),
         NEW key \in Keys, NEW q \in Reqs, MaySetRefs(q, key)
  PROVE  MaySetRefs(q, key)'
<1>1. call'[q] = call[q] /\ before'[q] = before[q]
  BY AdmittedStays DEF MaySetRefs, Targets
<1>2. \A s \in before[q] : call'[s] = call[s] /\ reply'[s] = reply[s]
  <2>1. \A s \in before[q] : s \in Reqs /\ pc[s] = "done"
    BY DEF Control, ControlOf, TypeOK, RequestsTypeOK
  <2> QED BY <2>1, StepFrame
<1> QED BY <1>1, <1>2 DEF MaySetRefs, Targets

\* A PUT that explains a ref goes on doing so.
LEMMA BodyOfStays ==
  ASSUME TypeOK, Control, NEW r \in Reqs, Arrive(r) \/ Step(r),
         NEW key \in Keys, NEW kind \in Kinds, NEW ref, BodyOf(key, kind, ref)
  PROVE  BodyOf(key, kind, ref)'
<1> DEFINE E(q) == Entry(q, "connector.put", key, doc[q])
<1>1. PICK q \in Reqs :
        /\ Brings(q, key, kind, ref)
        /\ StoreMayFail \/ pc[q] = "record" \/ E(q) \in audit
  BY DEF BodyOf
<1>2. /\ Written(q)'
      /\ call'[q] = call[q] /\ caller'[q] = caller[q] /\ doc'[q] = doc[q]
  BY <1>1, WrittenStays DEF Brings
<1>3. MaySetRefs(q, key)'
  BY <1>1, MaySetStays DEF Brings
<1>4. Brings(q, key, kind, ref)' /\ E(q)' = E(q)
  BY <1>1, <1>2, <1>3 DEF Brings, Entry
<1>5. StoreMayFail \/ pc'[q] = "record" \/ E(q) \in audit'
  <2>1. CASE q # r
    BY <1>1, <2>1, StepFrame, AuditGrows
  <2>2. CASE q = r /\ pc[q] = "record"
    <3>1. call[q] # NoCall /\ call[q].key = key /\ call[q].op = "put"
      BY <1>1 DEF Brings, MaySetRefs, Targets
    <3>2. PutRecord(r)
      BY <2>2, <3>1, LastStep DEF RotateRecord
    <3> QED BY <2>2, <3>1, <3>2 DEF PutRecord, Record
  <2> QED BY <1>1, <2>1, <2>2, AuditGrows
<1> QED BY <1>4, <1>5 DEF BodyOf

\* What explains a ref goes on doing so.
LEMMA ExplainedStays ==
  ASSUME TypeOK, Control, NEW r \in Reqs, Arrive(r) \/ Step(r),
         NEW key \in Keys, NEW kind \in Kinds, NEW ref, Explained(key, kind, ref)
  PROVE  Explained(key, kind, ref)'
BY RotationOfStays, BodyOfStays DEF Explained

\* A read hands on the explanations of the stored document; only the slot that
\* is being rotated is new.
LEMMA PutReadHistory ==
  ASSUME TypeOK, Control, History, NEW r \in Reqs, PutRead(r)
  PROVE  InFlightOf(r)'
<1> DEFINE key == call[r].key
<1>1. PICK in \in Bodies, existing \in GetConnector(key) :
        /\ ValidateConnector(key, in)
        /\ doc' = [doc EXCEPT ![r] = [rate |-> in.rate, refs |-> KeepRefs(in, existing),
                                      by |-> caller[r].email]]
  BY DEF PutRead
<1>2. /\ call' = call /\ call[r] # NoCall /\ call[r].op = "put" /\ key \in Keys
      /\ Arrive(r) \/ Step(r)
  BY DEF PutRead, Goto, At, Control, ControlOf, Started, TypeOK, Step, Put
<1>3. doc'[r].refs = KeepRefs(in, existing)
  BY <1>1 DEF TypeOK
<1>4. ASSUME NEW kind \in Kinds
      PROVE  \/ Explained(key, kind, doc[r].refs[kind])'
             \/ (MaySetRefs(r, key) /\ doc[r].refs[kind] \in BodyRefs)'
  <2>1. CASE existing = NoDoc
    <3>1. ~StoreMayFail => conns[key] = NoDoc
      BY <1>1, <2>1 DEF GetConnector
    <3>2. ~StoreMayFail => InitialConns[key] = NoDoc
      BY <1>2, <3>1 DEF History, PresentOf
    <3>3. \A q \in Reqs : ~StoreMayFail => ~(Targets(q, key) /\ reply[q] = 200)
      BY <1>2, <3>1 DEF History, PresentOf, Written
    <3>4. before[r] \subseteq Reqs
      BY DEF TypeOK, RequestsTypeOK
    <3>5. MaySetRefs(r, key)
      BY <1>2, <3>2, <3>3, <3>4 DEF MaySetRefs, Targets
    <3>6. MaySetRefs(r, key)'
      BY <1>2, <3>5, MaySetStays
    <3>7. doc'[r].refs[kind] \in BodyRefs
      BY <1>3, <2>1 DEF KeepRefs, Bodies
    <3> QED BY <3>6, <3>7
  <2>2. CASE existing # NoDoc
    <3>1. existing = conns[key] /\ KeepRefs(in, existing) = existing.refs
      BY <1>1, <2>2 DEF GetConnector, KeepRefs
    <3>2. Explained(key, kind, existing.refs[kind])
      BY <1>2, <2>2, <3>1 DEF History, StoredOf
    <3>3. Explained(key, kind, existing.refs[kind])'
      BY <1>2, <3>2, ExplainedStays
    <3> QED BY <1>3, <3>1, <3>3
  <2> QED BY <2>1, <2>2
<1>5. key[2] \in validPlatforms
  BY <1>1 DEF ValidateConnector
<1> QED BY <1>2, <1>4, <1>5 DEF InFlightOf

\* The document of a rotation is explained by itself and by what it read.
LEMMA RotateReadHistory ==
  ASSUME TypeOK, Control, History, NEW r \in Reqs, RotateRead(r)
  PROVE  InFlightOf(r)'
<1>1. PICK existing \in Found(call[r].key) :
        doc' = [doc EXCEPT ![r] = PointSlot(existing, minted[r])]
  BY DEF RotateRead
<1> DEFINE key == call[r].key
<1>2. /\ call' = call /\ minted' = minted /\ key'= key /\ key \in Keys
      /\ call[r] # NoCall /\ call[r].op = "rotate"
      /\ minted[r] \in [kind : Kinds, ref : Refs]
  BY DEF RotateRead, Goto, At, Control, ControlOf, Started, TypeOK
<1>3. existing = conns[key] /\ existing # NoDoc /\ existing \in Docs
  BY <1>1, <1>2 DEF Found, GetConnector, TypeOK
<1>4. doc'[r] = PointSlot(existing, minted[r])
  BY <1>1 DEF TypeOK
<1>5. /\ doc'[r].rate = existing.rate /\ doc'[r].by = existing.by
      /\ \A kind \in Kinds :
           doc'[r].refs[kind] = IF kind = minted[r].kind THEN minted[r].ref
                                ELSE existing.refs[kind]
  BY <1>2, <1>3, <1>4 DEF PointSlot, Docs
<1>6. PutOf(key, doc[r])'
  <2>1. PutOf(key, existing)
    BY <1>2, <1>3 DEF History, StoredOf
  <2>2. PutOf(key, existing)'
    BY <1>2, <2>1, PutOfStays DEF Step, Rotate
  <2> QED BY <1>5, <2>2 DEF PutOf
<1>7. ASSUME NEW kind \in Kinds
      PROVE  \/ Explained(call[r].key, kind, doc[r].refs[kind])'
             \/ Rotates(r, call[r].key, kind, doc[r].refs[kind])'
  <2>1. CASE kind = minted[r].kind
    BY <1>2, <1>5, <2>1 DEF Rotates, Targets
  <2>2. CASE kind # minted[r].kind
    <3>1. Explained(key, kind, existing.refs[kind])
      BY <1>2, <1>3 DEF History, StoredOf
    <3>2. Explained(key, kind, existing.refs[kind])'
      BY <1>2, <3>1, ExplainedStays DEF Step, Rotate
    <3> QED BY <1>5, <2>2, <3>2
  <2> QED BY <2>1, <2>2
<1>8. key[2] \in validPlatforms
  BY <1>2, <1>3 DEF History, StoredOf
<1> QED BY <1>2, <1>6, <1>7, <1>8 DEF InFlightOf

\* A write settles the account: what it stores is explained by r itself, or by
\* what explained the document that r read.
LEMMA WriteHistory ==
  ASSUME TypeOK, Control, History, NEW r \in Reqs, Write(r)
  PROVE  StoredOf(call[r].key)' /\ conns'[call[r].key] # NoDoc
<1> DEFINE key == call[r].key
<1>1. /\ conns'[key] = doc[r] /\ key \in Keys /\ call[r] # NoCall
      /\ pc[r] = "write" /\ pc'[r] = "record"
      /\ call' = call /\ doc' = doc /\ minted' = minted
  BY DEF Write, Goto, Control, ControlOf, Started, TypeOK
<1>2. Written(r)'
  BY <1>1 DEF Written
<1>3. PutOf(key, doc[r])'
  <2>1. CASE call[r].op = "put"
    BY <1>1, <1>2, <2>1 DEF PutOf, Targets
  <2>2. CASE call[r].op = "rotate"
    <3>1. PutOf(key, doc[r])
      BY <1>1, <2>2 DEF History, InFlightOf
    <3> QED BY <1>1, <3>1, PutOfStays DEF Step
  <2> QED BY <1>1, <2>1, <2>2 DEF TypeOK
<1>4. ASSUME NEW kind \in Kinds
      PROVE  Explained(key, kind, doc[r].refs[kind])'
  <2>1. CASE Explained(key, kind, doc[r].refs[kind])
    BY <1>1, <2>1, ExplainedStays DEF Step
  <2>2. CASE Rotates(r, key, kind, doc[r].refs[kind])
    BY <1>1, <1>2, <2>2 DEF Explained, RotationOf, Rotates, Targets
  <2>3. CASE MaySetRefs(r, key) /\ doc[r].refs[kind] \in BodyRefs
    <3>1. MaySetRefs(r, key)'
      BY <1>1, <2>3, MaySetStays DEF Step
    <3>2. Brings(r, key, kind, doc[r].refs[kind])'
      BY <1>1, <1>2, <2>3, <3>1 DEF Brings
    <3>3. BodyOf(key, kind, doc[r].refs[kind])'
      BY <1>1, <3>2 DEF BodyOf
    <3> QED BY <3>3 DEF Explained
  <2> QED BY <1>1, <2>1, <2>2, <2>3 DEF History, InFlightOf
<1>5. key[2] \in validPlatforms
  BY <1>1 DEF History, InFlightOf
<1>6. doc[r] # NoDoc
  BY <1>1, EmailsAssumption DEF Control, ControlOf, Ready, Docs, NoDoc
<1> QED BY <1>1, <1>3, <1>4, <1>5, <1>6 DEF StoredOf

\* History is inductive.
LEMMA HistoryKept ==
  ASSUME TypeOK, Control, History, NEW r \in Reqs, Arrive(r) \/ Step(r)
  PROVE  History'
<1>1. ASSUME NEW key \in Keys
      PROVE  StoredOf(key)'
  <2>1. CASE conns'[key] = conns[key]
    <3>1. SUFFICES ASSUME conns[key] # NoDoc
                   PROVE  /\ PutOf(key, conns[key])'
                          /\ \A kind \in Kinds :
                               Explained(key, kind, conns[key].refs[kind])'
      BY <2>1 DEF StoredOf, History
    <3>2. PutOf(key, conns[key])'
      <4>1. PutOf(key, conns[key])
        BY <3>1 DEF History, StoredOf
      <4> QED BY <2>1, <4>1, PutOfStays
    <3>3. ASSUME NEW kind \in Kinds
          PROVE  Explained(key, kind, conns[key].refs[kind])'
      <4>1. Explained(key, kind, conns[key].refs[kind])
        BY <3>1 DEF History, StoredOf
      <4> QED BY <2>1, <4>1, ExplainedStays
    <3> QED BY <3>2, <3>3
  <2>2. CASE conns'[key] # conns[key]
    <3>1. Write(r)
      BY <2>2, DocSteps
    <3>2. key = call[r].key
      BY <2>2, <3>1 DEF Write, TypeOK
    <3> QED BY <3>1, <3>2, WriteHistory DEF Write, Goto
  <2> QED BY <2>1, <2>2
<1>2. ASSUME NEW q \in Reqs
      PROVE  InFlightOf(q)'
  <2>1. CASE q = r
    BY <2>1, DocSteps, PutReadHistory, RotateReadHistory DEF InFlightOf
  <2>2. CASE q # r /\ pc[q] = "write"
    <3>1. /\ call'[q] = call[q] /\ doc'[q] = doc[q] /\ minted'[q] = minted[q]
          /\ call[q].key \in Keys
      BY <2>2, StepFrame DEF Control, ControlOf, Started, TypeOK
    <3>2. call[q].op = "rotate" => PutOf(call[q].key, doc[q])'
      BY <2>2, <3>1, PutOfStays DEF History, InFlightOf
    <3>3. \A kind \in Kinds :
            Rotates(q, call[q].key, kind, doc[q].refs[kind])
              => Rotates(q, call[q].key, kind, doc[q].refs[kind])'
      BY <3>1 DEF Rotates, Targets
    <3>4. \A kind \in Kinds :
            \/ Explained(call[q].key, kind, doc[q].refs[kind])'
            \/ Rotates(q, call[q].key, kind, doc[q].refs[kind])'
            \/ (MaySetRefs(q, call[q].key) /\ doc[q].refs[kind] \in BodyRefs)'
      <4> SUFFICES ASSUME NEW kind \in Kinds
                   PROVE  \/ Explained(call[q].key, kind, doc[q].refs[kind])'
                          \/ Rotates(q, call[q].key, kind, doc[q].refs[kind])'
                          \/ (MaySetRefs(q, call[q].key) /\ doc[q].refs[kind] \in BodyRefs)'
        OBVIOUS
      <4>1. CASE Explained(call[q].key, kind, doc[q].refs[kind])
        BY <3>1, <4>1, ExplainedStays
      <4>2. CASE Rotates(q, call[q].key, kind, doc[q].refs[kind])
        BY <3>3, <4>2
      <4>3. CASE MaySetRefs(q, call[q].key) /\ doc[q].refs[kind] \in BodyRefs
        <5>1. MaySetRefs(q, call[q].key)'
          BY <3>1, <4>3, MaySetStays
        <5> QED BY <3>1, <4>3, <5>1
      <4> QED BY <2>2, <4>1, <4>2, <4>3 DEF History, InFlightOf
    <3>5. call[q].key[2] \in validPlatforms
      BY <2>2 DEF History, InFlightOf
    <3> QED BY <3>1, <3>2, <3>4, <3>5 DEF InFlightOf
  <2>3. CASE q # r /\ pc[q] # "write"
    BY <2>3, StepFrame DEF InFlightOf
  <2> QED BY <2>1, <2>2, <2>3
<1>3. ASSUME NEW key \in Keys
      PROVE  PresentOf(key)'
  <2>1. conns[key] # NoDoc => conns'[key] # NoDoc
    <3>1. CASE Write(r)
      BY <3>1, WriteHistory DEF Write, TypeOK
    <3> QED BY <3>1, DocSteps
  <2>2. ASSUME NEW q \in Reqs, Targets(q, key)', Written(q)'
        PROVE  conns'[key] # NoDoc
    <3>1. CASE Written(q)
      BY <2>1, <2>2, <3>1, WrittenStays DEF History, PresentOf, Targets
    <3>2. CASE ~Written(q)
      <4>1. q = r /\ Write(r)
        BY <2>2, <3>2, FirstWritten
      <4>2. call[r].key = key
        BY <2>2, <4>1 DEF Write, Goto, Targets
      <4> QED BY <4>1, <4>2, WriteHistory
    <3> QED BY <3>1, <3>2
  <2> QED BY <2>1, <2>2 DEF History, PresentOf
<1> QED BY <1>1, <1>2, <1>3 DEF History

-----------------------------------------------------------------------------
(***************************************************************************)
(* What a request that is alone with its connector can rely on             *)
(***************************************************************************)

\* A rotation writes the ref it minted.
SlotOf(r) ==
  (Ready(r) /\ call[r].op = "rotate") => doc[r].refs[minted[r].kind] = minted[r].ref

\* A rotation that began after another one was answered minted a newer version.
OrderOf(q) ==
  \A r \in before[q] :
    (/\ minted[r] # NoMint /\ minted[q] # NoMint
     /\ minted[r].ref.name = minted[q].ref.name)
    => minted[r].ref.version < minted[q].ref.version

\* What a request that is alone will write still fits what is stored.
SoloOf(r) ==
  (~StoreMayFail /\ pc[r] = "write" /\ Solo(r)) =>
    LET old == conns[call[r].key]
    IN  IF call[r].op = "put" THEN old # NoDoc => doc[r].refs = old.refs
                              ELSE doc[r] = PointSlot(old, minted[r])

AtLeast(ref, m) == ref.name = m.name /\ ref.version >= m.version

Settled(r) ==
  /\ ~StoreMayFail
  /\ Written(r) /\ call[r].op = "rotate" /\ Isolated(r)

\* An isolated rotation that has written holds in the store, and in every
\* document that a later request is about to write.
SticksOf(r) ==
  Settled(r) =>
    /\ AtLeast(conns[call[r].key].refs[minted[r].kind], minted[r].ref)
    /\ \A q \in Reqs :
         (pc[q] = "write" /\ Targets(q, call[r].key) /\ r \in before[q]) =>
           AtLeast(doc[q].refs[minted[r].kind], minted[r].ref)

Alone == \A r \in Reqs : SlotOf(r) /\ OrderOf(r) /\ SoloOf(r) /\ SticksOf(r)

\* A request that is alone, or isolated, after a step was so before it.
LEMMA SoloBefore ==
  ASSUME TypeOK, Control, NEW r \in Reqs, Arrive(r) \/ Step(r),
         NEW q \in Reqs, call[q] # NoCall
  PROVE  (Solo(q)' => Solo(q)) /\ (Isolated(q)' => Isolated(q))
<1>1. call'[q] = call[q] /\ before'[q] = before[q]
  BY AdmittedStays
<1>2. ASSUME NEW s \in Reqs, Targets(s, call[q].key)
      PROVE  /\ Targets(s, call[q].key)'
             /\ before'[s] = before[s]
  BY <1>1, <1>2, AdmittedStays DEF Targets
<1> QED BY <1>1, <1>2 DEF Solo, Isolated, Apart

\* The document of a rotation goes on holding the ref it minted.
LEMMA SlotKept ==
  ASSUME TypeOK, Control, Alone, NEW r \in Reqs, Arrive(r) \/ Step(r)
  PROVE  \A q \in Reqs : SlotOf(q)'
<1> SUFFICES ASSUME NEW q \in Reqs PROVE SlotOf(q)'
  OBVIOUS
<1>1. CASE q # r
  BY <1>1, StepFrame DEF Alone, SlotOf, Ready
<1>2. CASE q = r /\ (Written(r) \/ pc[r] = "write")
  <2>1. CASE Written(r)
    BY <1>2, <2>1, WrittenStays DEF Alone, SlotOf, Ready, Written
  <2>2. CASE pc[r] = "write"
    <3>1. Write(r) \/ WriteFails(r)
      BY <2>2 DEF Arrive, Admit, Enter, Refuse, Step, Put, Rotate, PutRead, PutInvalid,
         PutRecord, RotateAddVersion, RotateInvalid, RotateAddVersionFails,
         RotateRead, RotateReadFails, RotateRecord, Record, At
    <3> QED BY <1>2, <2>2, <3>1 DEF Alone, SlotOf, Ready, Write, WriteFails, Goto, Answer
  <2> QED BY <1>2, <2>1, <2>2
<1>3. CASE q = r /\ ~Written(r) /\ pc[r] # "write"
  <2>1. SUFFICES ASSUME Ready(r)', call'[r].op = "rotate"
                 PROVE  doc'[r].refs[minted'[r].kind] = minted'[r].ref
    BY <1>3 DEF SlotOf
  <2>2. pc'[r] = "write"
    BY <1>3, <2>1 DEF Ready, Written, Arrive, Admit, Enter, Refuse, AuthStatus, Step, Put,
       Rotate, PutRead, PutInvalid, PutRecord, RotateAddVersion, RotateInvalid,
       RotateAddVersionFails, RotateRead, RotateReadFails, RotateRecord, Record,
       Write, WriteFails, Goto, Answer, TypeOK, RequestsTypeOK
  <2>3. RotateRead(r)
    BY <2>1, <2>2, DocSteps DEF PutRead, At, Goto
  <2>4. PICK existing \in Found(call[r].key) : doc'[r] = PointSlot(existing, minted[r])
    BY <2>3 DEF RotateRead, TypeOK
  <2>5. /\ minted' = minted /\ existing \in Docs
        /\ minted[r] \in [kind : Kinds, ref : Refs]
    BY <2>3, <2>4 DEF RotateRead, At, Found, GetConnector, TypeOK, Control, ControlOf, NoCall
  <2> QED BY <2>4, <2>5 DEF PointSlot, Docs
<1> QED BY <1>1, <1>2, <1>3

\* Later rotations of a slot go on having newer versions.
LEMMA OrderKept ==
  ASSUME TypeOK, Control, Alone, NEW s \in Reqs, Arrive(s) \/ Step(s)
  PROVE  \A q \in Reqs : OrderOf(q)'
<1> SUFFICES ASSUME NEW q \in Reqs, NEW r \in before'[q],
                    minted'[r] # NoMint, minted'[q] # NoMint,
                    minted'[r].ref.name = minted'[q].ref.name
             PROVE  minted'[r].ref.version < minted'[q].ref.version
  BY DEF OrderOf
<1>1. call[q] # NoCall /\ before'[q] = before[q]
  <2>1. call[q] # NoCall
    <3>1. CASE q # s
      BY <3>1, StepFrame DEF Control, ControlOf
    <3>2. CASE q = s
      <4>1. ~Arrive(s)
        BY <3>2 DEF Arrive, Admit, Enter, Refuse, Control, ControlOf
      <4> QED
        BY <3>2, <4>1 DEF Step, Put, Rotate, PutRead, PutInvalid, PutRecord,
           RotateAddVersion, RotateInvalid, RotateAddVersionFails, RotateRead,
           RotateReadFails, RotateRecord, Record, Write, WriteFails, At, Control,
           ControlOf, Started
    <3> QED BY <3>1, <3>2
  <2> QED BY <2>1, AdmittedStays
<1>2. r \in Reqs /\ pc[r] = "done" /\ r # s /\ minted'[r] = minted[r]
  <2>1. r \in Reqs /\ pc[r] = "done"
    BY <1>1 DEF Control, ControlOf, TypeOK, RequestsTypeOK
  <2> QED BY <2>1, StepFrame
<1>3. CASE minted'[q] = minted[q]
  BY <1>1, <1>2, <1>3 DEF Alone, OrderOf
<1>4. CASE minted'[q] # minted[q]
  <2>1. q = s /\ RotateAddVersion(s)
    <3>1. q = s
      BY <1>4, StepFrame
    <3> QED BY <1>4, <3>1 DEF Arrive, Step, Put, Rotate, PutRead, PutInvalid, PutRecord,
         RotateInvalid, RotateAddVersionFails, RotateRead, RotateReadFails,
         RotateRecord, Write, WriteFails
  <2>2. PICK name : minted'[q].ref = [name |-> name, version |-> latest[name] + 1]
    BY <2>1 DEF RotateAddVersion, TypeOK
  <2>3. /\ minted[r].ref.name = name
        /\ minted[r].ref.version \in 1..latest[name]
    BY <1>2, <2>2 DEF Control, ControlOf
  <2>4. latest[name] \in Nat
    BY <1>2, <2>3, SecretNamerType DEF Control, ControlOf, TypeOK
  <2> QED BY <1>2, <2>2, <2>3, <2>4
<1> QED BY <1>3, <1>4

\* A request in flight on the connector rules out that another one is alone
\* with it, and puts an isolated one in its past.
LEMMA Crowded ==
  ASSUME TypeOK, Control, NEW r \in Reqs, NEW q \in Reqs, q # r,
         pc[q] \in Started, Targets(q, call[r].key)
  PROVE  /\ ~Solo(r)
         /\ Isolated(r) => r \in before[q] /\ pc[r] = "done"
BY DEF Solo, Isolated, Apart, Control, ControlOf, Started

\* The document of a request that is alone goes on being the stored one, changed.
LEMMA SoloKept ==
  ASSUME TypeOK, Control, Alone, NEW s \in Reqs, Arrive(s) \/ Step(s)
  PROVE  \A r \in Reqs : SoloOf(r)'
<1> SUFFICES ASSUME NEW r \in Reqs, ~StoreMayFail, pc'[r] = "write", Solo(r)'
             PROVE  SoloOf(r)'
  BY DEF SoloOf
<1>1. CASE r # s
  <2>1. /\ pc[r] = "write" /\ call[r] # NoCall /\ call'[r] = call[r]
        /\ doc'[r] = doc[r] /\ minted'[r] = minted[r]
    BY <1>1, StepFrame DEF Control, ControlOf, Started
  <2>2. Solo(r)
    BY <2>1, SoloBefore
  <2>3. conns'[call[r].key] = conns[call[r].key]
    <3>1. CASE Write(s)
      <4>1. pc[s] \in Started /\ call[s] # NoCall
        BY <3>1 DEF Write, Started, Control, ControlOf
      <4>2. call[s].key # call[r].key
        BY <1>1, <2>2, <4>1, Crowded DEF Targets
      <4> QED BY <3>1, <4>2 DEF Write, TypeOK
    <3> QED BY <3>1, DocSteps
  <2> QED BY <2>1, <2>2, <2>3 DEF Alone, SoloOf
<1>2. CASE r = s
  <2>1. call' = call /\ minted' = minted /\ conns' = conns
    BY <1>2, DocSteps DEF PutRead, RotateRead, Goto
  <2>2. CASE PutRead(s)
    <3>1. call[r].op = "put"
      BY <1>2, <2>2 DEF PutRead, At
    <3>2. conns[call[r].key] # NoDoc => doc'[r].refs = conns[call[r].key].refs
      BY <1>2, <2>2 DEF PutRead, GetConnector, KeepRefs, TypeOK
    <3> QED BY <2>1, <3>1, <3>2 DEF SoloOf
  <2>3. CASE RotateRead(s)
    <3>1. call[r].op # "put"
      BY <1>2, <2>3 DEF RotateRead, At
    <3>2. doc'[r] = PointSlot(conns[call[r].key], minted[r])
      BY <1>2, <2>3 DEF RotateRead, Found, GetConnector, TypeOK
    <3>3. PointSlot(conns[call[r].key], minted[r])'
            = PointSlot(conns[call[r].key], minted[r])
      BY <2>1 DEF PointSlot
    <3> QED BY <2>1, <3>1, <3>2, <3>3 DEF SoloOf
  <2> QED BY <1>2, <2>2, <2>3, DocSteps
<1> QED BY <1>1, <1>2

\* While r stays settled, a document that a later request is about to write
\* was read when the rotation of r held, or points at a newer version.
LEMMA LaterReadSticks ==
  ASSUME TypeOK, Control, Alone, (\A q \in Reqs : OrderOf(q)'),
         NEW s \in Reqs, PutRead(s) \/ RotateRead(s),
         NEW r \in Reqs, Settled(r), call[s].key = call[r].key, r \in before[s]
  PROVE  AtLeast(doc'[s].refs[minted[r].kind], minted[r].ref)
<1> DEFINE key == call[r].key
           kind == minted[r].kind
<1>1. /\ minted[r] \in [kind : Kinds, ref : Refs]
      /\ minted[r].ref.name = SecretNamer(key, kind)
      /\ minted[r].ref.version >= 1
      /\ key \in Keys
  <2>1. Ready(r) /\ call[r].op = "rotate"
    BY DEF Settled, Ready, Written
  <2>2. call[r] # NoCall /\ minted[r] # NoMint
    BY <2>1 DEF Control, ControlOf
  <2>3. minted[r].ref.version \in 1..latest[minted[r].ref.name]
    BY <2>2 DEF Control, ControlOf
  <2>4. minted[r] \in [kind : Kinds, ref : Refs] /\ key \in Keys
    BY <2>2 DEF TypeOK
  <2>5. minted[r].ref.version \in Nat
    BY <2>4 DEF Refs
  <2> QED BY <2>2, <2>3, <2>4, <2>5 DEF Control, ControlOf
<1>2. AtLeast(conns[key].refs[kind], minted[r].ref)
  BY DEF Alone, SticksOf, Settled
<1>3. conns[key] # NoDoc
  <2> SUFFICES ASSUME conns[key] = NoDoc PROVE FALSE
    OBVIOUS
  <2>1. kind \in Kinds
    BY <1>1
  <2>2. conns[key].refs[kind] = NoRef
    BY <2>1 DEF NoDoc
  <2>3. 0 >= minted[r].ref.version
    BY <1>2, <2>2 DEF AtLeast, NoRef
  <2>4. minted[r].ref.version \in Nat
    BY <1>1 DEF Refs
  <2> QED BY <1>1, <2>3, <2>4
<1>4. CASE PutRead(s)
  <2>1. doc'[s].refs = conns[key].refs
    BY <1>3, <1>4 DEF PutRead, GetConnector, KeepRefs, TypeOK, Settled
  <2> QED BY <1>2, <2>1
<1>5. CASE RotateRead(s)
  <2>1. doc'[s] = PointSlot(conns[key], minted[s])
    BY <1>5 DEF RotateRead, Found, GetConnector, TypeOK, Settled
  <2>2. /\ minted[s] # NoMint /\ minted[s] \in [kind : Kinds, ref : Refs]
        /\ minted[s].ref.name = SecretNamer(key, minted[s].kind)
        /\ minted' = minted /\ before' = before
    BY <1>5 DEF RotateRead, At, Goto, Control, ControlOf, TypeOK
  <2>3. CASE minted[s].kind = kind
    <3>1. doc'[s].refs[kind] = minted[s].ref
      BY <1>1, <1>3, <2>1, <2>2, <2>3 DEF PointSlot, TypeOK, Docs
    <3>2. minted[r].ref.version < minted[s].ref.version
      BY <1>1, <2>2, <2>3 DEF OrderOf, NoMint, Kinds
    <3>3. minted[s].ref.version \in Nat /\ minted[r].ref.version \in Nat
      BY <1>1, <2>2 DEF Refs
    <3> QED BY <1>1, <2>2, <2>3, <3>1, <3>2, <3>3 DEF AtLeast
  <2>4. CASE minted[s].kind # kind
    <3>1. doc'[s].refs[kind] = conns[key].refs[kind]
      BY <1>1, <1>3, <2>1, <2>2, <2>4 DEF PointSlot, TypeOK, Docs
    <3> QED BY <1>2, <3>1
  <2> QED BY <2>3, <2>4
<1> QED BY <1>4, <1>5

\* An isolated rotation goes on being in force.
LEMMA SticksKept ==
  ASSUME TypeOK, Control, Alone, (\A q \in Reqs : OrderOf(q)'),
         NEW s \in Reqs, Arrive(s) \/ Step(s)
  PROVE  \A r \in Reqs : SticksOf(r)'
<1> SUFFICES ASSUME NEW r \in Reqs, Settled(r)' PROVE SticksOf(r)'
  BY DEF SticksOf
<1>1. CASE Settled(r)
  <2>1. /\ Written(r) /\ call'[r] = call[r] /\ minted'[r] = minted[r]
        /\ pc[r] # "write" /\ call[r] # NoCall /\ ~StoreMayFail /\ Isolated(r)
    BY <1>1, WrittenStays DEF Settled, Written, Control, ControlOf, Ready
  <2> DEFINE key == call[r].key
             kind == minted[r].kind
             ref == minted[r].ref
  <2>2. /\ AtLeast(conns[key].refs[kind], ref)
        /\ \A q \in Reqs : (pc[q] = "write" /\ Targets(q, key) /\ r \in before[q]) =>
             AtLeast(doc[q].refs[kind], ref)
    BY <1>1 DEF Alone, SticksOf
  <2>3. AtLeast(conns'[key].refs[kind], ref)
    <3>1. CASE Write(s)
      <4>1. /\ pc[s] = "write" /\ call[s] # NoCall /\ s # r
            /\ conns' = [conns EXCEPT ![call[s].key] = doc[s]]
        BY <2>1, <3>1 DEF Write, Control, ControlOf, Started
      <4>2. CASE call[s].key = key
        <5>1. r \in before[s]
          BY <2>1, <4>1, <4>2, Crowded DEF Targets, Started
        <5>2. AtLeast(doc[s].refs[kind], ref)
          BY <2>2, <4>1, <4>2, <5>1 DEF Targets
        <5>3. key \in Keys
          BY <2>1 DEF TypeOK
        <5> QED BY <4>1, <4>2, <5>2, <5>3 DEF TypeOK
      <4>3. CASE call[s].key # key
        BY <2>2, <4>1, <4>3 DEF TypeOK
      <4> QED BY <4>2, <4>3
    <3> QED BY <2>2, <3>1, DocSteps
  <2>4. ASSUME NEW q \in Reqs, pc'[q] = "write", Targets(q, call[r].key)', r \in before'[q]
        PROVE  AtLeast(doc'[q].refs[kind], ref)
    <3>1. CASE q # s
      BY <2>1, <2>2, <2>4, <3>1, StepFrame DEF Targets
    <3>2. CASE q = s
      <4>1. PutRead(s) \/ RotateRead(s)
        BY <2>4, <3>2, DocSteps
      <4>2. call' = call /\ before' = before
        BY <4>1 DEF PutRead, RotateRead, Goto
      <4> QED BY <1>1, <2>1, <2>4, <3>2, <4>1, <4>2, LaterReadSticks DEF Targets
    <3> QED BY <3>1, <3>2
  <2> QED BY <2>1, <2>3, <2>4 DEF SticksOf
<1>2. CASE ~Settled(r)
  <2>1. r = s /\ ~Written(r)
    <3>1. call[r] # NoCall
      <4>1. CASE r # s
        <5>1. Written(r)
          BY <4>1, StepFrame DEF Settled, Written
        <5> QED BY <5>1 DEF Written, Ready, Control, ControlOf
      <4>2. CASE r = s /\ Arrive(s)
        <5>1. ~Written(r)'
          BY <4>2 DEF Written, Arrive, Admit, Enter, Refuse, AuthStatus, Answer, TypeOK,
             RequestsTypeOK, Control, ControlOf
        <5> QED BY <5>1 DEF Settled
      <4>3. CASE r = s /\ Step(s)
        <5>1. pc[s] \in Started
          BY <4>3 DEF Step, Put, Rotate, PutRead, PutInvalid, PutRecord,
             RotateAddVersion, RotateInvalid, RotateAddVersionFails, RotateRead,
             RotateReadFails, RotateRecord, Record, Write, WriteFails, At, Started
        <5> QED BY <4>3, <5>1 DEF Control, ControlOf
      <4> QED BY <4>1, <4>2, <4>3
    <3>2. Isolated(r) /\ call'[r] = call[r]
      BY <3>1, SoloBefore, AdmittedStays DEF Settled
    <3>3. ~Written(r)
      BY <1>2, <3>2 DEF Settled
    <3> QED BY <3>3, StepFrame DEF Settled, Written
  <2>2. Write(r)
    BY <2>1, FirstWritten DEF Settled
  <2>3. /\ call' = call /\ minted' = minted /\ doc' = doc /\ before' = before
        /\ pc[r] = "write" /\ pc' = [pc EXCEPT ![r] = "record"]
        /\ call[r] # NoCall /\ call[r].op = "rotate" /\ call[r].key \in Keys
        /\ conns' = [conns EXCEPT ![call[r].key] = doc[r]]
    BY <2>2 DEF Write, Goto, Settled, Control, ControlOf, Started, TypeOK
  <2>4. conns'[call[r].key].refs[minted[r].kind] = minted[r].ref
    BY <2>3 DEF TypeOK, Alone, SlotOf, Ready
  <2>5. minted[r].ref \in Refs
    BY <2>3 DEF Control, ControlOf, Ready, TypeOK
  <2>6. \A q \in Reqs : r \notin before'[q]
    BY <2>3 DEF Control, ControlOf
  <2> QED BY <2>3, <2>4, <2>5, <2>6 DEF SticksOf, AtLeast, Refs
<1> QED BY <1>1, <1>2

-----------------------------------------------------------------------------
(***************************************************************************)
(* The inductive invariant and the theorems                                *)
(***************************************************************************)

Inv == TypeOK /\ Control /\ History /\ Alone

\* The invariant holds in the beginning.
LEMMA InitInv == Init => Inv
<1> SUFFICES ASSUME Init PROVE History /\ Alone
  BY InitKeeps DEF Inv
<1> USE DEF Init, InitRequests
<1>1. History
  <2>1. ASSUME NEW key \in Keys PROVE StoredOf(key) /\ PresentOf(key)
    <3>1. conns[key] = InitialConns[key]
      OBVIOUS
    <3>2. conns[key] # NoDoc => key[2] \in validPlatforms
      BY <3>1, InitialAssumption
    <3>3. \A q \in Reqs : ~Written(q)
      BY DEF Written
    <3> QED BY <3>1, <3>2, <3>3 DEF StoredOf, PresentOf, PutOf, Explained
  <2>2. \A r \in Reqs : InFlightOf(r)
    BY DEF InFlightOf
  <2> QED BY <2>1, <2>2 DEF History
<1>2. ASSUME NEW r \in Reqs PROVE SlotOf(r) /\ OrderOf(r) /\ SoloOf(r) /\ SticksOf(r)
  <2>1. pc[r] = "new" /\ reply[r] = 0 /\ before[r] = {}
    OBVIOUS
  <2> QED BY <2>1 DEF SlotOf, OrderOf, SoloOf, SticksOf, Settled, Ready, Written
<1> QED BY <1>1, <1>2 DEF Alone

\* The invariant is inductive.
LEMMA NextInv == Inv /\ [Next]_vars => Inv'
<1> SUFFICES ASSUME Inv, [Next]_vars PROVE Inv'
  OBVIOUS
<1> USE DEF Inv
<1>1. CASE Next
  <2>1. PICK s \in Reqs : Arrive(s) \/ Step(s)
    BY <1>1 DEF Next
  <2>2. TypeOK' /\ Control' /\ History'
    BY <2>1, StepKeeps, HistoryKept
  <2>3. \A q \in Reqs : OrderOf(q)'
    BY <2>1, OrderKept
  <2>4. Alone'
    BY <2>1, <2>3, SlotKept, SoloKept, SticksKept DEF Alone
  <2> QED BY <2>2, <2>4
<1>2. CASE UNCHANGED vars
  <2>1. TypeOK' /\ Control'
    BY <1>2 DEF vars, TypeOK, RequestsTypeOK, Control, ControlOf, Started, Ready
  <2>2. History'
    <3>1. ASSUME NEW r \in Reqs, NEW key \in Keys
          PROVE  MaySetRefs(r, key)' = MaySetRefs(r, key)
      BY <1>2 DEF vars, MaySetRefs, Targets
    <3>2. ASSUME NEW key \in Keys, NEW kind \in Kinds, NEW ref
          PROVE  Explained(key, kind, ref)' <=> Explained(key, kind, ref)
      <4>1. BodyOf(key, kind, ref)' <=> BodyOf(key, kind, ref)
        BY <1>2, <3>1 DEF vars, BodyOf, Brings, Written, Entry
      <4>2. RotationOf(key, kind, ref)' <=> RotationOf(key, kind, ref)
        BY <1>2 DEF vars, RotationOf, Rotates, Targets, Written, Entry
      <4> QED BY <4>1, <4>2 DEF Explained
    <3>3. ASSUME NEW key \in Keys, NEW d
          PROVE  PutOf(key, d)' <=> PutOf(key, d)
      BY <1>2 DEF vars, PutOf, Targets, Written, Entry
    <3>4. ASSUME NEW key \in Keys PROVE StoredOf(key)' /\ PresentOf(key)'
      <4>1. StoredOf(key)'
        BY <1>2, <3>2, <3>3 DEF vars, History, StoredOf
      <4>2. PresentOf(key)'
        BY <1>2 DEF vars, History, PresentOf, Targets, Written
      <4> QED BY <4>1, <4>2
    <3>5. ASSUME NEW r \in Reqs PROVE InFlightOf(r)'
      <4>1. SUFFICES ASSUME pc[r] = "write" PROVE InFlightOf(r)'
        BY <1>2 DEF vars, InFlightOf
      <4>2. call[r].key \in Keys
        BY <4>1 DEF TypeOK, Control, ControlOf, Started
      <4>3. \A kind \in Kinds :
              Rotates(r, call[r].key, kind, doc[r].refs[kind])'
                <=> Rotates(r, call[r].key, kind, doc[r].refs[kind])
        BY <1>2 DEF vars, Rotates, Targets
      <4>4. InFlightOf(r)
        BY DEF History
      <4> QED BY <1>2, <3>1, <3>2, <3>3, <4>2, <4>3, <4>4 DEF vars, InFlightOf
    <3> QED BY <3>4, <3>5 DEF History
  <2>3. Alone'
    BY <1>2 DEF vars, Alone, SlotOf, OrderOf, SoloOf, SticksOf, Settled, Solo, Isolated,
       Apart, Targets, Ready, Written, PointSlot, AtLeast
  <2> QED BY <2>1, <2>2, <2>3
<1> QED BY <1>1, <1>2

\* The invariant holds throughout.
LEMMA Invariance == Spec => []Inv
BY InitInv, NextInv, PTL DEF Spec

\* Whatever races or fails, a ref in a stored connector was there from the start,
\* was brought by a PUT that could not know of the connector, or names the
\* connector's own secret at an existing version that a committed rotation of
\* that slot minted (RefsGenuine).
THEOREM RefsAreGenuine == Spec => []RefsGenuine
<1>1. Inv => RefsGenuine
  <2> SUFFICES ASSUME Inv, NEW key \in Keys, NEW kind \in Kinds,
                      conns[key].refs[kind] # InitialConns[key].refs[kind],
                      ~\E r \in Reqs : Brings(r, key, kind, conns[key].refs[kind])
               PROVE  LET ref == conns[key].refs[kind]
                      IN  /\ ref.name = SecretNamer(key, kind)
                          /\ ref.version \in 1..latest[ref.name]
                          /\ \E r \in Reqs : Rotates(r, key, kind, ref) /\ Written(r)
    BY DEF RefsGenuine
  <2>1. conns[key] # NoDoc
    BY DEF Inv, History, PresentOf
  <2>2. Explained(key, kind, conns[key].refs[kind])
    BY <2>1 DEF Inv, History, StoredOf
  <2>3. PICK r \in Reqs : Rotates(r, key, kind, conns[key].refs[kind]) /\ Written(r)
    BY <2>2 DEF Explained, BodyOf, RotationOf
  <2>4. minted[r] # NoMint
    BY <2>3 DEF Rotates, NoMint, Kinds
  <2> QED BY <2>3, <2>4 DEF Inv, Control, ControlOf, Rotates, Targets
<1> QED BY <1>1, Invariance, PTL

\* The audit log explains the settings, the author and every ref of every stored
\* connector that the server did not find there (AuditExplainsStore).
THEOREM AuditExplains == Spec => []AuditExplainsStore
<1>1. Inv => AuditExplainsStore
  <2> SUFFICES ASSUME Inv, ~StoreMayFail, NEW key \in Keys, conns[key] # NoDoc
               PROVE  /\ PutOf(key, conns[key])
                      /\ \A kind \in Kinds : Explained(key, kind, conns[key].refs[kind])
    BY DEF AuditExplainsStore, PutOf, Explained, BodyOf, RotationOf
  <2> QED BY DEF Inv, History, StoredOf
<1> QED BY <1>1, Invariance, PTL

\* Two stored connectors never have a secret in common, whatever the tenants and
\* platforms are called (SecretsAreNotShared).
THEOREM SecretsStayApart == Spec => []SecretsAreNotShared
<1>1. Inv => SecretsAreNotShared
  BY NamesStayApart DEF Inv, History, StoredOf, SecretsAreNotShared
<1> QED BY <1>1, Invariance, PTL

\* An acknowledged rotation that overlapped no request on its connector is
\* never undone, however many PUTs and rotations race later
\* (IsolatedRotationSticks).
THEOREM RotationsStick == Spec => []IsolatedRotationSticks
<1>1. Inv => IsolatedRotationSticks
  BY DEF Inv, Alone, SticksOf, Settled, Written, AtLeast, IsolatedRotationSticks
<1> QED BY <1>1, Invariance, PTL

\* A request that is alone with its connector writes exactly what it promises
\* (SoloWritesAreExact).
THEOREM SoloWritesExact == Spec => SoloWritesAreExact
<1> DEFINE Exact ==
      \A r \in Reqs :
        (~StoreMayFail /\ pc[r] = "write" /\ pc'[r] = "record" /\ Solo(r)) =>
          LET old == conns[call[r].key]
              new == conns'[call[r].key]
          IN  IF call[r].op = "put"
                THEN old # NoDoc => new.refs = old.refs
                ELSE new = PointSlot(old, minted[r])
<1>1. Inv /\ [Next]_vars => [Exact]_vars
  <2> SUFFICES ASSUME Inv, Next, NEW r \in Reqs, ~StoreMayFail, pc[r] = "write",
                      pc'[r] = "record", Solo(r)
               PROVE  LET old == conns[call[r].key]
                          new == conns'[call[r].key]
                      IN  IF call[r].op = "put"
                            THEN old # NoDoc => new.refs = old.refs
                            ELSE new = PointSlot(old, minted[r])
    OBVIOUS
  <2>1. Step(r)
    BY StepFrame DEF Next, Inv, Arrive, Admit, Enter, Refuse
  <2>2. Write(r)
    BY <2>1 DEF Step, Put, Rotate, PutRead, PutInvalid, PutRecord, RotateAddVersion,
       RotateInvalid, RotateAddVersionFails, RotateRead, RotateReadFails, RotateRecord,
       Record, WriteFails, Answer, At, Inv, TypeOK
  <2>3. conns'[call[r].key] = doc[r]
    BY <2>2 DEF Write, Inv, TypeOK, Control, ControlOf, Started
  <2> QED BY <2>3 DEF Inv, Alone, SoloOf
<1> QED BY <1>1, Invariance, PTL DEF Spec, SoloWritesAreExact
=============================================================================
