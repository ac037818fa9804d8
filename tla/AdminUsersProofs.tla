---------------------------- MODULE AdminUsersProofs ----------------------------
(***************************************************************************)
(* Proofs about AdminUsers, for any set of requests and identities, any    *)
(* seed of the table, and both a persistent store and a dev process.       *)
(***************************************************************************)
EXTENDS AdminUsers, TLAPS

USE DEF requestVars

-----------------------------------------------------------------------------
(***************************************************************************)
(* The inductive invariant                                                 *)
(***************************************************************************)

\* What holds of one request at each step of its handler.
ControlOf(r) ==
  /\ pc[r] = "new" =>
       /\ call[r] = NoCall /\ caller[r] = NoCaller
       /\ reply[r] = 0 /\ before[r] = {} /\ user[r] = NoUser
  /\ pc[r] \in {"admitted", "record", "lost"} =>
       call[r] # NoCall /\ caller[r] # NoCaller /\ reply[r] = 0
  /\ pc[r] = "admitted" => user[r] = NoUser
  /\ reply[r] = 200 => pc[r] = "done" /\ call[r] # NoCall /\ caller[r] # NoCaller
  /\ caller[r] # NoCaller => caller[r].role = "owner" /\ caller[r].email \in Emails
  /\ user[r] # NoUser => /\ call[r] # NoCall /\ call[r].op = "putUser"
                         /\ user[r].addedBy = caller[r].email
  /\ \A q \in before[r] : pc[q] = "done"

Control == \A r \in Reqs : ControlOf(r)

\* An owner in the table whose revocation has been written was made owner again
\* by a request that had not been answered when the revocation was admitted.
Revoking(d, e) ==
  /\ Changes(d, e) /\ user[d].role # "owner"
  /\ pc[d] = "record" \/ reply[d] = 200

OwnersRegranted ==
  ~DevEnv =>
    \A e \in Emails, d \in Reqs :
      (admins[e].role = "owner" /\ Revoking(d, e)) =>
        \E g \in Reqs \ {d} : Grants(g, e) /\ g \notin before[d]

Inv == /\ TypeOK /\ Control
       /\ AuthorityIsGranted
       /\ OwnersRegranted /\ RevocationBinds
       /\ ChangesAudited
-----------------------------------------------------------------------------
(***************************************************************************)
(* What a step leaves alone                                                *)
(***************************************************************************)

\* Only an owner of the table passes IAPAuth and ownerOnly.
LEMMA OnlyOwnersPass ==
  ASSUME RequestsTypeOK, NEW jwt \in Emails \cup {NoEmail},
         AuthStatus(resolveEmail(jwt)) = 200
  PROVE  /\ resolveEmail(jwt) \in Emails
         /\ admins[resolveEmail(jwt)].role = "owner"
BY EmailsAssumption DEF AuthStatus, resolveEmail

\* A request that moves had not ended, and leaves every other request alone.
LEMMA StepFrame ==
  ASSUME TypeOK, NEW r \in Reqs, Arrive(r) \/ Step(r)
  PROVE  /\ pc[r] \in {"new", "admitted", "record"} /\ pc'[r] # "new"
         /\ UNCHANGED up
         /\ \A q \in Reqs \ {r} :
              /\ pc'[q] = pc[q] /\ call'[q] = call[q] /\ caller'[q] = caller[q]
              /\ reply'[q] = reply[q] /\ before'[q] = before[q]
              /\ user'[q] = user[q]
<1> USE DEF TypeOK, RequestsTypeOK, Goto, Answer, At
<1>1. CASE Arrive(r)
  BY <1>1 DEF Arrive, Admit, Enter, Refuse
<1>2. CASE PutUser(r) \/ PutUserFails(r)
  <2>1. CASE PutUser(r)
    <3>1. PICK u : user' = [user EXCEPT ![r] = u]
      BY <2>1 DEF PutUser
    <3> QED BY <2>1, <3>1 DEF PutUser
  <2>2. CASE PutUserFails(r)
    BY <2>2 DEF PutUserFails
  <2> QED BY <1>2, <2>1, <2>2
<1>3. CASE DeleteUser(r) \/ DeleteUserFails(r)
  BY <1>3 DEF DeleteUser, DeleteUserFails
<1>4. CASE UserRecord(r)
  BY <1>4 DEF UserRecord, Record
<1> QED BY <1>1, <1>2, <1>3, <1>4 DEF Step

\* A request that is not new keeps its call, its caller and its past; one that
\* has written stays so, and keeps what it wrote; one that has ended is over.
Kept(r) ==
  /\ pc[r] # "new" => /\ pc'[r] # "new" /\ call'[r] = call[r]
                      /\ caller'[r] = caller[r] /\ before'[r] = before[r]
  /\ Written(r) \/ pc[r] = "lost" =>
       (Written(r) \/ pc[r] = "lost")' /\ user'[r] = user[r]
  /\ pc[r] = "done" => pc'[r] = "done" /\ reply'[r] = reply[r] /\ user'[r] = user[r]

\* Whatever moves, a request keeps what Kept names.
LEMMA RequestsKept ==
  ASSUME TypeOK, Control, Next
  PROVE  \A r \in Reqs : Kept(r)
<1> SUFFICES ASSUME NEW r \in Reqs PROVE Kept(r)
  OBVIOUS
<1> USE DEF Kept, Written
<1>0. ControlOf(r)
  BY DEF Control
<1>1. CASE Boot
  BY <1>1 DEF Boot
<1>2. CASE Crash
  BY <1>0, <1>2 DEF Crash, InFlight, ControlOf
<1>3. ASSUME NEW s \in Reqs, Arrive(s) \/ Step(s) PROVE Kept(r)
  <2>1. CASE r # s
    BY <1>3, <2>1, StepFrame
  <2>2. CASE r = s /\ Arrive(r)
    BY <1>0, <2>2 DEF Arrive, Admit, Enter, Refuse, Answer, TypeOK, RequestsTypeOK, ControlOf
  <2>3. CASE r = s /\ (PutUser(r) \/ DeleteUser(r))
    BY <1>0, <2>3 DEF PutUser, DeleteUser, Goto, At, TypeOK, ControlOf
  <2>4. CASE r = s /\ (PutUserFails(r) \/ DeleteUserFails(r))
    BY <1>0, <2>4 DEF PutUserFails, DeleteUserFails, Answer, At, TypeOK, ControlOf
  <2>5. CASE r = s /\ UserRecord(r)
    BY <1>0, <2>5 DEF UserRecord, Record, Answer, TypeOK, RequestsTypeOK, ControlOf
  <2> QED BY <1>3, <2>1, <2>2, <2>3, <2>4, <2>5 DEF Step
<1> QED BY <1>1, <1>2, <1>3 DEF Next

\* So what a request has put or removed stays put or removed, and granted.
LEMMA ChangesStay ==
  ASSUME TypeOK, Control, Next, NEW r \in Reqs, NEW e, Changed(r, e)
  PROVE  /\ Changed(r, e)' /\ pc[r] # "new"
         /\ call'[r] = call[r] /\ caller'[r] = caller[r]
         /\ user'[r] = user[r] /\ before'[r] = before[r]
         /\ Grants(r, e) => Grants(r, e)'
<1>1. pc[r] # "new"
  BY DEF Changed, Changes, Written, Control, ControlOf
<1>2. Kept(r)
  BY RequestsKept
<1> QED BY <1>1, <1>2 DEF Kept, Changed, Changes, Grants

-----------------------------------------------------------------------------
(***************************************************************************)
(* The types and the control invariant are inductive: one lemma per action *)
(***************************************************************************)

\* A start seeds the table and moves no request.
LEMMA BootKeeps ==
  ASSUME TypeOK, Control, Boot
  PROVE  TypeOK' /\ Control'
<1> USE DEF Boot, TypeOK, RequestsTypeOK
<1>1. DevSeed \in Emails
  BY EmailsAssumption, DevAssumption DEF DevSeed
<1>2. admins' \in [Emails -> Users \cup {NoUser}]
  BY <1>1 DEF Users, Roles
<1>3. TypeOK'
  BY <1>2
<1>4. Control'
  BY DEF Control, ControlOf
<1> QED BY <1>3, <1>4

\* A stop leaves no request in flight.
LEMMA CrashKeeps ==
  ASSUME TypeOK, Control, Crash
  PROVE  TypeOK' /\ Control'
<1> USE DEF Crash, TypeOK, RequestsTypeOK
<1>1. admins' \in [Emails -> Users \cup {NoUser}]
  BY DEF Nobody
<1>2. pc' \in [Reqs -> {"new", "admitted", "record", "lost", "done"}]
  BY DEF InFlight
<1>3. TypeOK'
  BY <1>1, <1>2
<1>4. ASSUME NEW r \in Reqs PROVE ControlOf(r)'
  <2>1. ControlOf(r)
    BY DEF Control
  <2>2. pc'[r] # "new" \/ pc'[r] = pc[r]
    BY DEF InFlight
  <2>3. pc'[r] # "admitted"
    BY DEF InFlight
  <2>4. pc'[r] \in {"record", "lost"} => pc[r] \in {"record", "lost"}
    BY DEF InFlight
  <2>5. \A q \in Reqs : pc[q] = "done" => pc'[q] = "done"
    BY DEF InFlight
  <2>6. \A q \in before'[r] : pc'[q] = "done"
    BY <2>1, <2>5 DEF ControlOf
  <2> QED BY <2>1, <2>2, <2>3, <2>4, <2>5, <2>6 DEF ControlOf
<1> QED BY <1>3, <1>4 DEF Control

\* A step of r leaves the control of the others, once r's own holds.
LEMMA OthersKeepControl ==
  ASSUME TypeOK, Control, NEW r \in Reqs, Arrive(r) \/ Step(r), ControlOf(r)'
  PROVE  Control'
<1> SUFFICES ASSUME NEW q \in Reqs, q # r PROVE ControlOf(q)'
  BY DEF Control
<1>1. ControlOf(q)
  BY DEF Control
<1>2. \A s \in before[q] : s \in Reqs /\ pc[s] = "done"
  BY <1>1 DEF ControlOf, TypeOK, RequestsTypeOK
<1>3. \A s \in before[q] : pc'[s] = "done"
  BY <1>2, StepFrame
<1> QED BY <1>1, <1>3, StepFrame DEF ControlOf

\* An arrival starts a handler, for an owner, or ends in a refusal.
LEMMA ArriveKeeps ==
  ASSUME TypeOK, Control, NEW r \in Reqs, Arrive(r)
  PROVE  TypeOK' /\ ControlOf(r)'
<1> USE DEF TypeOK, RequestsTypeOK, Answer, Statuses
<1>1. PICK jwt \in Emails \cup {NoEmail} :
         \/ \E op \in {"putUser", "deleteUser"}, e \in Emails :
              Admit(r, jwt, [op |-> op, email |-> e])
         \/ Refuse(r, jwt)
  BY DEF Arrive
<1>2. UNCHANGED <<up, user>>
  BY DEF Arrive
<1>3. ControlOf(r) /\ pc[r] = "new"
  BY <1>1 DEF Control, Admit, Enter, Refuse
<1>4. ASSUME NEW op \in {"putUser", "deleteUser"}, NEW e \in Emails,
             Admit(r, jwt, [op |-> op, email |-> e])
      PROVE  TypeOK' /\ ControlOf(r)'
  <2>1. /\ resolveEmail(jwt) \in Emails
        /\ admins[resolveEmail(jwt)].role = "owner"
    BY <1>4, OnlyOwnersPass DEF Admit
  <2>2. caller' \in [Reqs -> Callers]
    BY <1>4, <2>1 DEF Admit, Enter, Callers, Roles
  <2>3. before' \in [Reqs -> SUBSET Reqs]
    BY <1>4 DEF Admit, Enter, Answered
  <2>4. TypeOK'
    BY <1>2, <1>4, <2>2, <2>3 DEF Admit, Enter
  <2>5. ControlOf(r)'
    BY <1>2, <1>3, <1>4, <2>1
    DEF Admit, Enter, ControlOf, Answered, NoCall, NoCaller
  <2> QED BY <2>4, <2>5
<1>5. CASE Refuse(r, jwt)
  <2>1. TypeOK'
    BY <1>2, <1>5 DEF Refuse, AuthStatus
  <2>2. ControlOf(r)'
    BY <1>2, <1>3, <1>5 DEF Refuse, AuthStatus, ControlOf
  <2> QED BY <2>1, <2>2
<1> QED BY <1>1, <1>4, <1>5

\* A put stores a user of the caller's making.
LEMMA PutUserKeeps ==
  ASSUME TypeOK, Control, NEW r \in Reqs, PutUser(r)
  PROVE  TypeOK' /\ ControlOf(r)'
<1> USE DEF TypeOK, RequestsTypeOK, Goto, At
<1>1. PICK role \in ValidRoles :
        LET u == [role |-> role, addedBy |-> Author(r)]
        IN  /\ user' = [user EXCEPT ![r] = u]
            /\ admins' = [admins EXCEPT ![call[r].email] = u]
  BY DEF PutUser
<1> DEFINE u == [role |-> role, addedBy |-> Author(r)]
<1>2. /\ ControlOf(r) /\ call[r] # NoCall /\ call[r].op = "putUser"
      /\ call[r].email \in Emails /\ caller[r].email \in Emails
  BY DEF PutUser, Control, ControlOf
<1>3. u \in Users
  BY <1>2 DEF Author, Users, ValidRoles
<1>4. TypeOK'
  BY <1>1, <1>2, <1>3 DEF PutUser
<1>5. ControlOf(r)'
  BY <1>1, <1>2 DEF PutUser, ControlOf, Author
<1> QED BY <1>4, <1>5

\* A deletion removes the user.
LEMMA DeleteUserKeeps ==
  ASSUME TypeOK, Control, NEW r \in Reqs, DeleteUser(r)
  PROVE  TypeOK' /\ ControlOf(r)'
<1> USE DEF TypeOK, RequestsTypeOK, Goto, At, DeleteUser
<1>1. ControlOf(r) /\ call[r] # NoCall
  BY DEF Control, ControlOf
<1>2. TypeOK'
  BY <1>1
<1>3. ControlOf(r)'
  BY <1>1 DEF ControlOf
<1> QED BY <1>2, <1>3

\* Failures and the record answer the request.
LEMMA AnswerKeeps ==
  ASSUME TypeOK, Control, NEW r \in Reqs,
         PutUserFails(r) \/ DeleteUserFails(r) \/ UserRecord(r)
  PROVE  TypeOK' /\ ControlOf(r)'
<1> USE DEF TypeOK, RequestsTypeOK, Answer
<1>1. ControlOf(r)
  BY DEF Control
<1>2. CASE PutUserFails(r) \/ DeleteUserFails(r)
  <2>1. PICK status \in {400, 404, 500} : Answer(r, status)
    BY <1>2 DEF PutUserFails, DeleteUserFails
  <2>2. UNCHANGED <<admins, up, user>> /\ pc[r] = "admitted"
    BY <1>2 DEF PutUserFails, DeleteUserFails, At
  <2>3. TypeOK'
    BY <2>1, <2>2 DEF Statuses
  <2> QED BY <1>1, <2>1, <2>2, <2>3 DEF ControlOf
<1>3. CASE UserRecord(r)
  <2>1. TypeOK'
    BY <1>3 DEF UserRecord, Record, Statuses
  <2>2. ControlOf(r)'
    BY <1>1, <1>3 DEF UserRecord, Record, ControlOf
  <2> QED BY <2>1, <2>2
<1> QED BY <1>2, <1>3

\* So every step of a handler keeps the types and the control.
LEMMA StepKeeps ==
  ASSUME TypeOK, Control, NEW r \in Reqs, Arrive(r) \/ Step(r)
  PROVE  TypeOK' /\ Control'
<1>1. TypeOK' /\ ControlOf(r)'
  BY ArriveKeeps, PutUserKeeps, DeleteUserKeeps, AnswerKeeps DEF Step
<1> QED BY <1>1, OthersKeepControl

\* The types and the control hold in the beginning.
LEMMA InitKeeps == Init => TypeOK /\ Control
<1> SUFFICES ASSUME Init PROVE TypeOK /\ Control
  OBVIOUS
<1> USE DEF Init, InitRequests
<1>1. TypeOK
  BY EmailsAssumption DEF TypeOK, RequestsTypeOK, Callers, Statuses
<1>2. ASSUME NEW r \in Reqs PROVE ControlOf(r)
  <2>1. /\ pc[r] = "new" /\ call[r] = NoCall /\ caller[r] = NoCaller
        /\ reply[r] = 0 /\ before[r] = {} /\ user[r] = NoUser
    OBVIOUS
  <2> QED BY <2>1 DEF ControlOf
<1> QED BY <1>1, <1>2 DEF Control

\* Types and control are inductive.
LEMMA NextKeeps == TypeOK /\ Control /\ [Next]_vars => (TypeOK /\ Control)'
<1> SUFFICES ASSUME TypeOK, Control, [Next]_vars PROVE (TypeOK /\ Control)'
  OBVIOUS
<1>1. CASE Next
  BY <1>1, BootKeeps, CrashKeeps, StepKeeps DEF Next
<1>2. CASE UNCHANGED vars
  BY <1>2 DEF vars, TypeOK, RequestsTypeOK, Control, ControlOf
<1> QED BY <1>1, <1>2

\* Every variable keeps its type, for every instance (TypeOK).
THEOREM TypeCorrect == Spec => []TypeOK
BY InitKeeps, NextKeeps, PTL DEF Spec

-----------------------------------------------------------------------------
(***************************************************************************)
(* Where authority and the entries of the table come from                  *)
(***************************************************************************)

\* The entry of e is that of the seed, or the outcome of a request.
EntryExplained(e) ==
  \/ admins[e] = InitialAdmins[e]
  \/ DevEnv /\ e = DevSeed
  \/ \E g \in Reqs : /\ Changed(g, e) /\ user[g] = admins[e]
                     /\ admins[e].addedBy = caller[g].email

\* What a step does to the table: all it can do is boot, crash, put or delete.
LEMMA TableSteps ==
  ASSUME TypeOK, Control, Next
  PROVE  \/ UNCHANGED admins
         \/ DevEnv /\ (Boot \/ Crash)
         \/ \E r \in Reqs : PutUser(r) \/ DeleteUser(r)
BY DEF Next, Boot, Crash, Arrive, Admit, Enter, Refuse, Step, PutUserFails, DeleteUserFails,
   UserRecord, Record

\* The entry a request puts names its caller.
LEMMA PutIsExplained ==
  ASSUME TypeOK, Control, NEW r \in Reqs, PutUser(r)
  PROVE  /\ call[r] # NoCall /\ call[r].op = "putUser" /\ call[r].email \in Emails
         /\ Changed(r, call[r].email)' /\ call' = call /\ caller' = caller
         /\ user' = [user EXCEPT ![r] = user'[r]]
         /\ admins' = [admins EXCEPT ![call[r].email] = user'[r]]
         /\ user'[r] \in Users /\ user'[r].addedBy = caller[r].email
<1> USE DEF TypeOK, RequestsTypeOK, Goto, At
<1>1. PICK role \in ValidRoles :
        LET u == [role |-> role, addedBy |-> Author(r)]
        IN  /\ user' = [user EXCEPT ![r] = u]
            /\ admins' = [admins EXCEPT ![call[r].email] = u]
  BY DEF PutUser
<1>2. /\ call[r] # NoCall /\ call[r].op = "putUser" /\ call[r].email \in Emails
      /\ caller[r].email \in Emails
  BY DEF PutUser, Control, ControlOf
<1>3. pc'[r] = "record" /\ call' = call /\ caller' = caller
  BY DEF PutUser
<1>4. user'[r] = [role |-> role, addedBy |-> caller[r].email]
  BY <1>1 DEF Author
<1> QED BY <1>1, <1>2, <1>3, <1>4 DEF Changed, Changes, Written, Users, ValidRoles

\* Every entry of the table goes on having been seeded or put by an owner.
LEMMA EntriesKept ==
  ASSUME TypeOK, Control, Next, \A e \in Emails : admins[e] # NoUser => EntryExplained(e)
  PROVE  \A e \in Emails : admins'[e] # NoUser => EntryExplained(e)'
<1> SUFFICES ASSUME NEW e \in Emails, admins'[e] # NoUser PROVE EntryExplained(e)'
  OBVIOUS
<1>1. CASE admins'[e] = admins[e]
  BY <1>1, ChangesStay DEF EntryExplained
<1>2. CASE DevEnv /\ (Boot \/ Crash)
  <2>1. CASE Boot
    <3>1. admins' = [admins EXCEPT ![DevSeed] = [role |-> "owner", addedBy |-> NoEmail]]
      BY <1>2, <2>1 DEF Boot
    <3>2. CASE e = DevSeed
      BY <1>2, <3>2 DEF EntryExplained, DevSeed
    <3>3. CASE e # DevSeed
      BY <1>1, <3>1, <3>3 DEF TypeOK, RequestsTypeOK
    <3> QED BY <3>2, <3>3
  <2>2. CASE Crash
    BY <1>2, <2>2 DEF Crash, Nobody
  <2> QED BY <1>2, <2>1, <2>2
<1>3. ASSUME NEW r \in Reqs, PutUser(r), admins'[e] # admins[e]
      PROVE  EntryExplained(e)'
  <2>1. call[r].email = e /\ admins'[e] = user'[r]
    BY <1>3, PutIsExplained DEF TypeOK, RequestsTypeOK
  <2> QED BY <1>3, <2>1, PutIsExplained DEF EntryExplained
<1>4. ASSUME NEW r \in Reqs, DeleteUser(r), admins'[e] # admins[e]
      PROVE  FALSE
  BY <1>4 DEF DeleteUser, TypeOK, RequestsTypeOK
<1> QED BY <1>1, <1>2, <1>3, <1>4, TableSteps

\* An owner in the table is a seeded one or was made owner by a request.
LEMMA OwnersAreGranted ==
  ASSUME TypeOK, Control, NEW e \in Emails, EntryExplained(e), admins[e].role = "owner"
  PROVE  Seeded(e) \/ \E g \in Reqs : Grants(g, e)
<1>1. CASE admins[e] = InitialAdmins[e]
  BY <1>1, DevAssumption DEF Seeded, NoUser
<1>2. CASE DevEnv /\ e = DevSeed
  BY <1>2 DEF Seeded
<1>3. ASSUME NEW g \in Reqs, Changed(g, e), user[g] = admins[e]
      PROVE  Grants(g, e)
  <2>1. user[g] # NoUser
    BY <1>3 DEF NoUser
  <2> QED BY <1>3, <2>1 DEF Grants, Control, ControlOf
<1> QED BY <1>1, <1>2, <1>3 DEF EntryExplained

\* The request that admits a caller is not the one that made it owner.
CallersGranted ==
  \A r \in Reqs : caller[r] # NoCaller =>
    \/ Seeded(caller[r].email)
    \/ \E g \in Reqs \ {r} : Grants(g, caller[r].email)

\* The step that gives r its caller.
LEMMA AdmissionSteps ==
  ASSUME TypeOK, Control, Next, NEW r \in Reqs, caller'[r] # caller[r]
  PROVE  /\ pc[r] = "new"
         /\ caller'[r].email \in Emails
         /\ admins[caller'[r].email].role = "owner"
         /\ before'[r] = Answered
         /\ UNCHANGED <<admins, reply, user>>
         /\ \A q \in Reqs \ {r} : pc'[q] = pc[q] /\ call'[q] = call[q]
                                  /\ before'[q] = before[q]
<1>1. pc[r] = "new"
  BY RequestsKept DEF Kept
<1>2. Arrive(r)
  <2>1. PICK s \in Reqs : Arrive(s) \/ Step(s)
    BY DEF Next, Boot, Crash
  <2>2. s = r
    BY <2>1, StepFrame
  <2>3. ~Step(r)
    BY <1>1 DEF Step, PutUser, PutUserFails, DeleteUser, DeleteUserFails, UserRecord,
       Record, At
  <2> QED BY <2>1, <2>2, <2>3
<1>3. PICK jwt \in Emails \cup {NoEmail} : \E c : Admit(r, jwt, c)
  BY <1>2 DEF Arrive, Refuse, Answer
<1>4. PICK c : Admit(r, jwt, c)
  BY <1>3
<1>5. UNCHANGED user
  BY <1>2 DEF Arrive
<1>6. caller'[r] = [email |-> resolveEmail(jwt), role |-> admins[resolveEmail(jwt)].role]
  BY <1>4 DEF Admit, Enter, TypeOK, RequestsTypeOK
<1>7. /\ resolveEmail(jwt) \in Emails
      /\ admins[resolveEmail(jwt)].role = "owner"
  BY <1>4, OnlyOwnersPass DEF Admit, TypeOK
<1> QED BY <1>1, <1>4, <1>5, <1>6, <1>7 DEF Admit, Enter, TypeOK, RequestsTypeOK

\* Every caller goes on being a seeded owner or one that was made owner.
LEMMA CallersKept ==
  ASSUME TypeOK, Control, Next, CallersGranted,
         \A e \in Emails : admins[e] # NoUser => EntryExplained(e)
  PROVE  CallersGranted'
<1> SUFFICES ASSUME NEW r \in Reqs, NEW e, caller'[r] # NoCaller, caller'[r].email = e
             PROVE  Seeded(e) \/ \E g \in Reqs \ {r} : Grants(g, e)'
  BY DEF CallersGranted, Seeded
<1>1. CASE caller'[r] = caller[r]
  <2>1. Seeded(e) \/ \E g \in Reqs \ {r} : Grants(g, e)
    BY <1>1 DEF CallersGranted
  <2> QED BY <2>1, ChangesStay DEF Grants
<1>2. CASE caller'[r] # caller[r]
  <2>1. pc[r] = "new" /\ e \in Emails /\ admins[e].role = "owner"
    BY <1>2, AdmissionSteps
  <2>2. admins[e] # NoUser
    BY <2>1 DEF NoUser
  <2>3. Seeded(e) \/ \E g \in Reqs : Grants(g, e)
    BY <2>1, <2>2, OwnersAreGranted
  <2>4. ASSUME NEW g \in Reqs, Grants(g, e) PROVE g # r /\ Grants(g, e)'
    BY <2>1, <2>4, ChangesStay DEF Grants
  <2> QED BY <2>3, <2>4
<1> QED BY <1>1, <1>2

-----------------------------------------------------------------------------
(***************************************************************************)
(* Revocations                                                             *)
(***************************************************************************)

\* Only a put of an owner makes an owner, in a table that persists.
LEMMA OwnersArePut ==
  ASSUME TypeOK, Control, Next, ~DevEnv, NEW e \in Emails,
         admins'[e].role = "owner", admins[e].role # "owner"
  PROVE  \E g \in Reqs : /\ PutUser(g) /\ pc[g] = "admitted"
                         /\ Grants(g, e)'
<1>1. PICK g \in Reqs : PutUser(g) \/ DeleteUser(g)
  BY TableSteps
<1>2. ~DeleteUser(g)
  BY DEF DeleteUser, TypeOK, RequestsTypeOK, NoUser
<1>3. PutUser(g)
  BY <1>1, <1>2
<1>4. call[g].email = e /\ admins'[e] = user'[g]
  BY <1>3, PutIsExplained DEF TypeOK, RequestsTypeOK
<1> QED BY <1>3, <1>4, PutIsExplained DEF PutUser, At, Grants

\* OwnersRegranted is inductive.
LEMMA RegrantsKept ==
  ASSUME TypeOK, Control, Next, OwnersRegranted
  PROVE  OwnersRegranted'
<1> SUFFICES ASSUME ~DevEnv, NEW e \in Emails, NEW d \in Reqs,
                    admins'[e].role = "owner", Revoking(d, e)'
             PROVE  \E g \in Reqs \ {d} : Grants(g, e)' /\ g \notin before'[d]
  BY DEF OwnersRegranted
<1>1. CASE Revoking(d, e)
  <2>1. Changed(d, e) /\ pc[d] # "new" /\ before'[d] = before[d] /\ user'[d] = user[d]
    BY <1>1, ChangesStay DEF Revoking, Changed, Written
  <2>2. CASE admins[e].role = "owner"
    <3>1. PICK g \in Reqs \ {d} : Grants(g, e) /\ g \notin before[d]
      BY <1>1, <2>2 DEF OwnersRegranted
    <3> QED BY <2>1, <3>1, ChangesStay DEF Grants
  <2>3. CASE admins[e].role # "owner"
    <3>1. PICK g \in Reqs : PutUser(g) /\ pc[g] = "admitted" /\ Grants(g, e)'
      BY <2>3, OwnersArePut
    <3>2. g # d
      BY <1>1, <3>1 DEF Revoking, Control, ControlOf
    <3>3. g \notin before[d]
      BY <3>1 DEF Control, ControlOf
    <3> QED BY <2>1, <3>1, <3>2, <3>3
  <2> QED BY <2>2, <2>3
<1>2. CASE ~Revoking(d, e)
  \* d has just written: the entry it wrote is no owner's
  <2>1. PutUser(d) \/ DeleteUser(d)
    <3>1. pc'[d] = "record" \/ reply'[d] = 200
      BY DEF Revoking
    <3>2. PICK s \in Reqs : Arrive(s) \/ Step(s)
      <4>1. ~Boot
        BY <1>2 DEF Boot, Revoking, Changes
      <4>2. ~Crash
        BY <1>2, <3>1 DEF Crash, InFlight, Revoking, Changes, TypeOK
      <4> QED BY <4>1, <4>2 DEF Next
    <3>3. s = d
      BY <1>2, <3>2, StepFrame DEF Revoking, Changes
    <3>4. ~Arrive(d)
      BY <3>1 DEF Arrive, Admit, Enter, Refuse, AuthStatus, Answer, TypeOK, RequestsTypeOK,
         Control, ControlOf
    <3>5. ~PutUserFails(d) /\ ~DeleteUserFails(d)
      BY <3>1 DEF PutUserFails, DeleteUserFails, Answer, At, TypeOK, RequestsTypeOK
    <3>6. ~UserRecord(d)
      BY <1>2 DEF UserRecord, Record, Answer, Revoking, Changes
    <3> QED BY <3>2, <3>3, <3>4, <3>5, <3>6 DEF Step
  <2>2. CASE PutUser(d)
    <3>1. call[d].email = e /\ admins'[e] = user'[d]
      BY <2>2, PutIsExplained DEF Revoking, Changes, TypeOK, RequestsTypeOK
    <3> QED BY <3>1 DEF Revoking
  <2>3. CASE DeleteUser(d)
    <3>1. call[d].email = e /\ admins'[e] = NoUser
      BY <2>3 DEF DeleteUser, Goto, Revoking, Changes, TypeOK, RequestsTypeOK
    <3> QED BY <3>1 DEF NoUser
  <2> QED BY <2>1, <2>2, <2>3
<1> QED BY <1>1, <1>2

\* A caller that is admitted after its revocation was made owner again.
LEMMA RevocationsKept ==
  ASSUME TypeOK, Control, Next, OwnersRegranted, RevocationBinds
  PROVE  RevocationBinds'
<1> SUFFICES ASSUME ~DevEnv, NEW r \in Reqs, NEW d \in Reqs, NEW e,
                    d \in before'[r], caller'[r] # NoCaller, caller'[r].email = e,
                    Revokes(d, e)'
             PROVE  \E g \in Reqs \ {r, d} : Grants(g, e)' /\ g \notin before'[d]
  BY DEF RevocationBinds
<1>1. CASE caller'[r] = caller[r]
  <2>1. pc[r] # "new" /\ before'[r] = before[r]
    BY <1>1, RequestsKept DEF Kept, Control, ControlOf
  <2>2. pc[d] = "done"
    BY <2>1 DEF Control, ControlOf
  <2>3. Kept(d)
    BY RequestsKept
  <2>4. Revokes(d, e) /\ before'[d] = before[d]
    BY <2>2, <2>3 DEF Kept, Revokes, Changed, Changes, Written
  <2>5. PICK g \in Reqs \ {r, d} : Grants(g, e) /\ g \notin before[d]
    BY <1>1, <2>1, <2>4 DEF RevocationBinds
  <2> QED BY <2>4, <2>5, ChangesStay DEF Grants
<1>2. CASE caller'[r] # caller[r]
  <2>1. pc[r] = "new" /\ e \in Emails /\ admins[e].role = "owner"
    BY <1>2, AdmissionSteps
  <2>2. pc[d] = "done" /\ d # r
    BY <1>2, <2>1, AdmissionSteps DEF Answered
  <2>3. Kept(d)
    BY RequestsKept
  <2>4. Revoking(d, e) /\ before'[d] = before[d]
    BY <2>2, <2>3 DEF Kept, Revokes, Revoking, Changed, Changes
  <2>5. PICK g \in Reqs \ {d} : Grants(g, e) /\ g \notin before[d]
    BY <2>1, <2>4 DEF OwnersRegranted
  <2>6. g # r /\ Grants(g, e)'
    BY <2>1, <2>5, ChangesStay DEF Grants
  <2> QED BY <2>4, <2>5, <2>6
<1> QED BY <1>1, <1>2

-----------------------------------------------------------------------------
(***************************************************************************)
(* The audit log                                                           *)
(***************************************************************************)

\* r accounts for the entry of e.
Accounts(r, e) ==
  /\ Changed(r, e)
  /\ user[r] = admins[e]
  /\ pc[r] \in {"record", "lost"} \/ UserEntry(r) \in audit

\* What accounts for the state of a user goes on doing so.
LEMMA AccountsStay ==
  ASSUME TypeOK, Control, Next, ~DevEnv, ~StoreMayFail,
         NEW e \in Emails, admins'[e] = admins[e], NEW r \in Reqs, Accounts(r, e)
  PROVE  Accounts(r, e)'
<1>1. /\ Changed(r, e)' /\ call'[r] = call[r] /\ caller'[r] = caller[r]
      /\ user'[r] = user[r]
  BY ChangesStay DEF Accounts
<1>2. UserEntry(r)' = UserEntry(r)
  BY <1>1 DEF UserEntry, Entry
<1>3. audit \subseteq audit'
  BY DEF Next, Boot, Crash, Arrive, Admit, Enter, Refuse, Step, PutUser, PutUserFails,
     DeleteUser, DeleteUserFails, UserRecord, Record
<1>4. pc[r] \in {"record", "lost"} => pc'[r] \in {"record", "lost"} \/ UserEntry(r) \in audit'
  <2> SUFFICES ASSUME pc[r] \in {"record", "lost"}
               PROVE  pc'[r] \in {"record", "lost"} \/ UserEntry(r) \in audit'
    OBVIOUS
  <2>1. CASE Boot \/ Crash
    BY <2>1 DEF Boot, Crash, InFlight, TypeOK
  <2>2. ASSUME NEW s \in Reqs, Arrive(s) \/ Step(s), s # r
        PROVE  pc'[r] = pc[r]
    BY <2>2, StepFrame
  <2>3. CASE Arrive(r)
    BY <2>3 DEF Arrive, Admit, Enter, Refuse
  <2>4. CASE Step(r)
    <3>1. UserRecord(r)
      BY <2>4 DEF Step, PutUser, PutUserFails, DeleteUser, DeleteUserFails, At
    <3> QED BY <3>1 DEF UserRecord, Record
  <2> QED BY <2>1, <2>2, <2>3, <2>4 DEF Next
<1> QED BY <1>1, <1>2, <1>3, <1>4 DEF Accounts

\* ChangesAudited is inductive.
LEMMA AuditKept ==
  ASSUME TypeOK, Control, Next, ChangesAudited
  PROVE  ChangesAudited'
<1> SUFFICES ASSUME ~DevEnv, ~StoreMayFail, NEW e \in Emails,
                    admins'[e] # InitialAdmins[e]
             PROVE  \E r \in Reqs : Accounts(r, e)'
  BY DEF ChangesAudited, Accounts
<1>1. CASE admins'[e] = admins[e]
  <2>1. PICK r \in Reqs : Accounts(r, e)
    BY <1>1 DEF ChangesAudited, Accounts
  <2> QED BY <1>1, <2>1, AccountsStay
<1>2. ASSUME NEW r \in Reqs, PutUser(r), admins'[e] # admins[e]
      PROVE  Accounts(r, e)'
  <2>1. call[r].email = e /\ admins'[e] = user'[r] /\ Changed(r, e)'
    BY <1>2, PutIsExplained DEF TypeOK, RequestsTypeOK
  <2>2. pc'[r] = "record"
    BY <1>2 DEF PutUser, Goto, TypeOK
  <2> QED BY <2>1, <2>2 DEF Accounts
<1>3. ASSUME NEW r \in Reqs, DeleteUser(r), admins'[e] # admins[e]
      PROVE  Accounts(r, e)'
  <2>1. call[r].email = e /\ admins'[e] = NoUser
    BY <1>3 DEF DeleteUser, TypeOK, RequestsTypeOK
  <2>2. /\ pc'[r] = "record" /\ user'[r] = NoUser
        /\ call' = call /\ call[r] # NoCall
    BY <1>3 DEF DeleteUser, At, Goto, TypeOK, Control, ControlOf
  <2> QED BY <2>1, <2>2 DEF Accounts, Changed, Changes, Written
<1> QED BY <1>1, <1>2, <1>3, TableSteps

-----------------------------------------------------------------------------
(***************************************************************************)
(* The theorems                                                            *)
(***************************************************************************)

\* The invariant holds in the beginning.
LEMMA InitInv == Init => Inv
<1> SUFFICES ASSUME Init PROVE Inv
  OBVIOUS
<1>1. TypeOK /\ Control
  BY InitKeeps
<1>2. /\ admins = InitialAdmins
      /\ \A r \in Reqs : /\ pc[r] = "new" /\ caller[r] = NoCaller
                         /\ reply[r] = 0 /\ before[r] = {}
  BY DEF Init, InitRequests
<1> QED BY <1>1, <1>2 DEF Inv, AuthorityIsGranted, OwnersRegranted, Revoking,
           RevocationBinds, ChangesAudited

\* The invariant is inductive.
LEMMA NextInv == Inv /\ [Next]_vars => Inv'
<1> SUFFICES ASSUME Inv, [Next]_vars PROVE Inv'
  OBVIOUS
<1>1. TypeOK' /\ Control'
  BY NextKeeps DEF Inv
<1>2. CASE Next
  <2>1. CallersGranted /\ \A e \in Emails : admins[e] # NoUser => EntryExplained(e)
    BY DEF Inv, AuthorityIsGranted, CallersGranted, EntryExplained
  <2>2. CallersGranted' /\ \A e \in Emails : admins'[e] # NoUser => EntryExplained(e)'
    BY <1>2, <2>1, CallersKept, EntriesKept DEF Inv
  <2>3. AuthorityIsGranted'
    BY <1>1, <2>2 DEF AuthorityIsGranted, CallersGranted, EntryExplained, Control, ControlOf
  <2>4. OwnersRegranted' /\ RevocationBinds' /\ ChangesAudited'
    BY <1>2, RegrantsKept, RevocationsKept, AuditKept DEF Inv
  <2> QED BY <1>1, <2>3, <2>4 DEF Inv
<1>3. CASE UNCHANGED vars
  <2>1. AuthorityIsGranted'
    BY <1>3 DEF Inv, vars, AuthorityIsGranted, Seeded, Grants, Changed, Changes, Written
  <2>2. OwnersRegranted' /\ RevocationBinds'
    BY <1>3 DEF Inv, vars, OwnersRegranted, RevocationBinds, Revoking, Revokes, Grants,
       Changed, Changes, Written
  <2>3. ChangesAudited'
    BY <1>3 DEF Inv, vars, ChangesAudited, Changed, Changes, Written, UserEntry, Entry
  <2> QED BY <1>1, <2>1, <2>2, <2>3 DEF Inv
<1> QED BY <1>2, <1>3

\* The invariant holds throughout.
LEMMA Invariance == Spec => []Inv
BY InitInv, NextInv, PTL DEF Spec

\* Authority is handed on, never found: every caller ever admitted was seeded
\* as an owner or made one by another request, and every entry of the table is
\* accounted for (AuthorityIsGranted).
THEOREM AuthorityGranted == Spec => []AuthorityIsGranted
<1>1. Inv => AuthorityIsGranted
  BY DEF Inv
<1> QED BY <1>1, Invariance, PTL

\* Once its demotion or removal has been acknowledged nobody is admitted whom
\* no request has made owner again (RevocationBinds).
THEOREM RevocationsBind == Spec => []RevocationBinds
<1>1. Inv => RevocationBinds
  BY DEF Inv
<1> QED BY <1>1, Invariance, PTL

\* In a persistent store an entry that differs from the seed is audited, about
\* to be, or lost to a stop of the process (ChangesAudited).
THEOREM ChangesAreAudited == Spec => []ChangesAudited
<1>1. Inv => ChangesAudited
  BY DEF Inv
<1> QED BY <1>1, Invariance, PTL

\* Once no owner is left and no request under way, nothing the process can do
\* changes the table or the log again (LockoutIsPermanent).
THEOREM LockoutsArePermanent == Spec => LockoutIsPermanent
<1> DEFINE Locked == (LockedOut /\ ~DevEnv) => LockedOut' /\ UNCHANGED <<admins, audit>>
<1>1. TypeOK /\ [Next]_vars => [Locked]_vars
  <2> SUFFICES ASSUME TypeOK, Next, LockedOut, ~DevEnv
               PROVE  LockedOut' /\ UNCHANGED <<admins, audit>>
    OBVIOUS
  <2> USE DEF TypeOK, RequestsTypeOK, LockedOut, InFlight
  <2>1. CASE Boot \/ Crash
    <3>1. UNCHANGED <<admins, audit>>
      BY <2>1 DEF Boot, Crash
    <3>2. \A r \in Reqs : pc'[r] = pc[r]
      BY <2>1 DEF Boot, Crash
    <3> QED BY <3>1, <3>2
  <2>2. ASSUME NEW r \in Reqs, Arrive(r) \/ Step(r)
        PROVE  LockedOut' /\ UNCHANGED <<admins, audit>>
    <3>1. pc[r] = "new"
      BY <2>2, StepFrame
    <3>2. ~Step(r)
      BY <3>1 DEF Step, PutUser, PutUserFails, DeleteUser, DeleteUserFails, UserRecord,
         Record, At
    <3>3. PICK jwt \in Emails \cup {NoEmail} :
            \/ \E op \in {"putUser", "deleteUser"}, e \in Emails :
                 Admit(r, jwt, [op |-> op, email |-> e])
            \/ Refuse(r, jwt)
      BY <2>2, <3>2 DEF Arrive
    <3>4. AuthStatus(resolveEmail(jwt)) # 200
      BY OnlyOwnersPass
    <3>5. Refuse(r, jwt)
      BY <3>3, <3>4 DEF Admit
    <3> QED BY <3>5 DEF Refuse, Answer
  <2> QED BY <2>1, <2>2 DEF Next
<1> QED BY <1>1, TypeCorrect, PTL DEF Spec, LockoutIsPermanent
=============================================================================
