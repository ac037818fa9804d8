------------------------------ MODULE AdminUsers ------------------------------
(***************************************************************************)
(* The admin_users registry: the handlers putAdminUser and deleteAdminUser *)
(* (cmd/admin-api/handlers/admin_users.go), which change the very table    *)
(* that IAPAuth reads to admit requests, and the life of the process:      *)
(* requireOwnerSeed at boot (cmd/admin-api/main.go) and a stop at any time,*)
(* which takes the requests in flight with it, and in dev the MemStore.    *)
(***************************************************************************)
EXTENDS AdminRequests

CONSTANT DevOwner  \* "owner@dev.local"

ASSUME DevAssumption ==
  /\ DevOwner \in Emails
  /\ DevEnv => InitialAdmins = [e \in Emails |-> NoUser]

VARIABLES
  up,   \* the process serves requests
  user  \* request -> the AdminUser it puts; NoUser for a deletion

vars == <<admins, audit, requestVars, up, user>>

-----------------------------------------------------------------------------
Init ==
  /\ InitRequests
  /\ up = FALSE
  /\ user = [r \in Reqs |-> NoUser]

Nobody == [e \in Emails |-> NoUser]

\* requireOwnerSeed: the dev bypass identity, or else owner@dev.local.
DevSeed == IF BypassEmail # NoEmail THEN BypassEmail ELSE DevOwner

\* A dev process seeds its owner; any other refuses to start on an empty table,
\* and is started again later with the same question.
Boot ==
  /\ ~up
  /\ IF DevEnv
       THEN admins' = [admins EXCEPT
                         ![DevSeed] = [role |-> "owner", addedBy |-> NoEmail]]
       ELSE admins # Nobody /\ UNCHANGED admins
  /\ up' = TRUE
  /\ UNCHANGED <<audit, requestVars, user>>

InFlight == {r \in Reqs : pc[r] \notin {"new", "done", "lost"}}

\* The process stops. Its requests get no answer ("lost" are those whose write
\* had been made); the tables of a MemStore are gone, those of a database stay.
Crash ==
  /\ up
  /\ up' = FALSE
  /\ admins' = IF DevEnv THEN Nobody ELSE admins
  /\ audit' = IF DevEnv THEN {} ELSE audit
  /\ pc' = [r \in Reqs |-> IF pc[r] = "record" THEN "lost"
                          ELSE IF r \in InFlight THEN "done" ELSE pc[r]]
  /\ UNCHANGED <<call, caller, reply, before, user>>

Arrive(r) ==
  /\ up
  /\ \E jwt \in Emails \cup {NoEmail} :
       \/ \E op \in {"putUser", "deleteUser"}, e \in Emails :
            Admit(r, jwt, [op |-> op, email |-> e])
       \/ Refuse(r, jwt)
  /\ UNCHANGED <<up, user>>

\* Mutant: AddedBy is what the body says.
Author_Body(r) == NoEmail

Author(r) == caller[r].email

\* Mutant: ValidateAdminUser lets any role pass.
ValidRoles_Any == Roles \cup {"none"}

\* The roles ValidateAdminUser accepts.
ValidRoles == Roles

PutUser(r) ==
  /\ At(r, "putUser", "admitted")
  /\ \E role \in ValidRoles :
       LET u == [role |-> role, addedBy |-> Author(r)]
       IN  /\ user' = [user EXCEPT ![r] = u]
           /\ admins' = [admins EXCEPT ![call[r].email] = u]
  /\ Goto(r, "record")
  /\ UNCHANGED <<audit, up>>

\* A body that does not decode, an unknown role, an email that is none: 400.
PutUserFails(r) ==
  /\ At(r, "putUser", "admitted")
  /\ \E status \in {400} \cup (IF StoreMayFail THEN {500} ELSE {}) :
       Answer(r, status)
  /\ UNCHANGED <<admins, audit, up, user>>

\* Mutant: a deletion is accepted and left to the record step.
DeleteUser_Ignored(r) ==
  /\ At(r, "deleteUser", "admitted")
  /\ admins[call[r].email] # NoUser
  /\ Goto(r, "record")
  /\ UNCHANGED <<admins, audit, up, user>>

\* Nothing asks whether an owner is left.
DeleteUser(r) ==
  /\ At(r, "deleteUser", "admitted")
  /\ admins[call[r].email] # NoUser
  /\ admins' = [admins EXCEPT ![call[r].email] = NoUser]
  /\ Goto(r, "record")
  /\ UNCHANGED <<audit, up, user>>

DeleteUserFails(r) ==
  /\ At(r, "deleteUser", "admitted")
  /\ \E status \in (IF admins[call[r].email] = NoUser THEN {404} ELSE {})
                  \cup (IF StoreMayFail THEN {500} ELSE {}) :
       Answer(r, status)
  /\ UNCHANGED <<admins, audit, up, user>>

UserEntry(r) ==
  Entry(r, IF call[r].op = "putUser" THEN "admin_user.put" ELSE "admin_user.delete",
        call[r].email, user[r])

\* Mutant: the deletion keeps the lock of the store that PutAudit needs.
UserRecord_Blocks(r) ==
  /\ call[r].op = "putUser"
  /\ Record(r, UserEntry(r))
  /\ UNCHANGED <<up, user>>

UserRecord(r) ==
  /\ call[r].op \in {"putUser", "deleteUser"}
  /\ Record(r, UserEntry(r))
  /\ UNCHANGED <<up, user>>

Step(r) == \/ PutUser(r) \/ PutUserFails(r) \/ DeleteUser(r) \/ DeleteUserFails(r)
           \/ UserRecord(r)

Next == Boot \/ Crash \/ \E r \in Reqs : Arrive(r) \/ Step(r)

Spec == Init /\ [][Next]_vars

\* The goroutines of admitted requests run; nothing obliges the process to be
\* started, or a client to call.
Fairness == \A r \in Reqs : WF_vars(Step(r))

FairSpec == Spec /\ Fairness

-----------------------------------------------------------------------------
(***************************************************************************)
(* Properties                                                              *)
(***************************************************************************)

Changes(r, e) == call[r] # NoCall /\ call[r].email = e

\* r has put or removed the entry of e, whether or not it came to answer.
Changed(r, e) ==
  /\ Changes(r, e)
  /\ Written(r) \/ pc[r] = "lost"

Grants(r, e) == call[r].op = "putUser" /\ Changed(r, e) /\ user[r].role = "owner"

Revokes(r, e) == Changed(r, e) /\ reply[r] = 200 /\ user[r].role # "owner"

Seeded(e) ==
  IF DevEnv THEN e = DevSeed ELSE InitialAdmins[e].role = "owner"

\* Type correctness; while the process serves, its table was seeded.
TypeOK ==
  /\ RequestsTypeOK
  /\ pc \in [Reqs -> {"new", "admitted", "record", "lost", "done"}]
  /\ call \in [Reqs -> [op : {"putUser", "deleteUser"}, email : Emails]
                        \cup {NoCall}]
  /\ up \in BOOLEAN
  /\ user \in [Reqs -> Users \cup {NoUser}]

\* Authority is handed on, never found: whoever was admitted is a seeded owner
\* or was made owner by another request, whose caller was admitted in turn; and
\* each entry of the table names the owner that put it.
AuthorityIsGranted ==
  /\ \A r \in Reqs : caller[r] # NoCaller =>
       /\ caller[r].role = "owner"
       /\ \/ Seeded(caller[r].email)
          \/ \E g \in Reqs \ {r} : Grants(g, caller[r].email)
  /\ \A e \in Emails : admins[e] # NoUser =>
       \/ admins[e] = InitialAdmins[e]
       \/ DevEnv /\ e = DevSeed
       \/ \E g \in Reqs : /\ Changed(g, e) /\ user[g] = admins[e]
                          /\ admins[e].addedBy = caller[g].email

\* A revocation binds every later request: a caller admitted after its own
\* demotion or removal was acknowledged has been made owner again since the
\* revocation began. (A dev restart forgets the table, revocations included.)
RevocationBinds ==
  ~DevEnv =>
    \A r, d \in Reqs :
      (d \in before[r] /\ caller[r] # NoCaller /\ Revokes(d, caller[r].email))
        => \E g \in Reqs \ {r, d} :
             Grants(g, caller[r].email) /\ g \notin before[d]

\* Every change of a persistent table is on record, but for the window between
\* the Store write and PutAudit, where the process may stop: an entry that
\* differs from the seed is the outcome of a request that is audited, about to
\* be, or lost.
ChangesAudited ==
  (~DevEnv /\ ~StoreMayFail) =>
    \A e \in Emails : admins[e] # InitialAdmins[e] =>
      \E r \in Reqs :
        /\ Changed(r, e)
        /\ user[r] = admins[e]
        /\ pc[r] \in {"record", "lost"} \/ UserEntry(r) \in audit

\* Nobody can change the table, and no request that still may is under way.
LockedOut == (\A e \in Emails : admins[e].role # "owner") /\ InFlight = {}

\* A lockout is permanent: the last owner can delete or demote itself, and from
\* then on no request is admitted and the table never changes, across restarts
\* too when the store persists. Only an out-of-band seed undoes it.
LockoutIsPermanent ==
  [][(LockedOut /\ ~DevEnv) => LockedOut' /\ UNCHANGED <<admins, audit>>]_vars

\* Every admitted request is answered, unless the process stops under it.
EveryRequestEnds == \A r \in Reqs : pc[r] = "admitted" ~> pc[r] \in {"lost", "done"}
=============================================================================
