----------------------------- MODULE AdminRequests -----------------------------
(***************************************************************************)
(* The life of one HTTP request of cmd/admin-api, as far as every mutating *)
(* handler shares it: IAPAuth (pkg/config/rbac.go) resolves the caller and *)
(* takes a snapshot of its role, ownerOnly (handlers/handlers.go) admits   *)
(* owners, the handler of a component runs, and Recorder.Record            *)
(* (pkg/config/audit.go) appends the audit entry just before the reply.    *)
(*                                                                         *)
(* The server runs every request in a goroutine of its own; the calls on   *)
(* the Store are atomic (MemStore holds its lock for the whole call), so   *)
(* an action is a stretch of the handler with exactly one shared access.   *)
(* A request is used once: Reqs bounds how many the server ever serves.    *)
(***************************************************************************)
EXTENDS Integers

CONSTANTS
  Reqs,          \* the requests served
  Emails,        \* identities that may appear in a token or in admin_users
  NoEmail,       \* "": no token, a token that fails verification, no bypass
  DevEnv,        \* Env == "dev"
  BypassEmail,   \* ADMIN_API_DEV_IAP_BYPASS_EMAIL
  VerifierWired, \* IAPAuthConfig.Verifier != nil
  StoreMayFail,  \* may a Store call return an error other than ErrNotFound?
                 \* never with MemStore; the interface allows it
  InitialAdmins  \* admin_users when the server starts serving

Roles == {"owner", "operator", "viewer"}

Users  == [role : Roles, addedBy : Emails \cup {NoEmail}]
NoUser == [role |-> "none", addedBy |-> NoEmail]

ASSUME EmailsAssumption ==
  /\ NoEmail \notin Emails
  /\ BypassEmail \in Emails \cup {NoEmail}
  /\ InitialAdmins \in [Emails -> Users \cup {NoUser}]

ASSUME SwitchesAssumption ==
  /\ DevEnv \in BOOLEAN
  /\ VerifierWired \in BOOLEAN
  /\ StoreMayFail \in BOOLEAN

VARIABLES
  admins,  \* Store: email -> AdminUser, or NoUser
  audit,   \* Store: the audit entries; an ID is random, here the request
  pc,      \* request -> the next step of its handler
  call,    \* request -> the operation and resource its method and path name
  caller,  \* request -> config.Caller in its context
  reply,   \* request -> HTTP status, 0 until it is answered
  before   \* history: request -> the requests answered when it was admitted

requestVars == <<pc, call, caller, reply, before>>

NoCall   == [op |-> "none"]
NoCaller == [email |-> NoEmail, role |-> "none"]
Callers  == [email : Emails, role : Roles] \cup {NoCaller}

\* 200 stands for every 2xx.
Statuses == {0, 200, 400, 401, 403, 404, 409, 500, 503}

-----------------------------------------------------------------------------
InitRequests ==
  /\ admins = InitialAdmins
  /\ audit = {}
  /\ pc = [r \in Reqs |-> "new"]
  /\ call = [r \in Reqs |-> NoCall]
  /\ caller = [r \in Reqs |-> NoCaller]
  /\ reply = [r \in Reqs |-> 0]
  /\ before = [r \in Reqs |-> {}]

Answered == {r \in Reqs : pc[r] = "done"}

\* The handler of this operation stands at this step.
At(r, op, label) == pc[r] = label /\ call[r].op = op

\* The handler writes its status line and returns.
Answer(r, status) ==
  /\ pc' = [pc EXCEPT ![r] = "done"]
  /\ reply' = [reply EXCEPT ![r] = status]
  /\ UNCHANGED <<call, caller, before>>

Goto(r, label) ==
  /\ pc' = [pc EXCEPT ![r] = label]
  /\ UNCHANGED <<call, caller, reply, before>>

\* jwt is the email the token proves, NoEmail if it is absent or rejected.
resolveEmail(jwt) ==
  IF DevEnv /\ BypassEmail # NoEmail
    THEN BypassEmail
    ELSE IF VerifierWired THEN jwt ELSE NoEmail

\* IAPAuth alone, which guards the read-only routes: 401 without an identity,
\* 403 for an email that is not in admin_users.
IAPStatus(email) ==
  IF email = NoEmail THEN 401
  ELSE IF admins[email] = NoUser THEN 403
  ELSE 200

\* Mutant: the route lacks ownerOnly.
AuthStatus_AnyAdmin(email) == IAPStatus(email)

\* IAPAuth followed by ownerOnly: 403 for a role below owner as well.
AuthStatus(email) ==
  IF email = NoEmail THEN 401
  ELSE IF admins[email].role # "owner" THEN 403
  ELSE 200

\* The handler starts, with the caller and its role in the request context.
Enter(r, email, c) ==
  /\ pc[r] = "new"
  /\ pc' = [pc EXCEPT ![r] = "admitted"]
  /\ call' = [call EXCEPT ![r] = c]
  /\ caller' = [caller EXCEPT
                  ![r] = [email |-> email, role |-> admins[email].role]]
  /\ before' = [before EXCEPT ![r] = Answered]
  /\ UNCHANGED <<admins, audit, reply>>

Admit(r, jwt, c) ==
  /\ AuthStatus(resolveEmail(jwt)) = 200
  /\ Enter(r, resolveEmail(jwt), c)

AdmitReader(r, jwt, c) ==
  /\ IAPStatus(resolveEmail(jwt)) = 200
  /\ Enter(r, resolveEmail(jwt), c)

\* A failing GetAdminUser is answered 403 as well, whatever the error.
Refuse(r, jwt) ==
  /\ pc[r] = "new"
  /\ \/ /\ AuthStatus(resolveEmail(jwt)) # 200
        /\ Answer(r, AuthStatus(resolveEmail(jwt)))
     \/ /\ StoreMayFail
        /\ resolveEmail(jwt) # NoEmail
        /\ Answer(r, 403)
  /\ UNCHANGED <<admins, audit>>

\* Mutant: a handler replies without recording.
Record_Skipped(r, entry) ==
  /\ pc[r] = "record"
  /\ Answer(r, 200)
  /\ UNCHANGED <<admins, audit>>

\* Recorder.Record and the 2xx reply. The error of PutAudit is dropped.
Record(r, entry) ==
  /\ pc[r] = "record"
  /\ \/ audit' = audit \cup {entry}
     \/ StoreMayFail /\ audit' = audit
  /\ Answer(r, 200)
  /\ UNCHANGED admins

Entry(r, action, resource, after) ==
  [id |-> r, actor |-> caller[r].email, role |-> caller[r].role,
   action |-> action, resource |-> resource, after |-> after]

-----------------------------------------------------------------------------
\* The request's Store write has taken effect.
Written(r) == pc[r] = "record" \/ reply[r] = 200

\* Neither request was in flight while the other one was.
Apart(q, r) == q \in before[r] \/ r \in before[q]

RequestsTypeOK ==
  /\ admins \in [Emails -> Users \cup {NoUser}]
  /\ caller \in [Reqs -> Callers]
  /\ reply \in [Reqs -> Statuses]
  /\ before \in [Reqs -> SUBSET Reqs]
=============================================================================
