# Verification of sclawion

TLA+ models of `cmd/admin-api`, `pkg/config` and the webhook checks of `pkg/connectors`,
the TLC runs that check them, and machine-checked proofs about them. Paths below are relative to the repository root
(`src/` in `PROJECT.json`).

## 1. The system

sclawion connects chat platforms to agents run by Scion. At this commit the *data
plane* (ingress, router, scion-bridge, emitter and the packages only they would use)
is scaffolding: its handlers answer 501 and its clients return "not implemented". The
*admin plane* is real: an HTTP server that owners use to configure tenants,
connectors, agents, swarms and each other, that rotates secrets, and that keeps an
audit log. It is concurrent (a goroutine per request, `containerConcurrency: 40`, up to
4 containers in `deploy/cloudrun/admin-api.yaml`) and it uses no transactions, no
preconditions and no locks beyond one Store call. That is where the hard behaviour is,
and what most of the models are about. Of the data plane, the functions that check and
decode webhooks are real as well, although no service calls them yet.

| Component | State | Operations | What makes it correct |
|---|---|---|---|
| Request pipeline: `pkg/config/rbac.go`, `audit.go`, `handlers/handlers.go` | the caller in the request context, the audit log | `IAPAuth` (identity, role snapshot), `ownerOnly`, `Recorder.Record`, reply | only owners change anything; every admitted request is answered; what changed is on record |
| Connectors: `handlers/connectors.go`, `pkg/config/secretwriter.go` | connector documents, versions of each secret in Secret Manager | PUT, `secrets:rotate` | refs name the right secret at a version that exists; an acknowledged rotation is in force; a rotation creates no connector |
| Admin users: `handlers/admin_users.go`, `main.go` | `admin_users` | PUT, DELETE, seeding at boot | authority only comes from an owner; revocation binds; a server can be administered |
| Tenants, agents, swarms: `handlers/{tenants,agents,swarms}.go` | one document each | create, patch, delete | a patch changes what it says; a deletion is final; stored documents are valid |
| `MemStore`: `pkg/config/memstore.go` | five tables of documents, under one RWMutex | get, put, delete, list | a call is atomic, a listing is one moment, every call returns |
| Audit listing: `pkg/config/audit.go`, `handlers/audit.go`, `ListAudit` | the audit entries and their stamps | stamp, store, filter, sort by time, limit | nothing missing, most recent first |
| Web UI: `handlers/ui.go` | - | pages of several Store reads | a page shows no effect without its cause |
| Validation: `pkg/config/validate.go` | - | four validators | what is stored satisfies them |
| Webhook checks: `pkg/auth/hmac.go`, `pkg/connectors/*` | - | signature and skew checks | only what the platform signed for this connector, in the window |
| Slack decoder, envelope | - | body to `Envelope` | one conversation id per thread |
| `FirestoreStore`, services of the data plane, Google Chat verifier, Pub/Sub, correlation, replay cache, OIDC | stubs | - | - |

How they interact: every mutating handler runs behind `IAPAuth` and `ownerOnly`, calls
one or two Store methods (rotation also calls `secrets.Writer.AddVersion` first), then
`Recorder.Record`, then replies. `admin_users` is both data of one component and the
gate of all of them. The secret store is shared through `SecretNamer`, which joins
tenant and platform with hyphens that both may contain.

Hard behaviours, each listed at its line under `hazards` in `PROJECT.json`: two
read-modify-writes of one document interleave (connector PUT against rotation, patch
against patch, patch against deletion); a rotation has three effects in two stores and
may fail after the first; the role of a caller is a snapshot; the document changes
before its audit entry exists and the process may stop in between; a missing document and
a failed read are not told apart by PUT; zero values in a patch body mean "absent",
except one flag; a page makes up to four reads while others write; the audit log is
ordered by a clock that may be set back; what is signed of a webhook is put together from two
of its parts; readers and writers wait for each other at one
lock; the skew check negates a number that may have no negation.

## 2. The modules

    AdminRequests <- Connectors      <- ConnectorsProofs
                  <- AdminUsers      <- AdminUsersProofs
                  <- TenantDocuments <- TenantDocumentsProofs
                  <- AdminViews      <- AdminViewsProofs
    StoreCalls    <- AtomicStore
                  <- MemStore        <- MemStoreProofs
    Webhooks      <- WebhooksProofs

`AdminRequests` is the part every handler shares and has no `Next` of its own; the four
component modules next to it extend it, add their documents and the steps of their
handlers, and define `Spec`. `MC<module>` gives the constants values for TLC.
The modules `...Proofs` hold the proofs.

In these modules an action is a stretch of a handler with exactly one access to shared
state: a Store call is atomic, so everything between two calls is local to the goroutine.
`pc[r]` is the place between two accesses, `reply[r]` the HTTP status. That `MemStore`'s
calls are atomic is not taken for granted: `MemStore` models them statement by statement
and is shown to implement `AtomicStore`.

**AdminRequests.** `Admit` is `IAPAuth` followed by `ownerOnly`: `resolveEmail` (dev
bypass, verifier missing or not), the lookup in `admins`, and the role snapshot `caller[r]`
that the handler keeps. `AdmitReader` is `IAPAuth` alone, which guards the routes that
only read. `Refuse` is the 401 and 403 answers. `Record` is `Recorder.Record`
with the dropped error of `PutAudit`, together with the reply. Conventions:

* a request in `Reqs` is used once, so `Reqs` bounds how many requests are served;
* `jwt` is the identity the token proves, `NoEmail` when it is absent or refused;
* status 200 stands for every 2xx;
* the id of an audit entry, random in the code, is the request;
* `before[r]`, the requests that had been answered when `r` was admitted, is a history
  variable: no action reads it, properties use it to say "did not overlap";
* `StoreMayFail` stands for a `Store` other than `MemStore`: the interface lets any call
  return an error. A failed call is taken not to have had an effect. (`AddVersion`, an
  RPC, may have had one: `RotateAddVersionFails`.)

**Connectors.** `conns`, the secret store `latest` (resource to newest version; external,
modelled from the contract of `secrets.Writer`), and per request the document in its
memory `doc` and what its rotation obtained `minted`. `Put` is `PutRead` (decode, validate,
`KeepRefs` of whatever `GetConnector` returned), `Write`, `PutRecord`; `Rotate` is
`RotateAddVersion`, `RotateRead` (`PointSlot`), `Write`, `RotateRecord`; the other actions
are their refusals and failures. Names are sequences of hyphen-separated parts, so that
`SecretNamer` yields equal names exactly when the code does (the run `ConnectorFaults`
has tenant `acme-x` with platform `slack` and tenant `acme` with platform `x-slack`, which
rotation does not validate before `AddVersion`). `InitialConns` and `InitialLatest` are what
an earlier server left behind. A webhook path is always the platform's
own once validated, so documents do not carry it, while bodies do.

**AdminUsers.** `PutUser`, `DeleteUser`, their failures and `UserRecord`, on the table
`admins` that `Admit` reads. `Boot` is `requireOwnerSeed`; `Crash` stops the process at
any moment: requests in flight get no answer, a dev `MemStore` is forgotten, a database
stays. `pc = "lost"` marks a request whose write had been made when the process stopped.

**TenantDocuments.** One module for tenants, agents and swarms, whose handlers share their
control; `Present`, `Merge`, `Valid`, `Deleted` and `Bodies` say where the kinds differ. A
document is a required text (display name; name and model; topology), an optional list
(skills; roster), a number (budget; envelope counts), the disabled flag of tenants and its
author. Timestamps are left out. Nothing in the code relates a document to the tenant in
its path (no existence or disabled check), so a name stands for the whole path.

**StoreCalls, AtomicStore, MemStore.** `StoreCalls` has the calls of `config.Store` on keyed
documents and the shapes of the five tables: flat or with an inner map per tenant, erased by
a deletion, disabled by it (tenants), or without one (connectors). `AtomicStore` is what the
handlers take a Store to be: a call takes effect, and fixes its result, at one instant
between call and return, with one action for each effect (`List`, `Put`, `Get`, `Delete`,
`Miss`). In `MemStore` a call takes the RWMutex (`RLock`, `Lock`), reads and
writes the maps step by step (`Get`, `MakeInner` and `Put`, `DeleteLoad` and `DeleteChange`,
`ListVisit` for each turn of the range loop, `ListSort`), and unlocks. `sync.RWMutex` is
modelled as its documentation describes it: `pending` is the writer that has announced
itself, `readers` hold the lock, `parked` are the readers that came after `pending`; that
writer runs when `readers` is empty, and its unlocking lets all parked readers in. The
refinement maps the table to the maps as a lookup sees them (`Has`), calls and results to
themselves. The step that fixes the result is the one that takes effect.

**AdminViews.** Readers against writers. `List` is `listAudit` with `ListAudit`
(`Limit`, `Matches`, `Sortings`, `Truncate`; equal stamps come in any order, since
`sort.Slice` is not stable), `RenderAudit` the audit page, `PageRead` and `Render` the pages
of a tenant, one Store read at a time. On the writing side the reply of `AdminRequests` is
split: `Stamp` takes the wall clock, `Mirror` is `PutAudit`, `Reply` the status line. What a
writer writes is cut down to a section of one tenant, and `written[s]` is the set of
requests whose document is in section `s`: every write is taken to leave a document of its
own, which is the case for creates of different names and the most a reader can tell. The
filter by tenant is the same as those by actor and type and is left out.

**Webhooks.** Platforms sign requests, the network delivers them late, repeatedly, to
another connector, or damaged, and `Verify` judges them in the order of the code's checks. A
signature is a record of the header it comes in, the key and the message. Texts, of headers,
bodies and messages, are sequences of pieces (some digits, a mark, a post, anything else), and
`SignedText` concatenates them as the code does: `v0:<ts>:<body>` for Slack, `<ts><body>` for
Discord, the body for WhatsApp and iMessage. So the model can tell whether a message may be
taken apart in another place than it was put together, and `Resplit` lets the network try: it
moves the end of the header anywhere in the text. `Sub` saturates and `Negated` wraps as Go's
do, for any `MaxDuration`. A post is its event id, channel, `ts` and `thread_ts`; `root`, the
thread it belongs to, is known to the model only.

Operators named `<Definition>_<Change>` and marked "Mutant" are not part of any
specification. Each is the form a definition would take after a plausible bug; substituted
for the original, it makes TLC report the property it is listed with in `PROJECT.json`.

## 3. The runs

`tlc -config <run>.cfg <module>.tla`. `CHECK_DEADLOCK FALSE` everywhere but in `MemStore`:
requests, and deliveries of webhooks, are used once, so the model stops when all are
answered. The clients of `MemStore` never stop, and no deadlock is a result. Symmetry in `Reqs` is used in safety
runs only; requests are interchangeable and no cfg distinguishes them.

| Run | Question | Bounds |
|---|---|---|
| `Connectors` | What do races on one connector preserve? | 3 requests, a connector that exists (one secret rotated, one set by hand) and one that does not, 2 rates, bodies with and without refs; about 256 000 states |
| `ConnectorFaults` | And with a failing store, a missing secret, and names that coincide? Is every request answered? | 2 requests, 4 connectors of which 1 exists, 1 unprovisioned secret; about 26 000 states |
| `AdminUsers` | Who may change the table, across restarts of a persistent one? | 3 requests, 2 people, any number of stops; about 83 000 states |
| `AdminUsersDev` | And in dev: bypass, seeding, a store that is lost and may fail? Is every request answered? | 2 requests, 2 people; about 6 500 states |
| `TenantDocuments` | What do races on documents preserve? | 3 requests, a tenant and a swarm that exist; about 441 000 states |
| `DocumentFaults` | Are invalid names and bodies kept out, and every request answered? | 2 requests, 3 kinds with a valid and an invalid name; about 66 000 states |
| `MemStore` | Are the calls of the locked maps atomic, and do they all return? | 3 goroutines calling for ever, a tenant and two agents; about 56 000 states |
| `AdminViews` | What can somebody rely on who reads while others write? | 3 requests, 2 sections, a page of 4 reads, limits of 1 and none, a clock of 2 values; about 2 600 000 states |
| `Webhooks` | What do the verifiers accept, and which conversation is it? | 5 connectors (2 Slack), posts of 3 threads in 2 channels, 2 signed requests, 2 deliveries, a clock of 3 values, a window of 1, durations of 4 bits; about 3 060 000 states |

Three requests are enough for the cases that matter: one that overlaps nothing, followed
by two that race, which is what the "sticks" properties are about, on documents that exist
from the start; or a revocation, a grant and the request it must bind; or two that race and
one that observes. Connectors also have one that does not exist, for the races to create it.
Documents do not influence each other, so one of each kind suffices, except where secret names
coincide, for which `ConnectorFaults` has four connectors. Of two with one secret only one can
ever exist (`SecretsAreNotShared`); the other is rotated all the same. Two values per field tell an
old value from a new one. In `AdminViews` three requests are two writers and a reader, or a
writer and two readers of which one knows of the other; the default limit is 1 so that two
entries exceed it. In `MemStore` three goroutines are a writer at work, one that waits, and a reader
between them; a flat, softly deleted table and a nested, erasing one show both kinds of
shape. In `Webhooks` a second delivery is a repetition, the other half of a thread, or a post of
another thread of the same channel, or of another channel at the same time; the
offsets of senders are chosen within the window, beyond it, and beyond any Duration.

What the passing runs show:

* `RefsGenuine`: whatever races or fails, a stored ref that was not there at the start names
  the connector's own secret, in the right slot, at an existing version minted by a rotation
  that has written, or was brought by a PUT of that connector which was admitted before any
  request on it had succeeded. A failed or unfinished rotation never shows, and once a
  connector is known to exist no body sets its refs. Over a Store whose reads fail any PUT
  may bring refs, since it takes the error for an absence; there the property only says that
  a PUT of this connector did.
* `SecretsAreNotShared`: the joined name of a secret does not tell tenant from platform, but
  no two connectors that can be stored have one in common.
* `AuditExplainsStore`, `AuditExplainsDocuments`, `ChangesAudited`: what is stored can be
  traced to audited requests, or to one between its write and its record, or, after a
  stop, to a lost one. In particular a rotation never brings a connector into being.
* `IsolatedRotationSticks`, `IsolatedWritesStick`, `IsolatedDeletionSticks`: a request that
  overlapped no other on its document is never undone by races among *later* requests.
  These are the strongest durability promises the code keeps; section 4 shows that
  overlap does lose rotations. In the same way a patch that overlaps a deletion writes the
  deleted document back.
* `SoloWritesAreExact`, `SoloPatchesAreExact`: a request alone with its document changes
  what it names and nothing else, and the `before` snapshot in its audit entry is what it
  overwrote. `Present` records which body fields count as named: a zero budget reads as
  absent (`mergeAgent`), whereas the `disabled` flag of a tenant is assigned by every patch.
* `AuthorityIsGranted`, `RevocationBinds`: every admitted caller is a seeded owner or was
  made owner by an admitted one, and no caller is admitted after an acknowledged
  revocation unless somebody granted the role again since it began.
* `LockoutIsPermanent`: once no owner is left and no request is in flight, no call and no
  restart of a persistent deployment changes anything again. (The model, like the code, lets
  the last owner remove itself; the property is about what follows.)
* `ImplementsAtomicStore`: the calls of `MemStore`, a soft deletion with its read and its
  write and a listing with its loop included, are linearizable; every other module rests on
  this. `EveryCallReturns`: readers do not shut out writers nor the reverse.
* `ListingComplete`, `ListingInOrder`: an entry whose request was answered, or that was
  listed once, is in every later listing that asks for it, unless newer or equally old ones
  fill the limit; and as long as the clock is not set back, of two changes one after the
  other the later one is listed first, up to a tie of their stamps. (Overlapping changes may be
  listed in either order, whatever the order of their writes.)
* `PagesAreCausal`: a page may show a state that never was, but no change without those its
  author could know of, in the sections read later, and none is missing that the reader of
  the page could know of. A section may be empty because its read failed.
* `AcceptedAreSigned`: what a verifier accepts goes back to a request its platform signed for
  this connector. How much of it the signature ties down differs: of Slack the timestamp and
  the body, which the colon keeps apart (the mutant drops it); of WhatsApp and iMessage the
  body; of Discord only the characters of timestamp and body run together. A Discord request
  whose header ends elsewhere in that text is accepted, with a timestamp and a body that
  nobody sent.
* `WindowKept`: undamaged Slack requests are accepted exactly within the window, apart from the
  finding below, and those of the other platforms at any age.
* `ConversationsAreThreads`: a thread and its first post are one conversation; other threads,
  of the same channel or another, are others.
* `EveryRequestAnswered`, `EveryRequestEnds`, `EveryDocumentRequestAnswered`: no handler hangs.

**Fairness.** `FairSpec` assumes weak fairness of `Step(r)` for each request: net/http runs
a handler in its own goroutine, the Go scheduler does not starve it, and no step waits for
another request (`MemStore` releases its lock at the end of each call; a call on another
Store is taken to return, with or without an error). Nothing is assumed of clients
(`Arrive`), of the process being stopped or started, or of errors.
In `MemStore`, `FairSpec` assumes weak fairness of `RLock`, `Unlock` and the body of each
client's call (the scheduler again), and strong fairness of `Lock`: the writers' mutex may be
found taken each time, but `sync.Mutex` hands itself to the goroutine that has waited longest
once that is more than a millisecond. Weak fairness would not do: TLC then shows one writer
starved by the others. Nothing is assumed of `Invoke`.

## 4. Where documentation and code disagree

Each is a run that ends in a counterexample; `findings` quotes the texts.

* `RotationSticks`: a PUT, or a rotation of the other slot, that read the connector before
  an acknowledged rotation writes the old ref back. Two rotations of one slot may also
  leave the older version in place.
* `VersionBumpAudited`: a rotation of a connector that does not exist adds a secret version,
  answers 404, and leaves no audit entry.
* `SkewIsRefused`: for a timestamp more than 292 years ahead, as of a sender that counts
  milliseconds, `Sub` saturates at the least Duration, whose negation is itself, and the
  request passes the skew check (it still needs a signature).

Further remarks, each visible in a passing run, without a run of their own:

* The first PUT of a connector stores the refs in its body, while
  `docs/CHAT-INTEGRATION.md:108-109` says they "stay zeroed until you rotate"; `RefsGenuine`
  states what does hold.
* A request in flight when its caller is demoted still makes its change
  (`docs/CHAT-INTEGRATION.md:183-184`: "to prevent further mutations"); `RevocationBinds` is
  about requests that come later.
* `requireOwnerSeed` counts users, not owners: a server may start on a table of viewers,
  which `main.go:101-102` means to exclude. `LockoutIsPermanent` starts from there.
* `connector.go:12-13` and `docs/CONNECTORS.md:35` ask every verifier to enforce the window;
  Discord's checks a signature over the timestamp, but neither its age nor that it is a number
  (`discord.go:25-33`), so its message can be taken apart in several ways.
* `Redact` is said to replace fields (`audit.go:61-62`) and returns its argument as it is; the
  documents it is given hold references to secrets, not secrets.
* The comment of `TestAdminAPI_AuditOrdering` speaks of ULIDs; ids are random (`audit.go:71-77`)
  and do not order anything.

## 5. The proofs

`tlapm <module>Proofs.tla` checks the proofs about a module; there are six. Every
invariant, action property and refinement that a passing run checks is a theorem. They hold
for any sets of requests, identities, documents and so on, and any initial `admin_users`
and connectors, not just for the small instances of section 3. The assumptions are those named in the
modules (`EmailsAssumption`, `SwitchesAssumption` and one or two of each component); they
give constants their types and keep absent values apart from present ones, where nothing
else is said below, and TLC evaluates them in every run.

Few of the properties are inductive by themselves, so each module of proofs defines an
invariant `Inv` that is: `InitInv` and `NextInv` show it, `Invariance` is `Spec => []Inv`,
and the theorems follow from it. TLC checked each `Inv` on the instances of the runs before
it was proved. In the modules about requests, `Control` (or `ControlOf(r)`) says what holds of
one request at each step of its handler; a step of one request leaves the others alone
(`StepFrame`), so that each proof of preservation has a case for the request that moves and
a frame argument for the rest.

### Connectors

| Theorem | Property |
|---|---|
| `TypeCorrect` | `Spec => []TypeOK` |
| `RefsAreGenuine` | `Spec => []RefsGenuine` |
| `AuditExplains` | `Spec => []AuditExplainsStore` |
| `SecretsStayApart` | `Spec => []SecretsAreNotShared` |
| `RotationsStick` | `Spec => []IsolatedRotationSticks` |
| `SoloWritesExact` | `Spec => SoloWritesAreExact` |

The invariant `Inv` is the conjunction of

* `TypeOK`;
* `Control`: what holds of one request at each step of its handler (a request that is to
  write has a document of the right type; what it minted names its own secret at a
  version that exists; the requests before it are answered);
* `History`: each stored document is explained by what was there at the start and by requests,
  is of a known platform, is there if it was or if a request has written it, *and so is each
  document a request has in memory explained*. The second half makes it inductive: a stale copy that is about
  to be written back may hold a ref no longer stored, and must be as genuine as the store;
* `Alone`: for requests that overlap nothing, where the documents in memory came from. A
  request alone since it read holds the stored document with its own change; versions of
  one slot are ordered like the requests that minted them; and once an isolated rotation
  has written, not only the store but every copy that a later request is about to write
  holds its version or a newer one. That last part is what carries `RotationsStick` through
  any number of later races.

`InitialAssumption` says of the connectors at the start what `History` says of later ones: they
are valid, and their refs came in a body or point at the connector's own secret. That a body
sets refs only of a connector nobody could know of rests on `PresentOf` (a connector that was
written is there) and `MaySetStays` (what a PUT could know when it was admitted does not
change). `SecretsStayApart` needs `NamesStayApart`: platforms that validate are one part long,
so the slot, the platform and the tenant can be read off a joined name from its end.

### AdminUsers

| Theorem | Property |
|---|---|
| `TypeCorrect` | `Spec => []TypeOK` |
| `AuthorityGranted` | `Spec => []AuthorityIsGranted` |
| `RevocationsBind` | `Spec => []RevocationBinds` |
| `ChangesAreAudited` | `Spec => []ChangesAudited` |
| `LockoutsArePermanent` | `Spec => LockoutIsPermanent` |

`DevAssumption` adds that a dev process starts with an empty table, as `main.go` makes it.
`RevocationBinds` speaks of admitted callers, which is too late: the step that admits a
caller must already know why its entry makes it an owner. `OwnersRegranted` says it of the
table: an owner in it whose revocation has been written was made owner by a request that
had not been answered when the revocation was admitted. `ChangesStay` and `AccountsStay`
carry what a request has put through every later step, a stop of the process included.

### TenantDocuments

| Theorem | Property |
|---|---|
| `TypeCorrect` | `Spec => []TypeOK` |
| `AuditExplains` | `Spec => []AuditExplainsDocuments` |
| `WritesStick` | `Spec => []IsolatedWritesStick` |
| `DeletionsStick` | `Spec => []IsolatedDeletionSticks` |
| `SoloPatchesExact` | `Spec => SoloPatchesAreExact` |

As for connectors, what makes the promises inductive is that they cover the copies in
memory. `DocumentOf` says of what a document about to be written is made (the fields of the
body, merged into a document that was read); `Alone` says that what an isolated request
decided holds in the store *and* in each document that a later patch is about to write,
unless that patch decides the field itself, and that a patch holds a document after an
isolated deletion only if it has been created anew. `MergeFields`, `AuthoredFields` and
`DisabledFields` are the lemmas about the operators: which fields a merge, a create or a
soft deletion sets.

### MemStore

| Theorem | Property |
|---|---|
| `TypeCorrect` | `Spec => []TypeOK` |
| `StoreIsAtomic` | `Spec => ImplementsAtomicStore`: the refinement of `AtomicStore` |

For any goroutines, calls, tables and documents; ids are natural numbers for the sake of
their order, and there may be infinitely many. `Inv` consists of `Mutex` (who has been let in by
the RWMutex; from it `Excludes`: a writer inside is alone), `Locals` (what a call has in its local
variables is what the maps still hold, and a listing has visited different entries), and
`Inner` (a nested table without an inner map has no documents). `StepRefines` then maps each
step to an effect or to a stutter. The hard case is the end of a listing: what the range
loop collected, once sorted, is *the* listing of that moment. It rests on lemmas about
`Rank` (`RankAscends`, `RankIsBijective`): a set of ids has exactly one ascending list.

### AdminViews

| Theorem | Property |
|---|---|
| `TypeCorrect` | `Spec => []TypeOK` |
| `ListingsComplete` | `Spec => []ListingComplete` |
| `ListingsInOrder` | `Spec => []ListingInOrder` |
| `PagesCausal` | `Spec => []PagesAreCausal` |

For any writes, pages, queries and clock (`ViewsAssumption` gives queries their fields and the
default limit a positive value). `ListingsList` is about the pure part, filter, sort and truncation:
`Sortings` of a finite set has all its members, by counting (an injection between sets of one
size is onto), and truncation drops only entries that are as old or older. In `Inv`, `Logged`
says that an entry is the one of a request that is past PutAudit, so that an entry put later
was not announced earlier, which makes `ListingComplete` inductive; `Stored` says that a
section of the Store holds what has been written to it, so that a new read shows all that
anybody could know of (`KnownKept`), which does the same for `PagesAreCausal`. `Clock`, as long
as the clock has not been set back, orders the stamps of requests that follow each other.

### Webhooks

| Theorem | Property |
|---|---|
| `TypeCorrect` | `Spec => []TypeOK` |
| `AcceptedSigned` | `Spec => []AcceptedAreSigned` |
| `Window` | `Spec => []WindowKept` |
| `Conversations` | `Spec => []ConversationsAreThreads` |

They hold for any connectors, posts, clocks of senders, width of the window and range of
`Duration` (the runs have 4 bits, the code 64), under `WebhooksAssumption`: posts name their
thread as Slack does, and the window is narrower than the greatest Duration. `Inv` says that
every signed request is one its platform makes (`Genuine`) and every delivery came of a
signed one and was judged by `Verify` (`Judgement`); it is needed because the properties by
themselves say nothing of requests that are still under way. The rest is about single
deliveries: `SkewWindow` is the arithmetic of `CheckTimestampSkew`, `AcceptedMatches` that no
verifier accepts before it has compared, and `MatchingIsGenuine` what a comparison that holds
says of the request. For Slack that is its timestamp and its body, by
`SlackTextIsUnambiguous`: a timestamp that parses is made of digits, so the first colon after
`v0:` (`FirstMark`) is where it ends. The verifier of Discord parses nothing, and all that
follows is that the characters are the same.

### What stays with TLC

Liveness: `EveryRequestAnswered`, `EveryRequestEnds`, `EveryDocumentRequestAnswered` and
`EveryCallReturns` rest on fairness, that is on `ENABLED`, which the prover does not handle.
The three disagreements of section 4 are counterexamples and need no proof.

## 6. What is not modelled

* JSON GET handlers other than the audit listing (one Store call each), the UI pages of one
  read other than the audit page, templates and static files, and method or path dispatch.
  `RequireRole` has no caller.
* `gchat.Verifier`, which leaves everything but the presence of a token to an interface
  without an implementation, and the encoders and the decoders other than Slack's, which
  only return an error.
* Contents that no property tells apart: channels, timestamps, WallClock budgets, error
  texts, the log line of `Recorder.log`, plaintext of secrets (it is passed to `AddVersion`
  and dropped).
* `FirestoreStore`: a stub whose reads fail and whose writes do nothing. `main.go` also
  wires no secret writer and, outside dev, no IAP verifier, so today only dev and the
  integration tests exercise most of this code; the models take the wiring of
  `test/integration/admin_api_test.go` and the dev wiring, chosen by constants.
* The data plane and the packages listed as stubs in section 1.
* Cryptography: a signature is genuine or it does not match.
* Timestamps of webhooks at which `time.Unix` itself overflows, and a body that is not JSON
  (`Decode` runs on bodies that the platform signed).

## 7. Plan

Done: all modules of section 2, and the proofs of section 5. To be proved next, beyond what the
runs check:

1. In `MemStore`, that nobody waits for ever for want of somebody who will unlock (some
   goroutine other than a caller that has not called can always move): the safety part of
   `EveryCallReturns`.
2. In the modules of requests, the same for a request that has been admitted: a step of its
   handler can be taken whatever the state, so that the liveness properties need nothing
   but the scheduler.

To be modelled when the code grows: the wiring of `FirestoreStore`, the replay cache (which
would bound repeated webhooks) and the services of the data plane. An abstract register per
document, which the handlers implement as long as requests on it do not overlap, would say
`IsolatedWritesStick` as a refinement.
