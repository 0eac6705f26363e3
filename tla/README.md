# A TLA+ verification of SCIMage

SCIMage is a SCIM 2.0 provisioning server in Go over PostgreSQL. An identity
provider creates, replaces, patches, deactivates and deletes users and groups;
each change is audited and announced to a webhook receiver through a
transactional outbox. This directory holds TLA+ models of its stateful parts,
TLC configurations that check them on small instances, and TLAPS proofs of the
properties that matter most for instances of any size. Paths below are relative
to the repository (`internal/...` is `src/internal/...` in `PROJECT.json`).

## 1. Inventory of the system

| Part | State it keeps | Operations | What makes it hard, and what makes it right |
|---|---|---|---|
| Webhook outbox (`internal/store/outbox.go`, migrations 000004, 000011) | `webhook_deliveries`: status, attempts, next_attempt_at, delivered_at, last_error | enqueue (inside a mutation), claim, mark delivered, reschedule, dead-letter, purge, replay | Leases expire while their holder is still at work; answers of statements are lost; outcomes arrive late. Right if claims exclude each other, settled rows stay settled, the retry budget is exact and no row is stranded. |
| Webhook dispatcher (`internal/webhook/dispatcher.go`) | batch in hand, attempt number per row, HTTP call under way | Run, drain, attempt, send, backoff, retention sweep | Several replicas over one table; crash or shutdown between any two steps; a POST that times out after it landed. |
| User store and handlers (`internal/store/user.go`, `audit.go`, `internal/scim/handler.go`, `patch.go`) | `users`, `audit_log`, the outbox | CreateUser, UpdateUser, DeactivateUser, GetUser; create, replace, patch, deactivate | READ COMMITTED snapshots older than the row that is updated; read-fold-write in PATCH; waits and deadlocks in the unique index; commits whose answer is lost. Right if row, trail and events never part. |
| Group store and handlers (`internal/store/group.go`) | `groups`, `group_members` | CreateGroup, UpdateGroup, DeleteGroup; patchGroup | Before-image read in two statements; hard delete whose row count is not looked at; whole member list replaced. |
| Tenants, tokens, authentication (`internal/store/tenant.go`, `token.go`, `consoletoken.go`, `internal/scim/auth.go`, `internal/console/auth.go`) | `tenants`, `scim_tokens`, `console_tokens` | create, issue, revoke, authenticate | A token is read in one statement and acted on in later ones; two operators revoke at once. Right if a dead token opens nothing to later requests and tenants stay apart. |
| Rate limiter, timeout (`internal/scim/ratelimit.go`, `timeout.go`) | one bucket per token | allow, withTimeout | Refill at the cap, many goroutines, a deadline racing a commit. |
| Attribute registry (`internal/store/attribute.go`, `internal/scim/extended.go`) | `tenant_attributes`, the blob of a user | register, unregister, capture, split, apply, shape | The registry changes between the statements of a request; one PATCH is split into two lists that are applied apart. |
| Console (`internal/console`) | CSRF tokens (derived, not stored), a narrative cache | replay, replay all, issue and revoke tokens | Expiry at bucket boundaries, batch replay over a moving queue. |
| Admin CLI (`cmd/scimage-admin`), admin audit log (`internal/store/adminaudit.go`) | `admin_audit_log` | every administrative change | One transaction per change and its audit row; retries after a lost answer. |
| ARIA (`internal/aria`) | none | detect clusters in the trail, narrate | Sliding-window arithmetic at its boundary; entries in any order. |
| Server (`cmd/server/main.go`), pool (`internal/store/store.go`) | goroutines, listeners, connections | start, stop, acquire, release | Order of shutdown; a second connection taken while one is held. |
| Listing (`list` of `internal/scim/handler.go`, `ListUsers`) | none of its own | count and page in two statements | A walk over many pages while users are created. |
| Readiness probe (`internal/scim/health.go`) | none | ping | Takes a connection like any request, past authentication and under a deadline of its own. |
| Filters, discovery, mapping, logging, API documents | none | read-only | Not stateful. |

How they meet. A handler calls one store method; the store opens one
transaction that writes the row, the `audit_log` entry and the outbox event and
commits the three together (a refusal is audited outside the transaction). The
dispatcher shares nothing with the handlers but the table. The console and the
CLI call the same store; their replay moves a parked delivery back to pending
together with an `admin_audit_log` row. Requests, the console and the dispatcher
compete for the connections of one pool, which `main` closes last.

`PROJECT.json` lists the components with their status, and under `hazards` what
is hard to test in this code, each at its line and with the property that
covers it or the reason that none does yet.

## 2. Modules

| Module | Models | Used by |
|---|---|---|
| `DeliveryQueue` | what the outbox promises, without dispatchers, leases or clocks | refined by `Outbox` |
| `Outbox` | the table and any number of dispatchers | `MCOutbox`, `OutboxProofs` |
| `UserStore` | user handlers and user transactions of one tenant, under READ COMMITTED | `MCUserStore`, `UserStoreProofs` |
| `GroupStore` | group handlers and group transactions of one tenant, under READ COMMITTED | `MCGroupStore`, `GroupStoreProofs` |
| `Server` | the process: listeners, pool, the requests and the dispatcher as owners of connections, shutdown | `MCServer`, `ServerProofs` |
| `Access` | tenants, SCIM and console tokens, the two authentications, rate limiting, administrative changes and their log | `MCAccess`, `AccessProofs` |
| `Attributes` | the attribute registry and how users' requests capture, patch and shape registered attributes | `MCAttributes`, `AttributesProofs` |
| `Listing` | paging through users while others are created | `MCReads`, `ReadsProofs` |
| `Algorithms` | pure functions next to what they should compute: `backoff`, `maxCluster` and `Detect` | `MCReads`, `ReadsProofs` |
| `MCOutbox`, `MCUserStore`, `MCGroupStore`, `MCServer`, `MCAccess`, `MCAttributes`, `MCReads` | the instances TLC checks | the `.cfg` files |
| `Recursion` | nothing of the program: induction and recursion on numbers, stated with sets and functions | `AttributesProofs`, `ReadsProofs` |
| `OutboxProofs`, `UserStoreProofs`, `GroupStoreProofs`, `ServerProofs`, `AccessProofs`, `AttributesProofs`, `ReadsProofs` | theorems and proofs | |

### Outbox

One function per column of `webhook_deliveries` (`status`, `attempts`, `due`,
`age`, `last_error`), one per local of a dispatcher (`batch`, `claim`, `cur`,
`stage`), and history variables (`received`, `tries`, `faults`) that no guard
other than a bound reads. `due` is `next_attempt_at - now()` and `age` is
`now() - delivered_at`: timers that count, so that no absolute clock is needed.

| Action | Code |
|---|---|
| `Enqueue` | `Store.enqueueChange` / `enqueueGroupChange`, at commit |
| `ClaimDueDeliveries`, `ClaimAnswerLost` | `Store.ClaimDueDeliveries`, one UPDATE; and the same with its answer lost |
| `StartSend`, `ReceiverAccepts`, `SendReturns` | `drain`'s loop, `send`: the POST begins, lands, returns; it may land and still return an error |
| `MarkDelivered`, `RescheduleDelivery`, `DeadLetterDelivery`, `OutcomeLost` | `attempt` and the three outcome statements; and their failure, which is only logged |
| `PurgeDelivered` | the retention ticker and `PurgeDeliveredBefore` |
| `ReplayDeadLetter` | `Store.ReplayDeadLetter` with its audit row |
| `StopDispatch`, `RunReturns`, `Crash`, `PoisonCrash`, `Restart` | shutdown in `cmd/server/main.go`, and the process dying |
| `Tick` | time |

Decisions. A claim is atomic, which is what `FOR UPDATE SKIP LOCKED` in one
statement gives. A POST lasts at most `Timeout`, because the HTTP client has
one; anything else a dispatcher loses while it has a batch in hand (statements,
pauses) is charged to `MaxStall` ticks per batch. Leases are set and compared by
the database clock. Two instants come from the clock of the dispatcher's process,
`d.now()`: the `next_attempt_at` of a retry (`dispatcher.go:296`) and the cutoff of
the retention sweep (`dispatcher.go:240`). Each is off by up to `ClockSkew` either
way (`Offsets`), chosen anew for every use. `Backoff` is a constant function; its
jitter is a choice of up to a fifth. Webhooks are switched on. `tries` (what
`ChargeTries` counts), the crash and what dies with the process (`LoseWork`) have no
lines in the source and are marked external.

### UserStore

`users`, `audit` and `events` are the tables; `holder` is the row lock;
`phase`, `job`, `image`, `started`, `before` are the locals of a request. `read` and
`began` are history: how long the trail was when a PATCH read its row and when a
transaction began. No guard reads them; the properties use them to name overlaps.

| Action | Code |
|---|---|
| `Arrive`, `BadRequest` | routing and validation of the four handlers |
| `GetUserForPatch` | the read in `patch`; `Folded` is `applyPatch` on the two attributes kept |
| `Begin` | `pool.Begin`, where `now()` is fixed |
| `InsertRow` | the INSERT of `CreateUser` |
| `TakeSnapshot` | the CTE `b` of `UpdateUser` / `DeactivateUser` reads its before-image; a missing row, or an id that is no uuid, is a refusal |
| `LockRow` | the UPDATE of the same statement gets the row, perhaps after waiting, and works on the newest committed version |
| `CheckName` | the unique index on `(tenant_id, lower(user_name))`: a writer waits for open transactions with the same key (`Blockers`), then conflicts or goes on |
| `Commit`, `CommitAnswerLost` | audit entry, event and commit; and a commit whose answer does not arrive in time |
| `Fail`, `ExternalIdClash`, `DeadlockAbort` | a failed statement or deadline; the other unique index; Postgres' deadlock detector |

Decisions. The insert of the audit entry and of the event are private to the
transaction until it commits, so they are part of the commit step; their
failure is `Fail`. A row keeps `userName`, `active` and `updated_at`, which are
what the properties tell apart. `externalId` is left out and its index may
refuse any write. An audit entry has its `at`, which is `now()` of its transaction
and so the moment it began: the trail is a sequence in commit order, while the code
lists it by `at`. `TrailMatchesRows` is about the first order, `NewestIsCurrent`
about the second.

### GroupStore

`groups` holds a group with its members, `audit` and `events` the entries and
deliveries about groups, `holder` the row lock; a request's locals are those of
`UserStore`.

| Action | Code |
|---|---|
| `Arrive`, `BadRequest` | routing, `decodeGroup`, `applyGroupPatch` and `validateGroup` |
| `GetGroupRow`, `GetGroupMembers` | `GetGroup` for `patchGroup`, two statements; `WantedMembers` is what `setMembers` and `removeMember` make of it |
| `Begin`, `InsertRow` | `pool.Begin`; the INSERT of `CreateGroup` |
| `ReadBeforeRow`, `ReadBeforeMembers` | `getGroupTx`, two statements in `UpdateGroup` and `DeleteGroup` |
| `LockRow`, `RowGone` | the UPDATE or DELETE gets its row; or the row has gone since it was read, which an update answers with a 500 and a delete does not notice |
| `CheckName` | the unique index on `(tenant_id, lower(display_name))` |
| `RefuseMembers` | `replaceMembers` counts fewer inserted rows than ids |
| `Commit`, `CommitAnswerLost`, `Fail`, `ExternalIdClash`, `DeadlockAbort` | as in `UserStore` |

Decisions. A group's row and its members are one variable: whoever writes
either has locked the row first, and both become visible with the commit. They
are nevertheless read apart, because each statement at READ COMMITTED has a
snapshot of its own. Member lists are sets (`replaceMembers` removes duplicates
and empty ids in Go, with `dedupeNonEmpty`); `Stranger` is an id that is no user of
the tenant. A delete's event carries `time.Now()` of the process and all others the
database's `now()`; `Skew` is how far the first may be behind or ahead of the
second. `read` and `began` are the history they are in `UserStore`. `Ops` restricts a run to the
operations it is about. Users are never deleted by the program, so the set of
member candidates is constant.

### Server

`main`, `cause`, `listener`, `grace`, `pool`, `dispatch` are the process;
`owner` says who has a connection; `phase`, `age`, `answer` are a request's.
What the statements of a request do is in the other modules: here it is only
followed from connection to connection.

| Action | Code |
|---|---|
| `Arrive`, `Acquire` | a listener hands over a request; `pool.Acquire`, at once or after a wait |
| `Probe`, `Pinged` | `/readyz`: `ReadinessHandler` pings the database within `readyTimeout` |
| `Authenticated`, `Touched`, `ReadDone`, `Commit` | `requireToken` / `requireConsoleToken`, `TouchToken` and `throttle` or `checkCSRF`, a plain read (a handler may make any number of them, each with a connection of its own), a transaction |
| `Refuse`, `RevokesNothing`, `Recorded`, `RolledBack` | a refused mutation keeps its transaction open while `auditRefusal` takes a second connection (`AskSecond`); so does the console's revocation that changed no row |
| `Fault`, `PoolClosed`, `TimesOut`, `ClientGoes` | a failed statement, a closed pool, the end of `withTimeout`'s context, of the client's connection; `StepFails` is what each handler makes of it |
| `Claim`, `Claimed`, `RunReturns` | the dispatcher's statements and its return |
| `Listen`, `BindFails`, `SelectErr`, `Signal` | `ListenAndServe` in two goroutines and the `select` of `run` |
| `ScimDrained`, `ConsoleDrained`, `StopDispatch`, `WaitReturns`, `CloseReturns`, `SecondSignal` | the two `Shutdown`s, `stopDispatch`, `wg.Wait`, `s.Close`, and a second signal |
| `Tick` | time |

Decisions. A handler whose context has ended runs to its end without a wait,
because every later call fails at once; it is one step. `Prompt = TRUE` lets
time pass only when nobody can go on, so that what then times out was stuck and
not slow. `pool.Close` waits for connections that are out, as pgx does. A SCIM
request has a deadline (`Deadline` is at least 1): the opt-out of a
`SCIM_REQUEST_TIMEOUT` of 0 or less is not modelled. `Arrive` and `Finish` stand
for `net/http` and for the deferred releases of every store method, not for one
line of the source, and are marked external.

### Access

`tokens` stands for both token tables, which have the same columns and the same
code but for the tenant; `System` is in its place for console tokens. `dead` and
`passed` are history: the keys that were dead when a request arrived, and the
requests of a key let through since each instant.

| Action | Code |
|---|---|
| `Arrive` | a request reaches its listener, or the CLI starts |
| `GetTokenByKeyID`, `Authenticate`, `TouchToken` | `requireToken`, `requireConsoleToken` and the three store calls behind them |
| `Throttle` | `throttle` and `limiter.allow`; `Level` is `rate.Limiter`; with a limit of 0 there is none (`Unlimited`) |
| `Mutate` | a SCIM handler: the row belongs to the path's tenant, the audit entry to the identity's |
| `CreateTenant`, `IssueToken` | `CreateTenant`; `IssueToken` and `IssueConsoleToken`, with their log entry |
| `RevokeUpdate`, `RevokeLookup`, `RevokeCommit` | `RevokeToken`, `RevokeConsoleToken`: the UPDATE and its lock; if it changed no row, the second lookup, on another connection and after whatever was committed in between; else log entry and commit |
| `Fail` | a failed statement; `Committed` has the lost answer of a commit |
| `Tick` | time |

Decisions. An INSERT is private to its transaction, so insert, log entry and
commit are one step. A key id is random and used once. Secrets are right or
wrong; hashing is not modelled. The console asks for no console token, because
only the CLI manages those.

### Attributes

One tenant, one user with one core attribute (as responses spell it) and the
blob `extended_attributes`, a partial function on spellings; `Lower` maps the
spellings of one attribute to one form. The functions of `extended.go` keep
their names: `Lookup` (`registeredAttributes`), `captureExtended`, `CoreOps` and
`ExtendedOps` (`splitExtendedOps`), `applyExtendedOps`, `shapeUser`.

| Action | Code |
|---|---|
| `Arrive` | routing, decoding and validation (`BadBody`) of `create`, `replace`, `patch`; a CLI or console command |
| `GetUser`, `LookUp` | the reads of `patch`; `registeredAttributes` |
| `Create`, `Replace`, `Patch` | the fold of the request, for a PATCH the validation of its result, and the write |
| `RegisterAttribute`, `UnregisterAttribute` | the two transactions of `attribute.go` |
| `Fail` | a failed statement; `Committed` has the lost answer of a commit |

Decisions. `SCIM_EXTENDED_ATTRIBUTES` is on. `add` and `replace` of a single
value do not differ and are one operation. A path names one attribute, an object
without a path any number. An object may have two spellings of one attribute:
captureExtended and splitExtendedOps go through it in the order of a Go map, so
that either may win; `Readings` are the ways to read a request with one spelling of
each left, and `Arrive` chooses one. What is reserved (`IsReserved`) and what a
PATCH path may name (`IsCorePath`) are two different sets, as in the code:
`SubPaths`, such as `name.givenName`, are in the second only. `Refused` are the
values `validate` does not accept for the core attribute. The parts of the core
attribute are not told apart, so an object that reaches it by two paths at once is
left out (`AttributesAssumption`). An operation of which the split leaves nothing on one
side keeps its place there and is void (`Void`), where the code's list leaves it
out: it changes nothing, and the two lists stay as long as the request's, so that
the three loops can be compared step by step. `NoneLeft` and `AllVoid` are the two
tests for an empty list.

### Listing and Algorithms

`Listing` has a client that walks the list of users page by page: `CountUsers`
and `Page` are the two statements of `ListUsers`; `BeginCreate`, `CommitCreate`
and `AbortCreate` are `CreateUser` as far as the list can tell: `created_at` is
fixed at the beginning and visible at the end. `StartIndex` and `Limit` are
`pageParams` with the cap of `ListUsers`. `Counts` and `Firsts` are what the client
may give, missing, zero and negative values included; it may change the count from
page to page. `Page` goes on to an empty page that was not asked to be empty, or
stops at `totalResults`, whichever the client does.

In `Algorithms` the state is the input of one call (`Call`). `Doublings` (the
loop), `Wait` and `backoff` compute in two's complement of `Width` bits; `Runs` and `Run`
are the loop of `maxCluster`, round by round; `Detect` is the whole report, one
flag per caller and kind with its figure and window. The bulk, denial, volume and
off-hours rules are the code's, their thresholds constants.

Decisions. A caller's entries are the set of their numbers in the log, and the
times of its deactivations a function on such a set. Sorting is `Arranged`: each
element goes to the place that counts how many come no later. `sort.Slice` is not
stable, which cannot be seen: equal times are equal, and no two callers have the
same name. Flags are for the callers above a threshold in the order of all
callers. The examples a flag carries are left out: they are the first five in the
order of the entries, so that they, and only they, do depend on it.

## 3. What is model-checked

Each row is a run of `PROJECT.json`. *pass* means that TLC finished with no
error, *violation* that it found the counterexample the finding describes. The
type invariants of `Outbox`, `UserStore`, `GroupStore`, `Server` and `Access` are
proved (section 4) and so left out of the runs; that of `Attributes`, which says
that a blob holds no trace of a removed value, is checked as well as proved.

| Run | Result | What it shows |
|---|---|---|
| `outbox_leases` | pass | Two dispatchers, two deliveries, one of which may kill its dispatcher, stalls shorter than a poll: no delivery is in two hands, attempts are counted exactly, and none is parked before its whole budget is spent — through a crash, a shutdown or a lost answer, and a replay. |
| `outbox_liveness` | pass | Stalls longer than the lease: settled rows stay settled, *delivered* is true, the outbox implements `DeliveryQueue`, and once faults stop every queued or replayed delivery is delivered or parked. |
| `outbox_poison` | violation | A delivery that kills its dispatcher in every POST is never parked. |
| `users_overlap` | pass | Two overlapping requests: newest audit entry = stored row; before-images are real versions; every request takes effect at most once in row, trail and events, as its answer says; every request is answered, whatever waits and deadlocks among renames. |
| `users_trail` | pass | Three overlapping requests: the trail has no gap, the newest entry and the newest event are the stored row, each deactivation is announced and a patch undoes nothing, each but for one overlap that the property names: a change of the same user committed while the transaction was open, or after the read. |
| `groups_overlap` | pass | Two overlapping requests over two groups and a new one, clocks one tick apart: newest audit entry = stored group and members, each request takes effect once or never, a deleted group stays deleted in the tables, no event shows it that is dated later than its delete by the skew or more, and every request is answered. |
| `groups_trail` | pass | Three overlapping requests on one group: the trail has no gap, members included, a group is deleted once, a patch leaves other members alone, each but for the overlap that the property names. |
| `server_shutdown` | pass | Two SCIM requests or probes, a console request and the dispatcher over two connections: no path through a handler leaks a connection, the dispatcher returns before the pool is closed, no SCIM request is running then after a signal, every SCIM request ends although refused ones may wait for each other, and a signal or a failed bind ends the process. |
| `server_refusals` | violation | Refused mutations that hold every connection wait for each other until their deadline, and their refusals are not recorded. |
| `access_tokens` | pass | Three requests of SCIM clients, console and CLI: dead tokens open nothing to later requests, tenants stay apart in row and audit entry, the administrative log is exactly the history, and no window sees more than its burst and rate. |
| `attributes_blobs` | pass | Three requests of users and operators: a core attribute is never shadowed, nothing unregistered is captured, splitting a PATCH equals applying it in order, and what it does not name survives. |
| `reads` | pass | A walk through the list misses nobody who was there when it began and, when nothing changes, names each user once; and, over all bounded inputs, `backoff` is capped doubling without overflow and ARIA reports the densest cluster and, for every rearrangement of a log, the same flags in the same order. |

### Bounds

*Outbox.* `MaxAttempts = 2` has a first, a middle and a last attempt relative to
every fault; `Batch = 2` is the least for which "lease for one send" and "lease
for the batch" differ; `Poll = 2 > MaxStall = 1` is the assumption of the lease
theorem, `outbox_liveness` breaks it on purpose. `ClockSkew = 1` is as much as the
shortest backoff and the retention, so that a retry may be due at once and a sweep
may come at once; `outbox_leases` has the sweep switched off (`Retention = 0`),
which its properties do not look at. Counters saturate at
`AttemptCap` (3 or 4), above `MaxAttempts`, which is all a comparison can tell, and
overdue timers stop at `-MaxOverdue`, which only forgets how overdue a row is.
One fault and one replay per behaviour; the proofs have neither bound.

*UserStore.* Two seeded users and three names make both a swap of names (a
deadlock) and a rename to a free one possible; a third id is left for a create.
`users_overlap` has two requests, checks liveness and so has no symmetry.
`users_trail` has three on one seeded user: two that overlap, and one before, between
or after them. Histories are as long as the requests; the proofs have any number.

*GroupStore.* Two groups, so that two renames can wait for each other's name, and
a third id for creates; add and remove, which take the same steps as set, are left
to the other run. `groups_trail` has three requests on one group and two
members, so that adding, removing and keeping differ, and the operations its
properties are about; `Skew` is 0 there, since none of them looks at a date.

*Server.* Two connections and two SCIM requests are the least for which refusals
can starve each other; the console request and the dispatcher compete with them.
`Deadline = 1 < Grace = 2` is the order of the defaults (10 s and 15 s), and so is
`ReadyTimeout = 1` (2 s). One fault.

*Access.* Three requests: one to read a token, one to revoke it, one to come
after. `Rate = 2 > Burst = 1` makes the cap of a bucket bite within the two
instants of the clock; one token expires between them. `Requests` are symmetric.
The switched-off limiter (`Rate = 0`) is in the theorems only.

*Attributes.* Three requests: register, unregister, write, in any order and
overlapping. The user may have a blob at the start, with a value captured before and
since unregistered: what a fourth and a fifth request would leave. Five spellings:
two of one attribute that is registered, two of the core attribute, and a path into
it; one request has both spellings, a body and a PATCH are refused for their value. The
operation lists have one or two operations: what the proofs say of every length
needs the second to meet what the first left.

*Listing, Algorithms.* Three users and pages of at most two; the client asks for no
count, a negative one, one or three, and for the first page by no index, a negative
one or one. Eight bits stand for the 64 of a `time.Duration`, with bases
on both sides of half the range; logs of up to three entries of two callers at
three instants, of which two are exactly a window apart, in all six orders: three
times are the least with which the window has to move over an entry, and the
proofs are about logs of any length.

`CHECK_DEADLOCK FALSE`, where it is said: a behaviour ends when every request has
been answered or the process has exited.

### Fairness

`outbox_liveness`: weak fairness of `Tick` and of each dispatcher's own steps
(`Progress`): clocks advance, `Run`'s ticker fires, the HTTP client gives up
after `Timeout`, the database serves statements, and a process that ended is
started again by whatever deploys it (an assumption on the deployment; the code
has none of its own). Nothing is assumed of the receiver or of an operator:
`ReceiverAccepts` and `ReplayDeadLetter` are not fair. Faults are finite
(`MaxFaults`), which is the meaning of "once faults stop".

`users_overlap`, `groups_overlap`: weak fairness of each request's own steps, the
deadlock detector's included. `SCIM_REQUEST_TIMEOUT` is not needed for it.

`server_shutdown`: clocks advance, a context whose deadline has come ends, `Run`
and `run` take their next step, and a console client does not wait for ever (the
console has no deadline of its own, so that without this assumption `pool.Close`
may wait for ever). No statement need end and the pool need serve nobody.
`EventuallyAnswered` says there that again and again no SCIM request is in flight;
a request of the model is served once, so that means the same as each one ending.

## 4. What is proved

For any constants that satisfy the modules' ASSUMEs; in particular any number
of dispatchers, deliveries, requests, users and names, and any bound.

| Theorem | Statement | Along |
|---|---|---|
| `OutboxProofs!TypeCorrect` | `Spec => []TypeOK` | `TypeInv`: what a dispatcher has in hand fits its stage |
| `DeliveredIsReceived` | `Spec => []DeliveredWasReceived` | `ReceiptInv`: a landed POST's event was received, a held row was queued |
| `Refinement` | `Spec => ImplementsQueue` | each step of `Next` under `ReceiptInv` is a step of `DeliveryQueue` or a stutter |
| `TerminalRowsStay` | `Spec => TerminalStays` | `TypeInv` |
| `LeasesExclusive` | `MaxStall < Poll`: `Spec => []ClaimsExclusive` | `LeaseInv`: the lease of each row in hand exceeds `Left(d)`, the most time the batch can still take |
| `AttemptsAreAccounted`, `BudgetIsFull` | `MaxStall < Poll`: `Spec => []AttemptsAccounted`, `[]FullBudget` | `BudgetInv`: the attempt number in hand is the one in the table |
| `UserStoreProofs!TypeCorrect` | `Spec => []TypeOK` | `TypeInv`: what a handler has in hand fits its phase |
| `TrailNeverParts` | `Spec => []TrailMatchesRows` | `TypeInv` |
| `BeforeImagesAreReal` | `Spec => []BeforeWasCommitted` | `BeforeInv`: an image in hand is on the trail |
| `GapsNeedAnOverlap`, `DeactivationsAreAnnounced`, `PatchUndoesOnlyUnread` | `Spec => []TrailIsAChain`, `DeactivationAnnounced`, `PatchKeepsOthers` | `OverlapInv`: what a request has read is still stored, or a change of its user has entered the trail since it began or read |
| `NewestIsTheRow` | `Spec => []NewestIsCurrent` | `DateInv`: a transaction is dated after everything that was committed before it began, and entry and event of a change have one date |
| `GroupStoreProofs!TypeCorrect` | `Spec => []TypeOK`; in particular a stored member is a user | `TypeInv`: what a handler has in hand fits its phase |
| `TrailNeverParts` | `Spec => []TrailMatchesGroups` | `TypeInv` |
| `DeletedIsForGood` | `Spec => []DeletedForGood` | `Guarded`: the id of a create is new, an updater holds its row and the row is there, a deleter holds it or it is gone |
| `DeletesOutdateWithinSkew` | `Spec => []DeletedStaysDeleted` | `DatedInv`: no transaction, and no event but a delete's, is dated after the database clock, and a group whose delete was announced is gone |
| `ServerProofs!TypeCorrect` | `Spec => []TypeOK` | `TypeOK` |
| `PoolIsClosedLast` | `Deadline < Grace`, `ReadyTimeout < Grace`: `Spec => []DrainedBeforeClose` | `DrainInv`: no request is older than its deadline, and after a signal one in flight is at least as old as the part of the grace period that has passed |
| `ConnectionsNeverLeak` | `Spec => []NothingLeaks` | `TypeOK /\ NothingLeaks` |
| `AccessProofs!TypeCorrect` | `Spec => []TypeOK` | `TypeInv`: the row in hand is from the table of its listener and has the stored row's tenant |
| `RateIsBounded` | `Spec => []RateBound` | `RateInv`: `passed[k][s] + Level(k) <= Burst + Rate * (now - s)` |
| `TenantsNeverMix` | `Spec => []TenantsStayApart` | `TenantInv`: what was written belongs to the tenant of a token that is in the table |
| `RevocationHolds` | `Spec => []DeadTokensOpenNothing` | `DeadInv`: what was dead when a request arrived is dead in the table and in the request's hands |
| `LogIsExact` | `Spec => []AdminLogIsExact` | `LogInv`: who is about to record a revocation holds the row's lock and the token is not revoked; what was there at the start stays |
| `UserStoreProofs!TakesEffectOnce`, `GroupStoreProofs!TakesEffectOnce` | `Spec => []OnceOrNever` | `OnceInv`: a request that has not been answered has left nothing on the trail or in the outbox, and entries are only ever appended |
| `GroupStoreProofs!GapsNeedAnOverlap`, `PatchUndoesOnlyUnread` | `Spec => []TrailIsAChain`, `PatchKeepsOthers` | `OverlapInv`: row and members that a request has read are still stored, or a change of its group has entered the trail since it began or read |
| `SecondDeleteNeedsAnOverlap` | `Spec => []DeletedOnce` | `DeleteInv`: a deleter past its read either began before the group's delete entered the trail or there is none |
| `AttributesProofs!TypeCorrect`, `NoShadow`, `CaptureIsCurrent` | `Spec => []TypeOK`, `[]CoreNeverShadowed`, `[]CapturedWhileRegistered` | `AttributesInv`: no core name is registered, in a blob or in a lookup, and a lookup leads only to names the request has seen registered |
| `SplitIsSequential` | `Spec => []PatchIsSequential` | induction on the operations: after each number of them the two loops have the two halves of the whole resource (`SideBySide`) |
| `PatchIsLocal` | `Spec => UnnamedSurvive` | induction on the operations: names outside the operations' stay (`BlobsKeep`, `CoresKeep`) |
| `ReadsProofs!WalkSkipsNone` | `ListingSpec => []NoneSkipped` | `ListingInv`: the offset of the walk is below the rank of everybody it still owes; ranks never fall |
| `BackoffDoubles` | `AlgorithmsSpec => []BackoffIsCappedDoubling` | induction on the rounds: after `i` of them the wait is `base * 2^i`, or has reached the cap and is below twice it |
| `ClusterDensest` | `AlgorithmsSpec => []ClusterIsDensest` | induction on the rounds (`LongestSoFar`): `j` is behind every time the window still reaches, and no run seen so far that fits is longer than the best; `SortedPlace` turns what an interval holds into such a run |
| `DetectIgnoresOrder` | `AlgorithmsSpec => []OrderIsIrrelevant` | a bijection of the entries keeps every count (`SameTallies`), and counts determine the sorted times (`SameCluster`) and the flags (`SameFlags`) |
| `FlagsAreExact` | the flags of one kind are for the callers that reach the threshold, each once, busiest first | `ArrangedPlace`, `ArrangedInOrder`: an arrangement by a linear order holds each element once, in order |

Why strengthenings are needed. `ClaimsExclusive` alone does not say how long a
lease still lasts, so one tick could break it; `Left(d)` and the lease fall
together, which makes `leaseFor` exactly long enough. `TrailIsAChain` says
nothing of requests under way; `OverlapInv` says that what they have read is current
or that somebody has changed it within their time.
`DeletedForGood` says nothing of locks: an update past its lock could write a
deleted group back; `Guarded` says that its row is there and in its hands.
`DrainedBeforeClose` says nothing of time before the pool is closed: ages and the
grace period grow together, so the shorter of deadline and grace ends first.
`RateBound` counts requests and forgets the bucket: one that was full again after
a step would let a whole burst through, so `RateInv` charges what is left in it.
`OnceOrNever` does not say that a request with an answer has stopped: one that was
answered and still ran could commit again; `OnceInv` ties the answer to the phase. `AdminLogIsExact` says nothing of the time
between the UPDATE of a revocation and its commit, in which another operator may
try the same. `CoreNeverShadowed` looks at one row: a lookup made before could
bring a core name into the next one, and a lookup is only as clean as the registry
was. `NoneSkipped` says nothing while the walk goes on. `ClusterIsDensest` is about
the last round of the loop: without the clause on `j` in `LongestSoFar` a later
round could start its window too late and miss a longer run.

Induction over data. The induction theorems of the library take an operator as a
parameter, which no installed prover instantiates. `Recursion` states them anew
for a set (`InductionUpTo`: a set that has 0 and with each number the next has
them all) and for a function of steps (`RecursionUpTo`), both from the fact that a
nonempty set of numbers has a least one, so that they are first-order. With them
the loops of `applyExtendedOps`, `applyPatch`, `backoff` and `maxCluster` are
reasoned about for any number of rounds; they are written as recursive functions
for that reason.

Sorting. The sorts of the community modules take the comparison as an operator,
of which the provers know nothing, so `Arranged` takes the order as a set of pairs.
That every place is taken is a pigeonhole argument (`ArrangedPlace`): of two
elements the later one counts the earlier and not conversely, so their places
differ, and there are as many elements as places. What the proofs use of the
sorted times is one equivalence (`SortedPlace`): the i-th is no later than `v` if
and only if at least i of the times are. It makes the sorted sequence unique, and
it makes the number of times in an interval the difference of two counts
(`BetweenIs`), which is how long the run of the sorted times is that the loop
meets.

The theorems about leases and budgets assume `MaxStall < Poll`, and
`PoolIsClosedLast` assumes that `Deadline` and `ReadyTimeout` are below `Grace`.
Section 5 tells how the properties fail without that. No theorem about users or
groups assumes anything of how requests overlap or of how the clocks differ.
`RateBound` says nothing of a limiter that is switched off. `BackoffDoubles` is about caps of at most half the longest
`time.Duration` (`AlgorithmsAssumption`), so that one more doubling of a wait below
the cap fits, and the jitter: 146 years for the 64 bits of Go.

Only model-checked: `EventuallySettled`, `EventuallyAnswered` (of users, groups and
the server) and `EventuallyExits`, because liveness under fairness is out of TLAPS'
reach here. Every other property of a passing run has a theorem.

## 5. Findings

Two disagreements between the documents and the code have a run that shows the
counterexample:

1. *A poisonous delivery is never parked* (`outbox_poison`). The comment at
   `internal/store/outbox.go:189` says that counting at the claim makes it
   dead-letter eventually; only `attempt`, after `send` returned, parks a row, and
   the claim does not look at `attempts`.
2. *A refusal may go unrecorded* (`server_refusals`). `docs/ARCHITECTURE.md:154`
   says that refusals are recorded too. `auditRefusal` takes a connection from the
   pool while the refused transaction still has one: when as many mutations are
   refused at once as the pool has connections they wait for each other until
   their deadline, and each answers its refusal without an audit entry. No
   statement fails in the counterexample.

Others show when the exception a property of a passing run makes is left out (3, 4,
6, 7, 8), or one constant of its run is changed (5, 9):

3. *The newest date may be stale*: `NewestIsCurrent` without `Overtaken`. `now()` is
   the start of the transaction, not its commit (`docs/ARCHITECTURE.md:386` tells
   receivers to keep the newest `occurredAt`), and the trail is listed by the same
   date (`internal/store/audit.go:115`).
4. *A group can be deleted twice*: `DeletedOnce` without its last clause. Two
   deletes that both read the row both commit, each with an audit entry and a
   `group.deleted` event, because the row count of the DELETE is not looked at
   (`internal/store/group.go:380`).
5. *A replay can lose its budget*: `FullBudget` with `MaxStall = 4` and one
   delivery. Outcome statements are guarded by `status = 'pending'` alone, not by
   the attempt they report on.
6. *The trail can have a gap*: `TrailIsAChain` without its last clause, for users
   and for groups. An UPDATE that waited for the lock works on a newer row than the
   before-image's snapshot (`internal/store/user.go:79` calls the CTE atomic);
   and `getGroupTx` reads row and members in two statements before the row is
   locked, so its before-image may be a mixture that never existed.
7. *A deactivation may be announced as a replace*: `DeactivationAnnounced` without
   `ChangedSince`, because the event type compares with that snapshot. Likewise
   `PatchKeepsOthers`: a PATCH undoes what was stored after its read
   (`internal/scim/handler.go:221` says so for users; nothing does for groups).
8. *A deleted group can come back at the receiver*: `DeletedStaysDeleted` without
   `+ Skew`. A delete is dated by the process clock, every other event by the
   database's, and nothing keeps the first from lagging.
9. *A request can outlive the pool*: `DrainedBeforeClose` with
   `Deadline > Grace`. The code compares the two nowhere; the defaults are right.

And some are visible in the actions themselves:

- A PATCH of a missing user or group (`GetUserForPatch`, `GetGroupRow`) and a
  mutation of an id that is not a uuid (`Refuse`) leave no audit entry.
- Two spellings of one attribute can both be registered (`RegisterAttribute`
  compares exact names) although lookups ignore case: one of them then captures
  nothing, and values stored under it are reached by no PATCH (`Lookup`).
- An object with two spellings of one attribute stores either value, from run to
  run (`OneSpelling`; `internal/scim/extended.go:52` and `:180` range over a map).
- A path into a core attribute, such as `name.givenName`, can be registered
  (`IsReserved` against `IsCorePath`; `internal/store/attribute.go:30`,
  `internal/scim/patch.go:103`). A PATCH of it then goes to the blob and the core
  attribute stays as it was.
- An operation that does not exist is refused for a core attribute and ignored
  for a registered one (`ApplyCore`, `ApplyExtended`).
- A PATCH of nothing but empty objects is accepted while nothing is registered and
  refused otherwise, because the split then leaves no operation (`NoneLeft`).
- A lookup that fails, or finds the pool closed, is answered with a 401
  (`StepFails`), which a client takes for a revoked token.
- When one listener fails to bind, `run` stops without `Shutdown` although the
  other may be serving (`SelectErr`); its requests end with the process.
- A token whose issue was committed and whose answer was lost is live and its
  secret known to nobody; it is in the log (`Committed`).
- The examples of an ARIA flag depend on the order of the entries, which the
  figures do not (`Detect`; `internal/aria/aria.go:94` and `:226`).
- A client that stops at `totalResults` may miss a user created meanwhile
  (`Page`); the code says so (`internal/store/user.go:206`).

## 6. Plan

All modules of the plan are written, and every property of a passing run that does
not need fairness is proved. What could come next: the loop of replay-all against
a dispatcher that parks again what it replays (a liveness property that needs a
bound on the receiver's failures), and a
composition of `UserStore` with `Outbox` in which a commit's events are the rows
the dispatchers claim.

Runs stay within two to four actors and one fault each; a property gets a
theorem when TLC agrees on it and it does not need fairness.

## 7. Not modelled

Rendering (console templates, OpenAPI, SCIM JSON mapping), logging, discovery,
the liveness probe, the request log, filters, HMAC signing and the ARIA prompt and
language-model call: they keep no state that another step reads. The console's
narrative cache holds one text per report and the last writer wins. A CSRF token
is derived from a key and the time and stored nowhere; that `checkCSRF` may
refuse is in `Server`. Replay-all of
console and CLI is a loop over `ReplayDeadLetter`, which `Outbox` has; how many
rounds it takes while deliveries fail again is not modelled. Composing
`UserStore` with `Outbox` would multiply two state spaces that share one step:
the `events` a commit appends are the rows `Enqueue` creates. Several tenants
are in `Access`; the other modules are about one. A process clock meets the
database's in three places: the date of a group delete (`Skew` in `GroupStore`),
`next_attempt_at` of a retry and the cutoff of the sweep (`ClockSkew` in `Outbox`).
The fourth, the expiry of a token (`auth.go:99`), compares a date the process or an
operator chose with the clock of the process; `Access` has one clock. A request
timeout of 0 or less, which switches the deadline off, is not modelled.

## 8. Running

    tlc -workers 2 -config MCOutbox_leases.cfg MCOutbox
    tlc -workers 2 -config MCGroupStore_overlap.cfg MCGroupStore
    tlc -workers 2 -config MCReads_reads.cfg MCReads
    tlapm OutboxProofs.tla
    tlapm AttributesProofs.tla

and likewise for every run and proof module that `PROJECT.json` names.
