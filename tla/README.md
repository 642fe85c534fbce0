# BrinnPay: formal models, model checking and proofs

BrinnPay is a sandbox payment API: a NestJS service (`apps/api`), a worker process built from
the same sources, PostgreSQL through Prisma, Redis for queues and counters, a dashboard
(`apps/web`), and scripts that build, validate and load-test all of it. This directory holds
TLA+ modules of the system, the TLC configurations that check them, and TLAPS proofs.

1. [Inventory](#1-inventory) 2. [Modules](#2-modules) 3. [Runs](#3-runs)
4. [Findings and observations](#4-findings-and-observations) 5. [Bounds and fairness](#5-bounds-and-fairness)
6. [Proofs](#6-proofs) 7. [Plan](#7-plan) 8. [Not modelled](#8-not-modelled)

## 1. Inventory

Paths are relative to `apps/api/src` unless they say otherwise.

| Component | State it keeps | Operations | Talks to |
|---|---|---|---|
| Idempotency (`idempotency/`) | `idempotency_records`, unique on (project, scope, key) | `execute`, `claim`, `replay`, `pruneExpired` | wraps the mutations of payments and refunds in its transaction |
| Payments (`payments/`) | `payments`: status, failure code, scenario | `create`, `retrieve`, `list`, `advanceDuePayments` (worker) | idempotency, event port, audit port |
| Refunds (`refunds/`) | `refunds` | `create` under `SELECT ... FOR UPDATE` | payments, idempotency, event and audit ports |
| Webhook events (`webhooks/webhook-event.service.ts`) | `webhook_events`, `webhook_deliveries` | `persist`, `dispatch`, `reconcile`, `requeueDueDeliveries` | queue; called by payments, refunds, maintenance |
| Queue, worker, delivery executor | BullMQ jobs, outcome columns of deliveries | `enqueueDelivery`, `process`, `attempt`, `recordTerminal`, `send` | destinations, retry policy |
| Endpoints and replay (`webhooks/webhooks.service.ts`) | `webhook_endpoints` | create, update, delete, `replayEvent` | events, queue |
| Audit log (`audit-logging/`) | `audit_logs`, append only | `record`, in the caller's transaction | every mutating service |
| Organizations | members, invitations | roles, removal, invite, accept, cancel | audit |
| Sessions (`auth/`) | `refresh_sessions`, the cookie | register, login, `rotate`, `revoke` | audit, the dashboard's `AuthProvider` |
| Projects, customers, API keys | their tables | create, update, delete, revoke | audit, payments |
| Rate limiting | Redis counters, a bounded map per process | `consume` behind two guards | Redis |
| Request log, HTTP metrics | `request_logs`, gauges | best-effort write, retention, list by cursor | worker |
| Worker metrics | two age gauges | one shared pass over the database | scrapes |
| Configuration (`config/`) | what each process loaded at boot | `loadConfiguration`, destination policy | everything |
| Dashboard (`apps/web`) | what React has committed | effects, presses, late answers | the API |
| Operations (`docker/`, `loadtest/`) | containers, volumes, a manifest | `validate.mjs`, `run.mjs` | docker |

What makes these hard:

- **Interleaving at READ COMMITTED.** Requests, several API replicas and the worker run the same
  statements against the same rows. Correctness rests on guarded updates, unique indexes and
  lock waits, and every check made before a transaction can be stale inside it.
- **Duplicates and losses.** A job can be lost after the commit that implied it, or be handed out
  twice; a client's retry races the original; a counted request is counted again after a time-out.
- **Crashes between two commits.** Payments created without a key, a retry booked but not queued,
  a session created before its predecessor is revoked, a key created before the old one is revoked.
- **Late answers.** A page of the dashboard starts calls under one route, filter, environment or
  token and receives their answers under another. The load-test sampler has the same shape.
- **Clocks and bounded batches.** A pass reads the clock once; sweeps, reconciliation and retention
  must make progress behind rows that never leave.
- **Processes that booted at different times** and therefore with different settings.

What makes each component correct is stated by the properties in section 3. `PROJECT.json` lists
the components with their sources and every hazard at the line where it bites.

## 2. Modules

| Module | Models | Built on |
|---|---|---|
| `Absence` | the null shared by the modules that are composed | - |
| `IdempotencyContract` | the promise of the idempotency capability, no tables | - |
| `Idempotency` | `execute`/`claim` statement by statement | implements the contract |
| `PaymentSimulation` | the pure schedule and the scenario column | - |
| `PaymentLifecycle` | what observers of a payment are promised | - |
| `Payments` | create, the three passes, `advance`, `applyEdge` | `PaymentSimulation`; implements the lifecycle |
| `Refunds` | `RefundsService.create` statement by statement | - |
| `WebhookDelivery` | a delivery, its jobs, workers, the retry policy, the re-queue pass | - |
| `WebhookFanout` | which endpoint gets which event: emission, repair, replay, retention | - |
| `Organizations` | members, roles, invitations behind `OrgRbacGuard` | - |
| `Sessions` | refresh sessions, the cookie jar, the tabs of a browser | - |
| `Projects` | a project with its keys, customers and payment rows | - |
| `RateLimiter` | client identity, Redis counters, fallback stores, two guards | - |
| `RequestLog` | a request from outside: scope, metrics, log row, retention, reader | - |
| `WorkerMetrics` | scrapes that overlap over one shared pass | - |
| `Configuration` | environments, boots, the destination policy | - |
| `ProductionValidation` | `docker/production/validate.mjs` | - |
| `LoadTest` | `loadtest/scripts/run.mjs` | - |
| `LogPages` | the two log pages of a project | - |
| `ConsolePages` | customers, payments, refunds and webhooks of a project | - |
| `RosterPage` | the organization page and the acceptance of invitations | `Organizations` |
| `ListPages` | overview, organizations, projects | - |
| `KeysPage` | the project shell and its API keys | - |
| `IdempotencyProofs`, `PaymentsProofs`, `RefundsProofs` | theorems about one module each | their module, TLAPS |
| `WebhookProofs` | theorems about deliveries and the fan-out | `WebhookDelivery`, `WebhookFanout` |
| `TenantProofs` | theorems about organizations and projects | `Organizations`, `Projects` |
| `SessionsProofs` | theorems about sessions | `Sessions` |
| `PlatformProofs` | theorems about request log, limiter, metrics, configuration and the scripts | `RequestLog`, `RateLimiter`, `WorkerMetrics`, `ProductionValidation`, `Configuration`, `LoadTest` |
| `ConsoleProofs` | theorems about the dashboard | `KeysPage`, `ListPages`, `RosterPage`, `LogPages`, `ConsolePages` |
| `MC*` | instances for TLC | the modules they name |

`MCAccounts` and `MCServices` check several modules in one run. Those share no variable, so the
variable `following`, chosen in the initial state, names the one that a behaviour follows while
the others rest in a single initial state: every behaviour of each is checked, and no product.

### Idempotency

The unique index makes the committed table a function from slots (project, scope, key) to rows.
An open transaction owns the row it inserted (`claim`) and the committed rows it deleted
(`freed`); `Visible(r, s)` is what its statements see, and `Blockers(r)` the transactions its
next statement waits for. Each statement is an action: `InsertClaim`, `FindRecord`,
`FreeExpired`, `Run`, `StoreResponse`, `PruneExpired` (one row at a time, in any order, which is
what makes deadlocks possible) and `Commit`. `Abort` covers an exception of the mutation, a
refused replay, a failed statement, a time-out and a dead process. `now` is read once, before the
transaction. The lock and visibility rules are PostgreSQL's and are marked external in the map.

### Payments and PaymentSimulation

`CreateKeyed` is one step because the row, the event and the audit entry share a transaction;
without a key `execute` hands the mutation the plain client, so the same create is three steps
and can die between them. `retrieve` reads the row and then the clock, `list` and the sweep the
clock and then the rows. A pass works through its snapshot (`todo`, `local`, `steps` and `met` are
the variables of `advance`). An edge is one step: its transaction begins with the guarded update
and the row lock serialises the rest. `EdgeLost` and `EdgeRolledBack` are the other results of
`applyEdge`; `EdgeUnconfirmed` is the COMMIT whose acknowledgement is lost.

### Refunds

Every statement is a step: the pre-read that may settle the payment, `FOR UPDATE`, the checks, the
sum, the insert with event and audit entry, the record of the key, the commit. A refund of a
payment is its sum of minor units and its number of rows; a key is its committed record and the
claim in flight. Rolled back at any step, a request may leave only the settlement behind.

### WebhookDelivery

`BeginAttempt` is the job, the read of the row and the early returns; `Send` the exchange with the
destination; `recordTerminal` and `BookRetry` the two guarded updates; `EnqueueRetry` the new job.
Answers are the kinds that the retry policy tells apart (accepted, busy, throttled, unreachable,
refusal, rejected); `classify`, `backoffCeiling`, `clamp` and `Delays` are that policy, with
jitter as a choice. Time is relative: `due` is `next_attempt_at - now`, stopping at `-Grace`, so
there is no bound on the clock. `DispatchLost`, `AttemptLost`, `RequeueLost` lose; `JobStalls`
hands a job out twice.

### WebhookFanout

One SQL statement per step. An endpoint is open to an event when it is enabled and subscribed, in
its environment. Emission is one transaction with a key and separate commits without; `reconcile`
reads its batch, then the endpoints, then creates what is missing; `replayEvent` checks before it
creates; the retention pass removes page after page and may fail between pages. `invited` records
who was open to an event at some moment since it happened.

### Organizations, Sessions, Projects

`Organizations`: a call reads the caller's membership in the guard, then the target row, then
counts the owners, and only then opens the transaction that writes the change and its audit entry.
`Sessions`: `rotate` and `createForUser` run on the plain client, so each statement commits by
itself. The tabs share the cookie jar and nothing else; the coalesced recovery of a tab, lost
answers, reloads and crashes are actions. `Projects`: the dual-mode guards, then reads, then one
transaction; only foreign keys stand between a customer that is deleted and a payment that is
created for it.

### RateLimiter, RequestLog, WorkerMetrics

`RateLimiter`: the identity walks the forwarded chain from the right; an increment may take effect
after its time-out; each process falls back to a bounded map with sweeping and eviction; the two
guards share the headers. `RequestLog`: guards attach scope step by step and may still refuse;
`finish` and `close` race; the id of a row is drawn before its INSERT commits; a reader follows the
cursor while retention deletes. `WorkerMetrics`: the two gauges and overlapping scrapes share one
pass (`inflight`) that writes in two steps and may fail between them.

### Configuration

Operators edit one concern of the environment; the API and the worker load what they find when
they boot, or do not come up. Numbers go through one table of defaults and bounds; proxy entries
are address, version and prefix with real subnet arithmetic over short addresses; hosts have the
spellings that `canonicalizeWebhookHost` knows (brackets, the dot of the root). An endpoint is
registered under the lists of the API's boot and contacted under those of the worker's.

### ProductionValidation and LoadTest

`ProductionValidation` follows `main()` stage by stage: every docker call can fail, every wait can
time out, `check()` collects a verdict, `fail()`, an exception and the end of `main()` leave by
different ways, a signal by a fourth. A run may begin on what an earlier one kept or left behind, so
`schema` tells who migrated the database: nobody, an earlier run, or this one. `LoadTest` is a Node process whose docker and psql calls are
synchronous: a turn is atomic but for its awaits. A sample takes its database snapshot, awaits the
receiver's statistics and is pushed afterwards; ticks do not wait for one another. The filtered
catalog is the set of the positions that `--scenario` keeps, and the loop takes the least one left.

### The dashboard

A state is what React has committed; an effect that a commit triggers is part of that step, with
its clean-up. An answer is a step of its own and finds the closure that asked for it. In `LogPages`
a page of a list is its number and its list; in `ConsolePages` a row is the environment and the
page it came with. `RosterPage` uses the server rules of `Organizations` and compares what the page
offers with what the server says; `ListPages` and `KeysPage` keep the server's truth beside the
display.

## 3. Runs

| Run | Configuration | Question |
|---|---|---|
| `idempotency_reuse` | `MCIdempotencyReuse` | Do releases and prunes of expired records delete only those, and is every request answered? |
| `payments` | `MCPayments` | Is a payment right while a reader, a list and a sweep race over it? |
| `payments_live` | `MCPaymentsLive` | Does the sweep alone settle everything? |
| `delivery_live` | `MCWebhookDeliveryLive` | Does every delivery leave `pending`? |
| `accounts` | `MCAccounts` | Idempotency over two windows, organizations, sessions, projects, refunds, and the pages of the dashboard |
| `services` | `MCServices` | Fan-out, racing workers, rate limits, the request log, worker metrics, configuration, and the two scripts |
| `payments_unkeyed` | `MCPaymentsUnkeyed` | *Violation*: a committed payment without its event |
| `delivery_duplicate` | `MCWebhookDeliveryDuplicate` | *Violation*: a stale retry is recorded |
| `organizations_owner` | `MCOrganizationsOwner` | *Violation*: two owners leave at once |
| `sessions_theft` | `MCSessionsTheft` | *Violation*: a session survives the theft response |
| `logs_foreign` | `MCLogPages` | *Violation*: rows of another project on display |
| `console_mixed` | `MCConsolePages` | *Violation*: TEST rows in the LIVE table |

Properties (each stated in words above its definition):

| Module | Properties |
|---|---|
| `Idempotency` | `AtMostOncePerWindow`, `ReplayIsFaithful`, `CommittedCarriesResponse`, `ClaimNeverExhausted`, `OnlyExpiredRowsRemoved`, `EveryRequestAnswered`, `ImplementsContract` (refinement) |
| `Payments` | `OutcomeAsRequested`, `TerminalEventExactlyOnce`, `KeyedTrailComplete`, `UncontendedReadCaughtUp`, `SweepSettlesEverything`, `ImplementsLifecycle` (refinement) |
| `Refunds` | `NeverOverRefunded`, `RefundAllOrNothing` |
| `WebhookDelivery` | `TerminalIsFinal`, `VerdictHonest`, `EveryDeliverySettles` |
| `WebhookFanout` | `NeverToUninvited`, `FanOutComplete`, `RetentionExact` |
| `Organizations` | `TrailTellsMembership`, `InvitationUsedOnce`, `OwnerRoleOnlyFromOwners` |
| `Sessions` | `CoalescedRefreshRaisesNoAlarm`, `OneLiveSessionPerLogin` |
| `Projects` | `PaymentKeepsCustomer` |
| `RateLimiter` | `BudgetKept` |
| `RequestLog` | `NoRowFromStrangers`, `WalkMissesNothing` |
| `WorkerMetrics` | `ExpositionOfOneMoment` |
| `Configuration` | `BootedIsSafe`, `ReachesOnlyAllowed` |
| `ProductionValidation`, `LoadTest` | `VerdictEarned`; `ManifestOfOneRun` |
| Dashboard | `TableIsOneList` (`LogPages`), `SecretNotReshown` (`ConsolePages`), `RefusedOnlyWhenStale` (`RosterPage`), `CreatedIsListed` (`ListPages`), `RevokedMeansRevoked` (`KeysPage`) |

Each has a mutant in `PROJECT.json`: a plausible slip in one mapped definition, kept before that
definition and marked "Mutant", under which TLC finds the property violated.

## 4. Findings and observations

Findings have a run that exhibits them:

1. **`payments_unkeyed`.** `payments.service.ts:213-215` says a committed payment can never be
   missing its event. True with a key; without one the three statements commit separately.
2. **`delivery_duplicate`.** `webhook-queue.service.ts:42-46` says the compare-and-set discards
   one of two outcomes. It does for a terminal one; a retry leaves the status as it was, so both
   retries are recorded and both queue a job.
3. **`organizations_owner`.** `organizations.service.ts:581-584` promises that an owner remains.
   The count precedes the transaction, so two concurrent departures both see two owners.
4. **`sessions_theft`.** `auth.service.ts:187-191` says that all sessions are revoked. A rotation
   that read its row before and inserts afterwards leaves one alive.
5. **`logs_foreign`.** `logs/requests/page.tsx:234-236` says that rows of another project are never
   displayed. They are when the first page of the next project fails.
6. **`console_mixed`.** `customers/page.tsx:98-99` says that TEST and LIVE data are never mixed. A
   "load more" that was under way when the environment changed is appended to the new table.

Met while modelling, without a run of their own:

- `webhooks-core.module.ts:69` says that a change of the denylist takes effect immediately on
  in-flight attempts. Each process reads its lists at boot, so it takes a restart of the worker.
- `webhooks-core.module.ts:27-28` says that the worker must not depend on a JWT secret it never uses.
  `webhooks-worker.module.ts:59` loads the whole configuration, which refuses to boot without one.
- The opt-in to the published encryption key is honoured when `DATABASE_URL` is not set, which is
  when the connection falls back to the local default database (`config/configuration.ts:763-769`
  and `:182`). `BootedIsSafe` therefore speaks of a database somebody named.
- A list entry in another notation of the same address (an IPv6 literal written out in full) never
  matches the URL's compressed form; the two sides agree on brackets, case and the root dot only.
- `worker-metrics.service.ts:148-150` says the aggregate survives a failed second read; it is set
  to zero, and a failed first read leaves the series of the pass before.
- The API-key page offers its rotation at keys that are revoked already, although the confirmation
  says that the current key is revoked; after a failed revocation the new key is missing from the
  list until the next load.
- `validate.mjs`: an exception outside `check()` and a failed first `up` leave containers behind,
  although the comment at line 97 says that a failed run must not; the status of the teardown is
  ignored; a SIGINT leaves the secrets file.
- `run.mjs`: the status of `down -v` is ignored, so "always freshly wiped" (line 235) may not hold;
  `fail()` leaves the stack up; a k6 threshold that is crossed does not change the exit code.
- At its ceiling the fallback store of the rate limiter evicts the oldest window, whose client then
  starts a new one. This is by design and outside `BudgetKept`.

## 5. Bounds and fairness

Bounds the code does not have are named constants (`Max...`); every other constant is an instance
of something the code leaves open.

- *Idempotency*: two requests of one key make every race; the third, of another key, shares the
  scope and therefore the prune. `Retention = 2` and `MaxTime = 4` let a key be used in two windows;
  `TxTimeout = 1` lets `now` be stale by a tick. The reuse run starts with three records that have
  just expired.
- *Payments*: passes interact only through one row, so one payment and one pass of each kind give
  every pair of snapshots; `MaxFaults = 1` lets one edge roll back or one pass die at any point. The
  liveness run has two payments and `BatchSize = 1`, the smallest case of starvation.
- *Refunds*: two payments of two minor units and two requests at a time, with one key and without.
- *Deliveries*: two workers make every duplicate; `MaxAttempts = 3` leaves a retry before and after
  the one that races; `MaxJobs` only makes the re-queue pass wait. The liveness run has two
  deliveries and a batch of one.
- *Fan-out*: two events, one endpoint that changes twice, a batch of one and three pages.
- *Organizations, projects*: two accounts or one key and one customer, two calls at a time, four or five in all, which
  is a pair of concurrent calls before or after another pair. *Sessions*: one tab with two requests,
  three session rows and one fault in the shared run; two tabs and four rows in `sessions_theft`.
- *Rate limits*: one process, two clients, two proxies, a store of two entries, three Redis faults.
- *Request log*: two requests, a page and a batch of one. *Metrics*: two scrapes, three endpoints of
  two projects, and `MAX_PENDING_PROJECTS = 2` so that one series falls off.
- *Configuration*: addresses of 3 and 5 bits with floors of 1 keep the order of all prefixes that
  the code compares (floors, mapped range, full length); two edits of one concern reach every pair
  of settings that the code reads together.
- *Load test*: a catalog of three scenarios and two settles, three snapshots: two ticks in flight
  and a poll between them; `--scenario` names none, one, two or an unknown one. Behaviours may also
  begin in `PreparedInit`, a state the others reach (the state count is the same without it), so
  that a counterexample in the catalog is short. *Validation*: the full checklist; no bound; likewise
  behaviours may begin in `PreparedValidation`.
- *Pages*: two routes, environments or tenants, lists of two pages, two or three acts of the
  operator; `ConsoleViews` is one page in the shared run and all four in `console_mixed`.

Fairness is stated for the three liveness properties only:

- `Idempotency!Fairness`: Node runs each request to its end, PostgreSQL breaks deadlocks. `Abort` is
  not fair: nothing has to fail.
- `Payments!Fairness`: time passes, and BullMQ's job scheduler keeps starting the sweep. Readers are
  not fair: nobody has to look at a payment.
- `WebhookDelivery!Fairness`: time passes, workers consume, the maintenance pass is repeated by the
  scheduler. `Dispatch` is not fair: the process may die after the commit.

Deadlock is checked where a configuration does not say otherwise. The combined runs say otherwise,
because their call bounds run out, as calls and answers do; that no request of `Idempotency` hangs
is `EveryRequestAnswered`.

## 6. Proofs

Every safety property of section 3 that a passing run checks is a theorem, for every value of the
constants: the invariants, the action properties and both refinements. So are the type invariants
(all but that of `ConsolePages`) and three invariants that no run needs (`OnSchedule`,
`LoserRereads`, `HeadersChangeNoIdentity`). `PROJECT.json` lists the theorems.

### What is assumed

Only the named `ASSUME`s of the modules, which TLC evaluates on every run that extends them.

| Kind | Assumptions |
|---|---|
| Constants have their types, `Max...` bounds are numbers, batches and pages are not empty | `SimulationAssumption`, `PaymentsAssumption`, `RefundAssumption`, `DeliveryAssumption`, `OrgAssumption`, `ProjectAssumption`, `RequestLogAssumption`, `LimiterAssumption`, `MetricsAssumption`, `KeysAssumption`, `ListAssumption`, `RosterAssumption`, `LogAssumption`, `ConsoleViewsAssumption` |
| The null value is no row, id, answer or number | `NoneAssumption`, `NullAssumption`, `RowAssumption`, `NullIsNoRow`, `NoneIsNoRow`, `NoneIsNoProjectRow`, `NoneIsNoSession`, `NoneIsNoCounter`, `NoneIsNoReading`, `NoneIsNoExitCode`, `NoneIsNoKey`, `NoneIsNoAnswer`, `NoneIsNoPage`, `NoneIsNoSecret` |
| A transaction is shorter than a retention window | `ConstantsAssumption` (idempotency), `FanAssumption` (events; also that repair looks further back than its minimum age, and not further than retention) |
| Three times a transaction is shorter than two windows | `RetriesAssumption` |
| An access token is shorter lived than a session | `SessionAssumption` |
| Floors within the address widths, IPv4 shorter than IPv6 | `ConfigurationAssumption` |
| No id or label of the catalog occurs twice | `CatalogAssumption` |

The lengths that are compared are far apart in the code: a transaction lives for at most
`maxWait + timeout` = 15 s, a window is at least one hour (`IDEMPOTENCY_RETENTION_HOURS`) or a day.
`RetriesAssumption` is needed for one theorem, `ThreeAttemptsSuffice`.

### Along which arguments

**Idempotency.** `AtMostOncePerWindow` is not inductive: it speaks of the executions, and the code
decides on rows. `IInv` adds the ownership of rows and locks (`RequestInv`, `FreedInv`,
`DisjointInv`, `ClaimInv`: two open transactions never own the same slot or row) and ties rows to
executions in both directions (`RowInv`, `EffectInv`). The proof reduces the statements to six
shapes of a step (`StepShapes`), then shows each part of `IInv` over the shapes (`TypeStep`,
`RequestStep`, `LockStep`, `RowStep`, `HistoryStep`). `Refinement` maps every shape to a step or a
stutter of the contract. `ThreeAttemptsSuffice` counts time instead of requests: an attempt is lost
only to a record that went away, the first may have been any, but the next was committed since the
request began and lives for `Margin` = window less time-out. `LoopInv` says that the second and the
third attempt are a margin later each, and two margins outlast the time-out of the transaction.

**Payments.** A pass decides on its snapshot. `IInv` says how far a snapshot can be behind
(`Snapshot`: the row has `Reached` a status at or after it) and that its clock reading is in the
past; `EdgeFacts` concludes that an edge that hits is one the row itself was due for.
`ColumnRoundTrip` shows that the scenario survives its column. `RowsMoveForward`, `SnapshotsAge`
and `MoverKeeps` carry the snapshots over the steps of the others and of the pass itself.
`ReadCatchesUp` adds `CaughtUp`: the two edges that `advance` may take are enough, and once nothing
is due for a snapshot nothing is due for what its row becomes. `LifecycleRefinement` maps an edge to
the abstract step of its row and all else to stutters.

**Refunds.** The balance is not inductive: a request reads the sum, compares, and inserts later.
`RefundInv` adds what every request in flight has read (`Sound`: who holds the row lock, that the
payment was settled, that the sum it compared still leaves room for its amount, what a transaction
will write) and what a record of a key stands for (`RecordInv`). Only the holder of the row lock
changes the sum, which is why `Sound` survives the steps of the others.

**Deliveries.** `DeliveryInv` follows the evidence: what a worker is about to record was observed by
it (`WorkerInv`), and a row that is terminal rests on such evidence (`RowInv`). `SettledForGood` needs
that every write is guarded by the pending status, so that duplicates lose.

**Fan-out.** `FanInv` has five parts: types; `FanLinks`, what a pass in flight still refers to;
`Invitations`, that whatever list of endpoints is held anywhere was read while they were open;
`Expiry`, that a cutoff read long ago still lies a whole retention back, that the last page holds all
that its cutoff condemns and no page anything that it spares (`Spared`): rows keep their time of
creation, so a page read long ago still does when it is deleted; and `Steadiness`, that an
endpoint which matched throughout is in every list that matters for it until it has its delivery.

**Organizations and projects.** In `OrgInv` the membership of an account is balanced against its
history (joined invitations, removals, the founding); `CallInv` says what the reads of a call in
flight still mean when its transaction begins: the invitation that it saw is the row it will
re-read, a role granted by an owner was granted by somebody who was one. In `ProjectInv`, customers
keep their environment (`Minted`: an id is never used again), so the environment that a payment
compared is the one the foreign key will find.

**Sessions.** Both properties speak of undisturbed behaviours, and `CalmInv` says what that buys: at
most one caller rotates, nobody holds a token that is revoked, a revoked token in the jar is about to
be overwritten. `Books` counts live sessions together with the predecessors that a rotation holds,
against logins and successors not yet paid for.

**Request log.** A row is written after its request lost its rights, so `LogInv` speaks of what was
openable at some moment (`entitled`), and of projects that are gone, which the foreign key refuses
(`Attested`). `WalkInv` is the bargain of the cursor: what is owed is behind the cursor and seen, or
ahead of it. The row that a page ends with is the least in question by `LeastOfNaturals`.

**Rate limiter.** An increment may land after its time-out, so verdicts cannot be counted by what Redis
shows now. `LimitInv` gives every verdict a ticket (bucket, window, draw) that Redis has issued and
that no other holds; a budget of draws then bounds the verdicts. `HeadersChangeNoIdentity` is proved
for chains of any length; the walk over the chain is not recursive in the model.

**Worker metrics.** One pass is in flight at a time, and its two halves agree (`HalvesAgree`); a scrape
either waits for that pass or holds halves of one number.

**Configuration.** Prefixes are compared for any widths, 32 and 128 bits among them: the addresses
under a prefix are an interval of the quotient. `Canonical` lists make both sides of the destination
policy meet in one spelling, whatever brackets and dots the operator and the caller used.

**The scripts.** `ValidationInv` ties the verdicts to the checklist (`ListOrder`), the stages to what
runs and to the migrations (`StageInv`), and the exit code to the verdicts (`ExitInv`). M5-2 has its verdict
before anything is up; a second verdict exists from the stage `assert` on, which only a database found
unmigrated and then migrated by this run can reach. In the load test a late sample keeps the label
it was taken under: `SamplesInv` orders labels by number of sample, `PointInv` says that a step left
is later than the present label, and `DoneInv` that the report is the done steps, in order.

**The dashboard.** Each proof finds what the calls in flight can still change. `KeysPage`: whatever a
load read as revoked stays so (`Buried`). `ListPages`: a load whose effect is alive has everything
made so far in each list that it has read. `RosterPage`: a change was `Offered` on what the page
saw, and the server permits whatever is offered when it meets the same, so a refusal means a
difference. `LogPages`: at most one call resolves the table and at most one extends it, and the one
that extends carries the cursor that the table ends with (`Table`). `ConsolePages`: secrets are
numbered by the act that asked for them, at most one creation is alive, and no number comes twice.

### What is only model-checked

- Liveness (`EveryRequestAnswered`, `SweepSettlesEverything`, `EveryDeliverySettles`): it needs fairness
  and ENABLED.
- The type invariant of `ConsolePages`: removing a row from a table is a filter of a sequence, whose
  result takes an induction over data that the provers at hand do not do.
- The six violation runs, which show behaviours and nothing else.

## 7. Plan

1. Proofs: the properties of the violation runs under the precondition that makes each true (an owner
   remains when no two departures overlap; a keyed payment never lacks its event), and a refinement
   of `WebhookDelivery` and `WebhookFanout` to one abstract outbox.
2. The registration of the periodic jobs by several workers, and shutdown in mid-attempt.
3. A model of the connection pool, for the nested transaction of the registration
   (`auth/refresh-session.service.ts:94`).
4. Composition of `Payments` with event dispatch: an edge whose COMMIT is not acknowledged is never
   dispatched by the pass that made it and waits for `reconcile`.

## 8. Not modelled

- Pure conversions: key normalisation, the well-formedness of URLs, money parsing, encryption,
  signatures, password hashing, the error envelope, OpenAPI. Their verdicts are choices where a
  module needs them.
- Reads without effect (`list`, `retrieve` of most resources), search, renaming of organizations and
  projects, health probes, log formatting, the metrics series that only count.
- In the dashboard: token renewal on the console pages, forms that rename, settings, layout, the
  documentation pages, the typed client.
- Compose files, k6 scenarios other than what the runner needs of them, seeds, dashboards.
