# Verification of the DeepSeek moderation API

TLA+ models, model-checking runs and machine-checked proofs for the Go service
in `src/` (`src/internal/audit`, started by `src/cmd/server`). The service
receives moderation requests, authenticates and rates the caller, selects a
model channel, reserves the cost of the call, asks an upstream model, settles
the cost, records the audit and answers. Administrators edit policies, channels,
credentials, keys, budgets and prices while it runs; background workers clean
up, run evaluations and send mail. One process, many goroutines, one PostgreSQL
database (READ COMMITTED unless said otherwise).

File names below are relative to `src/internal/audit` unless they start with
`src/`.

| module | what it is |
| --- | --- |
| `ChannelRouter` | the in-memory channel router: selection, reservation, release, health, RPM |
| `ChannelRouterProofs` | types, reservations, health, cooldowns, probes, the window and the allowance, proved for all constants |
| `MCChannelRouter` | its instances for TLC (`Quota`, `Health`) |
| `KeyMutex` | abstract: one lock per key, always given back |
| `KeyedGate` | `keyed_gate.go`, shown to implement `KeyMutex` |
| `KeyedGateProofs` | types, mutual exclusion, the lifetime of entries and the steps of `KeyMutex`, proved |
| `MCKeyedGate` | its instance for TLC |
| `CostLedger` | `billing.go`: reservations, settlement, budgets, reconciliation, cleanup |
| `CostLedgerProofs` | types, budgets, settlements, revocations and reconciliations, proved |
| `MCCostLedger` | its instances for TLC (`Budget`, `Reconcile`) |
| `RunRegister` | abstract: one active evaluation run, each ends, an end is final |
| `EvaluationRuns` | `evaluation_runs.go`: handlers, workers, cleanup, close, restart; implements `RunRegister` |
| `EvaluationRunsProofs` | types, tallies, cancellation, budget and the steps of `RunRegister`, proved |
| `MCEvaluationRuns` | its instances for TLC (`Trials`, `Register`) |
| `AuditRequest` | `router.go` 405-797 and what surrounds it: one request from its snapshot to its record |
| `AuditRequestProofs` | types, records, stops, tiers and backups, proved |
| `Administration` | the tables administrators edit: references, revisions, the advisory lock |
| `EmailQueue` | `email.go`, `email_settings.go`: notifications, deliveries, the switch |
| `Admission` | `ingress.go`, `runtime.go`, `Store.Rate`: what a request passes before it is audited |
| `AdmissionProofs` | types, limits, rates and the allowance of an address, proved |
| `AdminSession` | `server.go` 251-392: sessions and changes of the password |
| `AdministrationProofs` | sessions, the mail queue and the configuration: types and every safety property of the three, proved |
| `SumTheorems` | lemmas about sums and cardinalities of finite sets, used by the proofs |
| `MCAuditRequest`, `MCAdministration`, `MCEmailQueue`, `MCAdmission`, `MCAdminSession` | their instances for TLC |

Run a model with `tlc -config <cfg> <module>`, check proofs with
`tlapm <module>.tla`.

## 1. Inventory

### Components that share state between goroutines or transactions

**Channel router** (`router.go` 34-342, `channel_rpm.go`). State: `Engine.routes`,
one `channelState` per channel (revision and signature of the configuration it
knows, reservations, the start times of the calls of the last minute, failures
in a row, end of the cooldown, half-open probe flag), all under `routeMu`.
Operations: `acquireRoute` (guards, adoption of a newer configuration, atomic
reservation), the `release` closure (two counters, the window, health),
`resetChannel` (after an edit has committed), `channelHealth` (reads, and trims
the window). Hard: requests carry a snapshot of the configuration for as long as
their call takes, complete out of order, and leave by a dozen paths; edits come
in two steps. Correct when reservations are conserved, no minute is overspent,
and health belongs to the configuration it was measured on.

**Route execution and failover** (`router.go` 405-797, `route_failover.go`,
`route_resources.go`). State: one `routeProgress` per request. Operations: read
policy and channels in one snapshot, read keys and prices, try the cache, loop
over attempts: acquire, recheck the row and the key, reserve the cost, call,
release, settle. Hard: everything read at the start may be stale at the recheck;
deadlines of tiers against the deadline of the request; failures of one step of
several. Correct when an administrative stop is observed before each attempt,
attempts stay within their limits, and a tier is given up only for another that
can be called.

**Cost ledger** (`billing.go`, `store.go` 632). State: `audit_costs`,
`client_budgets`, `cost_adjustments`, `client_api_keys.active`. Operations:
`ReserveCost`, `SettleCost`, `saveBudget`, `reconcileCost`, price publication,
key revocation, the cleanup of abandoned reservations. Hard: transactions at READ
COMMITTED that are separated by row locks only; crashes between reservation and
settlement; late settlements; several administrators. Correct when committed
reservations respect the budget, what is settled stays settled, and no
reservation stays open for ever.

**Single-flight gate** (`keyed_gate.go`). State: a map of counted entries, a
channel of capacity 1 in each. Operations: `acquire`, the function it returns,
`drop`. Hard: entries are forgotten while pointers to them are alive; contexts
end at any moment. Correct when it is one lock per key and no entry leaks.

**Result cache** (`cache.go`, `cache_route.go`). Rows keyed by a digest of the
client, the policy revision, the configuration, the key and the input. Hard: a
verdict stored or served while its channel or policy is being stopped.

**Evaluation runs** (`evaluation_runs.go`, `evaluation_pacing.go`,
`evaluation_costs.go`). State: run and trial rows, a map of cancel functions, a
wait group. Operations: create (one run at a time, under an advisory lock),
worker loop, cancel, cleanup of overdue runs, recovery at start, close. Hard: the
worker writes results without a look at the run; cancel, cleanup and a new run
overlap with it; restart between any two writes.

**Email queue** (`email.go`, `email_settings.go`, `store.go` 455-464). State: one
notification row per flagged request, with attempts and a lease. Hard: a lease
that expires during SMTP, late completions, disabling while records commit.

**Ingress and admission** (`ingress.go`, `runtime.go`, `store.go` 437). State:
token buckets and counts of active requests, the global body budget, fixed-window
counters in the database. Hard: full tables, boundaries of windows, release after
the entry was cleaned.

**Request records** (`request_log.go`, `store.go` 442, `router.go` 434-513). Each
admitted request is recorded, also when it fails or is cancelled.

**Administration** (`store.go`, `channels.go`, `policy_lifecycle.go`,
`key_lifecycle.go`, `keys.go`). Policies bind channels, channels use credentials,
keys are authorised for policies; edits compare revisions, deletions check
references, `mutate` serialises them by an advisory lock.

**Admin sessions** (`server.go` 251-392). A login verifies the hash outside the
transaction that creates the session; a change of password deletes sessions.

**Background work** (`server.go` 92-100 and 744-760, `input_fingerprint.go`).
Cleanup every minute, the backfill of fingerprints, the order of closing.

**Migrations** (`migrations.go`). Applied in one transaction at start.

### Components without state of that kind

Pricing arithmetic (`pricing.go`), keyword rules and moderation input, verdict
parsing, the wire formats of the providers, the vault, hashing, trusted proxies,
analytics, ranking and exports, the frontend, the setup command, deployment and
offline evaluation scripts. They are either sequential code that unit tests
reach, or I/O. `PROJECT.json` lists each with its reason.

### How they interact

```
request -> ingress/admission -> authenticate, rate -> runAudit
   runAudit -> executeRoute: snapshot, keys -> keyed gate -> result cache
                loop: router.acquire -> recheck -> ledger.Reserve -> model
                      -> router.release -> ledger.Settle
            -> cost summary -> record (+ mail notification, one statement)
admin      -> mutate(tx) ... commit -> router.resetChannel
workers    -> cleanup, evaluation (through runAudit), mail, fingerprints
```

The router and the ledger meet only in the request: a reservation of the router
is held while the ledger is asked, and is given back before the ledger settles.
That is why they are separate modules here: `ChannelRouter` has many requests and
one step for everything the ledger does, `CostLedger` has many attempts and no
channels, and `AuditRequest` is one request through both, with what others do to
the channels, the cache and the configuration as its environment.

## 2. The models

### ChannelRouter

| model | code |
| --- | --- |
| `revision`, `signature`, `inFlight`, `rpmPending`, `rpmCalls`, `consecutive`, `until`, `probe` | the fields of `channelState`, `router.go` 34-46; a missing entry is a zero entry |
| `db`, `keys`, `resets` | the committed revision of the channel row, the key of its credential, edits whose `resetChannel` is still to come |
| `pc`, `cands`, `snap`, `sig`, `used`, `held`, `isProbe`, `attemptAt` | one request: where it is in `executeRoute`, its candidates with the revision and the signature of each, the channels it tried, its reservation |
| `Begin`, `ReadKeys` | `RouteSnapshot`, then `routeResources` outside the snapshot |
| `Acquire`, `NoRoute`, `GiveUp` | the ways out of `acquireRoute` and of the loop; `Visit` is what its loop does to the entries it looks at |
| `Recheck`, `Unprepared`, `Send` | the row and the key once more, every other reason not to send, `Assess` |
| `Stale`, `Succeed`, `Cancelled`, `Fail` | the branches of `release(err, true)` |
| `EditChannel`, `ResetChannel` | `SaveChannel` or `clearChannelCache`, and `resetChannel` after the commit |
| `EditCredential` | `SaveProviderCredential`: all channels of the credential, the key perhaps, no reset |
| `ReadHealth`, `Tick` | `channelHealth`; time passes |

`sends` and `blame` are history: the calls put on the wire per tick while they
are in the window, and the configuration whose failure last marked a channel.

Abstractions. A revision names a cache epoch, since every edit changes both; the
signature, a digest of epoch and key, is the pair of a revision and a number of
key changes. Any eligible channel can be taken: the weighted draw can return each
of them, and which tier is offered depends on the budgets of the request. RPM and
concurrency limits do not change during a behaviour. `time.Now()` is read just
before `routeMu` is taken; here both happen in one step. The recheck of the row
and of the key is one step (the key never goes back to an old value, so the pass
of the later check implies the pass of the earlier one at that moment).
Counters that only feed the health page are left out.

### KeyedGate and KeyMutex

Entries are heap objects: `entries` is the map, `ptr[p]` the pointer a goroutine
has captured. `Enter` is the first critical section, `TakeSlot`/`ContextDone` the
`select`, `DrainSlot` and `Drop` the two halves of the returned function.
`KeyMutex` is what the cache relies on: one owner per key at a time, and a key
that is taken is given back.

### CostLedger

A transaction is a step for each lock it takes and one for its commit, so
interleavings at READ COMMITTED are those of the code. `keyLock` and `costLock`
are the row locks of `SELECT ... FOR UPDATE`. `Begin`, `Authorize`,
`CheckBudget`, `Insert` are `ReserveCost`; `Send` is the call; `BeginSettle`,
`Settle` are `SettleCost`; `Abandon` is every early end, a crash included, and
`Insert` may commit without its caller learning of it. `OpenBudget`,
`LockBudget`, `SaveBudget`, `OpenCost`, `LockCostKey`, `LockCost`, `Reconcile`,
`Refuse` are the two handlers of administrators; `SetActive` stands for
revocation, deletion and update of the key. `Age` and `Cleanup` are the two
minutes and the statement of `Store.Cleanup`; `Midnight` moves the date.

Abstractions. Amounts come from small sets; the arithmetic of prices is the
business of `pricing.go`. The expiry of keys and the authorisation for a policy
end like a database error, in `Abandon`. The two reads of `CheckBudget` are one
step: both happen under the lock of the key, and everything that changes what
they read for that client takes the same lock, but for settlements of rows by the
cleanup, which leave the sums as they are. `OpenBudget` and `OpenCost` happen
before any lock. The advisory lock of `mutate` is not taken by `budget.` and
`cost.` actions, so it is not there.

### EvaluationRuns and RunRegister

| model | code |
| --- | --- |
| `status`, `trial`, `completed` | a row of `evaluation_runs` with its rows of `evaluation_results` |
| `createLock`, `creator` | the advisory lock 846274906 and `createEvaluationRun`: `TakeLock`, `Insert`, `CommitRun`, then `Launch` or `LaunchRefused`; `Refuse` is every early end |
| `canceller` | `cancelEvaluation`: `Cancel` is its transaction, then `CancelWorker`, or `CancelIdle` and `CancelFinish` |
| `worker`, `ctxDone` | `executeEvaluation` and its context; `worker[e].at # "none"` is membership in `evaluationCancels` and in the wait group |
| `Begin` .. `Exit` | the statements of the worker: start, head of the retry loop, mark, call, store, costs, `finishEvaluation`, deferred functions |
| `age`, `Deadline`, `Overdue`, `Cleanup`, `Forget` | the deadline of `evaluationTimeout`, five minutes more, `cleanupEvaluations`, the deletion after 90 days |
| `proc`, `Close`, `Stopped`, `Crash`, `Recover` | `Server.Close`, the end of the process, `RecoverEvaluations` at the next start |

`booked` and `answered` are history: what the books show for the calls of the
worker, and that a cancellation has been answered with 200. `RunRegister` is what
an administrator sees: runs appear one at a time, end, and stay as they ended.

Abstractions. A statement, or a transaction that locks the row of the run first,
is one step; the creation is three because it looks at the rows of other runs.
Every statement of a worker may fail, and may have taken effect when it does;
`finishEvaluation` may fail and is not repeated. The estimate of a call is the
same for all trials; what the call is charged is independent of it. The rate
limit and the pacing only delay a call, and their messages are left out. The five
minutes that `cleanupEvaluations` adds to the deadline are assumed to be longer
than what a worker or a handler does after the end of its context (transactions
of three seconds): `Overdue` waits for them.

### AuditRequest

| model | code |
| --- | --- |
| `row`, `policy` | the rows of channels with their connections, and of the policy; `EditChannel`, `EditPolicy` change them at any moment |
| `snap`, `held`, `cands`, `hits` | `RouteSnapshot`, the keys of `routeResources`, the candidates that are left, those whose cached result was found |
| `progress`, `total`, `used`, `limit` | `routeProgress` and the counters of the loop |
| `cur`, `deadline`, `outcome`, `pending` | the attempt, its failover deadline, what `Assess` returned, the reservations that are not settled |
| `result`, `answer`, `recorded`, `record` | the verdict or error, what the caller gets, `requestAudit.recorded`, the row |
| `Reject` .. `RouteResources` | `moderate` and `runAudit` up to the candidates; `KeywordRule` answers without a channel |
| `ReadCache` .. `SettleCached` | `cachedRoute`: the lookup, its recheck, the reservation of a hit |
| `Select`, `NothingToCall`, `GiveUp` | `selectTier` and `acquireRoute`, and the ways out of the loop; `HasLower` leaves out tiers that were passed over, as `selectTier` does, although they may still be eligible |
| `Recheck` .. `SettleFails` | one attempt: the row, the key, the reservation, `Assess`, release, settlement |
| `RequestCost`, `Record`, `RecordFails`, `Deferred` | the detached writes at the end and the deferred function of `auditModeration` |

History: `before`, what was stopped or edited before the attempt was chosen;
`closed`, whether the policy was closed then or since; `backup`, whether a lower
tier that had not been passed over could have been called then; `began`, when a
tier was first chosen with such a backup; `heir`, the channel that was chosen
when a tier was passed over. Every return of `executeRoute` is `End`, which
forgets what the route kept.

Abstractions. There is one request; of the others it sees which channels can be
reserved (any set, at every selection: that is `ChannelRouter`) and what the cache
has (any of its candidates). A client that goes away brings the limit forward.
Statements fail, and the ones that write may have committed when they do. Storing a
verdict in the cache is one statement without effect on its request, and left
out. Panics are left out.

Things the code does, seen while modelling and stated in no property. A tier
that was skipped is not looked at again (`route_failover.go` 43-45 and 56-61): if
the channel it was skipped for is stopped or runs out of time before it is called,
the request gives up with attempts and time left and a channel it could have
called. `LastTierKept` says that nothing but these takes that channel away. The
time of a tier starts when it is first chosen while it has a backup
(`route_failover.go` 71-78), which is later than "when its first channel is
selected" (`src/README.md` 300) if the backup only recovers in between;
`BackupInTime` counts from where the code does. A connection whose
address is edited between the recheck and `CredentialForConfig` ends its request
with an error instead of being passed over for the next channel.

### Administration

A transaction of `Store.mutate` is two steps. The first takes the advisory lock
846274903, does the checks of the operation and settles on the row it will write
(`change`); `Commit` makes it visible and gives the lock back, `Abort` does
neither. `Open` is the request that fills a form: `seen` is the row with its
revision, which the form sends back. `StartEvaluation` takes the lock as
`createEvaluationRun` does. Only the credential of a channel is a foreign key;
the policies of a key and the channels of a policy are JSON, so that the lock and
the checks are all there is to keep them.

Abstractions. A credential is active or not, a channel is enabled and has a
credential, a policy binds channels with the binding on or off, a key is for
policies. Identifiers are random and do not come back. What follows the
commit in memory (`resetChannel`) is in `ChannelRouter`.

What the code does, and no property forbids: `SaveProviderCredential` (`store.go`
320-354) takes no expected revision, as the saves of channels, policies and keys
do. The last save of a credential wins, and one from an old page enables again a
credential that another administrator has disabled since. In the model a save of a
credential is therefore no form (`form` is FALSE in `change`), like deletions,
revocations and cleared caches, and `FormsAreCurrent` says nothing of it.

### EmailQueue

`Snapshot`, `LockSettings` and `Record` are `Store.Record` of a flagged request: it
has the row of `email_settings` FOR SHARE until its insert commits. The
administrator's `saveEmailSettings` has it FOR UPDATE, and deletes what is not
sent when mails are off. A worker (`email.go`) reads the settings, claims one row
with a lease of two minutes, sends, and writes the outcome under the attempt
number it has claimed. There is one worker for each process; two overlap while one
replaces the other, and a process may end anywhere. A form is filled when its
save commits: when it was opened matters only by its revision.

### Admission

`Acquire` is `ingressGuard.acquire` under its mutex; `global` and `clients` are
the buckets, `cleaned` the time of the last cleanup of the table. `AdmitBody` is
`requestAdmission.acquire`, `Leave` and `ReleaseIngress` the two deferred releases
in their order, `Rate` the statement of `Store.Rate`. `TestPolicy` takes only the
second. `Arrive` and `CountHit` take the instant that is used later: both the
guard, whose caller reads the clock before the mutex, and the statement, whose
`NOW()` is older than the row lock, can find that others with later instants went
first.

Abstractions. Instants are ages, up to where they no longer matter, so that there
is no end of time in the model. Tokens are counted in fractions that make the
refill of a tick exact; the code has floating point. All requests have one key.
The login has a guard of its own with the same code, and `Rate` with other
buckets.

### AdminSession

Passwords are numbers in the order of their hashes; verifying is reading the
number. `LockAccount` and `InsertSession` are `createAdminSession`; `UpdateHash`,
`RevokeSessions`, `CommitChange` the transaction of `changePassword`. The row of
the account is shared by the logins that hold it and exclusive to a change. A
request that was let in by a session goes on when the session is revoked:
`Server.admin` looks only at its beginning.

## 3. Runs

| run | instance | distinct states | properties |
| --- | --- | --- | --- |
| `keyed_gate` | 3 callers, 2 keys | 1.5 thousand | `MutualExclusion`, `EntryLifetime`, `WaitersServed`, `ImplementsLock` |
| `router_quota` | 3 requests, 1 channel, RPM 2 | 152 thousand | `ReservationsConserved`, `WindowWithinRPM`, `AllowanceExact` |
| `router_health` | 2 requests, 2 channels, edits | 2.6 million | `HealthOfConfiguration`, `ProbeOwned`, `OneProbe`, `CooldownNotShortened` |
| `ledger_budget` | 2 attempts, 1 administrator, 2 days | 5.2 million | `BudgetHonoured`, `NothingAfterRevocation` |
| `ledger_reconcile` | settlement, cleanup, 2 administrators | 97 thousand | `SettledOnce`, `ReconciledOnce`, `NoFreeCalls`, `NoLostBudgetUpdate`, `ReservationsEnd` |
| `evaluation_trials` | 1 run, 3 trials, 2 retries, 2 restarts | 114 thousand | `TypeOK`, `Tallied`, `NoCallAfterCancel`, `WithinBudget` |
| `evaluation_register` | 2 runs, 1 trial, 1 restart | 331 thousand | `CloseEnds`, `ImplementsRegister` |
| `audit_request` | 5 channels in 3 tiers, 3 attempts, 1 change | 5.1 million | `VerdictRecorded`, `CalledAsConfigured`, `LastTierKept`, `BackupInTime` |
| `administration` | 2 administrators, 8 rows, 3 commits | 415 thousand | `ReferencesIntact`, `FormsAreCurrent`, `EnabledWhenReady` |
| `email_queue` | 1 record, 2 workers, 2 accounts, 3 saves | 361 thousand | `NoneWhileDisabled`, `OneDelivery`, `PasswordOfAccount`, `NotificationsEnd` |
| `admission` | 3 requests, 3 addresses, a table of 2 | 2.5 million | `WithinLimits`, `RateWithin`, `AllowancePaid` |
| `admin_session` | 3 requests, 2 sessions, 2 changes | 1.1 thousand | `SessionsOfPassword`, `ReplacesVerified` |

What they show:

- `keyed_gate`: the gate is one lock per key for any interleaving of arrivals,
  departures and ended contexts. `ImplementsLock` is the refinement of
  `KeyMutex`, its fairness included.
- `router_quota`: reservations are given back exactly once on every path, no
  rolling minute exceeds the RPM, and the allowance loses nothing either.
- `router_health`: no request marks a configuration that is not its own; the
  probe flag always has somebody who will clear it; cooldowns are not shortened;
  recovery calls go one at a time. Saving a channel or clearing its cache starts
  its health afresh on purpose (`src/README.md` 301), so `OneProbe` is about
  channels at their first revision.
- `ledger_budget`: a committed reservation is within the limits in force when it
  commits; a revoked key reserves nothing more.
- `ledger_reconcile`: settlements, the cleanup and reconciliations do not
  overwrite each other, calls on the wire are never booked as free, concurrent
  editors do not undo each other, and every reservation ends.
- `evaluation_trials`: whatever fails or stops in between, a run that was not
  cancelled ends with trials and counts that agree, no call goes out after the
  answer to a cancellation, and none beyond the budget of the run.
- `evaluation_register`: with a new run created while the worker of a cancelled
  one is still there, there is one active run, every run ends (its worker, its
  deadline, the cleanup or the restart ends it), its end is final, and `Close`
  does not wait for ever.
- `audit_request`: a verdict is given only when it is recorded and every
  reservation of the request is settled, whatever statement fails; neither a call
  nor a cached verdict comes from what was stopped or edited before it was chosen;
  a tier is passed over only for a channel of a lower one that is reserved in the
  same moment, and called unless an administrator or the clock takes it; the
  attempts of a tier with a backup stay within its number and its time, whatever
  comes between them, and each leaves the backup time and an attempt.
- `administration`: what is deleted, archived or stopped while another refers to
  it leaves no dangling reference; the form of a channel, a policy or a key fails
  when it is out of date; policies are enabled only with a channel that can be
  called. `FormsAreCurrent` does not cover credentials, see section 2.
- `email_queue`: switching mails off leaves nothing behind, even of a record that
  is committing; of workers with an expired lease the last one counts; a password
  goes to the account it was typed in for; every notification is sent, given up
  or deleted.
- `admission`: everything inside is within its limits and given back once; an
  address the table forgets gains nothing but what instants can be late by; a
  fixed window lets at most twice its limit through in a minute, less what
  statements wait.
- `admin_session`: no session outlives the password it was opened with, although
  both sides verify outside their transactions.

Every property has a mutant in `PROJECT.json`: a variant of one definition that
a plausible bug would produce (marked "A variant that must fail" in the modules),
under which TLC finds that property violated.

### Bounds

- `MaxTime`, `Window`: the clock goes past the end of a window (and, in
  `router_health`, past the end of a cooldown and of a second one), so that calls
  expire, are charged after they have expired and start at every position of the
  window. Nothing in the router depends on absolute time.
- `MaxRevision` (router): one edit after the first revision of a channel; a
  request can then hold a snapshot older or newer than the configuration the
  memory was last told of, which are the cases its guards tell apart. The second
  channel of `router_health` is never edited.
- `MaxBurst`: calls per channel and tick; with two or three requests only
  repeated failover within one tick would exceed it.
- `Threshold` 2 with several retry-after values (`router_health`): cooldowns from
  the threshold and from the upstream.
- `ledger_budget`: two attempts and one administrator, two days of one month, one
  edit of the budget; `ledger_reconcile`: one attempt and two administrators, one
  day, two edits. The races of the ledger are between two transactions, so each
  run has the two kinds that race. `MaxRevision` bounds how often a budget is
  saved.

- `evaluation_trials`: one run, three trials, so that one is the first, one the
  last and one between, with all tries of a trial that the plan allows, under a
  budget that some sequences of charges exhaust and others do not; a second
  restart, so that what the first recovery wrote is worked on again.
  `evaluation_register`: two runs are enough for a conflict of two; their
  identifiers are used again once they are deleted. `MaxRestarts` bounds closes
  and crashes together.
- `audit_request`: three tiers, the first two with two channels each, so that the
  first can recover while a channel of the second, passed over for the third, is
  eligible too, and so that every tier but the last has both a next channel and a
  lower tier. The limits of a tier (one attempt, one tick) and of the request
  (three, four ticks) differ; an attempt that is not sent does not count, so a tier
  has several attempts all the same. `MaxChanges` and `MaxEdits`: one stop or edit,
  between any two statements. `Editable`: it is the channel of the third tier that
  is edited. Tiers matter only to the selection, where any set is eligible, so
  that this channel is the first of some requests and the last of others. The
  proofs hold for any number of channels, tiers and changes.
- `administration`: three commits after a first configuration (a credential, a channel, a
  policy in use or archived, perhaps a key); the races are between two
  transactions, and the third commit makes what they race about.
- `email_queue`: one record, since notifications share nothing but the workers;
  three of the five attempts, three saves, one crash.
- `admission`: a token each minute for an address and two for all, so that buckets
  are empty, part full and full; a minute of two ticks, instants late by at most
  one; three addresses for a table of two; bodies of unknown length and of one
  above the limit. Ages are counted to `Oldest`, so time does not end.
- `admin_session`: two changes and three requests, so that a login, a change and
  another of either kind overlap.

The runs that check liveness (`keyed_gate`, `ledger_reconcile`,
`evaluation_register`, `email_queue`) use no symmetry, and no state constraint is
used anywhere: bounds are guards.

### Fairness

- `KeyedGate`: weak fairness of `DrainSlot` and `Drop` (a caller that holds the
  gate works under the deadline of its request and releases by `defer`), strong
  fairness of `TakeSlot` (the runtime queues senders on a channel in order of
  arrival, so a sender is not passed over for ever). None for `Enter` and
  `ContextDone`.
- `CostLedger`: weak fairness of `Cleanup` (`CleanupLoop`, once a minute for as
  long as the service runs) and of `Age` (time passes). None for attempts or
  administrators: they may stop anywhere.
- `EvaluationRuns`: weak fairness of the worker (a goroutine goes on; calls and
  statements have deadlines), of handlers that have begun, of time (`Deadline`,
  `Overdue`), of `Cleanup` (once a minute), of `Stopped` (`Wait` returns when the
  workers are gone) and of `Recover` (`src/compose.yaml` restarts the service).
  None for `Crash`, `Close`, the arrival of administrators or the acquisition of
  the lock.
- `EmailQueue`: weak fairness of what a worker does with a notification (SMTP and
  statements have deadlines) and of the end of leases and pauses, strong fairness
  of its claim (the worker comes back as long as the service runs, though an
  administrator may switch the mails off and on in between). None for records,
  administrators, crashes or the expiry of rows.
- `ChannelRouter`, `AuditRequest`, `Administration`, `Admission`, `AdminSession`:
  none; their properties are safety.

Deadlock is checked in every run but `administration`, where nothing is left to
do once `MaxChanges` transactions have committed.

## 4. Proofs

`KeyedGateProofs` (constants arbitrary, the set of callers finite). The inductive
invariant adds to `TypeOK`: everyone inside has the pointer the map has for its
key (`SharedEntry`), entries of different keys differ (`DistinctEntries`), the
count of an entry is the number of its users (`ExactCount`) and a taken semaphore
has one holder (`OneHolder`). The count is what carries the argument: `drop`
removes an entry only at 0, so nobody else uses it. Theorems `TypeCorrect`,
`GateMutualExclusion`, `GateEntryLifetime`. `GateLockSteps` is the safety half of
`ImplementsLock`: the owner of a key is the caller that holds it (only one does, so
the CHOOSE of the mapping is that caller), `TakeSlot` grants an unowned lock,
`DrainSlot` gives it back, and every other step leaves all owners alone.

`SumTheorems`. The library's sum `SumFunctionOnSet` takes elements out of a set in
an order chosen for it. The lemmas say that the order does not matter: `SumPart`
takes out any one element, and from it follow what a sum becomes when one value is
raised (`SumRaised`), one element moves (`SumMoved`) or elements are exchanged
(`SumExchanged`). In place of induction on the size of a set stands a smallest
subset for which the claim fails (`SmallestSubset`, from the well-foundedness of
strict inclusion on a finite set). All sums of the properties (`Used`,
`WithinLimits`, `RateWithin`, `LastMinute`) are written with it.

`ChannelRouterProofs` (channels, limits, clock and edits arbitrary, the set of
requests finite).

- `Conserved` is `TypeOK`, `Phases` and `ReservationsConserved` together: the
  counters are natural numbers only because they are exact, and exact only
  because a request has a reservation just while it is held, checked or sent. It
  gives `RouterTypeCorrect` and `RouterReservations`.
- `Healthy`: the signature in memory has the revision in memory, or is the empty
  one; a cooldown or a failure count exists only under a signature, the one that
  was blamed. A release marks health only under an equal signature, which is
  never the empty one because a snapshot never has revision 0 (`Phases`). It
  gives `RouterHealth`, and with the typed steps `RouterCooldown`.
- `ProbeOwned` is inductive next to `Conserved`: the flag is set by the request
  that takes the reservation under the signature just compared; it survives only
  steps that keep reservation and signature; the owner's release clears it. It
  gives `RouterProbeOwned`.
- `FirstRevision` and `SoleProbe`: while a channel has not been edited all
  signatures of it are one and memory never starts afresh, so that a second probe
  would have found the flag of the first. It gives `RouterOneProbe`.
- `Metered`: the window of a channel is sorted (`Sorted`: a call is inserted at its
  place although calls end out of order), and for every tick of the last minute the
  calls in the window and those on the wire are as many as were sent in it. Because
  the window is sorted, trimming its head forgets exactly what is old. Summed over
  the ticks this is `RouterAllowance`; since a call is sent only when what is
  counted, its own reservation included, is within the RPM, the same sum is within
  it too, which is `RouterWindow`.

`EvaluationRunsProofs` (runs, number of trials, retries, budget, estimate and
charges arbitrary). The statements on `evaluation_runs` look at little; what they
rely on is where the worker and the handlers are.

- `Lifecycle` is `TypeOK`, `Phase`, `Alone` and `Quiet`: a worker that can still
  write belongs to a run that is active or cancelled and not overdue, a creation
  that is past its check excludes every active run, a process that is down has no
  goroutines. It gives `EvaluationTypeCorrect`.
- `Tallied` is inductive next to `Lifecycle`: trials are written only while the
  run is active or cancelled, and all other ends count again. It gives
  `EvaluationTallied`.
- `SafeSends`: once a cancellation is answered, or about to be answered without a
  worker, a worker short of its call has a context that has ended (`Told`); what a
  worker believes to have spent is what the books show (`Books`). It gives
  `EvaluationNoCallAfterCancel` and `EvaluationWithinBudget`.
- `EvaluationRegisterSteps`: initial states and steps map to those of
  `RunRegister`, the safety half of the refinement; that every run ends is checked
  by TLC.

`AdministrationProofs` extends the three modules of what administrators edit and
proves each by itself (requests, tokens, records, workers, accounts, administrators,
rows and changes arbitrary). Each time a lock carries the argument, and that its
holder has checked what it is going to write.

- Sessions (`SessionInv`): whoever holds the row of the account has compared the
  hash that is still there (`Compared`), a change excludes all others who hold it
  (`Exclusive`), and no session is added to those a change has found (`FoundAll`);
  without the last, a session committed between the DELETE and the commit of a
  change would survive it. Theorems `SessionTypeCorrect`, `SessionPassword`,
  `SessionReplaces`.
- Mails (`MailInv`): a recorder that is going to insert a notification has the
  settings FOR SHARE, so they stay enabled and nobody saves them meanwhile
  (`Shared`); that is why switching mails off leaves nothing behind. A password is
  absent or that of the account beside it, in the row (`Matching`) and in the copy
  of each worker (`ReadMatching`). A worker in flight has an attempt number that
  is not above that of its notification, and a notification that was deleted does
  not come back because its request is already recorded (`Claimed`): with one that
  came back at attempt 0, an old completion could find its own number again.
  Theorems `MailTypeCorrect`, `MailNoneWhileDisabled`, `MailOneDelivery`,
  `MailPasswordOfAccount`; they are about `MailSafeSpec`, which is `MailSpec`
  without its fairness, so they hold for both.
- Configuration (`AdminInv`): only the holder of the advisory lock has a row to
  write (`Locked`), and what it has checked is still so (`Checked`): the row refers
  to what is there (`SoundChannel`, `SoundPolicy`, `SoundKey`, `SoundRun`), nobody
  refers to a row that is deleted, and a form still shows what is in the table.
  The one step that changes a table without the lock, the end of an evaluation,
  takes nothing of this back (`EvaluationEnds`). For the forms it needs that
  revisions only grow and what was deleted does not come back (`Moves`), so that a
  form with the revision of the table shows what the table has (`Shown`); for the
  page of a channel, which also shows whether its credential is active, this needs
  the new revisions that saving a credential gives to its channels
  (`CredentialCommitted`). Theorems `AdministrationTypeCorrect`,
  `AdministrationReferences`, `AdministrationForms`, `AdministrationEnabled`.

`CostLedgerProofs` (clients, attempts, administrators, days and amounts
arbitrary). `IInv` is `LedgerInv` and `Checked`.

- `LedgerInv` is `TypeOK` and what each transaction relies on: what an attempt has
  computed and written so far (`Computed`, `Written`), that whoever is in a
  transaction on a key holds its row, and that a key is active while a reservation
  it was authorised for is being written (`KeysHeld`), that a form shows the budget
  that is there or an older revision of it (`BudgetForms`), that a cost under
  adjustment is locked and open (`CostForms`), with `ReconciledOnce` and
  `NoFreeCalls`, which are inductive next to them. It gives `LedgerTypeCorrect`,
  `LedgerReconciledOnce`, `LedgerNoFreeCalls`, and with the steps
  `LedgerSettledOnce`, `LedgerNothingAfterRevocation` and
  `LedgerNoLostBudgetUpdate`.
- `Checked`: what the budget query found affordable is affordable until the row is
  written. It is not stable by itself; what makes it so is that all that adds to
  what a client has used takes the row of its key first. While an attempt has that
  row, no other transaction adds a production row of the client or changes the
  amounts of one, and the cleanup, which takes no key, changes only states
  (`StandsStill`): the sums of the query stand still. It gives
  `LedgerBudgetHonoured`.

`AdmissionProofs` (requests finitely many; addresses, limits and the fineness of
the clock arbitrary).

- `Guarded` and `Budgeted`: each counter is the number, or the sum, of the requests
  that are inside by it, also for an address the table has forgotten, which has
  none. With the guards of the two `acquire` it gives `AdmissionWithinLimits`, and
  with it `AdmissionTypeCorrect`: no counter goes below zero because it is exact.
- `Windows`: a rolling minute touches at most two fixed windows. What is younger
  than the start of the current one (`Younger`) is at most what that one has let
  through (`Passed`); all that is recent is at most this and one limit more, since
  a new window begins only when the hits of the one before the last are too old. It
  gives `AdmissionRateWithin`.
- `AdmissionAllowancePaid` is about single steps. What a bucket is worth is the
  tokens it has and those its age has earned, up to the fill (`Worth`); an address
  without a bucket is worth the fill and what instants can be late by
  (`MostTokens`). Cleaning forgets a bucket only when it has been idle for a minute
  before the instant of the request, so it has earned its fill again, and what
  forgetting gives is at most the lateness (`TablePays`).

`AuditRequestProofs` (channels, tiers, limits, times and changes arbitrary). `IInv`
adds to `TypeOK`: the reservation of the attempt is the only one that is open, and
none is open once a verdict goes to its record (`Settled`); what was answered was
recorded (`Answered`); a channel that was stopped before the attempt was chosen is
still stopped, since revisions only grow, and is not the one that was rechecked
(`StillStopped`).

- For `AuditLastTierKept`: a channel that was not edited is as the snapshot and the
  resources have it (`AsRead`), so the recheck and the credential turn away only
  one that was edited or whose policy was closed; with what an attempt that was
  sent or came too late leaves behind, these are the reasons to come back from a
  channel (`Back`). A tier has attempts or a deadline only through a channel that
  was used (`Tried`), and gives way only when it is spent, so it had its turn;
  tiers that give way in one selection have the channel of that selection as their
  heir (`Inherited`). When nothing serves, nothing is passed over: the lowest tier
  that is asked has no lower one (`LastServes`).
- For `AuditBackupInTime`: a tier has a deadline just when it was chosen with a
  backup, and that is at most `PriorityTimeout` after the first time (`Timed`),
  because it is kept from then on; half of what is left is less than the time of
  the request, and not nothing, since `TotalTimeout` is more than one tick.

Theorems `AuditTypeCorrect`, `AuditVerdictRecorded`, `AuditCalledAsConfigured`,
`AuditLastTierKept`, `AuditBackupInTime`.

Type correctness is proved for the modules that have proofs, and is not checked
again by most of their runs.

Assumptions are those of the modules: `RequestsAssumption`, `LimitsAssumption`,
`CallersAssumption`, `NilAssumption`, `PlanAssumption`, `MoneyAssumption`,
`BoundsAssumption`, `RowAssumption`, `AdmissionAssumption`, `BucketAssumption`,
`RequestAssumption`, `AdminSessionAssumption`, `QueueAssumption`,
`AdministrationAssumption`, `TableAssumption`, evaluated by TLC in the runs of
their modules. They say that limits are numbers and sets of requests finite, that
placeholders are no values, and in the ledger that attempts and administrators are
different holders of locks.

Every safety property a run checks is stated by a theorem. Model-checked only:
liveness (`WaitersServed`, `ReservationsEnd`, `CloseEnds`, `NotificationsEnd`), and
of the two refinements (`ImplementsLock`, `ImplementsRegister`) what depends on
their fairness; temporal reasoning with ENABLED is out of the prover's reach.

## 5. Not modelled

The arithmetic of prices is sequential and checks each product for overflow; the
ledger is checked for any amounts. Migrations are one transaction under a lock,
evaluation samples are inserted one by one under another, the backfill of
fingerprints works on columns nothing else waits for. The global audit settings,
the publication of prices and the warm-up of channel tests are left out of the
components they belong to. Not at all: formats of upstreams and of pages, SQL that only reads, encryption,
the frontend and scripts. Changes of RPM or of the concurrency limit while
reservations are held are left out of `ChannelRouter`; a lowered limit leaves the
reservations of before above it until they are released.

## 6. Plan

Every component with state that several actors share has a module, and every
safety property of the runs has a proof. What could come next is more of the
system, in this order:

1. The insertion of evaluation samples under its lock, and the backfill of
   fingerprints beside the deletion of what it fills in.
2. Changes of the RPM and of the concurrency limit of a channel while
   reservations are held.

`PROJECT.json` lists the hazards of the code at their lines, with the property
that covers each.
