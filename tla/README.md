# TLA+ models of dygo

dygo is a Go framework for business applications: apps declare entities, jobs, schedules, permissions and pages in YAML; the
framework keeps the data in PostgreSQL and runs job workers next to an HTTP server. This directory holds TLA+ models of it, the
TLC configurations that check them on small instances, and proofs for TLAPS. `PROJECT.json` lists, in machine-readable form, the
components, the runs, the mutants of each property, the source lines of each definition, the findings, the hazards and the theorems.
Paths below are relative to `src/`.

Everything in dygo that is hard to test has one shape: several processes (request handlers, worker loops, `dygo` commands) act on one
PostgreSQL database, each call is one or more transactions at READ COMMITTED, and what a transaction read may be old when the next
statement or the next transaction uses it. Processes die, connections fail, clocks of hosts differ. The models therefore keep
transactions, row locks, clocks and process deaths, and abstract payloads, names and layout.

## Running

    tlasany JobStore.tla
    tlc -workers 2 -config JobStore.cfg MCJobStore
    tlc -workers 2 -config JobStoreSwitches.cfg MCJobStore      (ends with a counterexample)
    tlc -workers 2 -config JobWorker.cfg MCJobWorker
    tlc -workers 2 -config JobWorkerLive.cfg MCJobWorker
    tlc -workers 2 -config JobWorkerShutdown.cfg MCJobWorker    (ends with a counterexample)
    tlc -workers 2 -config Schedules.cfg MCSchedules
    tlc -workers 2 -config Files.cfg MCFiles
    tlc -workers 2 -config Handlers.cfg MCHandlers
    tlc -workers 2 -config Records.cfg MCRecords
    tlc -workers 2 -config Migration.cfg MCMigration
    tlc -workers 2 -config Access.cfg MCAccess
    tlc -workers 2 -config Secrets.cfg MCSecrets
    tlapm JobWorker_proofs.tla
    tlapm Schedules_proofs.tla
    tlapm Files_proofs.tla
    tlapm Secrets_proofs.tla
    tlapm Records_proofs.tla
    tlapm Handlers_proofs.tla
    tlapm Access_proofs.tla
    tlapm Migration_proofs.tla

## Inventory

### Jobs

**Job store** (`internal/jobs/store`). State: the tables `job_execution` (status, job, idempotency key, queue, priority, attempts and
their budget, `run_after`, `locked_by`, `locked_until`, `finished_at`), `job` (enabled, retired, settings) and `app` (status).
Operations: `Enqueue`, `Retry`, `Claim`, `RecoverExpired`, `Complete`, `Fail`, `FailFinal`, `ExpireClaim`, `Cancel`/`CancelQueued`,
`EnableJob`/`DisableJob`, `PruneTerminal`, `NextRunAfter`. Used by workers, request handlers, the CLI, Studio, schedules and by the
metadata sync of a migration. Hard: everything is concurrent, a claim is a lease that a slow worker may outlive, any process may die
between two steps, and a commit may succeed while its reply is lost. Correct if: an attempt belongs to one worker and has one
outcome, a success is final, attempts stay in budget, a key names one execution, and no lease is taken early.

**Worker runtime** (`internal/jobs/runtime`). State per queue loop: its slots, the goroutines that run handlers, `activeExecutions`,
the channels `errs`, `slotReleased` and the wakeup of the notification fan-out. Operations: the loop (recover, claim, start handlers,
look up the next row, select), the handlers' reports, shutdown with a grace period. Hard: lost notifications, rows skipped because
they are locked, handlers that ignore their deadline, store errors during a batch, shutdown with work in flight. Correct if: slots
are never exceeded, queued work is taken while a loop works, running attempts end, shutdown ends and gives its claims back.

**Job notifications** (`internal/jobs/store/notify.go`): queue names sent with `pg_notify` at commit, lost when nobody listens. They
must not be needed for progress. Part of the worker model.

**Schedule runner** (`internal/jobs/store/schedules.go`, `internal/schedules`). State: schedule rows (cron, enabled, retired, next
and last run). `RunDueSchedules` locks due rows, inserts an execution per occurrence under a key made of schedule and due instant,
and moves the next run; migrations rewrite rows, the target job included, operators pause jobs and apps. Correct if: an occurrence
creates at most one execution, none is lost, catching up does not backfill, retired schedules do not fire, and every due schedule moves on.

**Imports** (`internal/imports`) and **notifications** (`internal/notifications`, `internal/dygodata`). State: an import with its rows and
counters; a notification per recipient and key. Both have a handler that an attempt of a job runs, whose side effects (a created Record, a
sent mail) are recorded by a later write. Hard: attempts that die in between, retries, an expired attempt that is still at work. Correct
if: nothing is done twice without such a cut, and what the status says is true.

### Records and files

**Records, trees, naming, hooks** (`internal/db/records*.go`, `tree*.go`, `naming.go`, `internal/hooks`). State: rows, collection rows,
the counter of each naming series. Operations: create, update, move, delete, each in a transaction or in a savepoint of one that an
action, hook or job opened; path reads. Hard: two moves that together close a cycle, a row that changes between load and write, an
Entity that becomes a tree while writers are under way. Correct if: parents never form a cycle, a mutation writes over the row it read,
names have no gaps and no duplicates.

**Queries** (`internal/recordfilter`, `internal/recordquery`, reading half of `internal/db/records.go`, `db/query.go`,
`db/record_fetch*.go`, `record_link_filters.go`). Pure: which filters a type has, what they select, order, pages, aggregates, fetched
fields, filtered links. Correct if: pages cover, filters and their negations part the rows, aggregates add up.

**Files** (`internal/files`). State: rows in the database, blobs on disk, cleanup jobs. Operations: upload, attach, open, remove, action
transactions, the cleanup job. Hard: blob and row change at different moments, either step may fail and so may undoing it. Correct if:
a row has its blob, and a blob without a row is on its way out.

**Secrets** (`internal/secrets`, `internal/recordsecret`, `internal/db/record_secret*.go`). State: the master key file, an encrypted file
per environment, the ring of Record keys in it, encrypted columns. Operations: init, edit, rotate-key, record-key init and rotate,
writes by servers. Hard: a rotation is a series of renames that may stop anywhere; servers write with the ring they read before; no lock keeps commands
from overlapping, but for the record-key commands among themselves. Correct if: what is stored can always be decrypted.

### Metadata and migrations

**Apps, entities, jobs, schedules, queues** (`internal/app`, `internal/entity`, `internal/jobs`, `internal/queues`, `internal/schedules`).
YAML read at start; validation decides what may go together. Correct if: what is accepted can be migrated and run, and the order of Apps
and patches respects their needs.

**Migrations, patches, schema plan, prune, metadata sync** (`internal/cli/db.go`, `internal/migration`, `internal/db/patch_*.go`,
`schema_*.go`, `metadata_records.go`). State: the live schema, the persisted metadata, the patch ledger, the states of Apps, a snapshot
file in each project root; per command a plan that its operator approved. Hard: the plan is made before the lock, so the project or the database may have
changed since; patches run once although attempts fail and commits are lost. Correct if: the ledger tells what ran, what is executed is
what was shown, metadata describes the live schema.

**Fixtures** (`internal/fixtures`): validation, order, application and export of seed Records. Correct if: idempotent, independent of
discovery order, and what is exported can be applied.

### Access

**Authentication and access** (`internal/auth`, `internal/access`, `internal/permissions`, `internal/db/record_scope.go`, record routes of
`internal/server`). State: users, sessions, roles, assignments, policies. A request resolves its session, checks the action, compiles
grants into a scope, and then runs statements that carry the scope: four database calls, between which everything may change. Correct if:
no statement does what no grant allowed.

### Not modelled

- **Studio state** (`internal/studiostate`): preferences and saved filters are Records; the one rule of its own is a limit that is counted
  before the insert, so that two concurrent creates may exceed it.
- **Job execution actions**: Studio actions that call `Retry` and `CancelQueued`, which `JobStore` models.
- CLI, configuration, health, server rendering, pages, action decoding, parsing of request parameters, code and file generation, project
  upgrade, the SDK's types, the core app's metadata, the Studio UI: parsing, rendering, generated text or interfaces. The state they change
  is behind the components above.

## The models

**`JobQueue`** is the abstract specification: executions are submitted once per job and key, attempted one attempt at a time and within
their budget, end at most once, and are forgotten only if they ended and had no key. No transactions, clocks, leases or crashes.

**`JobStore`** is the store. A call that takes row locks and uses them later is two actions, the locking read and the commit
(`EnqueueFind`/`EnqueueInsert`, `ClaimSelect`/`ClaimCommit`, `RecoverSelect`/`RecoverCommit`); other sessions act between them. A call
that is one guarded statement (or a `SELECT ... FOR UPDATE` whose row is changed by the next statement) is one action that waits while
another session holds the row. `tx[s]` is the open transaction of a session. Locks are derived: a claim locks its executions and, because
the query says `FOR UPDATE` without `OF`, their jobs and apps. `claims` are the attempts workers hold in memory; `outcomes` and `told`
are history variables for the properties. `Crash` kills a worker with its claims and transactions; `ClaimCommit(s, FALSE)` commits while
the worker sees an error; `Readings` are the clock values a caller may have read up to `Lag` ago.

**`JobWorker`** EXTENDS `JobStore` with one worker process per `WorkerOf` value, its queue loops and their goroutines; every database
step is the action of `JobStore` under the loop's session. `pc` is the place in `runQueueLoop`, `run` the handlers in their slots, `done`
the handlers that have reported and not yet run their deferred release, `tracked` the map `activeExecutions`. Request handlers and other
workers use the `Clients` sessions, which are not those of a loop: an open transaction has one connection.

**`Schedules`** has the schedule rows, worker sessions in `RunDueSchedules`, and a migration that computes next runs with its own
clock reading (`SyncBegin`) and writes them later (`SyncPresent`, `SyncAbsent`). A cron expression is the set of instants it names.
`Files[s]` is what the file of a schedule may say in turn: its cron, its target job, whether it is enabled. A changed file changes the row's job
(`metadata_records.go:403`), and the next run only if the cron, the timezone or the enabled flag changed. The idempotency key is unique
per job (`store.go:893`), so `fired` counts executions per occurrence and job. `from`, `since` and `again` are history.

**`Handlers`** has one import and one notification. A job is queued, taken by a worker, and taken again once its lease has expired, while
the first worker may still be at work (`Take`, `Expire`, `Die`, `Report`). Each database call of a handler is an action: `Load`,
`ReadPage`, `NextRow`, `Create`, `Mark`, `EndPage`, `Final` for the import; `Get`, `Mail`, `Stamp` for the e-mail; `SendLock`, `SendFind`,
`SendCommit` for `NotificationData.Send`. `torn` counts the attempts that were cut off between a side effect and its record.

**`Files`** has, per call, the place in the handler and the open transaction with the rows, jobs and new keys it holds. A request and an
action share the code: an action collects uploads in its transaction and removes them again when it rolls back. `Crash`, `CommitFails`
(committed or not, the caller sees an error), disk errors and cancelled contexts may strike at each step; a removal that the disk refuses is ignored, as in the code (`RemoveBlobs`). What
all that loses is named in `lost` and `undone`.

**`Records`** has the committed rows, and per session the transaction (rows written, row locks, the structural lock, savepoints) and the
mutation it is in the middle of: `Mutate`, `LockTree`, `Load`, `Check`, `Write`, each refused or not. Hooks appear as refusals before and
after the write. `Activate` is the migration that declares the Entity a tree.

**`SchemaPlan`**, **`EntityMeta`** and **`Fixtures`** are pure. `SchemaPlan` compares a desired with a live schema: the additive plan, the
differences that block it, the prune plan. `EntityMeta` decides which Entities are valid and derives the schema they ask for. `Fixtures`
decides which files are valid, in which order they are applied, what applying makes of the Records and what an export writes.
**`Migration`** EXTENDS them: operators, each in a project root that others may share, plan, are shown a plan, confirm, take the lifecycle lock, plan again, run patches before the sync,
the sync, the metadata, patches after it, fixtures and App states, and commit; or prune. The plans, the simulation of patches, the schema and
the fixtures are computed from the metadata of each revision of the project, not assumed. A root may hold another revision each time a
command reads it: nothing keeps a checkout away between plan and confirmation. Each root has its own snapshot, `snapshot[r]`.

**`Listing`** (queries) and **`AppCatalog`** (Apps, jobs, schedules, queues, patch files, retry delays) are pure. Their operators are
checked against reference definitions in `MCMigration`, together with those of `EntityMeta` and `Fixtures` (see below).

**`Access`** has users, roles, assignments, live policies and the access files they come from, sessions, rows, and requests as pipelines:
`CurrentUser`, `Authorize`, `StoreFor`, then `Read`, `Load`/`Update`, `Delete`, or `ValidateProposed`/`Insert`, or `Refuse`. In between,
`ApplyPlan`, `SwitchRole`, `Assign`, `Join`, `SwitchUser`, `Login`, `Close` and other requests change what the pipeline read.

**`Secrets`** has the master key, the environment files (the set of keys each is encrypted to, and its ring), the init commands, the steps of
rotate-key with its rollback, edit, the record-key commands, and server operations that hold a ring. Cryptography is that set of recipients.
A command acts on what it loaded, however old: an init on the files it found missing, an edit on the file it decrypted, rotate-key on all it
staged, and a save on the document and master key it read (`RkKey`, `EditKey`) just before. The guards that keep commands apart are two: the
advisory lock of the record-key commands (`TryLock`), and the demand of `docs/secrets.md:242` that no edit and no rotate-key runs during a
record-key *rotation* (`NoRotation`, `NoStoreCommand`). Everything else overlaps, record-key init beside edits and rotate-key included.

Definitions marked `Mutant` in a comment are not used by any specification: each is a plausible bug of one definition, and each property
is known to fail when its mutant takes that definition's place (`PROJECT.json`, `mutants`).

## Runs, bounds, and what they show

| Run | Instance | Distinct states | Result |
| --- | --- | --- | --- |
| `JobStore` | 2 executions of 1 job, 1 key, 2 workers, 2 sessions, 2 attempts, lease 1, one tick | 1.5 million | all safety properties hold; every behaviour is one of `JobQueue` |
| `JobStoreSwitches` | the same | | **violated**: an execution is created while its job is disabled |
| `JobWorker` | 1 loop with 1 slot, a peer, 1 execution of a job with or without a handler, lease 2, two ticks | 2.0 million | no loop counts fewer than no free slots (`avail` in `WorkerTypeOK`); shutdown expires leases |
| `JobWorkerLive` | the same, lease 1, one tick | 200 thousand | queued work is taken, running attempts end, shutdown ends |
| `JobWorkerShutdown` | 2 slots, three ticks | | **violated**: a lease survives the shutdown |
| `Schedules` | 2 schedules, one with 4 files (two crons, two jobs, paused), 2 worker sessions, clock lag 1, limit 1, two instants | 450 thousand | each occurrence runs a job at most once, none is lost, due schedules advance |
| `Files` | 2 calls, 2 keys, 2 targets | 230 thousand | a row has its blob, no blob is forgotten, but for the named losses |
| `Handlers` | 2 workers, 2 attempts, 2 rows on pages of 1, 2 senders | 4.5 million | duplicates and statuses are explained by where attempts were cut off |
| `Records` | 2 sessions of 1 mutation or read each, 3 nodes, 1 collection row, 1 name | 2.8 million | forest, stable paths, exact predecessors, dense names |
| `Migration` | 2 operators in 1 root or 2, 3 commands, 4 revisions of 2 Apps | 250 thousand | ledger, metadata, snapshots and what was shown agree with what happened |
| `Access` | 2 users, 2 roles, 1 session token, 2 requests, 1 row, 1 administrative change | 1.1 million | no statement exceeds the grants of its actor |
| `Secrets` | 2 environments, 2 master and 2 Record keys, 2 rows in batches of 1, 2 init and 2 record-key commands, 1 server operation | 1.6 million | the store stays readable, every secret decryptable, but for the named overlaps |

Why these bounds reach the interesting cases. *Store*: two executions, two sessions and two workers let two claims, a claim and a recovery,
or two keyed enqueues overlap on one row; there is one job specification, so a `job.yml` that changes under way is left to the theorems, which
cover every set of specifications; two attempts and one tick let a lease run out, an execution be recovered, reclaimed by the same or
the other worker, and the first worker report late. The clock stops at `Horizon` and later instants count as it, so leases and delays that end
after it end at it; nothing depends on differences beyond the horizon. `OneSwitchOff` keeps at most one of job disabled, job retired, app
inactive off at a time. Priorities, several queues, several jobs, and stale clocks in the store are not in the instance: the proofs below
cover every value of them. *Worker*: one slot for the properties that hold, two slots for the one that does not; with one slot,
`ShutdownExpiresLeases` holds because a second attempt cannot start in the loop before the first released its slot. `JobWorkerLive` has one execution, so a claim that skips
an app's rows because of another execution of that app is in `JobStore` and not in the liveness run. *Schedules*: the file of the first
schedule changes its job together with its cron or without, so that an occurrence may become due again for the same job or another; two
instants and a lag of one make a stale clock and a missed occurrence possible. *Handlers*: two
attempts and two workers let an expired attempt work on beside its successor; pages of one let a row be read on one page and marked by the
other attempt. *Files*: two calls may work on one key, and one may be an action that uploads both. *Records*: a cycle of two moves needs two
sessions and two nodes, the third gives them a tree to be in; one session's transaction may hold what the other waits for. *Migration*:
three commands let one operator migrate and prune while the other migrates, from the same root or another; the revisions rename, add, fill, drop by SQL, install and remove
an App. *Access*: the change may come between any two calls of a pipeline, and the other request is a second kind of change; both are needed
for a pre-image that moves out of scope. *Secrets*: a rotation over two files is stopped between any two renames and resumed; a batch of one
of two rows leaves one behind; an edit or a rotate-key holds the file from before the first ring while a server already uses that ring. No field of a project has a column called like one of the
columns of collection rows (`Nameable`). `Horizon`, `MaxOps`, `MaxNames`, `MaxCommands`, `Changes`, `Attempts` and the sets of keys are all the
bounds there are; each is a guard or a constant of its module. Workers, sessions, operators, calls, requests, keys and nodes are symmetric
where a run says so.

Deadlock is checked in every run but two: `Secrets` stops when no key is left to draw, and `Migration` when the commands that `MaxCommands`
allows are spent. Elsewhere an operator may always flip a
switch and a client may always roll back, so it is the liveness properties and not deadlock freedom that speak of progress.

### Pure parts

TLC evaluates these assumptions when it starts a run; a false one stops it.

| Assumption | Module | What it checks |
| --- | --- | --- |
| `MetadataChecks` | `MCMigration` | each of 20 broken Entities is refused, correct ones are accepted, and what validation overlooks is what PostgreSQL would refuse |
| `FixturesAreIdempotent` | `MCMigration` | targets come first, the order of discovery does not matter, applying twice changes nothing |
| `ExportsApply` | `MCMigration` | an export applied to an empty database gives back its Records exactly when all names are manual |
| `PagesCover`, `FiltersPart`, `PathsLead`, `GroupsAddUp` | `MCMigration` | pages hold every row once and in order; operators and their negations part the rows; paths follow links; groups count and sum to the whole |
| `WritesReadLinks` | `MCMigration` | fetched fields, and what a link filter accepts |
| `PatchesAreOrdered`, `NeedsComeFirst` | `MCMigration` | patch files by App and id; Apps after their needs, for every graph on three Apps, or refused exactly for a circle |
| `DelaysAreBounded` | `MCMigration` | a retry delay is bounded and grows |
| `JobsGoTogether` | `MCMigration` | which jobs, schedules and queues go together |
| `ExportKeepsGrants` | `MCAccess` | exporting live policies is idempotent and keeps what was granted, unless another App's override decides |

### Fairness

Safety runs need none. In `JobWorker` (`Fairness`): goroutines are scheduled, so a loop, a handler that has not hung, a
deferred release and the fan-out take their steps (WF). Go's `select` chooses uniformly among ready cases, so a loop with a ready cancel
or error case does not take its timer for ever (SF `Quit`). Transactions of other processes that hold locks do not all roll back for ever
(SF `Commit`): a claim skips locked rows, and a peer that locks a row and rolls back each time would starve it. Time passes (WF `Clock`).
Nothing is assumed of handlers that hang, notifications, listener failures, deaths, signals or errors: they may happen or not, and
`QueuedIsTaken` and `RunningEnds` promise something only while some loop works and is not filled with hung handlers, which is all the code
does. In `Schedules`: loops keep calling `RunDueSchedules` with the time of day (WF), a transaction that keeps being tried commits (SF), time
passes (WF). Polling continues for ever because of the timer in the loop (`Lookup`, the mutant `LookupWithoutPoll` breaks `QueuedIsTaken`).
The other modules state no liveness: nothing in their code retries by itself, an import or a mail is retried by the job queue, a migration
or a rotation by its operator.

## Findings

1. **A late attempt hides its successor from shutdown** (code bug, run `JobWorkerShutdown`). `activeExecutions`
   (`internal/jobs/runtime/runtime.go:600`) is keyed by execution id. Attempt 1 is over in the database, because its lease
   was recovered or its report stored, but its goroutine has not yet run its deferred `remove(id)`; the same loop claims the execution again
   into its second slot, and `add` replaces the entry. The late `remove(id)` of attempt 1 deletes the entry of attempt 2. If the process then shuts down and gives up on attempt 2, `shutdownActiveExecutions` has nothing to expire, and the
   execution stays locked until the job's timeout has passed, although `ExpireClaim` exists to prevent that (`store.go:623`).
2. **Disabling a job does not stop an enqueue under way** (doc and code differ, run `JobStoreSwitches`). `Enqueue` reads `enabled` without a
   lock and inserts in a later statement; `DisableJob` may commit in between. `docs/jobs.md:115` says that disabled jobs cannot create new executions.

## Proofs

The first half of `JobWorker_proofs` is about `JobStore`. It proves, for every set of executions, jobs, workers, sessions, keys, priorities, delays and batch limits and for every
clock lag and horizon, from the assumption `StoreConstants` of `JobStore` alone:

| Theorem | Statement |
| --- | --- |
| `TypeCorrect` | `StoreSpec => []TypeOK` |
| `OneWorker` | `StoreSpec => []OneWorkerPerAttempt` |
| `OneOutcome` | `StoreSpec => []OneOutcomePerAttempt` |
| `SuccessFinal` | `StoreSpec => []SuccessIsFinal` |
| `WithinBudget` | `StoreSpec => []AttemptsWithinBudget` |
| `OneExecution` | `StoreSpec => []OneExecutionPerKey` |
| `InOrder` | `StoreSpec => []EarlierAttemptsResolved` |
| `Lease` | `StoreSpec => LeaseHonoured` |
| `Refinement` | `StoreSpec => ImplementsQueue` |

None of the safety properties is inductive. The inductive invariant is `Inv`:

- `LocksInv`: rows locked by a claim are still queued, rows locked by a recovery are still running with a lease that is over, and no two
  sessions hold the same row. This is what makes the two-step calls safe, and where the locks are used.
- `RowsInv`, `JobsInv`: a stored row has a job and a budget some `job.yml` gave it, attempts are within it, a queued row has one left.
- `ClaimsInv`, `OutcomesInv`: no claim or outcome is ahead of its row, and a running attempt has no outcome yet. With the guard `Owns` this
  gives one outcome per attempt.
- `KeysInv`: what callers were told is still stored under that job and key, and the unique constraint holds; this needs that only unkeyed
  rows are pruned.

There is one lemma per action (`EnqueueFindInv`, `ClaimCommitInv`, ...) on top of lemmas that several share: `SameRows` and `SameKeys` for
steps that leave rows alone, `TakeLocks` and `GiveBack` for locks, `EndAttempts` for reports and recoveries of any number of rows, `TouchRow`
for calls that change one row. `Refinement` maps the initial state and each action to a step or a stutter of `JobQueue`, from `Inv`.

The second half of `JobWorker_proofs` proves, for every set of processes, loops, peers, clients and executions, every number of slots, poll interval and
shutdown timeout, from `StoreConstants` and `WorkerConstants`:

| Theorem | Statement |
| --- | --- |
| `WorkersTypeCorrect` | `Spec => []WorkerTypeOK` |
| `SlotsHeld` | `Spec => [](\A l \in Loops : Busy(l) <= Concurrency[l])` |
| `WorkersKeepTheStore` | `Spec => []` of the six invariants of the store |
| `WorkersRefine` | `Spec => ImplementsQueue` |
| `WorkersHonourLeases` | `Spec => LeaseHonoured` |
| `OneSlotShutdown` | `(\A l \in Loops : Concurrency[l] = 1) /\ Spec => []ShutdownExpiresLeases` |

The theorems about the store do not carry over by themselves: a loop recovers and claims with the clock reading of its top, however old
that is, and with as many rows as it has free slots. `StepCalls` shows that every step of a process is one of the `Calls` of the store, and
`CallsKeep` that these keep its invariant; a call that changes a row is a step of `StoreNext` (`StoreSteps`), which gives the refinement and
the leases. `SlotsInv` says that the slots counted free at the top stay free until the loop fills them and that its claim locks no more
rows than that (`PickedFew`: the rows with fewer than `n` before them are at most `n`). `OneSlotShutdown` adds that a running attempt is
tracked or lost for good (`SafeLoop`, `LostKept`): with one slot an attempt starts only when the one before has been released, so no
release can untrack another. With two slots that last step fails, and `JobWorkerShutdown` shows the behaviour.

`Schedules_proofs` proves, for every set of schedules, cron expressions and sessions, every batch limit, clock lag and horizon, from
`ScheduleConstants`:

| Theorem | Statement |
| --- | --- |
| `TypeCorrect` | `Spec => []TypeOK` |
| `OneExecution` | `Spec => []OneExecutionPerOccurrence` |
| `NoBackfill` | `Spec => []CatchUpRunsOnce` |
| `NothingLost` | `Spec => []NoOccurrenceLost` |

`NextRunIsFirst` says what `NextRunAt` returns: the first instant after `t`, which exists because every set of naturals has a least element
(`FirstExists`, by well-founded induction from the library). The inductive invariant adds to the properties `LocksInv` (a locked
schedule is due at its locker's clock reading, and nobody else has locked it) and `SinceInv` (a taken occurrence was due when it was taken,
which was before the present next run). That no job runs an occurrence twice follows from the idempotency key, and that no second job
runs it from `RanJobInv`: what has run of the occurrences still to come ran for the present job, unless `again` says otherwise. The other two
properties need that a migration which resets a next run starts the history of that schedule anew.

`again` is where the guarantee ends. A migration that read its clock before an occurrence, and writes after a worker has run it, makes it due
again; the key catches that. If the same migration, or a later one before the occurrence is run again, also changes the schedule's job, the key does
not, because it is unique per job, and the occurrence runs once more, for the new job. `docs/schedule.md` promises one execution for
each due occurrence and says nothing of a changed job; `OneExecutionPerOccurrence` exempts exactly this case.

`Files_proofs` proves, for every set of calls, keys and targets, from `FileConstants`:

| Theorem | Statement |
| --- | --- |
| `TypeCorrect` | `Spec => []TypeOK` |
| `RowsHaveBlobs` | `Spec => []BlobBacked` |
| `NoBlobForgotten` | `Spec => []NoStrayBlob` |

Both follow from who may know a key: nobody before it is drawn (`FreshInv`), its upload alone before its row is inserted (`NewFileInv`), its
action alone until that commits (`KeysInv`). A row is written by one transaction at a time (`LocksInv`), a cleanup job belongs to a row that
is deleted for good once it is visible (`JobsInv`), and so a blob is removed only when no transaction may still commit its row (`UndoInv`,
`BackedInv`). There is one lemma per action, on top of lemmas about the three ways a call ends: it moves on, gives up, or publishes its work.

`Secrets_proofs` proves, for every set of environments, keys, rows, commands and server operations and every batch size, from the four
assumptions of `Secrets`:

| Theorem | Statement |
| --- | --- |
| `TypeCorrect` | `Spec => []TypeOK` |
| `SecretsHeld` | `Spec => []SecretsSurvive` |

The invariant has two halves. `StorePart` is about files: until the rename of the master key the old key opens every file, by then so does
the new one, and the backups can be put back in any order (`RotKeys`). A file written for a key that another command is replacing is a
`clash`: an edit, a record-key save or an init beside rotate-key, or two inits of which one found no key. `DataPart` is about secrets. A copy of
the file that a command holds has the ring in place, or only keys in `loose` are at stake (`CopiesInv`): a Record key is `loose` when its ring was
saved while an edit, a rotate-key or an init already held an older copy of the file, which that command may yet write back. The ring a
server holds is part of the stored one, but for such keys (`RingsInv`), and the rows up to the id a pass has reached are under the new key
unless a server wrote them late (`PassInv`). `AloneInv` is what the two guards give: record-key commands exclude each other, and a
record-key rotation excludes edits and rotate-key. That a pass goes by no row uses that a batch ends at its greatest id (`BatchEnds`, from
`LastExists`).

`loose` is real: `secret edit` opens a document without a ring, `record-key init` saves one, a server stores a secret under it, and the edit writes
the document back without the ring. Nothing prevents this, and `docs/secrets.md:242` asks to avoid it during a rotation only. The properties
exempt the keys and files of such overlaps, by name, and nothing else.

`Records_proofs` proves, for every set of ids, any number of sessions and names, from `RecordConstants`:

| Theorem | Statement |
| --- | --- |
| `TypeCorrect` | `Spec => []TypeOK` |
| `TreeStaysForest` | `Spec => []TreeIsForest` |
| `PredecessorHeld` | `Spec => []OldIsPredecessor` |
| `PathsHeld` | `Spec => []PathsAreStable` |
| `NamesHeld` | `Spec => []NamesAreDense` |

`HeldInv` (a row is written under its lock, and a lock has one holder) and `MutationInv` (a mutation past its load holds the lock of its target,
and what it loaded is what it sees) give `OldIsPredecessor`. `LockInv` says what the structural lock excludes: while one session has it
exclusively no other has it at all, and unless `late`, every session that wrote a row of a tree has it exclusively, so there is one writer
(`SoleWriter`) and readers see what is committed. `ForestInv` is about more than the committed rows: what each session sees is a forest, and
a check of a move or a delete that was passed still holds when the write is made; without the second part the first is not inductive. A
forest is defined by sets that no parent leaves, not by walking up, so two lemmas without induction carry the rest: `LeafKeepsForest` (a
node without children may get any parent but itself) and `MoveKeepsForest` (any node may move below one that is not under it).
`NamesInv` says that one open transaction at a time has drawn names, and that they are the next ones of the series.

`Handlers_proofs` proves, for every number of rows, attempts, workers and senders and every page size, from `HandlerConstants`:

| Theorem | Statement |
| --- | --- |
| `TypeCorrect` | `Spec => []TypeOK` |
| `DuplicatesBounded` | `Spec => []DuplicatesExplained` |
| `StatusHeld` | `Spec => []StatusTellsRows` |
| `SuccessHeld` | `Spec => []SuccessMeansDone` |

The invariant has a part that holds although attempts overlap and one that needs that they do not. The first: an attempt has counted exactly the
rows before its place (`PlaceInv`; this bounds the counters, so `TypeOK` is not inductive without it), rows it has gone by have an outcome,
and an outcome once stored is never taken back (`RowsInv`, `MailInv`). The second: an attempt that is alone (`SoleInv`) has read its page as the
page still is, its counters are the numbers of succeeded and failed rows before its place (`SoleImportInv`; `CountNext` is the one step of
counting), and every side effect is recorded, about to be recorded, or accounted for by an attempt that was cut off (`MadeInv`, `SoleMailInv`).

`Access_proofs` proves, for every set of users, roles, teams, policies and requests in flight and any number of administrative changes, from
the assumptions of `Access`:

| Theorem | Statement |
| --- | --- |
| `TypeCorrect` | `Spec => []TypeOK` |
| `AccessGranted` | `Spec => AccessIsGranted` |

`AccessIsGranted` is an action property: it judges the statement that reads or writes against the grants its actor held at one moment of the
request. The history `had` remembers those moments, and the invariant says that what a request carries was compiled from one of them
(`Witnessed`), unless the actor became an administrator after the middleware read the user, which only adds to what is granted. A grant that
holds for a row is then found by going from a predicate of the scope back to its grant (`WhereGrant`, `ReadGrant`, `WriteGrant`, `PredHolds`).
A create keeps that some grant of each Field of its body held on the proposal (`RequestOf`); no other step of the pipeline needs to remember more.

`Migration_proofs` proves, for every project, every set of patches and their operations and any number of operators and commands, from the
assumptions of `Migration` and of the modules it extends:

| Theorem | Statement |
| --- | --- |
| `SyncReaches` | nothing blocks `d` on `l` implies `Synced(d, l, Operations(d, l, rows)) = d` |
| `PruneReaches` | no blocker and no operation implies `Dropped(l, Extra(d, l)) = d` |
| `MetadataIsDesired` | `Migratable(es)` implies that `SchemaFor(es)` is a schema of the desired form |
| `TypeCorrect` | `Spec => []TypeOK` |
| `LedgerIsTrue` | `Spec => []LedgerTellsEffects` |
| `MetadataFollowed` | `Spec => []MetadataIsLive` |
| `ShownIsDone` | `Spec => []AsShown` |
| `SnapshotIsExplained` | `Spec => []SnapshotExplained` |

The first three are about the pure modules. A database that dygo migrated has no default on a system column (`Plain`); on such a schema a
difference between desired and live is an operation, a blocker, or an extra, place by place. What PostgreSQL drops along with a column is no
object of the metadata, because the metadata's objects are over columns that stay.

`Inv` says of each command how far it is (`Consistent`): what its transaction has made of the schema, the ledger and the metadata, as a function
of the committed database (`Stage`), that its ledger differs from the committed one by the patches it ran or baselined and nothing else
(`Ledgers`), and that the plan it was shown is a plan of the committed database, rows aside (`Approved`). Rows are left out because they are
inserted while the lock is held; the rest of the database is nobody's to change then (`OneTransaction`), so a commit turns `Stage` and
`Ledgers` into the properties. `SnapshotExplained` needs only to follow, root by root, who may still write the snapshot: a commit that changes the
schema leaves every other root behind (`Behind`), a save of what is still the live schema takes its root out of `missed` again. `AsShown` needs the most: the operations of the sync are computed twice, from a simulation of the patches when
the plan is made and from the patched schema under the lock. `Foreseen` shows by well-founded induction over the patches that the two
schemas differ only in the columns their objects name (`Similar`), and `SameOperations` that a sync nothing blocks then does the same to both.
`PostPlanned` shows that neither the patches before the sync nor the baselines change which patches follow it.

Only model-checked: every liveness property (`QueuedIsTaken`, `RunningEnds`, `ShutdownEnds`, `DueAdvances`; the prover handles neither fairness
nor ENABLED). Every other property of a passing run is proved. Facts by induction over data and RECURSIVE operators are out of the prover's
reach too: what the pure modules compute beyond the theorems above is checked on bounded inputs. An induction over the patches of a plan is
done by hand: the schemas after each patch form a function, and a first patch at which the claim fails leads to a contradiction.

## What the models leave out

- `JobStore`: the window between the foreign-key check of an insert and its commit, in which a claim would skip the job (one more reason for
  a poll to find nothing); the two reads of `Enqueue` are one action; the `Get` before `Retry` and `CancelQueued` is folded into their
  guarded statement; whether a queue is registered and whether payloads and durations are valid; the wider app scope of enqueues made
  while a migration installs an app. Nothing under `src/` but a migration sets an app's status (`migration.go:302`, to active);
  `SetAppStatus`, and `SwitchApp` in `Schedules`, also disable an app, which operators do by hand in SQL.
- `JobWorker`: `RunDueSchedules` and `NextScheduleRunAt` in the loop (their effect is in `Schedules`, their errors are `StoreError`), the
  `--once` mode, the retention ticker (the call it makes is `PruneTerminal`), an empty notification payload that wakes all loops. A handler
  may succeed at any time, also after its deadline: more behaviours than the code has. Instances have one loop per process.
- `Schedules`: validation of schedule files (in `AppCatalog`), failures of `NextRunAt`, `last_run_at` and `last_error`, time zones, a
  schedule whose source is not a file; a migration is followed on one row
  at a time because nothing relates two schedules in it. The occurrence key has second resolution, as cron has minutes.
- `Handlers`: reading and typing the uploaded file; `MarkRead`, `ListUnread`, `UnreadCount`, `DeepLink`. A create that is refused, that fails for a
  passing reason or whose answer is lost marks its row failed for good, so a Record may exist for a failed row; overlapping attempts are
  exempt from the properties where the handlers have no defence against them.
- `Files`: sizes, checksums, content types. Kept as the code has them: a client that disconnects between insert and event leaves a row
  whose blob is removed (`files.go:166`, `undone`); a failed fsync, an ambiguous commit, a crash or a removal that the disk refuses and the code
  ignores (`files.go:151`, `157`, `168`, `188`) leaves a blob (`lost`); and of two concurrent
  attaches the later wins (`files.go:211`), which no property forbids because nothing in the code promises otherwise.
- `Records`: mutations made by hooks inside a mutation, the ordinals of collection rows, the text of values. `late` marks the one way around
  `TreeIsForest`: a writer that loaded the Entity's metadata before it became a tree and writes after it did (`tree_integrity.go:72`).
- `Migration`: operations on system records, `inferLiveFieldColumn` for ambiguous columns, `Migrator.Sync`, `ApplyPatches` and `PatchPlan`, which
  no command uses. Rows of entities, fields, indexes, constraints and pages are one value. A prune plans again before the lock and does
  not compare with the plan that was confirmed, and may persist metadata whose columns are not live (`ahead`, the exemption of `MetadataIsLive`): a prune whose
  plan became stale while it waited for the lock is such a prune, and no property forbids it, because the code does not prevent it. A root's snapshot
  goes stale when another root migrates the same database (`missed`), until the root migrates or prunes again.
  A patch that drops a field the metadata still has an index over is planned as if the index stayed: the simulation edits columns only
  (`patch_plan.go:325`), PostgreSQL drops the index, and the sync adds it again although no plan showed that. `AsShown` exempts plans that drop
  fields (`drops`), as it exempts SQL patches, of which the operator is told.
- `EntityMeta`: derived names hold the table they are for, so that an Entity renamed by a patch keeps objects under old names and gets new ones
  beside them, as in the code (`schema_plan.go:339`); names derived from other names are tuples, so an explicit name is never equal to a derived one; form and tab layout. Two fields
  may share a column, or take a system column, and nothing notices before PostgreSQL (`Clashes`).
- `Fixtures`: references inside references, hooks, the counts that are reported, the writing of files. An export always writes `name`, which a create
  of an Entity whose naming is not manual refuses; `ExportsApply` says so.
- `Listing`: parsing of request parameters; patterns are not escaped in the code and not modelled as more than containment; a page past the end
  reports a total of 0, as the code does. A link filter that reads an unset field refuses every link (`record_link_filters.go:60`), where
  `docs/entity-metadata.md` says the filter is omitted; `WritesReadLinks` records what the code does.
- `Access`: password hashing, touch times, page grants, export of roles, `CheckRole` and explanations. A created row's per-Field grants are judged on
  the proposal, row scope on the stored row. The user a request carries is not read again after a logout or a disabling; grants are read at the
  compilation of the scope. One administrator setup at a time.
  The comment and Activity routes (`server.go:1381`), which read the Record under the scope and then write or list in further statements, and
  `AuthorizeField` (`record_scope.go:85`) are not in it.
- `Secrets`: the staging directory of rotate-key is its own, and one edit and one rotate-key run at a time; record-key rotation is kept apart from edits and
  rotate-key as `docs/secrets.md:242` demands of operators. `secret set` and `remove` are edits without an editor.
- `AppCatalog`: the shape of names, labels, versions and paths. A cron job becomes a schedule called `job-<name>`, which clashes with a file of that name.

## What is left

1. Proofs: a refinement for schedules from an abstract list of occurrences; the bounded checks of the pure modules.
2. The `--once` mode and two loops per process in `JobWorker`; several queues in its instance.
3. Mutations made by hooks inside mutations, and ordinals, in `Records`.
4. The system-record operations of patches in `Migration`, and the metadata rows one by one.
5. `StudioState` with its counted limit.
