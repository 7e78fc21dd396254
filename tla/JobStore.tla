------------------------------ MODULE JobStore ------------------------------
(***************************************************************************)
(* The durable job queue of internal/jobs/store: the table job_execution,  *)
(* the enabled and retired flags of the table job, and the transactions    *)
(* workers, operators and request handlers run on them.  PostgreSQL is at  *)
(* READ COMMITTED.  A call that takes row locks and uses them later is two *)
(* actions, the locking read and the commit, with other sessions free to   *)
(* act between them; a call that is one guarded statement is one action    *)
(* and waits while another session holds the row.                          *)
(***************************************************************************)
EXTENDS Naturals, FiniteSets

CONSTANTS
  Ids,         \* serial ids of job_execution rows
  Jobs,        \* rows of the table job
  Apps,        \* rows of the table app
  AppOf,       \* AppOf[j]: the app the job belongs to
  Queues,      \* registered queues
  Keys,        \* idempotency keys callers use
  Priorities,  \* priorities callers use
  JobSpecs,    \* the [max, timeout, queue] settings job.yml may hold
  Workers,     \* worker ids; a restarted process draws a new one
  Sessions,    \* database connections
  RetryDelays, \* what retryDelay may return
  Limits,      \* batch limits of claims and of pruning
  Lag,         \* how old a caller's reading of the clock may be
  Horizon,     \* the end of modelled time; later instants count as Horizon
  None         \* SQL NULL

ASSUME StoreConstants ==
  /\ Ids \subseteq Nat /\ IsFiniteSet(Ids)
  /\ AppOf \in [Jobs -> Apps]
  /\ Priorities \subseteq Nat
  /\ JobSpecs \subseteq [max : Nat \ {0}, timeout : Nat \ {0}, queue : Queues]
  /\ RetryDelays \subseteq Nat
  /\ Limits \subseteq Nat
  /\ Lag \in Nat /\ Horizon \in Nat
  /\ None \notin Workers /\ None \notin Keys /\ None \notin Jobs

VARIABLES
  exec,      \* exec[id]: the job_execution row
  job,       \* job[j]: the job row's mutable columns
  active,    \* the apps whose status is active
  now,       \* the time the hosts' clocks show
  tx,        \* tx[s]: the open transaction of session s
  alive,     \* the workers whose process runs
  claims,    \* the attempts workers were handed and have not reported
  outcomes,  \* history: the outcomes the store has committed, per attempt
  told       \* history: the execution each keyed enqueue returned

storeVars == <<exec, job, active, now, tx, alive, claims, outcomes, told>>

Terminal == {"succeeded", "failed", "cancelled"}
Statuses == {"none", "queued", "running", "pruned"} \cup Terminal

Row == [status : Statuses, job : Jobs \cup {None}, key : Keys \cup {None},
        queue : Queues \cup {None}, priority : Nat, attempts : Nat, max : Nat, runAfter : Nat,
        lockedBy : Workers \cup {None}, lockedUntil : Nat, finishedAt : Nat]

NoRow == [status |-> "none", job |-> None, key |-> None, queue |-> None, priority |-> 0,
          attempts |-> 0, max |-> 0, runAfter |-> 0, lockedBy |-> None,
          lockedUntil |-> 0, finishedAt |-> 0]

JobRow == [enabled : BOOLEAN, retired : BOOLEAN, max : Nat, timeout : Nat,
           queue : Queues]

Tx == [op : {"idle", "enqueue", "claim", "recover"}, at : Nat, rows : SUBSET Ids,
       worker : Workers \cup {None}, job : Jobs \cup {None},
       key : Keys \cup {None}, queue : Queues \cup {None}, priority : Nat, max : Nat]

IdleTx == [op |-> "idle", at |-> 0, rows |-> {}, worker |-> None, job |-> None,
           key |-> None, queue |-> None, priority |-> 0, max |-> 0]

Claims == [id : Ids, worker : Workers, attempt : Nat]
Outcomes == [id : Ids, attempt : Nat, kind : {"succeeded", "failed", "expired"}]
Replies == [job : Jobs, key : Keys, id : Ids]

TypeOK ==
  /\ exec \in [Ids -> Row]
  /\ job \in [Jobs -> JobRow]
  /\ active \subseteq Apps
  /\ now \in Nat
  /\ tx \in [Sessions -> Tx]
  /\ alive \subseteq Workers
  /\ claims \subseteq Claims
  /\ outcomes \subseteq Outcomes
  /\ told \subseteq Replies

StoreInit ==
  /\ exec = [id \in Ids |-> NoRow]
  /\ job \in [Jobs -> {[enabled |-> TRUE, retired |-> FALSE,
                        max |-> spec.max, timeout |-> spec.timeout,
                        queue |-> spec.queue] : spec \in JobSpecs}]
  /\ active = Apps
  /\ now = 0
  /\ tx = [s \in Sessions |-> IdleTx]
  /\ alive = Workers
  /\ claims = {} /\ outcomes = {} /\ told = {}

-----------------------------------------------------------------------------
(* Time and row locks.                                                     *)

\* What options.Now() may have returned by the time the statement runs.
Readings == {t \in 0 .. now : now <= t + Lag}

After(t, d) == IF t + d < Horizon THEN t + d ELSE Horizon

Stored(id) == exec[id].status \notin {"none", "pruned"}

\* FOR UPDATE without OF locks the execution, its job and its app.
LockedJobs(s) == IF tx[s].op = "claim" THEN {exec[id].job : id \in tx[s].rows} ELSE {}
LockedApps(s) == {a \in Apps : \E j \in LockedJobs(s) : AppOf[j] = a}

RowFree(id) == \A s \in Sessions : id \notin tx[s].rows
JobFree(j) == \A s \in Sessions : j \notin LockedJobs(s)
AppFree(a) == \A s \in Sessions : a \notin LockedApps(s)

Close(s) == tx' = [tx EXCEPT ![s] = IdleTx]

-----------------------------------------------------------------------------
(* Enqueue: read the job and look the key up, then insert and commit.      *)

\* Mutant: the unique index covers unfinished executions only.
HoldingActive(j, k) == {id \in Ids : /\ exec[id].status \in {"queued", "running"}
                                     /\ exec[id].job = j /\ exec[id].key = k}

Holding(j, k) == {id \in Ids : Stored(id) /\ exec[id].job = j /\ exec[id].key = k}

\* Mutant: callers without a key are remembered as well.
ReplyUnkeyed(j, k, id) == {[job |-> j, key |-> k, id |-> id]}

Reply(j, k, id) == IF k = None THEN {} ELSE {[job |-> j, key |-> k, id |-> id]}

Enqueueable(j) == job[j].enabled /\ ~job[j].retired /\ AppOf[j] \in active

EnqueueFind(s, j, k, p, t) ==
  /\ tx[s].op = "idle"
  /\ Enqueueable(j)
  /\ \/ /\ k # None
        /\ \E id \in Holding(j, k) : told' = told \cup Reply(j, k, id)
        /\ UNCHANGED tx
     \/ /\ k = None \/ Holding(j, k) = {}
        /\ tx' = [tx EXCEPT ![s] = [IdleTx EXCEPT !.op = "enqueue", !.at = t, !.job = j,
                                      !.key = k, !.queue = job[j].queue, !.priority = p,
                                      !.max = job[j].max]]
        /\ UNCHANGED told
  /\ UNCHANGED <<exec, job, active, now, alive, claims, outcomes>>

NewRow(e) == [NoRow EXCEPT !.status = "queued", !.job = e.job, !.key = e.key,
                !.queue = e.queue, !.priority = e.priority, !.max = e.max, !.runAfter = e.at]

\* The foreign key to job makes the insert wait for a claim's lock on the job;
\* the unique constraint on job and key turns a late duplicate into a lookup.
EnqueueInsert(s) ==
  LET e == tx[s] IN
  /\ e.op = "enqueue"
  /\ JobFree(e.job)
  /\ \/ /\ e.key # None
        /\ \E id \in Holding(e.job, e.key) : told' = told \cup Reply(e.job, e.key, id)
        /\ UNCHANGED exec
     \/ /\ e.key = None \/ Holding(e.job, e.key) = {}
        /\ \E id \in Ids :
             /\ exec[id].status = "none"
             /\ \A i \in Ids : i < id => exec[i].status # "none"
             /\ exec' = [exec EXCEPT ![id] = NewRow(e)]
             /\ told' = told \cup Reply(e.job, e.key, id)
  /\ Close(s)
  /\ UNCHANGED <<job, active, now, alive, claims, outcomes>>

\* A manual retry reads a failed execution and enqueues its job under a key.
Retry(s, id, k, t) ==
  /\ exec[id].status = "failed"
  /\ k # None
  /\ EnqueueFind(s, exec[id].job, k, 0, t)

-----------------------------------------------------------------------------
(* Claim: lock ready rows in order, skipping locked ones; then mark them.  *)

Ready(q, t) == {id \in Ids : /\ exec[id].status = "queued"
                             /\ exec[id].runAfter <= t
                             /\ exec[id].queue = q
                             /\ AppOf[exec[id].job] \in active}

\* Mutant: the claim reads without FOR UPDATE.
UnlockedNever(id) == id \in Ids

\* SKIP LOCKED: every row the join would lock must be free.
Unlocked(id) == RowFree(id) /\ JobFree(exec[id].job) /\ AppFree(AppOf[exec[id].job])

Before(a, b) ==
  LET x == exec[a]
      y == exec[b]
  IN \/ x.priority > y.priority
     \/ x.priority = y.priority /\ x.runAfter < y.runAfter
     \/ x.priority = y.priority /\ x.runAfter = y.runAfter /\ a < b

Picked(q, t, n) ==
  LET free == {id \in Ready(q, t) : Unlocked(id)}
  IN {id \in free : Cardinality({i \in free : Before(i, id)}) < n}

ClaimSelect(s, w, q, n, t) ==
  /\ tx[s].op = "idle"
  /\ w \in alive
  /\ Picked(q, t, n) # {}
  /\ tx' = [tx EXCEPT ![s] = [IdleTx EXCEPT !.op = "claim", !.at = t, !.worker = w,
                                !.rows = Picked(q, t, n)]]
  /\ UNCHANGED <<exec, job, active, now, alive, claims, outcomes, told>>

\* Mutant: the claim does not count the attempt.
ClaimedRowUncounted(r, w, t) ==
  [r EXCEPT !.status = "running", !.lockedBy = w, !.lockedUntil = After(t, job[r.job].timeout)]

ClaimedRow(r, w, t) ==
  [r EXCEPT !.status = "running", !.attempts = @ + 1, !.lockedBy = w,
            !.lockedUntil = After(t, job[r.job].timeout)]

\* The commit may succeed and the worker still see an error: then it holds
\* nothing although the rows are running under its name.
ClaimCommit(s, delivered) ==
  LET e == tx[s] IN
  /\ e.op = "claim"
  /\ exec' = [id \in Ids |-> IF id \in e.rows THEN ClaimedRow(exec[id], e.worker, e.at)
                             ELSE exec[id]]
  /\ claims' = IF delivered /\ e.worker \in alive
               THEN claims \cup {[id |-> id, worker |-> e.worker,
                                  attempt |-> exec[id].attempts + 1] : id \in e.rows}
               ELSE claims
  /\ Close(s)
  /\ UNCHANGED <<job, active, now, alive, outcomes, told>>

-----------------------------------------------------------------------------
(* The end of an attempt: requeue while attempts remain, fail otherwise.   *)

Unlock(r) == [r EXCEPT !.lockedBy = None, !.lockedUntil = 0]

\* Mutant: the budget is compared off by one.
RetryOrFailOnceMore(r, t, d) ==
  IF r.attempts <= r.max
  THEN [Unlock(r) EXCEPT !.status = "queued", !.runAfter = After(t, d)]
  ELSE [Unlock(r) EXCEPT !.status = "failed", !.finishedAt = t]

RetryOrFail(r, t, d) ==
  IF r.attempts < r.max
  THEN [Unlock(r) EXCEPT !.status = "queued", !.runAfter = After(t, d)]
  ELSE [Unlock(r) EXCEPT !.status = "failed", !.finishedAt = t]

Finished(r, status, t) == [Unlock(r) EXCEPT !.status = status, !.finishedAt = t]

\* Mutants: recovery forgets the status; recovery forgets the lease.
ExpiredAnyStatus(t) == {id \in Ids : Stored(id) /\ exec[id].lockedUntil <= t}
ExpiredEarly(t) == {id \in Ids : exec[id].status = "running" /\ t \in Nat}

Expired(t) == {id \in Ids : exec[id].status = "running" /\ exec[id].lockedUntil <= t}

RecoverSelect(s, w, t) ==
  LET rows == {id \in Expired(t) : RowFree(id)} IN
  /\ tx[s].op = "idle"
  /\ w \in alive
  /\ rows # {}
  /\ tx' = [tx EXCEPT ![s] = [IdleTx EXCEPT !.op = "recover", !.at = t, !.worker = w,
                                !.rows = rows]]
  /\ UNCHANGED <<exec, job, active, now, alive, claims, outcomes, told>>

RecoverCommit(s) ==
  LET e == tx[s] IN
  /\ e.op = "recover"
  /\ \E delay \in [e.rows -> RetryDelays] :
       exec' = [id \in Ids |-> IF id \in e.rows THEN RetryOrFail(exec[id], e.at, delay[id])
                               ELSE exec[id]]
  /\ outcomes' = outcomes \cup {[id |-> id, attempt |-> exec[id].attempts,
                                 kind |-> "expired"] : id \in e.rows}
  /\ Close(s)
  /\ UNCHANGED <<job, active, now, alive, claims, told>>

\* Mutant: the guard forgets the attempt number.
OwnsAnyAttempt(c) == /\ exec[c.id].status = "running"
                     /\ exec[c.id].lockedBy = c.worker

\* The guard of every report: the claim still names the running attempt.
Owns(c) == /\ exec[c.id].status = "running"
           /\ exec[c.id].lockedBy = c.worker
           /\ exec[c.id].attempts = c.attempt

Outcome(c, kind) == [id |-> c.id, attempt |-> c.attempt, kind |-> kind]

\* A worker reports an attempt once: the row changes to the given row and the
\* outcome is kept, or ErrClaimLost leaves the row alone.
Report(c, row, kind) ==
  /\ c \in claims
  /\ RowFree(c.id)
  /\ claims' = claims \ {c}
  /\ \/ /\ Owns(c)
        /\ exec' = [exec EXCEPT ![c.id] = row]
        /\ outcomes' = outcomes \cup {Outcome(c, kind)}
     \/ /\ ~Owns(c)
        /\ UNCHANGED <<exec, outcomes>>
  /\ UNCHANGED <<job, active, now, tx, alive, told>>

Complete(c, t) == Report(c, Finished(exec[c.id], "succeeded", t), "succeeded")

Fail(c, t, d) == Report(c, RetryOrFail(exec[c.id], t, d), "failed")

FailFinal(c, t) == Report(c, Finished(exec[c.id], "failed", t), "failed")

\* Any error other than ErrClaimLost before the commit: nothing is recorded.
ReportError(c) ==
  /\ c \in claims
  /\ claims' = claims \ {c}
  /\ UNCHANGED <<exec, job, active, now, tx, alive, outcomes, told>>

ExpireClaim(c, t) ==
  /\ c \in claims
  /\ RowFree(c.id)
  /\ Owns(c)
  /\ exec' = [exec EXCEPT ![c.id].lockedUntil = t]
  /\ UNCHANGED <<job, active, now, tx, alive, claims, outcomes, told>>

-----------------------------------------------------------------------------
(* Operators, migrations, retention and failures.                          *)

Cancel(id, t) ==
  /\ exec[id].status = "queued"
  /\ RowFree(id)
  /\ exec' = [exec EXCEPT ![id].status = "cancelled", ![id].finishedAt = t]
  /\ UNCHANGED <<job, active, now, tx, alive, claims, outcomes, told>>

SetJobEnabled(j, enabled) ==
  /\ JobFree(j)
  /\ AppOf[j] \in active
  /\ enabled => ~job[j].retired
  /\ job[j].enabled # enabled
  /\ job' = [job EXCEPT ![j].enabled = enabled]
  /\ UNCHANGED <<exec, active, now, tx, alive, claims, outcomes, told>>

\* Metadata sync: a job.yml that is gone retires the job, one that is present
\* restores it with its settings and leaves the operator's enabled flag alone.
SyncJob(j, present, spec) ==
  /\ JobFree(j)
  /\ job' = [job EXCEPT ![j] = IF present
                               THEN [@ EXCEPT !.retired = FALSE, !.max = spec.max,
                                              !.timeout = spec.timeout, !.queue = spec.queue]
                               ELSE [@ EXCEPT !.retired = TRUE]]
  /\ UNCHANGED <<exec, active, now, tx, alive, claims, outcomes, told>>

SetAppStatus(a) ==
  /\ AppFree(a)
  /\ active' = IF a \in active THEN active \ {a} ELSE active \cup {a}
  /\ UNCHANGED <<exec, job, now, tx, alive, claims, outcomes, told>>

\* Mutant: retention prunes keyed rows too.
PrunableKeyed(qs, cutoff) == {id \in Ids : /\ exec[id].status \in Terminal
                                          /\ exec[id].finishedAt < cutoff
                                          /\ exec[id].queue \in qs
                                          /\ RowFree(id)}

Prunable(qs, cutoff) == {id \in Ids : /\ exec[id].status \in Terminal
                                     /\ exec[id].finishedAt < cutoff
                                     /\ exec[id].key = None
                                     /\ exec[id].queue \in qs
                                     /\ RowFree(id)}

Older(a, b) == \/ exec[a].finishedAt < exec[b].finishedAt
               \/ exec[a].finishedAt = exec[b].finishedAt /\ a < b

PruneTerminal(qs, cutoff, n) ==
  LET rows == {id \in Prunable(qs, cutoff) :
                 Cardinality({i \in Prunable(qs, cutoff) : Older(i, id)}) < n} IN
  /\ rows # {}
  /\ exec' = [id \in Ids |-> IF id \in rows THEN [NoRow EXCEPT !.status = "pruned"]
                             ELSE exec[id]]
  /\ UNCHANGED <<job, active, now, tx, alive, claims, outcomes, told>>

\* The deferred Rollback: a lost connection, a query error, a dead process.
Rollback(s) ==
  /\ tx[s].op # "idle"
  /\ Close(s)
  /\ UNCHANGED <<exec, job, active, now, alive, claims, outcomes, told>>

\* A worker process dies with every claim it held; its transactions roll back.
Crash(w) ==
  /\ w \in alive
  /\ alive' = alive \ {w}
  /\ claims' = {c \in claims : c.worker # w}
  /\ tx' = [s \in Sessions |-> IF tx[s].worker = w THEN IdleTx ELSE tx[s]]
  /\ UNCHANGED <<exec, job, active, now, outcomes, told>>

Tick ==
  /\ now < Horizon
  /\ now' = now + 1
  /\ UNCHANGED <<exec, job, active, tx, alive, claims, outcomes, told>>

-----------------------------------------------------------------------------

Enqueuing(s) ==
  \/ \E j \in Jobs, k \in Keys \cup {None}, p \in Priorities, at \in Readings \cup {After(now, 1)} :
       EnqueueFind(s, j, k, p, at)
  \/ \E id \in Ids, k \in Keys, t \in Readings : Retry(s, id, k, t)
  \/ EnqueueInsert(s)

Claiming(s) ==
  \/ \E w \in Workers, q \in Queues, n \in Limits, t \in Readings : ClaimSelect(s, w, q, n, t)
  \/ \E delivered \in BOOLEAN : ClaimCommit(s, delivered)

Recovering(s) ==
  \/ \E w \in Workers, t \in Readings : RecoverSelect(s, w, t)
  \/ RecoverCommit(s)

Reporting(c) ==
  \/ \E t \in Readings : \/ Complete(c, t) \/ FailFinal(c, t) \/ ExpireClaim(c, t)
                         \/ \E d \in RetryDelays : Fail(c, t, d)
  \/ ReportError(c)

Operating ==
  \/ \E id \in Ids, t \in Readings : Cancel(id, t)
  \/ \E j \in Jobs, b \in BOOLEAN : SetJobEnabled(j, b)
  \/ \E j \in Jobs, b \in BOOLEAN, spec \in JobSpecs : SyncJob(j, b, spec)
  \/ \E a \in Apps : SetAppStatus(a)
  \/ \E qs \in SUBSET Queues, t \in Readings, n \in Limits : PruneTerminal(qs, t, n)

StoreNext ==
  \/ \E s \in Sessions : Enqueuing(s) \/ Claiming(s) \/ Recovering(s) \/ Rollback(s)
  \/ \E c \in claims : Reporting(c)
  \/ Operating
  \/ \E w \in Workers : Crash(w)
  \/ Tick

StoreSpec == StoreInit /\ [][StoreNext]_storeVars

-----------------------------------------------------------------------------
(* The abstract queue this store implements.                               *)

Queue == INSTANCE JobQueue WITH
  Budgets <- {spec.max : spec \in JobSpecs},
  phase   <- [id \in Ids |-> exec[id].status],
  work    <- [id \in Ids |-> [job |-> exec[id].job, key |-> exec[id].key]],
  attempt <- [id \in Ids |-> exec[id].attempts],
  budget  <- [id \in Ids |-> exec[id].max]

\* Every call, crash and race of the store is a step of the promised queue, or
\* no step of it at all.
ImplementsQueue == Queue!QueueSpec

-----------------------------------------------------------------------------
(* Safety.                                                                 *)

\* An attempt is handed to one worker only: two claims of the same attempt of
\* the same execution are the same claim, and no claim is ahead of its row
\* (the locks and re-checks of Claim, with crashes and late workers around).
OneWorkerPerAttempt ==
  /\ \A c, d \in claims : c.id = d.id /\ c.attempt = d.attempt => c = d
  /\ \A c \in claims : exec[c.id].status # "pruned" => c.attempt <= exec[c.id].attempts

\* An attempt has one recorded outcome: a worker's report and a recovery, or
\* two reports, never both count (the status, locked_by and attempts guards).
OneOutcomePerAttempt ==
  \A o, p \in outcomes : o.id = p.id /\ o.attempt = p.attempt => o = p

\* Recorded success is final: the execution is not attempted again.
SuccessIsFinal ==
  \A o \in outcomes : o.kind = "succeeded" => exec[o.id].status \in {"succeeded", "pruned"}

\* Attempts stay within the budget snapshotted at enqueue, whatever job.yml says
\* later, and a queued row always has one attempt left.
AttemptsWithinBudget ==
  \A id \in Ids : /\ exec[id].attempts <= exec[id].max
                  /\ exec[id].status = "queued" => exec[id].attempts < exec[id].max

\* Every keyed enqueue of a job under one key is answered with the same
\* execution, and that execution is still stored (docs/jobs.md, Idempotency;
\* docs/queues.md, Job Execution Retention).
OneExecutionPerKey ==
  \A a \in told : /\ exec[a.id].status \notin {"none", "pruned"}
                  /\ \A b \in told : a.job = b.job /\ a.key = b.key => a.id = b.id

\* Every attempt but the current one has a recorded outcome: no attempt starts
\* while an earlier one is unresolved.
EarlierAttemptsResolved ==
  \A id \in Ids : exec[id].status # "pruned" =>
    \A n \in 1 .. exec[id].attempts :
      (\E o \in outcomes : o.id = id /\ o.attempt = n)
        \/ (exec[id].status = "running" /\ n = exec[id].attempts)

\* No execution is created while its job is disabled (docs/jobs.md:115:
\* "disabled Jobs cannot create new Job Executions").
DisabledJobsCreateNothing ==
  [][\A id \in Ids : exec[id].status = "none" /\ exec'[id].status = "queued" =>
       job[exec'[id].job].enabled]_storeVars

\* A live worker's attempt is not taken from it before its lease has run out.
LeaseHonoured ==
  [][\A c \in claims : Owns(c) /\ ~Owns(c)' /\ c \in claims' => exec[c.id].lockedUntil <= now]_storeVars
=============================================================================
