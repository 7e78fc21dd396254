----------------------------- MODULE Schedules ------------------------------
(***************************************************************************)
(* Cron schedules: workers turn due schedule rows into job executions      *)
(* (internal/jobs/store/schedules.go) while migrations rewrite the rows    *)
(* (internal/db/metadata_records.go) and operators pause the target job.   *)
(* A cron expression is the set of instants it names; the executions of a  *)
(* job are counted per schedule and due instant, their idempotency key.    *)
(***************************************************************************)
EXTENDS Naturals, FiniteSets

CONSTANTS
  Ids,       \* ids of schedule rows
  Jobs,
  Apps,
  ScheduleApp, JobApp,  \* the app of a schedule, and of a job
  Files,     \* Files[s]: what the schedule.yml of s may say
  Sessions,  \* database connections of worker loops
  Limit,     \* free slots of a loop: how many schedules it takes at once
  Lag,       \* how old a worker's reading of the clock may be
  Horizon    \* the end of modelled time

ASSUME ScheduleConstants ==
  /\ Ids \subseteq Nat /\ IsFiniteSet(Ids)
  /\ Horizon \in Nat /\ Lag \in Nat /\ Limit \in Nat \ {0}
  /\ ScheduleApp \in [Ids -> Apps] /\ JobApp \in [Jobs -> Apps]
  /\ Files \in [Ids -> SUBSET [cron : SUBSET (1 .. Horizon), job : Jobs, enabled : BOOLEAN]]

VARIABLES
  sched,    \* sched[s]: the schedule row
  blocked,  \* the jobs that are disabled or retired
  active,   \* the apps that are active
  now,      \* the time the hosts' clocks show
  tx,       \* tx[x]: the open RunDueSchedules transaction of session x
  sync,     \* the migration that has computed next runs and not yet written
  fired,    \* fired[s][d][j]: executions of job j created for the occurrence
            \* of s due at d
  from,     \* history: the instant the next run of s was last reset from
  since,    \* history: which occurrences of s were taken since, run or skipped,
            \* and when
  again     \* history: occurrences of s that ran, and that a migration left
            \* or made due for another job

vars == <<sched, blocked, active, now, tx, sync, fired, from, since, again>>

Never == Horizon + 1
Instants == 1 .. Horizon

ScheduleRow == [cron : SUBSET Instants, job : Jobs, enabled : BOOLEAN, retired : BOOLEAN,
                next : 1 .. Never]
Tx == [open : BOOLEAN, at : 0 .. Horizon, rows : SUBSET Ids, blocked : SUBSET Jobs]
Idle == [open |-> FALSE, at |-> 0, rows |-> {}, blocked |-> {}]
Sync == [open : BOOLEAN, at : 0 .. Horizon]
NoSync == [open |-> FALSE, at |-> 0]

TypeOK ==
  /\ sched \in [Ids -> ScheduleRow]
  /\ \A s \in Ids : sched[s].next \in sched[s].cron \cup {Never}
  /\ blocked \subseteq Jobs /\ active \subseteq Apps
  /\ now \in 0 .. Horizon
  /\ tx \in [Sessions -> Tx]
  /\ sync \in Sync
  /\ fired \in [Ids -> [Instants -> [Jobs -> Nat]]]
  /\ from \in [Ids -> 0 .. Horizon]
  /\ since \in [Ids -> SUBSET [due : Instants, at : 0 .. Horizon]]
  /\ again \in [Ids -> SUBSET Instants]

\* Mutant: the next run skips the instant right after t.
LateNextRunAt(cron, t) ==
  CHOOSE d \in cron \cup {Never} : (d > t + 1 \/ d = Never) /\ \A e \in cron : e > t + 1 => d <= e

\* The first instant of the cron after t; the clock stops before Never.
NextRunAt(cron, t) ==
  CHOOSE d \in cron \cup {Never} : d > t /\ \A e \in cron : e > t => d <= e

Inserted(f) == [cron |-> f.cron, job |-> f.job, enabled |-> f.enabled, retired |-> FALSE,
                next |-> NextRunAt(f.cron, 0)]

Init ==
  /\ \E file \in [Ids -> UNION {Files[s] : s \in Ids}] :
       /\ \A s \in Ids : file[s] \in Files[s]
       /\ sched = [s \in Ids |-> Inserted(file[s])]
  /\ blocked = {} /\ active = Apps
  /\ now = 0
  /\ tx = [x \in Sessions |-> Idle]
  /\ sync = NoSync
  /\ fired = [s \in Ids |-> [d \in Instants |-> [j \in Jobs |-> 0]]]
  /\ from = [s \in Ids |-> 0]
  /\ since = [s \in Ids |-> {}]
  /\ again = [s \in Ids |-> {}]

-----------------------------------------------------------------------------
(* Workers: RunDueSchedules.                                               *)

Runnable(s, t) ==
  /\ {ScheduleApp[s], JobApp[sched[s].job]} \subseteq active
  /\ sched[s].enabled /\ ~sched[s].retired /\ sched[s].next <= t

RowFree(s) == \A x \in Sessions : s \notin tx[x].rows

Earlier(r, s) == \/ sched[r].next < sched[s].next
                 \/ sched[r].next = sched[s].next /\ r < s

FindDue(t) ==
  LET free == {s \in Ids : Runnable(s, t) /\ RowFree(s)}
  IN {s \in free : Cardinality({r \in free : Earlier(r, s)}) < Limit}

\* FOR UPDATE OF s SKIP LOCKED: the job's flags are read and not locked.  The
\* worker read its clock at the top of its loop.
LockDue(x, t) ==
  /\ ~tx[x].open
  /\ FindDue(t) # {}
  /\ tx' = [tx EXCEPT ![x] = [open |-> TRUE, at |-> t, rows |-> FindDue(t),
                              blocked |-> blocked \cap {sched[s].job : s \in FindDue(t)}]]
  /\ UNCHANGED <<sched, blocked, active, now, sync, fired, from, since, again>>

\* Mutant: the insert carries no idempotency key.
InsertAlways(n) == n + 1

\* The unique constraint on job and key lets the first insert win.
InsertOnce(n) == IF n = 0 THEN 1 ELSE n

\* Mutants: the next run is counted from the due instant; a blocked schedule
\* is left as it is.
RanRowBackfill(r, t, isBlocked) == [r EXCEPT !.next = NextRunAt(r.cron, r.next)]
RanRowStuck(r, t, isBlocked) == IF isBlocked THEN r ELSE [r EXCEPT !.next = NextRunAt(r.cron, t)]

\* Whether it ran or its job was blocked, which the row records in last_run_at
\* and last_error.
RanRow(r, t, isBlocked) == [r EXCEPT !.next = NextRunAt(r.cron, t)]

RunDue(x) ==
  LET e == tx[x]
      isBlocked(s) == sched[s].job \in e.blocked
  IN
  /\ e.open
  /\ sched' = [s \in Ids |-> IF s \in e.rows THEN RanRow(sched[s], e.at, isBlocked(s)) ELSE sched[s]]
  /\ fired' = [s \in Ids |-> IF s \in e.rows /\ ~isBlocked(s)
                             THEN [fired[s] EXCEPT ![sched[s].next][sched[s].job] = InsertOnce(@)]
                             ELSE fired[s]]
  /\ since' = [s \in Ids |-> IF s \in e.rows
                             THEN since[s] \cup {[due |-> sched[s].next, at |-> e.at]}
                             ELSE since[s]]
  /\ tx' = [tx EXCEPT ![x] = Idle]
  /\ UNCHANGED <<blocked, active, now, sync, from, again>>

\* A query error, a lost connection or a dead worker.
Rollback(x) ==
  /\ tx[x].open
  /\ tx' = [tx EXCEPT ![x] = Idle]
  /\ UNCHANGED <<sched, blocked, active, now, sync, fired, from, since, again>>

-----------------------------------------------------------------------------
(* Migrations and operators.                                               *)

\* buildMetadataRecords reads the clock; the upserts come later and may wait.
\* Nothing relates two schedules, so a migration is followed on one row.
SyncBegin ==
  /\ ~sync.open
  /\ sync' = [open |-> TRUE, at |-> now]
  /\ UNCHANGED <<sched, blocked, active, now, tx, fired, from, since, again>>

\* Mutant: the next run of the former cron stays.
SyncPresentKeeps(s, f) ==
  /\ sync.open /\ RowFree(s)
  /\ sched' = [sched EXCEPT ![s] = [@ EXCEPT !.cron = f.cron, !.job = f.job, !.enabled = f.enabled,
                                            !.retired = FALSE]]
  /\ sync' = NoSync
  /\ UNCHANGED <<blocked, active, now, tx, fired, from, since, again>>

\* A schedule.yml that is present restores the row; the next run is computed
\* anew only if the cron or the enabled flag changed or the row was retired,
\* and not when only the job did.
SyncPresent(s, f) ==
  LET r == sched[s]
      reset == r.cron # f.cron \/ r.enabled # f.enabled \/ r.retired
      next == IF reset THEN NextRunAt(f.cron, sync.at) ELSE r.next
      ranElsewhere == {d \in Instants : \E j \in Jobs \ {f.job} : fired[s][d][j] > 0}
  IN
  /\ sync.open /\ RowFree(s)
  /\ sched' = [sched EXCEPT ![s] = [r EXCEPT !.cron = f.cron, !.job = f.job, !.enabled = f.enabled,
                                            !.retired = FALSE, !.next = next]]
  /\ from' = IF reset THEN [from EXCEPT ![s] = sync.at] ELSE from
  /\ since' = IF reset THEN [since EXCEPT ![s] = {}] ELSE since
  /\ again' = [again EXCEPT ![s] = @ \cup {d \in ranElsewhere : next <= d}]
  /\ sync' = NoSync
  /\ UNCHANGED <<blocked, active, now, tx, fired>>

\* A schedule.yml that is gone retires the row.
SyncAbsent(s) ==
  /\ sync.open /\ RowFree(s)
  /\ sched' = [sched EXCEPT ![s].retired = TRUE]
  /\ sync' = NoSync
  /\ UNCHANGED <<blocked, active, now, tx, fired, from, since, again>>

\* An operator disables or enables a job, a migration retires or restores it.
SwitchJob(j) ==
  /\ blocked' = (blocked \ {j}) \cup ({j} \ blocked)
  /\ UNCHANGED <<sched, active, now, tx, sync, fired, from, since, again>>

\* A migration that installs an app activates it; what is disabled is disabled
\* by hand in the table.
SwitchApp(a) ==
  /\ active' = (active \ {a}) \cup ({a} \ active)
  /\ UNCHANGED <<sched, blocked, now, tx, sync, fired, from, since, again>>

Tick ==
  /\ now < Horizon
  /\ now' = now + 1
  /\ UNCHANGED <<sched, blocked, active, tx, sync, fired, from, since, again>>

Next ==
  \/ \E x \in Sessions : RunDue(x) \/ Rollback(x) \/ \E t \in {u \in 0 .. now : now <= u + Lag} : LockDue(x, t)
  \/ SyncBegin
  \/ \E s \in Ids : SyncAbsent(s)
                    \/ \E f \in Files[s] : SyncPresent(s, f)
  \/ \E j \in Jobs : SwitchJob(j)
  \/ \E a \in Apps : SwitchApp(a)
  \/ Tick

\* Worker loops keep looking for due schedules with the time of day, and their
\* transactions do not all roll back forever.
Fairness ==
  /\ \A x \in Sessions : WF_vars(LockDue(x, now)) /\ SF_vars(RunDue(x))
  /\ WF_vars(Tick)

Spec == Init /\ [][Next]_vars /\ Fairness

-----------------------------------------------------------------------------

\* An occurrence of a schedule creates at most one execution of a job, although
\* a migration with an older clock reading may make it due again, and of one
\* job only, unless a migration that finds it due gives the schedule another
\* job after it ran (docs/schedule.md, Runtime Behavior; the key is unique per
\* job).
OneExecutionPerOccurrence ==
  \A s \in Ids, d \in Instants, j \in Jobs :
    /\ fired[s][d][j] <= 1
    /\ fired[s][d][j] > 0 /\ d \notin again[s] => \A k \in Jobs \ {j} : fired[s][d][k] = 0

\* Catching up creates one late execution: an occurrence that had passed when
\* an earlier one was taken is not taken afterwards (no backfill).
CatchUpRunsOnce ==
  \A s \in Ids : \A f, g \in since[s] : f.due < g.due => f.at < g.due

\* No occurrence is lost: from the instant the next run was reset to the next
\* run, every instant of the cron was taken or had passed when an earlier one
\* was taken (NextRunAt, runDueSchedule and the upsert of the migration).
NoOccurrenceLost ==
  \A s \in Ids : \A e \in sched[s].cron :
    from[s] < e /\ e < sched[s].next => \E g \in since[s] : g.due <= e /\ e <= g.at

\* A due schedule is run or skipped, whoever locks it in between.
DueAdvances ==
  \A s \in Ids : Runnable(s, now) ~> ~Runnable(s, now)
=============================================================================
