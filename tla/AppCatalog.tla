----------------------------- MODULE AppCatalog -----------------------------
(***************************************************************************)
(* What a project ships beside its Entities: Apps (internal/app), queues,  *)
(* Jobs, Schedules and the files of patches.  Which of them a project may  *)
(* have together, the order Apps and their patches are taken in, and what  *)
(* the defaults make of a Job's settings.  The shape of names, labels,     *)
(* versions and paths is left out; a duration is a number, and a text that *)
(* is none is 0.                                                           *)
(***************************************************************************)
EXTENDS Integers, Sequences, SequencesExt, FiniteSets

CONSTANTS
  Unset,         \* the value of a setting that a file leaves out
  NameOrder,     \* every name, in the order that names are sorted
  ReservedApps,  \* names of Apps that dygo manages
  FirstDelay, LastDelay  \* the retry delays of a Job that sets none

Rank(n) == CHOOSE i \in DOMAIN NameOrder : NameOrder[i] = n
First(names) == CHOOSE n \in names : \A m \in names : Rank(n) <= Rank(m)
Names(s) == [i \in DOMAIN s |-> s[i].name]

ASSUME CatalogConstants ==
  /\ IsInjective(NameOrder)
  /\ FirstDelay \in Nat \ {0} /\ LastDelay \in Nat /\ FirstDelay <= LastDelay

-----------------------------------------------------------------------------
(* Apps: [name, needs, framework], found in two directories, of which the  *)
(* one called apps holds those that the project writes itself.             *)

AppNamed(apps, n) == CHOOSE a \in Range(apps) : a.name = n
AppNames(apps) == Range(Names(apps))

AppValid(a) == IsInjective(a.needs) /\ a.name \notin Range(a.needs)

AppsValid(apps) ==
  /\ IsInjective(Names(apps))
  /\ \A a \in Range(apps) : /\ AppValid(a) /\ Range(a.needs) \subseteq AppNames(apps)
                            /\ ~a.framework => a.name \notin ReservedApps

\* One App at a time, the first by name of those whose needs are all taken.
DependencyOrder(apps) ==
  LET ready(taken) == {n \in AppNames(apps) \ Range(taken) :
                         Range(AppNamed(apps, n).needs) \subseteq Range(taken)}
      order == FoldLeft(LAMBDA taken, a : IF ready(taken) = {} THEN taken
                                          ELSE Append(taken, First(ready(taken))), <<>>, apps)
  IN IF /\ IsInjective(Names(apps)) /\ Len(order) = Len(apps)
        /\ \A a \in Range(apps) : Range(a.needs) \subseteq AppNames(apps)
     THEN [i \in DOMAIN order |-> AppNamed(apps, order[i])] ELSE Unset

-----------------------------------------------------------------------------
(* Queues                                                                  *)

MaxRetention == 36500
QueuesValid(config) ==
  /\ config.retention \in 0..MaxRetention
  /\ IsInjective(Names(config.queues)) /\ "default" \in AppNames(config.queues)
  /\ \A q \in Range(config.queues) : q.concurrency >= 1

-----------------------------------------------------------------------------
(* Jobs: [app, name, queue, cron, timeout, retry].                         *)

Key(x) == <<x.app, x.name>>
Keys(s) == [i \in DOMAIN s |-> Key(s[i])]
EffectiveQueue(j) == IF j.queue = Unset THEN "default" ELSE j.queue
MaxAttempts(j) == IF j.retry = Unset THEN 1 ELSE j.retry.attempts
EffectiveRetry(r) ==
  [r EXCEPT !.initial = IF @ = Unset THEN FirstDelay ELSE @,
            !.max = IF @ = Unset THEN LastDelay ELSE @]

RetryValid(r) ==
  LET e == EffectiveRetry(r)
  IN r.attempts >= 2 /\ 0 < e.initial /\ e.initial <= e.max

JobValid(j) ==
  /\ j.cron \in {Unset, "valid"} /\ j.timeout > 0
  /\ j.retry # Unset => RetryValid(j.retry)

JobsValid(jobs, config) ==
  /\ IsInjective(Keys(jobs))
  /\ \A j \in Range(jobs) : JobValid(j) /\ EffectiveQueue(j) \in AppNames(config.queues)

\* The delay doubles with each attempt up to its limit, and half of it is
\* left to chance.
Doubled(delay, max) == IF delay > max \div 2 THEN max ELSE 2 * delay
Capped(delay, max) == IF delay > max THEN max ELSE delay
Delay(r, attempt) ==
  Capped(FoldLeft(LAMBDA d, i : Doubled(d, r.max), r.initial, [i \in 1..(attempt - 1) |-> i]),
         r.max)
Half(delay) == IF delay \div 2 = 0 THEN 1 ELSE delay \div 2
RetryDelay(r, attempt) ==
  IF r = Unset THEN {0} ELSE Half(Delay(r, attempt))..Delay(r, attempt)

-----------------------------------------------------------------------------
(* Schedules: [app, name, cron, zone, job, enabled].  A Job with a cron of *)
(* its own is a Schedule too; the names of Schedules are tuples.           *)

Own(j) == [app |-> j.app, name |-> <<"job-", j.name>>, cron |-> j.cron, zone |-> "valid",
           job |-> <<j.app, j.name>>, enabled |-> Unset]
EffectiveEnabled(s) == s.enabled = Unset \/ s.enabled
AllSchedules(files, jobs) ==
  LET own == SelectSeq(jobs, LAMBDA j : j.cron # Unset)
  IN files \o [i \in DOMAIN own |-> Own(own[i])]

SchedulesValid(files, jobs) ==
  LET schedules == AllSchedules(files, jobs)
  IN /\ \A s \in Range(files) : s.cron = "valid" /\ s.zone = "valid"
     /\ IsInjective(Keys(schedules))
     /\ \A s \in Range(schedules) : \E j \in Range(jobs) : Key(j) = s.job

-----------------------------------------------------------------------------
(* Files of patches: [app, file, id, phase, runOn, ops].                   *)

SystemRecordOps == {"system-record-create", "system-record-update", "system-record-delete",
                    "system-record-upsert"}
KnownOps == SystemRecordOps \cup
  {"rename-field", "rename-entity", "copy-field", "backfill-field", "drop-field",
   "change-field-type", "sql"}

PatchValid(p) ==
  /\ p.id = p.file /\ p.ops # <<>> /\ Range(p.ops) \subseteq KnownOps
  /\ p.phase \in {"pre-sync", "post-sync"} /\ p.runOn \in {"migrate", "install", "both"}
  /\ p.phase = "post-sync" \/ (p.runOn = "migrate" /\ Range(p.ops) \cap SystemRecordOps = {})

\* App by App in the order of their dependencies, file by file in that of names.
DiscoveredPatches(apps, files) ==
  LET order == DependencyOrder(apps)
      at(p) == CHOOSE i \in DOMAIN order : order[i].name = p.app
      before(p, q) == at(p) < at(q) \/ (at(p) = at(q) /\ Rank(p.file) < Rank(q.file))
      ids == [i \in DOMAIN files |-> <<files[i].app, files[i].id>>]
  IN IF order # Unset /\ IsInjective(ids) /\ \A p \in Range(files) : PatchValid(p)
     THEN SortSeq(files, before) ELSE Unset
=============================================================================
