-------------------------- MODULE Schedules_proofs --------------------------
(***************************************************************************)
(* Theorems about Schedules, for every set of schedules, cron expressions  *)
(* and sessions, every batch limit and clock lag, and every horizon.       *)
(***************************************************************************)
EXTENDS Schedules, WellFoundedInduction, TLAPS

-----------------------------------------------------------------------------
(* Sets of naturals.                                                       *)

\* Every non-empty set of naturals has a least element.
LEMMA FirstExists ==
  ASSUME NEW S \in SUBSET Nat, S # {}
  PROVE  \E d \in S : \A e \in S : d <= e
<1>1. PICK d \in S : \A e \in S : ~ (<<e, d>> \in OpToRel(<, Nat))
  BY NatLessThanWellFounded, WFMin, Zenon
<1>2. ASSUME NEW e \in S, e < d PROVE FALSE
  <2>1. <<e, d>> \in Nat \X Nat
    OBVIOUS
  <2>2. <<e, d>>[1] = e /\ <<e, d>>[2] = d
    OBVIOUS
  <2>3. <<e, d>>[1] < <<e, d>>[2]
    BY <1>2, <2>2
  <2>4. <<e, d>> \in OpToRel(<, Nat)
    BY <2>1, <2>3, Zenon DEF OpToRel
  <2> QED
    BY <1>1, <2>4, Zenon
<1> QED
  BY <1>2

-----------------------------------------------------------------------------
(* The next run of a cron expression.                                      *)

\* NextRunAt returns an instant of the cron after t, or Never, and skips no
\* instant of the cron.
LEMMA NextRunIsFirst ==
  ASSUME NEW c \in SUBSET (1 .. Horizon), NEW t \in 0 .. Horizon
  PROVE  /\ NextRunAt(c, t) \in 1 .. Never /\ NextRunAt(c, t) \in c \cup {Never}
         /\ t < NextRunAt(c, t)
         /\ \A e \in c : e > t => NextRunAt(c, t) <= e
<1> DEFINE later == {e \in c \cup {Never} : e > t}
<1>a. /\ Never \in Nat /\ Never > t /\ t \in Nat
      /\ \A e \in c : e \in 1 .. Horizon
  BY ScheduleConstants DEF Never
<1>b. \A e \in later : e \in Nat
  <2> SUFFICES ASSUME NEW e \in c \cup {Never} PROVE e \in Nat
    OBVIOUS
  <2>1. CASE e \in c
    BY <1>a, <2>1
  <2>2. CASE e = Never
    BY <1>a, <2>2
  <2> QED
    BY <2>1, <2>2
<1>1. later \subseteq Nat /\ Never \in later /\ Never \in Nat
  BY <1>a, <1>b
<1>2. PICK d \in later : \A e \in later : d <= e
  BY <1>1, FirstExists
<1>3. d \in c \cup {Never} /\ d > t /\ \A e \in c : e > t => d <= e
  BY <1>1, <1>2
<1>4. /\ NextRunAt(c, t) \in c \cup {Never} /\ NextRunAt(c, t) > t
      /\ \A e \in c : e > t => NextRunAt(c, t) <= e
  BY <1>3 DEF NextRunAt
<1> QED
  BY <1>1, <1>4, ScheduleConstants DEF Never

-----------------------------------------------------------------------------
(* The inductive invariant.                                                *)

\* A locked schedule is due at the locker's reading of the clock, and nobody
\* else has locked it.
LocksInv ==
  /\ \A x \in Sessions : ~tx[x].open => tx[x].rows = {}
  /\ \A x \in Sessions : \A s \in tx[x].rows : sched[s].next <= tx[x].at
  /\ \A x, y \in Sessions : x # y => tx[x].rows \cap tx[y].rows = {}

\* A taken occurrence was due when it was taken, before the present next run.
SinceInv == \A s \in Ids : \A g \in since[s] : g.due <= g.at /\ g.at < sched[s].next

\* What ran of the occurrences still to come ran for the present job, unless a
\* migration is on record as having changed it since.
RanJobInv ==
  \A s \in Ids, d \in Instants : sched[s].next <= d /\ d \notin again[s] =>
    \A j \in Jobs : fired[s][d][j] > 0 => j = sched[s].job

Inv == TypeOK /\ LocksInv /\ SinceInv /\ RanJobInv /\ OneExecutionPerOccurrence
       /\ CatchUpRunsOnce /\ NoOccurrenceLost

LEMMA InitInv == Init => Inv
<1> SUFFICES ASSUME Init PROVE Inv
  OBVIOUS
<1>0. PICK file \in [Ids -> UNION {Files[s] : s \in Ids}] :
        /\ \A s \in Ids : file[s] \in Files[s]
        /\ sched = [s \in Ids |-> Inserted(file[s])]
  BY DEF Init
<1>1. ASSUME NEW s \in Ids
      PROVE  /\ sched[s] \in ScheduleRow
             /\ sched[s].cron \subseteq Instants
             /\ sched[s].next \in sched[s].cron \cup {Never}
             /\ \A e \in sched[s].cron : e > 0 => sched[s].next <= e
  <2> DEFINE f == file[s]
  <2>1. f \in [cron : SUBSET (1 .. Horizon), job : Jobs, enabled : BOOLEAN]
    BY <1>0, ScheduleConstants
  <2>2. f.cron \in SUBSET (1 .. Horizon) /\ f.job \in Jobs /\ f.enabled \in BOOLEAN
    BY <2>1
  <2>3. sched[s] = Inserted(f)
    BY <1>0
  <2>4. /\ NextRunAt(f.cron, 0) \in 1 .. Never /\ NextRunAt(f.cron, 0) \in f.cron \cup {Never}
        /\ \A e \in f.cron : e > 0 => NextRunAt(f.cron, 0) <= e
    BY <2>2, NextRunIsFirst, ScheduleConstants
  <2> HIDE DEF f
  <2> QED
    BY <2>2, <2>3, <2>4 DEF Inserted, ScheduleRow, Instants
<1>2. sched \in [Ids -> ScheduleRow]
  BY <1>0, <1>1
<1>3. TypeOK
  <2>1. 0 \in 0 .. Horizon
    BY ScheduleConstants
  <2>2. Idle \in Tx /\ NoSync \in Sync
    BY <2>1 DEF Idle, Tx, NoSync, Sync
  <2> QED
    BY <1>1, <1>2, <2>1, <2>2 DEF Init, TypeOK
<1>4. LocksInv /\ SinceInv /\ RanJobInv /\ OneExecutionPerOccurrence /\ CatchUpRunsOnce
  BY ScheduleConstants DEF Init, LocksInv, SinceInv, RanJobInv, OneExecutionPerOccurrence,
     CatchUpRunsOnce, Idle, Instants
<1>5. NoOccurrenceLost
  <2> SUFFICES ASSUME NEW s \in Ids, NEW e \in sched[s].cron, 0 < e, e < sched[s].next
               PROVE  FALSE
    BY DEF Init, NoOccurrenceLost
  <2>1. e \in 1 .. Horizon /\ sched[s].next \in 1 .. Never /\ sched[s].next <= e
    BY <1>1, ScheduleConstants DEF ScheduleRow, Instants
  <2> QED
    BY <2>1, ScheduleConstants DEF Never
<1> QED
  BY <1>3, <1>4, <1>5 DEF Inv

\* Steps that leave the schedules and the history alone keep what the history
\* says.
LEMMA SameSchedules ==
  ASSUME Inv, UNCHANGED <<sched, fired, from, since, again>>
  PROVE  /\ SinceInv' /\ RanJobInv' /\ OneExecutionPerOccurrence' /\ CatchUpRunsOnce'
         /\ NoOccurrenceLost'
BY DEF Inv, SinceInv, RanJobInv, OneExecutionPerOccurrence, CatchUpRunsOnce, NoOccurrenceLost

-----------------------------------------------------------------------------
(* Workers.                                                                *)

\* Skipping locked rows keeps the transactions of two workers disjoint.
LEMMA LockDueInv ==
  ASSUME Inv, NEW x \in Sessions, NEW t \in 0 .. now, LockDue(x, t)
  PROVE  Inv'
<1>1. t \in 0 .. Horizon /\ FindDue(t) \subseteq Ids /\ blocked \subseteq Jobs
      /\ \A s \in FindDue(t) : sched[s].next <= t /\ RowFree(s)
  BY ScheduleConstants DEF Inv, TypeOK, FindDue, Runnable
<1>2. TypeOK'
  BY <1>1 DEF Inv, TypeOK, LockDue, Tx
<1>3. LocksInv'
  BY <1>1 DEF Inv, TypeOK, LocksInv, LockDue, RowFree, Tx
<1> QED
  BY <1>2, <1>3, SameSchedules DEF Inv, LockDue

LEMMA RollbackInv ==
  ASSUME Inv, NEW x \in Sessions, Rollback(x)
  PROVE  Inv'
<1>1. TypeOK'
  BY ScheduleConstants DEF Inv, TypeOK, Rollback, Tx, Idle
<1>2. LocksInv'
  BY DEF Inv, TypeOK, LocksInv, Rollback, Idle, Tx
<1> QED
  BY <1>1, <1>2, SameSchedules DEF Inv, Rollback

\* A taken row moves past the clock reading of the worker that took it.
LEMMA RanRowMoves ==
  ASSUME Inv, NEW x \in Sessions, NEW s \in tx[x].rows, NEW b
  PROVE  LET r == RanRow(sched[s], tx[x].at, b)
         IN /\ r \in ScheduleRow
            /\ r.cron = sched[s].cron /\ r.job = sched[s].job
            /\ r.next \in r.cron \cup {Never}
            /\ tx[x].at < r.next
            /\ \A e \in r.cron : e > tx[x].at => r.next <= e
<1>1. s \in Ids /\ tx[x].at \in 0 .. Horizon
  BY DEF Inv, TypeOK, Tx
<1>2. sched[s] \in ScheduleRow /\ sched[s].cron \in SUBSET (1 .. Horizon)
  BY <1>1, ScheduleConstants DEF Inv, TypeOK, ScheduleRow, Instants
<1> QED
  BY <1>1, <1>2, NextRunIsFirst DEF RanRow, ScheduleRow

LEMMA RunDueInv ==
  ASSUME Inv, NEW x \in Sessions, RunDue(x)
  PROVE  Inv'
<1> DEFINE e == tx[x]
<1>1. /\ e \in Tx /\ e.rows \subseteq Ids /\ e.at \in 0 .. Horizon
      /\ \A s \in e.rows : sched[s].next \in Instants /\ sched[s].next <= e.at
  BY ScheduleConstants DEF Inv, TypeOK, LocksInv, Tx, ScheduleRow, Never, Instants
<1>2. \A s \in Ids : IF s \in e.rows
        THEN /\ sched'[s] = RanRow(sched[s], e.at, sched[s].job \in e.blocked)
             /\ since'[s] = since[s] \cup {[due |-> sched[s].next, at |-> e.at]}
        ELSE sched'[s] = sched[s] /\ since'[s] = since[s]
  BY DEF RunDue
<1>2a. ASSUME NEW s \in e.rows
       PROVE  /\ sched'[s] \in ScheduleRow
              /\ sched'[s].cron = sched[s].cron /\ sched'[s].job = sched[s].job
              /\ sched'[s].next \in sched'[s].cron \cup {Never}
              /\ sched'[s].next \in Nat /\ sched[s].next \in Nat
              /\ sched[s].next <= e.at /\ e.at < sched'[s].next
              /\ \A i \in sched'[s].cron : i \in Nat /\ (i > e.at => sched'[s].next <= i)
  <2>1. s \in Ids /\ s \in tx[x].rows
    BY <1>1
  <2>2. sched'[s] = RanRow(sched[s], tx[x].at, sched[s].job \in e.blocked)
    BY <2>1, <1>2
  <2>3. /\ sched'[s] \in ScheduleRow
        /\ sched'[s].cron = sched[s].cron /\ sched'[s].job = sched[s].job
        /\ sched'[s].next \in sched'[s].cron \cup {Never}
        /\ e.at < sched'[s].next
        /\ \A i \in sched'[s].cron : i > e.at => sched'[s].next <= i
    BY <2>1, <2>2, RanRowMoves
  <2>4. sched'[s].next \in 1 .. Never /\ sched'[s].cron \in SUBSET (1 .. Horizon)
    BY <2>3 DEF ScheduleRow, Instants
  <2> QED
    BY <1>1, <2>3, <2>4, ScheduleConstants DEF Instants, Never
<1>3. /\ \A s \in Ids, d \in Instants, j \in Jobs :
           fired'[s][d][j] = fired[s][d][j]
           \/ /\ fired'[s][d][j] = InsertOnce(fired[s][d][j])
              /\ s \in e.rows /\ d = sched[s].next /\ j = sched[s].job
      /\ fired' \in [Ids -> [Instants -> [Jobs -> Nat]]]
  <2> SUFFICES ASSUME NEW s \in Ids
               PROVE  /\ \A d \in Instants, j \in Jobs :
                           fired'[s][d][j] = fired[s][d][j]
                           \/ /\ fired'[s][d][j] = InsertOnce(fired[s][d][j])
                              /\ s \in e.rows /\ d = sched[s].next /\ j = sched[s].job
                      /\ fired'[s] \in [Instants -> [Jobs -> Nat]]
    BY DEF RunDue
  <2>1. fired[s] \in [Instants -> [Jobs -> Nat]] /\ sched[s].job \in Jobs
    BY DEF Inv, TypeOK, ScheduleRow
  <2>2. CASE fired'[s] = fired[s]
    BY <2>1, <2>2
  <2>3. CASE s \in e.rows /\ fired'[s] = [fired[s] EXCEPT ![sched[s].next][sched[s].job] = InsertOnce(@)]
    <3>1. sched[s].next \in Instants
      BY <2>1, <2>3, <1>1
    <3> QED
      BY <2>1, <2>3, <3>1 DEF InsertOnce
  <2> QED
    BY <2>2, <2>3 DEF RunDue
<1>4. TypeOK'
  <2>1. sched' \in [Ids -> ScheduleRow]
        /\ \A s \in Ids : sched'[s].next \in sched'[s].cron \cup {Never}
    BY <1>2, <1>2a DEF RunDue, Inv, TypeOK
  <2>2. fired' \in [Ids -> [Instants -> [Jobs -> Nat]]]
    BY <1>3
  <2>3. since' \in [Ids -> SUBSET [due : Instants, at : 0 .. Horizon]]
    BY <1>1 DEF RunDue, Inv, TypeOK
  <2>4. tx' \in [Sessions -> Tx]
    BY ScheduleConstants DEF RunDue, Inv, TypeOK, Tx, Idle
  <2> QED
    BY <2>1, <2>2, <2>3, <2>4 DEF RunDue, Inv, TypeOK
<1>5. LocksInv'
  BY <1>2 DEF RunDue, Inv, TypeOK, LocksInv, Tx, Idle
<1>6. SinceInv'
  <2> SUFFICES ASSUME NEW s \in Ids, NEW g \in since'[s]
               PROVE  g.due <= g.at /\ g.at < sched'[s].next
    BY DEF SinceInv
  <2>1. CASE s \notin e.rows
    BY <2>1, <1>2 DEF Inv, SinceInv
  <2>2. CASE s \in e.rows
    <3>1. sched[s].next <= e.at /\ e.at < sched'[s].next
          /\ sched[s].next \in Nat /\ e.at \in Nat /\ sched'[s].next \in Nat
      BY <2>2, <1>1, <1>2a, ScheduleConstants
    <3>2. CASE g \in since[s]
      BY <3>1, <3>2, ScheduleConstants DEF Inv, SinceInv, TypeOK, Instants
    <3>3. CASE g = [due |-> sched[s].next, at |-> e.at]
      BY <3>1, <3>3
    <3> QED
      BY <2>2, <3>2, <3>3, <1>2
  <2> QED
    BY <2>1, <2>2
<1>7. RanJobInv' /\ OneExecutionPerOccurrence'
  <2>1. \A s \in Ids : /\ sched[s].next \in Nat /\ sched'[s].next \in Nat
                       /\ sched[s].next <= sched'[s].next /\ sched'[s].job = sched[s].job
                       /\ s \in e.rows => sched[s].next < sched'[s].next
    <3> SUFFICES ASSUME NEW s \in Ids
                 PROVE  /\ sched[s].next \in Nat /\ sched'[s].next \in Nat
                        /\ sched[s].next <= sched'[s].next /\ sched'[s].job = sched[s].job
                        /\ s \in e.rows => sched[s].next < sched'[s].next
      OBVIOUS
    <3>1. sched[s] \in ScheduleRow
      BY DEF Inv, TypeOK
    <3>2. sched[s].next \in Nat
      BY <3>1, ScheduleConstants DEF ScheduleRow, Never
    <3>3. CASE s \in e.rows
      BY <3>3, <1>1, <1>2a
    <3>4. CASE s \notin e.rows
      BY <3>2, <3>4, <1>2
    <3> QED
      BY <3>3, <3>4
  <2>2. again' = again
    BY DEF RunDue
  <2>3. RanJobInv'
    <3> SUFFICES ASSUME NEW s \in Ids, NEW d \in Instants, sched'[s].next <= d, d \notin again[s],
                        NEW j \in Jobs, fired'[s][d][j] > 0
                 PROVE  j = sched'[s].job
      BY <2>2 DEF RanJobInv
    <3>1. sched[s].next <= d /\ (s \in e.rows => d # sched[s].next)
      <4>1. d \in Nat
        BY ScheduleConstants DEF Instants
      <4> QED
        BY <4>1, <2>1
    <3>2. fired'[s][d][j] = fired[s][d][j]
      BY <3>1, <1>3
    <3>3. j = sched[s].job
      BY <3>1, <3>2 DEF Inv, RanJobInv
    <3> QED
      BY <3>3, <2>1
  <2>4. OneExecutionPerOccurrence'
    <3> SUFFICES ASSUME NEW s \in Ids, NEW d \in Instants, NEW j \in Jobs
                 PROVE  /\ fired'[s][d][j] <= 1
                        /\ fired'[s][d][j] > 0 /\ d \notin again[s]
                           => \A k \in Jobs \ {j} : fired'[s][d][k] = 0
      BY <2>2 DEF OneExecutionPerOccurrence
    <3>1. \A k \in Jobs : fired[s][d][k] \in Nat /\ fired[s][d][k] <= 1
      BY DEF Inv, TypeOK, OneExecutionPerOccurrence
    <3>2. fired'[s][d][j] <= 1
      BY <3>1, <1>3 DEF InsertOnce
    <3>3. ASSUME fired'[s][d][j] > 0, d \notin again[s], NEW k \in Jobs \ {j}
          PROVE  fired'[s][d][k] = 0
      <4>1. CASE s \in e.rows /\ d = sched[s].next
        <5>1. sched[s].next <= d /\ sched[s].next \in Nat
          <6>1. sched[s].next \in Nat
            BY <2>1
          <6> QED
            BY <4>1, <6>1
        <5>2. \A l \in Jobs : fired[s][d][l] > 0 => l = sched[s].job
          BY <5>1, <3>3 DEF Inv, RanJobInv
        <5>3. \A l \in Jobs : fired'[s][d][l] > 0 => l = sched[s].job
          BY <5>2, <1>3
        <5>4. fired'[s][d][k] \in Nat
          BY <1>3
        <5> QED
          BY <5>3, <5>4, <3>3
      <4>2. CASE ~(s \in e.rows /\ d = sched[s].next)
        BY <4>2, <3>3, <1>3 DEF Inv, OneExecutionPerOccurrence
      <4> QED
        BY <4>1, <4>2
    <3> QED
      BY <3>2, <3>3
  <2> QED
    BY <2>3, <2>4
<1>8. CatchUpRunsOnce'
  <2> SUFFICES ASSUME NEW s \in Ids, NEW f \in since'[s], NEW g \in since'[s], f.due < g.due
               PROVE  f.at < g.due
    BY DEF CatchUpRunsOnce
  <2>1. CASE f \in since[s] /\ g \in since[s]
    BY <2>1 DEF Inv, CatchUpRunsOnce
  <2>2. CASE ~(f \in since[s] /\ g \in since[s])
    <3>1. s \in e.rows
      BY <2>2, <1>2
    <3>2. sched[s].next \in Nat
      BY <3>1, <1>1 DEF Instants
    <3>3. \A h \in since[s] : h.due <= h.at /\ h.at < sched[s].next
                              /\ h.due \in Nat /\ h.at \in Nat
      BY DEF Inv, SinceInv, TypeOK, Instants
    <3>4. CASE g = [due |-> sched[s].next, at |-> e.at] /\ f \in since[s]
      BY <3>3, <3>4
    <3>5. CASE f = [due |-> sched[s].next, at |-> e.at]
      <4>1. f.due = sched[s].next
        BY <3>5
      <4>2. CASE g \in since[s]
        BY <3>2, <3>3, <4>1, <4>2
      <4>3. CASE g = [due |-> sched[s].next, at |-> e.at]
        BY <3>2, <4>1, <4>3
      <4> QED
        BY <4>2, <4>3, <3>1, <1>2
    <3> QED
      BY <2>2, <3>1, <3>4, <3>5, <1>2
  <2> QED
    BY <2>1, <2>2
<1>9. NoOccurrenceLost'
  <2> SUFFICES ASSUME NEW s \in Ids, NEW i \in sched'[s].cron, from[s] < i, i < sched'[s].next
               PROVE  \E g \in since'[s] : g.due <= i /\ i <= g.at
    BY DEF NoOccurrenceLost, RunDue
  <2>1. CASE s \notin e.rows
    BY <2>1, <1>2 DEF Inv, NoOccurrenceLost
  <2>2. CASE s \in e.rows
    <3>1. /\ sched'[s].cron = sched[s].cron /\ i \in Nat
          /\ sched'[s].next \in Nat /\ sched[s].next \in Nat /\ e.at \in Nat
          /\ i > e.at => sched'[s].next <= i
      BY <2>2, <1>1, <1>2a
    <3>2. CASE i < sched[s].next
      BY <3>1, <3>2, <2>2, <1>2 DEF Inv, NoOccurrenceLost
    <3>3. CASE sched[s].next <= i
      <4>1. i <= e.at
        BY <3>1
      <4>2. [due |-> sched[s].next, at |-> e.at] \in since'[s]
        BY <2>2, <1>2
      <4> QED
        BY <3>3, <4>1, <4>2
    <3> QED
      BY <3>1, <3>2, <3>3
  <2> QED
    BY <2>1, <2>2
<1> QED
  BY <1>4, <1>5, <1>6, <1>7, <1>8, <1>9 DEF Inv

-----------------------------------------------------------------------------
(* Migrations, operators and the clock.                                    *)

\* A migration that computes the next run anew starts the history over.
LEMMA SyncPresentInv ==
  ASSUME Inv, NEW s \in Ids, NEW f \in Files[s], SyncPresent(s, f)
  PROVE  Inv'
<1> DEFINE r == sched[s]
           reset == r.cron # f.cron \/ r.enabled # f.enabled \/ r.retired
<1>0. /\ f.cron \in SUBSET (1 .. Horizon) /\ f.job \in Jobs /\ f.enabled \in BOOLEAN
      /\ sync.at \in 0 .. Horizon
  <2>1. f \in [cron : SUBSET (1 .. Horizon), job : Jobs, enabled : BOOLEAN]
    BY ScheduleConstants
  <2> QED
    BY <2>1 DEF Inv, TypeOK, Sync
<1>1. /\ NextRunAt(f.cron, sync.at) \in 1 .. Never
      /\ NextRunAt(f.cron, sync.at) \in f.cron \cup {Never}
      /\ \A e \in f.cron : e > sync.at => NextRunAt(f.cron, sync.at) <= e
  BY <1>0, NextRunIsFirst
<1>2. /\ \A q \in Ids \ {s} : /\ sched'[q] = sched[q] /\ from'[q] = from[q]
                              /\ since'[q] = since[q] /\ again'[q] = again[q]
      /\ sched'[s].cron = f.cron /\ sched'[s].job = f.job
      /\ reset => /\ sched'[s].next = NextRunAt(f.cron, sync.at)
                  /\ from'[s] = sync.at /\ since'[s] = {}
      /\ ~reset => /\ sched'[s].next = r.next /\ f.cron = r.cron
                   /\ from'[s] = from[s] /\ since'[s] = since[s]
      /\ fired' = fired
  BY DEF SyncPresent, Inv, TypeOK, ScheduleRow
<1>2a. again'[s] = again[s] \cup {d \in Instants : /\ \E j \in Jobs \ {f.job} : fired[s][d][j] > 0
                                                  /\ sched'[s].next <= d}
  BY DEF SyncPresent, Inv, TypeOK, ScheduleRow
<1>3. TypeOK'
  <2>1. r \in ScheduleRow
    BY DEF Inv, TypeOK
  <2>2. r.next \in 1 .. Never /\ r.next \in r.cron \cup {Never}
    BY <2>1 DEF ScheduleRow, Inv, TypeOK
  <2>3. sched'[s] = [cron |-> f.cron, job |-> f.job, enabled |-> f.enabled, retired |-> FALSE,
                     next |-> IF reset THEN NextRunAt(f.cron, sync.at) ELSE r.next]
    BY <2>1 DEF SyncPresent, Inv, TypeOK, ScheduleRow
  <2>4. sched'[s] \in ScheduleRow /\ sched'[s].next \in sched'[s].cron \cup {Never}
    BY <1>0, <1>1, <2>2, <2>3 DEF ScheduleRow, Instants
  <2>5. sched' = [sched EXCEPT ![s] = sched'[s]]
    BY DEF SyncPresent, Inv, TypeOK
  <2>6. sched' \in [Ids -> ScheduleRow]
        /\ \A q \in Ids : sched'[q].next \in sched'[q].cron \cup {Never}
    BY <2>4, <2>5 DEF Inv, TypeOK
  <2>7. again' \in [Ids -> SUBSET Instants]
    BY DEF SyncPresent, Inv, TypeOK
  <2> QED
    BY <1>0, <1>1, <2>6, <2>7, ScheduleConstants DEF SyncPresent, Inv, TypeOK, Sync, NoSync
<1>4. LocksInv'
  BY <1>2 DEF SyncPresent, Inv, TypeOK, LocksInv, RowFree, Tx
<1>5. SinceInv' /\ CatchUpRunsOnce'
  BY <1>2 DEF Inv, SinceInv, CatchUpRunsOnce
<1>5a. RanJobInv'
  <2> SUFFICES ASSUME NEW q \in Ids, NEW d \in Instants, sched'[q].next <= d, d \notin again'[q],
                      NEW j \in Jobs, fired[q][d][j] > 0
               PROVE  j = sched'[q].job
    BY <1>2 DEF RanJobInv
  <2>1. CASE q # s
    BY <2>1, <1>2 DEF Inv, RanJobInv
  <2>2. CASE q = s
    BY <2>2, <1>2, <1>2a
  <2> QED
    BY <2>1, <2>2
<1>5b. OneExecutionPerOccurrence'
  <2>1. \A q \in Ids : again[q] \subseteq again'[q]
    BY <1>2, <1>2a
  <2> QED
    BY <2>1, <1>2 DEF Inv, OneExecutionPerOccurrence
<1>6. NoOccurrenceLost'
  <2> SUFFICES ASSUME NEW q \in Ids, NEW i \in sched'[q].cron, from'[q] < i, i < sched'[q].next
               PROVE  \E g \in since'[q] : g.due <= i /\ i <= g.at
    BY DEF NoOccurrenceLost
  <2>1. CASE q # s \/ ~reset
    BY <2>1, <1>2 DEF Inv, NoOccurrenceLost
  <2>2. CASE q = s /\ reset
    <3>1. i \in f.cron /\ sync.at < i /\ i < NextRunAt(f.cron, sync.at)
      BY <2>2, <1>2
    <3>2. i \in 1 .. Horizon /\ NextRunAt(f.cron, sync.at) \in 1 .. Never
      BY <3>1, <1>0, <1>1
    <3>3. NextRunAt(f.cron, sync.at) <= i
      BY <3>1, <3>2, <1>1
    <3> QED
      BY <3>1, <3>2, <3>3, ScheduleConstants DEF Never
  <2> QED
    BY <2>1, <2>2
<1> QED
  BY <1>3, <1>4, <1>5, <1>5a, <1>5b, <1>6 DEF Inv

LEMMA SyncAbsentInv ==
  ASSUME Inv, NEW s \in Ids, SyncAbsent(s)
  PROVE  Inv'
<1>1. \A q \in Ids : /\ sched'[q].cron = sched[q].cron /\ sched'[q].job = sched[q].job
                     /\ sched'[q].next = sched[q].next
  BY DEF SyncAbsent, Inv, TypeOK, ScheduleRow
<1>2. TypeOK'
  <2>1. sched' \in [Ids -> ScheduleRow]
    BY DEF SyncAbsent, Inv, TypeOK, ScheduleRow
  <2>2. sync' \in Sync
    BY ScheduleConstants DEF SyncAbsent, Sync, NoSync
  <2> QED
    BY <1>1, <2>1, <2>2 DEF SyncAbsent, Inv, TypeOK
<1>3. LocksInv'
  BY <1>1 DEF SyncAbsent, Inv, TypeOK, LocksInv, Tx
<1>4. /\ SinceInv' /\ RanJobInv' /\ CatchUpRunsOnce' /\ OneExecutionPerOccurrence'
      /\ NoOccurrenceLost'
  BY <1>1 DEF SyncAbsent, Inv, SinceInv, RanJobInv, CatchUpRunsOnce, OneExecutionPerOccurrence,
     NoOccurrenceLost
<1> QED
  BY <1>2, <1>3, <1>4 DEF Inv

\* The steps that touch neither schedules nor transactions.
LEMMA OtherStepsInv ==
  ASSUME Inv, \/ SyncBegin \/ Tick
              \/ (\E j \in Jobs : SwitchJob(j)) \/ (\E a \in Apps : SwitchApp(a))
              \/ UNCHANGED vars
  PROVE  Inv'
<1>1. UNCHANGED <<sched, tx, fired, from, since, again>>
  BY DEF SyncBegin, SwitchJob, SwitchApp, Tick, vars
<1>2. TypeOK'
  <2>1. now' \in 0 .. Horizon
    BY ScheduleConstants DEF SyncBegin, SwitchJob, SwitchApp, Tick, vars, Inv, TypeOK
  <2>2. sync' \in Sync
    <3>1. CASE SyncBegin
      BY <3>1 DEF SyncBegin, Inv, TypeOK, Sync
    <3>2. CASE UNCHANGED sync
      BY <3>2 DEF Inv, TypeOK
    <3> QED
      BY <3>1, <3>2 DEF SwitchJob, SwitchApp, Tick, vars
  <2>3. blocked' \subseteq Jobs /\ active' \subseteq Apps
    BY DEF SyncBegin, SwitchJob, SwitchApp, Tick, vars, Inv, TypeOK
  <2> QED
    BY <1>1, <2>1, <2>2, <2>3 DEF Inv, TypeOK
<1>3. LocksInv'
  BY <1>1 DEF Inv, LocksInv
<1> QED
  BY <1>1, <1>2, <1>3, SameSchedules DEF Inv

LEMMA NextInv == Inv /\ [Next]_vars => Inv'
<1> SUFFICES ASSUME Inv, [Next]_vars PROVE Inv'
  OBVIOUS
<1>1. CASE \E x \in Sessions : RunDue(x) \/ Rollback(x)
                               \/ \E t \in {u \in 0 .. now : now <= u + Lag} : LockDue(x, t)
  BY <1>1, RunDueInv, RollbackInv, LockDueInv
<1>2. CASE \E s \in Ids : SyncAbsent(s)
                               \/ \E f \in Files[s] : SyncPresent(s, f)
  BY <1>2, SyncAbsentInv, SyncPresentInv
<1>3. CASE \/ SyncBegin \/ Tick \/ UNCHANGED vars
           \/ (\E j \in Jobs : SwitchJob(j)) \/ (\E a \in Apps : SwitchApp(a))
  BY <1>3, OtherStepsInv
<1> QED
  BY <1>1, <1>2, <1>3 DEF Next

THEOREM Invariant == Spec => []Inv
BY InitInv, NextInv, PTL DEF Spec

-----------------------------------------------------------------------------

\* Schedule rows, transactions and the history stay well formed: in particular
\* only instants of the cron are ever fired (internal/jobs/store/schedules.go).
THEOREM TypeCorrect == Spec => []TypeOK
<1>1. Inv => TypeOK
  BY DEF Inv
<1> QED
  BY <1>1, Invariant, PTL

\* The idempotency key made of schedule and due instant lets an occurrence
\* create one execution of a job at most, whatever migrations and old clocks do,
\* and a second job gets one only if a migration gave it the schedule while the
\* occurrence, which had run, was still or again to come.
THEOREM OneExecution == Spec => []OneExecutionPerOccurrence
<1>1. Inv => OneExecutionPerOccurrence
  BY DEF Inv
<1> QED
  BY <1>1, Invariant, PTL

\* runDueSchedule counts the next run from the clock and not from the due
\* instant, so catching up takes one occurrence.
THEOREM NoBackfill == Spec => []CatchUpRunsOnce
<1>1. Inv => CatchUpRunsOnce
  BY DEF Inv
<1> QED
  BY <1>1, Invariant, PTL

\* The next run never jumps over an instant of the cron that was not taken.
THEOREM NothingLost == Spec => []NoOccurrenceLost
<1>1. Inv => NoOccurrenceLost
  BY DEF Inv
<1> QED
  BY <1>1, Invariant, PTL
=============================================================================
