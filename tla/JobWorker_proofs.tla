-------------------------- MODULE JobWorker_proofs --------------------------
(***************************************************************************)
(* Theorems about JobStore, for every set of executions, jobs, workers,    *)
(* sessions, keys and delays and for every clock bound; and about          *)
(* JobWorker: worker processes keep what the store promises and their      *)
(* slots, for any number of processes, loops, slots, peers, executions and *)
(* clients.                                                                *)
(***************************************************************************)
EXTENDS JobWorker, FiniteSetTheorems, WellFoundedInduction, TLAPS

-----------------------------------------------------------------------------
(* The store.  Its inductive invariant: what the locks, the rows, the      *)
(* claims and the history have to do with each other between two steps.    *)

Budgets == {spec.max : spec \in JobSpecs}

\* An open transaction's locked rows are as its locking read found them, and
\* no two transactions hold the same row.
LocksInv ==
  /\ \A s \in Sessions :
       /\ tx[s].op \in {"idle", "enqueue"} => tx[s].rows = {}
       /\ tx[s].op = "enqueue" => tx[s].job \in Jobs /\ tx[s].max \in Budgets
       /\ tx[s].op = "claim" => /\ tx[s].worker \in Workers
                                /\ \A id \in tx[s].rows : exec[id].status = "queued"
       /\ tx[s].op = "recover" =>
            \A id \in tx[s].rows : exec[id].status = "running" /\ exec[id].lockedUntil <= now
  /\ \A s, r \in Sessions : s # r => tx[s].rows \cap tx[r].rows = {}

RowsInv ==
  \A id \in Ids :
    /\ Stored(id) => exec[id].job \in Jobs /\ exec[id].max \in Budgets
    /\ ~Stored(id) => exec[id].job = None /\ exec[id].key = None /\ exec[id].attempts = 0
    /\ exec[id].attempts <= exec[id].max
    /\ exec[id].status = "queued" => exec[id].attempts < exec[id].max

JobsInv == \A j \in Jobs : job[j].max \in Budgets

ClaimsInv ==
  \A c \in claims : /\ exec[c.id].status # "none"
                    /\ exec[c.id].status # "pruned" => c.attempt <= exec[c.id].attempts

\* An attempt that still runs has no outcome yet.
OutcomesInv ==
  \A o \in outcomes : /\ exec[o.id].status # "none"
                      /\ exec[o.id].status # "pruned" => o.attempt <= exec[o.id].attempts
                      /\ exec[o.id].status = "running" => o.attempt < exec[o.id].attempts

\* The unique constraint on job and key, and what the callers were told.
KeysInv ==
  /\ \A a \in told : Stored(a.id) /\ exec[a.id].job = a.job /\ exec[a.id].key = a.key
  /\ \A i, k \in Ids : Stored(i) /\ Stored(k) /\ exec[i].key # None /\ exec[i].key = exec[k].key
                         /\ exec[i].job = exec[k].job => i = k

Safe == /\ OneWorkerPerAttempt
        /\ OneOutcomePerAttempt
        /\ SuccessIsFinal
        /\ EarlierAttemptsResolved

Inv == /\ TypeOK
       /\ LocksInv /\ RowsInv /\ JobsInv /\ ClaimsInv /\ OutcomesInv /\ KeysInv
       /\ Safe

-----------------------------------------------------------------------------
(* The clock and the row operators.                                        *)

LEMMA ClockFacts ==
  /\ \A t, d \in Nat : After(t, d) \in Nat
  /\ now \in Nat => Readings \subseteq Nat /\ \A t \in Readings : t <= now
BY StoreConstants DEF After, Readings

LEMMA BudgetFacts == \A b \in Budgets : b \in Nat /\ b > 0
BY StoreConstants DEF Budgets

LEMMA NoRowInRow == NoRow \in Row /\ [NoRow EXCEPT !.status = "pruned"] \in Row
<1>1. NoRow \in Row
  BY DEF NoRow, Row, Statuses
<1>2. [NoRow EXCEPT !.status = "pruned"] \in Row
  BY <1>1 DEF Row, Statuses
<1> QED BY <1>1, <1>2

LEMMA IdleInTx == IdleTx \in Tx
BY DEF IdleTx, Tx

\* What finishing and retrying do to a row.
LEMMA FinishedRow ==
  ASSUME NEW r \in Row, NEW t \in Nat, NEW status \in Terminal
  PROVE  LET e == Finished(r, status, t)
         IN e \in Row /\ e.status = status /\ e.job = r.job /\ e.key = r.key
              /\ e.attempts = r.attempts /\ e.max = r.max
BY DEF Row, Unlock, Finished, Statuses, Terminal

LEMMA RetriedRow ==
  ASSUME NEW r \in Row, NEW t \in Nat, NEW d \in Nat
  PROVE  LET e == RetryOrFail(r, t, d)
         IN /\ e \in Row /\ e.status \in {"queued", "failed"}
            /\ e.status = "queued" => r.attempts < r.max
            /\ e.job = r.job /\ e.key = r.key /\ e.attempts = r.attempts /\ e.max = r.max
<1>1. CASE r.attempts < r.max
  BY <1>1, ClockFacts DEF Row, Unlock, RetryOrFail, Statuses, Terminal
<1>2. CASE ~(r.attempts < r.max)
  BY <1>2 DEF Row, Unlock, RetryOrFail, Statuses, Terminal
<1> QED BY <1>1, <1>2

LEMMA BegunRow ==
  ASSUME NEW r \in Row, NEW w \in Workers, NEW t \in Nat, r.job \in Jobs, TypeOK
  PROVE  /\ ClaimedRow(r, w, t) \in Row
         /\ ClaimedRow(r, w, t).status = "running"
         /\ ClaimedRow(r, w, t).attempts = r.attempts + 1
         /\ ClaimedRow(r, w, t).job = r.job /\ ClaimedRow(r, w, t).key = r.key
         /\ ClaimedRow(r, w, t).max = r.max
<1> DEFINE lease == After(t, job[r.job].timeout)
<1>1. lease \in Nat
  BY ClockFacts DEF TypeOK, JobRow
<1>2. r.attempts + 1 \in Nat
  BY DEF Row
<1> HIDE DEF lease
<1>3. [r EXCEPT !.status = "running", !.attempts = r.attempts + 1, !.lockedBy = w,
                !.lockedUntil = lease] \in Row
  BY <1>1, <1>2 DEF Row, Statuses
<1> USE DEF lease
<1> QED BY <1>3 DEF ClaimedRow, Row

LEMMA InsertedRow ==
  ASSUME NEW e \in Tx
  PROVE  /\ NewRow(e) \in Row
         /\ NewRow(e).status = "queued" /\ NewRow(e).attempts = 0
         /\ NewRow(e).job = e.job /\ NewRow(e).key = e.key /\ NewRow(e).max = e.max
<1>1. NoRow \in Row
  BY NoRowInRow
<1> QED BY <1>1 DEF NewRow, NoRow, Row, Tx, Statuses

-----------------------------------------------------------------------------
(* The initial state.                                                      *)

LEMMA InitInv == StoreInit => Inv
<1> SUFFICES ASSUME StoreInit PROVE Inv
  OBVIOUS
<1>1. job \in [Jobs -> JobRow] /\ JobsInv
  <2>1. ASSUME NEW spec \in JobSpecs
        PROVE  /\ [enabled |-> TRUE, retired |-> FALSE, max |-> spec.max,
                   timeout |-> spec.timeout, queue |-> spec.queue] \in JobRow
               /\ spec.max \in Budgets
    BY StoreConstants DEF JobRow, Budgets
  <2> QED BY <2>1 DEF StoreInit, JobsInv
<1>2. exec \in [Ids -> Row]
  BY NoRowInRow DEF StoreInit
<1>3. tx \in [Sessions -> Tx]
  BY IdleInTx DEF StoreInit
<1>4. TypeOK
  BY <1>1, <1>2, <1>3 DEF StoreInit, TypeOK
<1>5. LocksInv
  BY DEF StoreInit, LocksInv, IdleTx
<1>6. RowsInv
  BY DEF StoreInit, RowsInv, Stored, NoRow
<1>7. ClaimsInv /\ OutcomesInv /\ KeysInv
  BY DEF StoreInit, ClaimsInv, OutcomesInv, KeysInv, Stored, NoRow
<1>8. Safe
  BY DEF StoreInit, Safe, OneWorkerPerAttempt, OneOutcomePerAttempt, SuccessIsFinal,
         EarlierAttemptsResolved, NoRow
<1> QED BY <1>1, <1>4, <1>5, <1>6, <1>7, <1>8 DEF Inv

-----------------------------------------------------------------------------
(* Steps that leave the rows alone.                                        *)

LEMMA SameRows ==
  ASSUME Inv, exec' = exec, outcomes' = outcomes, claims' \subseteq claims
  PROVE  RowsInv' /\ ClaimsInv' /\ OutcomesInv' /\ Safe'
<1>1. RowsInv' /\ ClaimsInv' /\ OutcomesInv'
  BY DEF Inv, RowsInv, ClaimsInv, OutcomesInv, Stored
<1>2. OneWorkerPerAttempt'
  BY DEF Inv, Safe, OneWorkerPerAttempt
<1>3. OneOutcomePerAttempt' /\ SuccessIsFinal' /\ EarlierAttemptsResolved'
  BY DEF Inv, Safe, OneOutcomePerAttempt, SuccessIsFinal, EarlierAttemptsResolved
<1> QED BY <1>1, <1>2, <1>3 DEF Safe

LEMMA SameKeys == ASSUME Inv, exec' = exec, told' = told PROVE KeysInv'
BY DEF Inv, KeysInv, Stored

\* Ending a transaction, its own or a dead worker's, only gives locks back.
LEMMA GiveBack ==
  ASSUME TypeOK, LocksInv,
         \A s \in Sessions : tx'[s] = tx[s] \/ tx'[s] = IdleTx,
         \A s \in Sessions : \A id \in tx'[s].rows : exec'[id] = exec[id],
         now' \in Nat, now' >= now
  PROVE  LocksInv'
<1>1. ASSUME NEW s \in Sessions, tx'[s] = IdleTx PROVE tx'[s].rows = {} /\ tx'[s].op = "idle"
  BY <1>1 DEF IdleTx
<1>2. \A s \in Sessions, id \in Ids : id \in tx[s].rows => exec[id].lockedUntil \in Nat
  BY DEF TypeOK, Row
<1>3. \A s \in Sessions : tx[s].rows \subseteq Ids
  BY DEF TypeOK, Tx
<1> QED BY <1>1, <1>2, <1>3 DEF LocksInv, TypeOK

LEMMA TxType ==
  ASSUME TypeOK, tx' \in [Sessions -> Tx], exec' = exec, job' = job, active' = active,
         now' = now, alive' = alive, claims' = claims, outcomes' = outcomes, told' \subseteq Replies
  PROVE  TypeOK'
BY DEF TypeOK

LEMMA EnqueueFindInv ==
  ASSUME Inv, NEW s \in Sessions, NEW j \in Jobs, NEW k \in Keys \cup {None},
         NEW p \in Nat, NEW t \in Nat, EnqueueFind(s, j, k, p, t)
  PROVE  Inv'
<1> USE DEF EnqueueFind
<1> DEFINE e == [IdleTx EXCEPT !.op = "enqueue", !.at = t, !.job = j,
                               !.key = k, !.queue = job[j].queue, !.priority = p,
                               !.max = job[j].max]
<1>1. e \in Tx /\ e.op = "enqueue" /\ e.rows = {} /\ e.job \in Jobs /\ e.max \in Budgets
  BY IdleInTx DEF Inv, JobsInv, TypeOK, JobRow, IdleTx, Tx
<1>2. tx' = tx \/ tx' = [tx EXCEPT ![s] = e]
  OBVIOUS
<1> HIDE DEF e
<1>3. LocksInv'
  BY <1>1, <1>2 DEF Inv, LocksInv, TypeOK
<1>4. ASSUME NEW a \in told' PROVE a \in Replies /\ Stored(a.id) /\ exec[a.id].job = a.job
                                   /\ exec[a.id].key = a.key
  BY <1>4 DEF Inv, TypeOK, KeysInv, Reply, Replies, Holding
<1>5. KeysInv'
  BY <1>4 DEF Inv, KeysInv, Stored
<1>6. TypeOK'
  BY <1>1, <1>2, <1>4, TxType DEF Inv, TypeOK
<1>7. JobsInv'
  BY DEF Inv, JobsInv
<1> QED BY <1>3, <1>5, <1>6, <1>7, SameRows DEF Inv

\* A locking read: the rows it takes were free.
LEMMA TakeLocks ==
  ASSUME Inv, NEW s \in Sessions, NEW e \in Tx, tx' = [tx EXCEPT ![s] = e],
         e.op \in {"claim", "recover"}, \A id \in e.rows : RowFree(id),
         e.op = "claim" => e.worker \in Workers /\ \A id \in e.rows : exec[id].status = "queued",
         e.op = "recover" => \A id \in e.rows : exec[id].status = "running"
                                                 /\ exec[id].lockedUntil <= now,
         UNCHANGED <<exec, job, active, now, alive, claims, outcomes, told>>
  PROVE  Inv'
<1>1. LocksInv'
  BY DEF Inv, LocksInv, TypeOK, RowFree
<1>2. TypeOK'
  BY DEF Inv, TypeOK
<1>3. JobsInv'
  BY DEF Inv, JobsInv
<1> QED BY <1>1, <1>2, <1>3, SameRows, SameKeys DEF Inv

LEMMA ClaimSelectInv ==
  ASSUME Inv, NEW s \in Sessions, NEW w \in Workers, NEW q, NEW n, NEW t \in Nat,
         ClaimSelect(s, w, q, n, t)
  PROVE  Inv'
<1> DEFINE e == [IdleTx EXCEPT !.op = "claim", !.at = t, !.worker = w, !.rows = Picked(q, t, n)]
<1>1. Picked(q, t, n) \subseteq Ids /\ \A id \in Picked(q, t, n) :
         exec[id].status = "queued" /\ RowFree(id)
  BY DEF Picked, Ready, Unlocked
<1>2. e \in Tx /\ e.op = "claim" /\ e.worker = w /\ e.rows = Picked(q, t, n)
  BY <1>1 DEF IdleTx, Tx
<1>3. tx' = [tx EXCEPT ![s] = e] /\ UNCHANGED <<exec, job, active, now, alive, claims, outcomes, told>>
  BY DEF ClaimSelect
<1> HIDE DEF e
<1> QED BY <1>1, <1>2, <1>3, TakeLocks

LEMMA RecoverSelectInv ==
  ASSUME Inv, NEW s \in Sessions, NEW w \in Workers, NEW t \in 0 .. now,
         RecoverSelect(s, w, t)
  PROVE  Inv'
<1> DEFINE rows == {id \in Expired(t) : RowFree(id)}
           e == [IdleTx EXCEPT !.op = "recover", !.at = t, !.worker = w, !.rows = rows]
<1>1. t \in Nat /\ t <= now /\ now \in Nat
  BY ClockFacts DEF Inv, TypeOK
<1>2. rows \subseteq Ids /\ \A id \in rows : /\ exec[id].status = "running" /\ RowFree(id)
                                             /\ exec[id].lockedUntil <= now
  BY <1>1 DEF Expired, Inv, TypeOK, Row
<1>3. tx' = [tx EXCEPT ![s] = e] /\ UNCHANGED <<exec, job, active, now, alive, claims, outcomes, told>>
  BY DEF RecoverSelect
<1> HIDE DEF rows
<1>4. e \in Tx /\ e.op = "recover" /\ e.rows = rows
  BY <1>1, <1>2 DEF IdleTx, Tx
<1> HIDE DEF e
<1> QED BY <1>2, <1>3, <1>4, TakeLocks

LEMMA RollbackInv == ASSUME Inv, NEW s \in Sessions, Rollback(s) PROVE Inv'
<1>1. tx' \in [Sessions -> Tx]
  BY IdleInTx DEF Inv, TypeOK, Rollback, Close
<1>2. \A r \in Sessions : tx'[r] = tx[r] \/ tx'[r] = IdleTx
  BY DEF Inv, TypeOK, Rollback, Close
<1>3. UNCHANGED <<exec, job, active, now, alive, claims, outcomes, told>>
  BY DEF Rollback
<1>4. TypeOK'
  BY <1>1, <1>3 DEF Inv, TypeOK
<1>5. LocksInv'
  BY <1>2, <1>3, GiveBack DEF Inv, TypeOK
<1>6. JobsInv'
  BY <1>3 DEF Inv, JobsInv
<1> QED BY <1>3, <1>4, <1>5, <1>6, SameRows, SameKeys DEF Inv

LEMMA CrashInv == ASSUME Inv, NEW w \in Workers, Crash(w) PROVE Inv'
<1>1. tx' \in [Sessions -> Tx]
  BY IdleInTx DEF Inv, TypeOK, Crash
<1>2. \A r \in Sessions : tx'[r] = tx[r] \/ tx'[r] = IdleTx
  BY DEF Inv, TypeOK, Crash
<1>3. claims' \subseteq claims /\ UNCHANGED <<exec, job, active, now, outcomes, told>>
  BY DEF Crash
<1>4. TypeOK'
  BY <1>1, <1>3 DEF Inv, TypeOK, Crash
<1>5. LocksInv'
  BY <1>2, <1>3, GiveBack DEF Inv, TypeOK
<1>6. JobsInv'
  BY <1>3 DEF Inv, JobsInv
<1> QED BY <1>3, <1>4, <1>5, <1>6, SameRows, SameKeys DEF Inv

LEMMA TickInv == ASSUME Inv, Tick PROVE Inv'
<1>1. TypeOK' /\ JobsInv'
  BY DEF Inv, TypeOK, JobsInv, Tick
<1>2. LocksInv'
  BY <1>1, GiveBack DEF Inv, TypeOK, Tick
<1> QED BY <1>1, <1>2, SameRows, SameKeys DEF Inv, Tick

LEMMA ReportErrorInv == ASSUME Inv, NEW c \in claims, ReportError(c) PROVE Inv'
<1>1. TypeOK' /\ JobsInv'
  BY DEF Inv, TypeOK, JobsInv, ReportError
<1>2. LocksInv'
  BY DEF Inv, LocksInv, ReportError
<1>3. claims' \subseteq claims
  BY DEF ReportError
<1> QED BY <1>1, <1>2, <1>3, SameRows, SameKeys DEF Inv, ReportError

\* The operator's switches and metadata sync change settings only.
LEMMA SwitchInv ==
  ASSUME Inv, job' \in [Jobs -> JobRow], \A j \in Jobs : job'[j].max \in Budgets,
         active' \subseteq Apps, UNCHANGED <<exec, now, tx, alive, claims, outcomes, told>>
  PROVE  Inv'
<1>1. TypeOK' /\ JobsInv'
  BY DEF Inv, TypeOK, JobsInv
<1>2. LocksInv'
  BY DEF Inv, LocksInv
<1> QED BY <1>1, <1>2, SameRows, SameKeys DEF Inv

-----------------------------------------------------------------------------
(* Steps that write rows.                                                  *)

LEMMA EnqueueInsertInv == ASSUME Inv, NEW s \in Sessions, EnqueueInsert(s) PROVE Inv'
<1> DEFINE e == tx[s]
<1>1. e \in Tx /\ e.op = "enqueue" /\ e.job \in Jobs /\ e.max \in Budgets
  BY DEF Inv, TypeOK, LocksInv, EnqueueInsert
<1>2. tx' \in [Sessions -> Tx] /\ (\A r \in Sessions : tx'[r] = tx[r] \/ tx'[r] = IdleTx)
      /\ UNCHANGED <<job, active, now, alive, claims, outcomes>>
  BY IdleInTx DEF Inv, TypeOK, EnqueueInsert, Close
<1>3. JobsInv'
  BY <1>2 DEF Inv, JobsInv
<1>4. CASE exec' = exec /\ \E id \in Holding(e.job, e.key) : e.key # None /\ told' = told \cup Reply(e.job, e.key, id)
  <2>1. ASSUME NEW a \in told' PROVE a \in Replies /\ Stored(a.id) /\ exec[a.id].job = a.job
                                     /\ exec[a.id].key = a.key
    BY <1>1, <1>4, <2>1 DEF Inv, TypeOK, KeysInv, Reply, Replies, Holding, Tx
  <2>2. KeysInv'
    BY <1>4, <2>1 DEF Inv, KeysInv, Stored
  <2>3. TypeOK'
    BY <1>2, <1>4, <2>1 DEF Inv, TypeOK
  <2>4. LocksInv'
    BY <1>2, <1>4, GiveBack DEF Inv, TypeOK
  <2> QED BY <1>2, <1>3, <1>4, <2>2, <2>3, <2>4, SameRows DEF Inv
<1>5. CASE ~(exec' = exec /\ \E id \in Holding(e.job, e.key) : e.key # None /\ told' = told \cup Reply(e.job, e.key, id))
  <2>1. PICK id \in Ids : /\ exec[id].status = "none"
                          /\ exec' = [exec EXCEPT ![id] = NewRow(e)]
                          /\ told' = told \cup Reply(e.job, e.key, id)
                          /\ e.key = None \/ Holding(e.job, e.key) = {}
    BY <1>5 DEF EnqueueInsert
  <2> HIDE DEF e
  <2>2. /\ exec'[id].status = "queued" /\ exec'[id].attempts = 0
        /\ exec'[id].job = e.job /\ exec'[id].key = e.key /\ exec'[id].max = e.max
        /\ \A i \in Ids : i # id => exec'[i] = exec[i]
        /\ exec' \in [Ids -> Row]
    BY <1>1, <2>1, InsertedRow DEF Inv, TypeOK
  <2>3. TypeOK'
    BY <1>1, <1>2, <2>1, <2>2 DEF Inv, TypeOK, Reply, Replies, Tx
  <2>4. LocksInv'
    <3>1. ASSUME NEW r \in Sessions, NEW i \in tx'[r].rows PROVE exec'[i] = exec[i]
      BY <1>2, <2>1, <2>2 DEF Inv, TypeOK, LocksInv, IdleTx, Tx
    <3> QED BY <1>2, <3>1, GiveBack DEF Inv, TypeOK
  <2>5. RowsInv'
    <3>1. ASSUME NEW i \in Ids, i # id
          PROVE  exec'[i] = exec[i]
      BY <2>2, <3>1
    <3>2. e.max \in Nat /\ e.max > 0
      BY <1>1, BudgetFacts
    <3>3. exec'[id].max \in Budgets /\ 0 <= exec'[id].max /\ 0 < exec'[id].max /\ exec'[id].job \in Jobs
      BY <1>1, <2>2, <3>2
    <3>4. \A i \in Ids : i # id => Stored(i)' = Stored(i)
      BY <3>1 DEF Stored
    <3>5. Stored(id)'
      BY <2>2 DEF Stored
    <3> QED BY <2>2, <3>1, <3>3, <3>4, <3>5 DEF Inv, RowsInv
  <2>6. ClaimsInv' /\ OutcomesInv' /\ SuccessIsFinal'
    BY <1>2, <2>1, <2>2 DEF Inv, TypeOK, Claims, Outcomes, ClaimsInv, OutcomesInv, Safe, SuccessIsFinal
  <2>7. KeysInv'
    <3>1. ASSUME NEW a \in told' PROVE (Stored(a.id) /\ exec[a.id].job = a.job /\ exec[a.id].key = a.key)'
      BY <1>1, <2>1, <2>2, <3>1 DEF Inv, TypeOK, Replies, KeysInv, Reply, Stored
    <3>2. ASSUME NEW i \in Ids, NEW k \in Ids,
                 (Stored(i) /\ Stored(k) /\ exec[i].key # None /\ exec[i].key = exec[k].key
                    /\ exec[i].job = exec[k].job)'
          PROVE  i = k
      BY <1>1, <2>1, <2>2, <3>2 DEF Inv, KeysInv, Stored, Holding
    <3> QED BY <3>1, <3>2 DEF KeysInv
  <2>8. OneWorkerPerAttempt' /\ OneOutcomePerAttempt'
    BY <1>2, <2>6 DEF Inv, Safe, OneWorkerPerAttempt, OneOutcomePerAttempt, ClaimsInv
  <2>9. EarlierAttemptsResolved'
    BY <1>2, <2>1, <2>2 DEF Inv, TypeOK, Safe, EarlierAttemptsResolved
  <2> QED BY <1>3, <2>3, <2>4, <2>5, <2>6, <2>7, <2>8, <2>9 DEF Inv, Safe
<1> QED BY <1>4, <1>5

LEMMA ClaimCommitInv ==
  ASSUME Inv, NEW s \in Sessions, NEW b \in BOOLEAN, ClaimCommit(s, b)
  PROVE  Inv'
<1> DEFINE e == tx[s]
           given == {[id |-> id, worker |-> e.worker, attempt |-> exec[id].attempts + 1] : id \in e.rows}
<1>1. /\ e \in Tx /\ e.op = "claim" /\ e.worker \in Workers /\ e.rows \subseteq Ids /\ e.at \in Nat
      /\ \A id \in e.rows : exec[id].status = "queued"
  BY DEF Inv, TypeOK, LocksInv, ClaimCommit, Tx
<1>2. /\ tx' \in [Sessions -> Tx] /\ tx'[s] = IdleTx /\ \A r \in Sessions : r # s => tx'[r] = tx[r]
      /\ UNCHANGED <<job, active, now, alive, outcomes, told>>
      /\ claims' = claims \/ claims' = claims \cup given
      /\ exec' = [id \in Ids |-> IF id \in e.rows THEN ClaimedRow(exec[id], e.worker, e.at) ELSE exec[id]]
  BY IdleInTx DEF Inv, TypeOK, ClaimCommit, Close
<1>3. \A g \in claims' : g \in claims \/ (g \in Claims /\ g.id \in e.rows /\ g.worker = e.worker
                                             /\ g.attempt = exec[g.id].attempts + 1)
  BY <1>1, <1>2 DEF Claims, Inv, TypeOK, Row
<1> HIDE DEF e, given
<1>4. ASSUME NEW id \in e.rows
      PROVE  /\ exec'[id] \in Row /\ exec'[id].status = "running"
             /\ exec'[id].attempts = exec[id].attempts + 1 /\ exec'[id].job = exec[id].job
             /\ exec'[id].key = exec[id].key /\ exec'[id].max = exec[id].max
  BY <1>1, <1>2, BegunRow DEF Inv, TypeOK, RowsInv, Stored
<1>5. \A id \in Ids : id \notin e.rows => exec'[id] = exec[id]
  BY <1>2
<1>6. exec' \in [Ids -> Row] /\ exec \in [Ids -> Row] /\ \A id \in Ids : exec[id].attempts \in Nat
  BY <1>2, <1>4 DEF Inv, TypeOK, Row
<1>7. TypeOK' /\ JobsInv'
  BY <1>2, <1>3, <1>6 DEF Inv, TypeOK, JobsInv
<1>8. LocksInv'
  <2>1. \A r \in Sessions : \A i \in tx'[r].rows : exec'[i] = exec[i]
    BY <1>1, <1>2, <1>5 DEF Inv, TypeOK, LocksInv, IdleTx, Tx, e
  <2> QED BY <1>2, <2>1, GiveBack DEF Inv, TypeOK
<1>9. RowsInv'
  <2>1. \A id \in Ids : exec[id].max \in Nat
    BY <1>6 DEF Row
  <2> QED BY <1>1, <1>4, <1>5, <1>6, <2>1 DEF Inv, RowsInv, Stored
<1>10. ClaimsInv'
  BY <1>1, <1>3, <1>4, <1>5, <1>6 DEF Inv, TypeOK, Claims, ClaimsInv
<1>11. OutcomesInv'
  <2>1. ASSUME NEW o \in outcomes
        PROVE  o.id \in Ids /\ o.attempt \in Nat /\ exec[o.id].status # "none"
               /\ (exec[o.id].status # "pruned" => o.attempt <= exec[o.id].attempts)
               /\ (exec[o.id].status = "running" => o.attempt < exec[o.id].attempts)
    BY DEF Inv, TypeOK, Outcomes, OutcomesInv
  <2>2. ASSUME NEW o \in outcomes, o.id \in e.rows
        PROVE  exec'[o.id].status = "running" /\ o.attempt < exec'[o.id].attempts
    BY <1>1, <1>4, <1>6, <2>1, <2>2
  <2>3. ASSUME NEW o \in outcomes, o.id \notin e.rows PROVE exec'[o.id] = exec[o.id]
    BY <1>5, <2>1, <2>3
  <2>4. \A o \in outcomes : o.id \in e.rows => exec'[o.id].attempts \in Nat
    BY <1>4 DEF Row
  <2> QED BY <1>2, <2>1, <2>2, <2>3, <2>4 DEF OutcomesInv
<1>12. KeysInv'
  <2>1. \A i \in Ids : Stored(i)' = Stored(i) /\ exec'[i].job = exec[i].job
                                              /\ exec'[i].key = exec[i].key
    BY <1>1, <1>4, <1>5 DEF Stored
  <2> QED BY <1>2, <2>1 DEF Inv, TypeOK, Replies, KeysInv
<1>13. OneWorkerPerAttempt'
  <2>1. ASSUME NEW c \in claims', NEW d \in claims', c.id = d.id, c.attempt = d.attempt PROVE c = d
    BY <1>1, <1>3, <1>6, <2>1 DEF Inv, TypeOK, Claims, ClaimsInv, Safe, OneWorkerPerAttempt
  <2> QED BY <1>10, <2>1 DEF ClaimsInv, OneWorkerPerAttempt
<1>14. OneOutcomePerAttempt' /\ SuccessIsFinal'
  BY <1>1, <1>2, <1>5 DEF Inv, TypeOK, Outcomes, Safe, OneOutcomePerAttempt, SuccessIsFinal
<1>15. EarlierAttemptsResolved'
  <2>1. ASSUME NEW id \in e.rows, NEW n \in 1 .. exec'[id].attempts, n # exec'[id].attempts
        PROVE  \E o \in outcomes : o.id = id /\ o.attempt = n
    BY <1>1, <1>4, <1>6, <2>1 DEF Inv, Safe, EarlierAttemptsResolved
  <2>2. ASSUME NEW id \in Ids, NEW n \in 1 .. exec'[id].attempts, exec'[id].status # "pruned"
        PROVE  (\E o \in outcomes : o.id = id /\ o.attempt = n)
                 \/ (exec'[id].status = "running" /\ n = exec'[id].attempts)
    <3>1. CASE id \in e.rows
      BY <1>4, <2>1, <3>1
    <3>2. CASE id \notin e.rows
      BY <1>5, <2>2, <3>2 DEF Inv, Safe, EarlierAttemptsResolved
    <3> QED BY <3>1, <3>2
  <2> QED BY <1>2, <2>2 DEF EarlierAttemptsResolved
<1> QED BY <1>7, <1>8, <1>9, <1>10, <1>11, <1>12, <1>13, <1>14, <1>15 DEF Inv, Safe

\* Running attempts end together, with one outcome each of the same kind.
LEMMA EndAttempts ==
  ASSUME Inv, NEW S \in SUBSET Ids, NEW kind \in {"succeeded", "failed", "expired"},
         \A id \in S : exec[id].status = "running",
         \A id \in Ids : id \notin S => exec'[id] = exec[id],
         \A id \in S : /\ exec'[id] \in Row
                       /\ exec'[id].status \in {"succeeded", "failed", "queued"}
                       /\ exec'[id].status = "queued" => exec[id].attempts < exec[id].max
                       /\ exec'[id].job = exec[id].job /\ exec'[id].key = exec[id].key
                       /\ exec'[id].attempts = exec[id].attempts /\ exec'[id].max = exec[id].max
                       /\ kind = "succeeded" => exec'[id].status = "succeeded",
         exec' \in [Ids -> Row],
         outcomes' = outcomes \cup {[id |-> id, attempt |-> exec[id].attempts, kind |-> kind] : id \in S},
         claims' \subseteq claims, LocksInv', tx' \in [Sessions -> Tx],
         UNCHANGED <<job, active, now, alive, told>>
  PROVE  Inv'
<1> DEFINE fresh == {[id |-> id, attempt |-> exec[id].attempts, kind |-> kind] : id \in S}
<1>1. \A id \in Ids : exec[id].attempts \in Nat
  BY DEF Inv, TypeOK, Row
<1>2. \A o \in fresh : o \in Outcomes /\ o.id \in S /\ o.attempt = exec[o.id].attempts /\ o.kind = kind
  BY <1>1 DEF Outcomes
<1>3. ASSUME NEW id \in S PROVE \E o \in fresh : o.id = id /\ o.attempt = exec[id].attempts
  <2> WITNESS [id |-> id, attempt |-> exec[id].attempts, kind |-> kind] \in fresh
  <2> QED OBVIOUS
<1>4. \A o, p \in fresh : o.id = p.id => o = p
  OBVIOUS
<1>5. outcomes' = outcomes \cup fresh
  OBVIOUS
<1> HIDE DEF fresh
<1>6. TypeOK' /\ JobsInv'
  BY <1>2, <1>5 DEF Inv, TypeOK, JobsInv
<1>7. \A id \in Ids : /\ Stored(id)' = Stored(id) /\ exec'[id].job = exec[id].job
                      /\ exec'[id].key = exec[id].key /\ exec'[id].attempts = exec[id].attempts
                      /\ exec'[id].max = exec[id].max
                      /\ (exec'[id].status = "none") = (exec[id].status = "none")
                      /\ (exec'[id].status = "pruned") = (exec[id].status = "pruned")
                      /\ exec'[id].status = "running" => id \notin S /\ exec[id].status = "running"
  BY DEF Stored
<1>8. RowsInv'
  <2>1. \A id \in Ids : exec'[id].status = "queued" => exec[id].attempts < exec[id].max
    BY DEF Inv, RowsInv
  <2> QED BY <1>7, <2>1 DEF Inv, RowsInv
<1>9. ClaimsInv'
  BY <1>7 DEF Inv, TypeOK, Claims, ClaimsInv
<1>10. OutcomesInv'
  <2>1. ASSUME NEW o \in outcomes
        PROVE  o.id \in Ids /\ exec'[o.id].status # "none"
               /\ (exec'[o.id].status # "pruned" => o.attempt <= exec'[o.id].attempts)
               /\ (exec'[o.id].status = "running" => o.attempt < exec'[o.id].attempts)
    BY <1>7 DEF Inv, TypeOK, Outcomes, OutcomesInv
  <2>2. ASSUME NEW o \in fresh
        PROVE  o.id \in Ids /\ exec'[o.id].status # "none" /\ exec'[o.id].status # "running"
               /\ o.attempt <= exec'[o.id].attempts
    BY <1>1, <1>2, <1>7
  <2> QED BY <1>5, <2>1, <2>2 DEF OutcomesInv
<1>11. KeysInv'
  BY <1>7 DEF Inv, TypeOK, Replies, KeysInv
<1>12. OneWorkerPerAttempt'
  BY <1>9 DEF Inv, Safe, OneWorkerPerAttempt, ClaimsInv
<1>13. OneOutcomePerAttempt'
  <2>1. ASSUME NEW o \in outcomes, NEW p \in fresh, o.id = p.id, o.attempt = p.attempt PROVE FALSE
    BY <1>1, <1>2, <2>1 DEF Inv, TypeOK, Outcomes, OutcomesInv
  <2> QED BY <1>4, <1>5, <2>1 DEF Inv, Safe, OneOutcomePerAttempt
<1>14. SuccessIsFinal'
  <2>1. ASSUME NEW o \in outcomes, o.kind = "succeeded" PROVE exec'[o.id] = exec[o.id]
    BY <2>1 DEF Inv, TypeOK, Outcomes, Safe, SuccessIsFinal
  <2> QED BY <1>2, <1>5, <2>1 DEF Inv, Safe, SuccessIsFinal
<1>15. EarlierAttemptsResolved'
  <2>1. ASSUME NEW id \in Ids, NEW n \in 1 .. exec'[id].attempts, exec'[id].status # "pruned"
        PROVE  (\E o \in outcomes' : o.id = id /\ o.attempt = n)
                 \/ (exec'[id].status = "running" /\ n = exec'[id].attempts)
    <3>1. (\E o \in outcomes : o.id = id /\ o.attempt = n)
            \/ (exec[id].status = "running" /\ n = exec[id].attempts)
      BY <1>7, <2>1 DEF Inv, Safe, EarlierAttemptsResolved
    <3>2. CASE id \in S
      BY <1>3, <1>5, <3>1, <3>2
    <3>3. CASE id \notin S
      BY <1>5, <3>1, <3>3
    <3> QED BY <3>2, <3>3
  <2> QED BY <2>1 DEF EarlierAttemptsResolved
<1> QED BY <1>6, <1>8, <1>9, <1>10, <1>11, <1>12, <1>13, <1>14, <1>15 DEF Inv, Safe

LEMMA RecoverCommitInv == ASSUME Inv, NEW s \in Sessions, RecoverCommit(s) PROVE Inv'
<1> DEFINE e == tx[s]
<1>1. /\ e \in Tx /\ e.rows \in SUBSET Ids /\ e.at \in Nat
      /\ \A id \in e.rows : exec[id].status = "running"
  BY DEF Inv, TypeOK, LocksInv, RecoverCommit, Tx
<1>2. /\ tx' \in [Sessions -> Tx] /\ tx'[s] = IdleTx /\ \A r \in Sessions : r # s => tx'[r] = tx[r]
      /\ UNCHANGED <<job, active, now, alive, claims, told>>
      /\ outcomes' = outcomes \cup {[id |-> id, attempt |-> exec[id].attempts, kind |-> "expired"] : id \in e.rows}
  BY IdleInTx DEF Inv, TypeOK, RecoverCommit, Close
<1>3. PICK delay \in [e.rows -> RetryDelays] :
        exec' = [id \in Ids |-> IF id \in e.rows THEN RetryOrFail(exec[id], e.at, delay[id]) ELSE exec[id]]
  BY DEF RecoverCommit
<1> HIDE DEF e
<1>4. ASSUME NEW id \in e.rows
      PROVE  /\ exec'[id] \in Row /\ exec'[id].status \in {"succeeded", "failed", "queued"}
             /\ exec'[id].status = "queued" => exec[id].attempts < exec[id].max
             /\ exec'[id].job = exec[id].job /\ exec'[id].key = exec[id].key
             /\ exec'[id].attempts = exec[id].attempts /\ exec'[id].max = exec[id].max
  <2>1. exec[id] \in Row /\ delay[id] \in Nat
    BY <1>1, StoreConstants DEF Inv, TypeOK
  <2>2. exec'[id] = RetryOrFail(exec[id], e.at, delay[id])
    BY <1>1, <1>3
  <2> QED BY <1>1, <2>1, <2>2, RetriedRow
<1>5. \A id \in Ids : id \notin e.rows => exec'[id] = exec[id]
  BY <1>3
<1>6. exec' \in [Ids -> Row]
  BY <1>3, <1>4, <1>5 DEF Inv, TypeOK
<1>7. LocksInv'
  <2>1. \A r \in Sessions : \A i \in tx'[r].rows : exec'[i] = exec[i]
    BY <1>1, <1>2, <1>5 DEF Inv, TypeOK, LocksInv, IdleTx, Tx, e
  <2> QED BY <1>2, <2>1, GiveBack DEF Inv, TypeOK
<1> QED BY <1>1, <1>2, <1>4, <1>5, <1>6, <1>7, EndAttempts

\* The rows other transactions hold are not the one a free row's writer writes.
LEMMA FreeRowLocks ==
  ASSUME Inv, NEW i \in Ids, RowFree(i), \A id \in Ids : id # i => exec'[id] = exec[id],
         UNCHANGED <<tx, now>>
  PROVE  LocksInv'
<1>1. \A r \in Sessions : \A id \in tx'[r].rows : exec'[id] = exec[id]
  BY DEF Inv, TypeOK, Tx, RowFree
<1> QED BY <1>1, GiveBack DEF Inv, TypeOK

LEMMA ReportInv ==
  ASSUME Inv, NEW c \in claims, NEW row \in Row, NEW kind \in {"succeeded", "failed"},
         row.status \in {"succeeded", "failed", "queued"},
         row.status = "queued" => exec[c.id].attempts < exec[c.id].max,
         row.job = exec[c.id].job, row.key = exec[c.id].key,
         row.attempts = exec[c.id].attempts, row.max = exec[c.id].max,
         kind = "succeeded" => row.status = "succeeded",
         Report(c, row, kind)
  PROVE  Inv'
<1>1. c.id \in Ids /\ RowFree(c.id) /\ claims' \subseteq claims
      /\ UNCHANGED <<job, active, now, tx, alive, told>>
  BY DEF Inv, TypeOK, Claims, Report
<1>2. CASE Owns(c)
  <2>1. exec' = [exec EXCEPT ![c.id] = row] /\ outcomes' = outcomes \cup {Outcome(c, kind)}
    BY <1>2 DEF Report
  <2>2. \A id \in Ids : id # c.id => exec'[id] = exec[id]
    BY <1>1, <2>1 DEF Inv, TypeOK
  <2>3. exec'[c.id] = row /\ exec' \in [Ids -> Row]
    BY <1>1, <2>1 DEF Inv, TypeOK
  <2>4. LocksInv'
    BY <1>1, <2>2, FreeRowLocks
  <2>5. {Outcome(c, kind)} = {[id |-> id, attempt |-> exec[id].attempts, kind |-> kind] : id \in {c.id}}
    BY <1>2 DEF Outcome, Owns
  <2>6. tx' \in [Sessions -> Tx] /\ exec[c.id].status = "running"
    BY <1>1, <1>2 DEF Inv, TypeOK, Owns
  <2> DEFINE S == {c.id}
  <2>7. /\ S \in SUBSET Ids
        /\ \A id \in S : exec[id].status = "running"
        /\ \A id \in Ids : id \notin S => exec'[id] = exec[id]
        /\ outcomes' = outcomes \cup {[id |-> id, attempt |-> exec[id].attempts, kind |-> kind] : id \in S}
    BY <1>1, <2>1, <2>2, <2>5, <2>6
  <2>8. \A id \in S : exec'[id] = row /\ id = c.id
    BY <2>3
  <2> HIDE DEF S
  <2> QED BY <1>1, <2>3, <2>4, <2>6, <2>7, <2>8, EndAttempts
<1>3. CASE ~Owns(c)
  <2>1. exec' = exec /\ outcomes' = outcomes
    BY <1>3 DEF Report
  <2>2. TypeOK' /\ JobsInv' /\ LocksInv'
    BY <1>1, <2>1 DEF Inv, TypeOK, JobsInv, LocksInv
  <2> QED BY <1>1, <2>1, <2>2, SameRows, SameKeys DEF Inv
<1> QED BY <1>2, <1>3

LEMMA ReportingInv == ASSUME Inv, NEW c \in claims, NEW t \in Nat, NEW d \in Nat,
                             Complete(c, t) \/ Fail(c, t, d) \/ FailFinal(c, t)
                      PROVE  Inv'
<1>1. exec[c.id] \in Row
  BY DEF Inv, TypeOK, Claims
<1>2. "failed" \in Terminal /\ "succeeded" \in Terminal
  BY DEF Terminal
<1>3. CASE Complete(c, t)
  <2> DEFINE row == Finished(exec[c.id], "succeeded", t)
  <2>1. row \in Row /\ row.status = "succeeded" /\ row.job = exec[c.id].job /\ row.key = exec[c.id].key
        /\ row.attempts = exec[c.id].attempts /\ row.max = exec[c.id].max
    BY <1>1, <1>2, FinishedRow
  <2>2. Report(c, row, "succeeded")
    BY <1>3 DEF Complete
  <2> HIDE DEF row
  <2> QED BY <2>1, <2>2, ReportInv
<1>4. CASE Fail(c, t, d)
  <2> DEFINE row == RetryOrFail(exec[c.id], t, d)
  <2>1. row \in Row /\ row.status \in {"queued", "failed"} /\ row.job = exec[c.id].job
        /\ row.key = exec[c.id].key /\ row.attempts = exec[c.id].attempts /\ row.max = exec[c.id].max
        /\ (row.status = "queued" => exec[c.id].attempts < exec[c.id].max)
    BY <1>1, RetriedRow
  <2>2. Report(c, row, "failed")
    BY <1>4 DEF Fail
  <2> HIDE DEF row
  <2> QED BY <2>1, <2>2, ReportInv
<1>5. CASE FailFinal(c, t)
  <2> DEFINE row == Finished(exec[c.id], "failed", t)
  <2>1. row \in Row /\ row.status = "failed" /\ row.job = exec[c.id].job /\ row.key = exec[c.id].key
        /\ row.attempts = exec[c.id].attempts /\ row.max = exec[c.id].max
    BY <1>1, <1>2, FinishedRow
  <2>2. Report(c, row, "failed")
    BY <1>5 DEF FailFinal
  <2> HIDE DEF row
  <2> QED BY <2>1, <2>2, ReportInv
<1> QED BY <1>3, <1>4, <1>5

\* A step that touches neither what a row was asked to do nor its attempts.
LEMMA TouchRow ==
  ASSUME Inv, NEW i \in Ids, RowFree(i), exec' \in [Ids -> Row],
         \A id \in Ids : id # i => exec'[id] = exec[id],
         exec'[i].status = exec[i].status \/ (exec[i].status = "queued" /\ exec'[i].status = "cancelled"),
         exec'[i].job = exec[i].job, exec'[i].key = exec[i].key,
         exec'[i].attempts = exec[i].attempts, exec'[i].max = exec[i].max,
         UNCHANGED <<job, active, now, tx, alive, claims, outcomes, told>>
  PROVE  Inv'
<1>1. TypeOK' /\ JobsInv'
  BY DEF Inv, TypeOK, JobsInv
<1>2. LocksInv'
  BY FreeRowLocks
<1>3. \A id \in Ids : /\ Stored(id)' = Stored(id) /\ exec'[id].job = exec[id].job
                      /\ exec'[id].key = exec[id].key /\ exec'[id].attempts = exec[id].attempts
                      /\ exec'[id].max = exec[id].max
                      /\ exec'[id].status = exec[id].status
                           \/ (exec[id].status = "queued" /\ exec'[id].status = "cancelled")
  BY DEF Stored
<1>4. RowsInv'
  BY <1>3 DEF Inv, RowsInv
<1>5. ClaimsInv'
  BY <1>3 DEF Inv, TypeOK, Claims, ClaimsInv
<1>6. OutcomesInv'
  BY <1>3 DEF Inv, TypeOK, Outcomes, OutcomesInv
<1>7. KeysInv'
  BY <1>3 DEF Inv, TypeOK, Replies, KeysInv
<1>8. OneWorkerPerAttempt' /\ OneOutcomePerAttempt'
  BY <1>5 DEF Inv, Safe, OneWorkerPerAttempt, OneOutcomePerAttempt, ClaimsInv
<1>9. SuccessIsFinal'
  BY <1>3 DEF Inv, TypeOK, Outcomes, Safe, SuccessIsFinal
<1>10. EarlierAttemptsResolved'
  BY <1>3 DEF Inv, Safe, EarlierAttemptsResolved
<1> QED BY <1>1, <1>2, <1>4, <1>5, <1>6, <1>7, <1>8, <1>9, <1>10 DEF Inv, Safe

LEMMA ExpireClaimInv ==
  ASSUME Inv, NEW c \in claims, NEW t \in Nat, ExpireClaim(c, t) PROVE Inv'
<1>1. c.id \in Ids
  BY DEF Inv, TypeOK, Claims
<1>2. exec[c.id] \in Row
  BY <1>1 DEF Inv, TypeOK
<1> DEFINE row == [exec[c.id] EXCEPT !.lockedUntil = t]
<1>3. row \in Row /\ row.status = exec[c.id].status /\ row.job = exec[c.id].job
      /\ row.key = exec[c.id].key /\ row.attempts = exec[c.id].attempts /\ row.max = exec[c.id].max
  BY <1>2 DEF Row
<1>4. exec' = [exec EXCEPT ![c.id] = row] /\ RowFree(c.id)
      /\ UNCHANGED <<job, active, now, tx, alive, claims, outcomes, told>>
  BY DEF ExpireClaim
<1> HIDE DEF row
<1>5. exec' \in [Ids -> Row] /\ exec'[c.id] = row /\ \A id \in Ids : id # c.id => exec'[id] = exec[id]
  BY <1>1, <1>3, <1>4 DEF Inv, TypeOK
<1> QED BY <1>1, <1>3, <1>4, <1>5, TouchRow

LEMMA CancelInv == ASSUME Inv, NEW id \in Ids, NEW t \in Nat, Cancel(id, t) PROVE Inv'
<1>1. exec[id] \in Row
  BY DEF Inv, TypeOK
<1> DEFINE row == [exec[id] EXCEPT !.status = "cancelled", !.finishedAt = t]
<1>2. row \in Row /\ row.status = "cancelled" /\ row.job = exec[id].job
      /\ row.key = exec[id].key /\ row.attempts = exec[id].attempts /\ row.max = exec[id].max
  BY <1>1 DEF Row, Statuses, Terminal
<1>3. exec' = [exec EXCEPT ![id] = row] /\ RowFree(id) /\ exec[id].status = "queued"
      /\ UNCHANGED <<job, active, now, tx, alive, claims, outcomes, told>>
  BY DEF Cancel, Inv, TypeOK
<1> HIDE DEF row
<1>4. exec' \in [Ids -> Row] /\ exec'[id] = row /\ \A i \in Ids : i # id => exec'[i] = exec[i]
  BY <1>2, <1>3 DEF Inv, TypeOK
<1> QED BY <1>2, <1>3, <1>4, TouchRow

LEMMA PruneInv == ASSUME Inv, NEW q, NEW t, NEW n, PruneTerminal(q, t, n) PROVE Inv'
<1> DEFINE gone == [NoRow EXCEPT !.status = "pruned"]
<1>1. PICK S \in SUBSET Prunable(q, t) :
        exec' = [id \in Ids |-> IF id \in S THEN gone ELSE exec[id]]
  BY DEF PruneTerminal
<1>2. S \subseteq Ids /\ \A id \in S : exec[id].status \in Terminal /\ exec[id].key = None /\ RowFree(id)
  BY DEF Prunable
<1>3. gone \in Row /\ gone.status = "pruned" /\ gone.job = None /\ gone.key = None
      /\ gone.attempts = 0 /\ gone.max = 0
  BY NoRowInRow DEF NoRow
<1> HIDE DEF gone
<1>4. \A id \in Ids : IF id \in S THEN exec'[id] = gone ELSE exec'[id] = exec[id]
  BY <1>1
<1>5. UNCHANGED <<job, active, now, tx, alive, claims, outcomes, told>>
  BY DEF PruneTerminal
<1>6. exec' \in [Ids -> Row]
  BY <1>1, <1>3 DEF Inv, TypeOK
<1>7. TypeOK' /\ JobsInv'
  BY <1>5, <1>6 DEF Inv, TypeOK, JobsInv
<1>8. LocksInv'
  <2>1. \A r \in Sessions : \A id \in tx'[r].rows : exec'[id] = exec[id]
    BY <1>2, <1>4, <1>5 DEF Inv, TypeOK, Tx, RowFree
  <2> QED BY <1>5, <2>1, GiveBack DEF Inv, TypeOK
<1>9. RowsInv'
  BY <1>3, <1>4 DEF Inv, RowsInv, Stored
<1>10. ClaimsInv'
  BY <1>3, <1>4, <1>5 DEF Inv, TypeOK, Claims, ClaimsInv
<1>11. OutcomesInv'
  BY <1>3, <1>4, <1>5 DEF Inv, TypeOK, Outcomes, OutcomesInv
<1>12. KeysInv'
  <2>1. ASSUME NEW a \in told PROVE a.id \in Ids /\ a.id \notin S
    <3>1. a \in Replies /\ exec[a.id].key = a.key
      BY DEF Inv, TypeOK, KeysInv
    <3>2. a.id \in Ids /\ a.key # None
      BY <3>1, StoreConstants DEF Replies
    <3> QED BY <1>2, <3>1, <3>2
  <2>2. \A id \in Ids : Stored(id)' => id \notin S /\ Stored(id) /\ exec'[id] = exec[id]
    BY <1>3, <1>4 DEF Stored
  <2>3. \A a \in told : exec'[a.id] = exec[a.id]
    BY <1>4, <2>1
  <2> QED BY <1>5, <2>2, <2>3 DEF Inv, KeysInv, Stored
<1>13. OneWorkerPerAttempt' /\ OneOutcomePerAttempt'
  BY <1>5, <1>10 DEF Inv, Safe, OneWorkerPerAttempt, OneOutcomePerAttempt, ClaimsInv
<1>14. SuccessIsFinal'
  BY <1>3, <1>4, <1>5 DEF Inv, TypeOK, Outcomes, Safe, SuccessIsFinal
<1>15. EarlierAttemptsResolved'
  BY <1>3, <1>4, <1>5 DEF Inv, Safe, EarlierAttemptsResolved
<1> QED BY <1>7, <1>8, <1>9, <1>10, <1>11, <1>12, <1>13, <1>14, <1>15 DEF Inv, Safe

-----------------------------------------------------------------------------
(* The invariant is inductive.                                             *)

LEMMA EnqueuingInv == ASSUME Inv, NEW s \in Sessions, Enqueuing(s) PROVE Inv'
<1>1. now \in Nat /\ Readings \subseteq Nat /\ After(now, 1) \in Nat /\ Priorities \subseteq Nat
  BY ClockFacts, StoreConstants DEF Inv, TypeOK
<1>2. CASE \E j \in Jobs, k \in Keys \cup {None}, p \in Priorities, t \in Readings \cup {After(now, 1)} :
             EnqueueFind(s, j, k, p, t)
  BY <1>1, <1>2, EnqueueFindInv
<1>3. ASSUME NEW id \in Ids, NEW k \in Keys, NEW t \in Readings, Retry(s, id, k, t) PROVE Inv'
  <2>1. exec[id].job \in Jobs
    BY <1>3 DEF Retry, Inv, RowsInv, Stored
  <2>2. EnqueueFind(s, exec[id].job, k, 0, t) /\ t \in Nat
    BY <1>1, <1>3 DEF Retry
  <2> QED BY <2>1, <2>2, EnqueueFindInv
<1> QED BY <1>2, <1>3, EnqueueInsertInv DEF Enqueuing

LEMMA NextInv == Inv /\ [StoreNext]_storeVars => Inv'
<1> SUFFICES ASSUME Inv, [StoreNext]_storeVars PROVE Inv'
  OBVIOUS
<1>1. now \in Nat /\ Readings \subseteq Nat
  BY ClockFacts DEF Inv, TypeOK
<1>2. ASSUME NEW s \in Sessions, Claiming(s) PROVE Inv'
  BY <1>1, <1>2, ClaimSelectInv, ClaimCommitInv DEF Claiming
<1>3. ASSUME NEW s \in Sessions, Recovering(s) PROVE Inv'
  <2>1. Readings \subseteq 0 .. now
    BY DEF Readings
  <2> QED BY <1>3, <2>1, RecoverSelectInv, RecoverCommitInv DEF Recovering
<1>4. ASSUME NEW c \in claims, Reporting(c) PROVE Inv'
  <2>1. CASE ReportError(c)
    BY <2>1, ReportErrorInv
  <2>2. CASE \E t \in Readings : ExpireClaim(c, t)
    BY <1>1, <2>2, ExpireClaimInv
  <2>3. CASE \E t \in Readings : Complete(c, t) \/ FailFinal(c, t)
    BY <1>1, <2>3, ReportingInv
  <2>4. CASE \E t \in Readings, d \in RetryDelays : Fail(c, t, d)
    BY <1>1, <2>4, ReportingInv, StoreConstants
  <2> QED BY <1>4, <2>1, <2>2, <2>3, <2>4 DEF Reporting
<1>5. CASE Operating
  <2>1. ASSUME NEW j \in Jobs, NEW b \in BOOLEAN, SetJobEnabled(j, b) PROVE Inv'
    <3>1. job' \in [Jobs -> JobRow] /\ \A i \in Jobs : job'[i].max \in Budgets
      BY <2>1 DEF SetJobEnabled, JobRow, Inv, TypeOK, JobsInv
    <3> QED BY <2>1, <3>1, SwitchInv DEF SetJobEnabled, Inv, TypeOK
  <2>2. ASSUME NEW j \in Jobs, NEW b \in BOOLEAN, NEW spec \in JobSpecs, SyncJob(j, b, spec) PROVE Inv'
    <3>1. spec.max \in Nat /\ spec.timeout \in Nat /\ spec.queue \in Queues /\ spec.max \in Budgets
      BY StoreConstants DEF Budgets
    <3>2. job' \in [Jobs -> JobRow] /\ \A i \in Jobs : job'[i].max \in Budgets
      BY <2>2, <3>1 DEF SyncJob, JobRow, Inv, TypeOK, JobsInv
    <3> QED BY <2>2, <3>2, SwitchInv DEF SyncJob, Inv, TypeOK
  <2>3. ASSUME NEW a \in Apps, SetAppStatus(a) PROVE Inv'
    BY <2>3, SwitchInv DEF SetAppStatus, Inv, TypeOK, JobsInv
  <2> QED BY <1>1, <1>5, <2>1, <2>2, <2>3, CancelInv, PruneInv DEF Operating
<1>6. CASE UNCHANGED storeVars
  BY <1>6 DEF storeVars, Inv, TypeOK, LocksInv, RowsInv, JobsInv, ClaimsInv, OutcomesInv, KeysInv, Stored,
              Safe, OneWorkerPerAttempt, OneOutcomePerAttempt, SuccessIsFinal, EarlierAttemptsResolved
<1> QED BY <1>2, <1>3, <1>4, <1>5, <1>6, EnqueuingInv, RollbackInv, CrashInv, TickInv DEF StoreNext

LEMMA Invariance == StoreSpec => []Inv
BY InitInv, NextInv, PTL DEF StoreSpec

-----------------------------------------------------------------------------
(* The safety properties.                                                  *)

\* Every reachable state is a well-formed job_execution table with its locks,
\* claims and history (store.go, the Row, Execution and claim types).
THEOREM TypeCorrect == StoreSpec => []TypeOK
BY Invariance, PTL DEF Inv

\* No two workers ever hold the same attempt of an execution, and no worker
\* holds an attempt its row has not reached (store.go, Claim and RecoverExpired).
THEOREM OneWorker == StoreSpec => []OneWorkerPerAttempt
BY Invariance, PTL DEF Inv, Safe

\* An attempt is completed, failed or recovered as expired at most once
\* (store.go, the guards of Complete, Fail and RecoverExpired).
THEOREM OneOutcome == StoreSpec => []OneOutcomePerAttempt
BY Invariance, PTL DEF Inv, Safe

\* An execution recorded as succeeded is never attempted again.
THEOREM SuccessFinal == StoreSpec => []SuccessIsFinal
BY Invariance, PTL DEF Inv, Safe

\* No execution is attempted more often than its budget at enqueue allows.
THEOREM WithinBudget == StoreSpec => []AttemptsWithinBudget
<1>1. Inv => AttemptsWithinBudget
  BY DEF Inv, RowsInv, AttemptsWithinBudget
<1> QED BY <1>1, Invariance, PTL

LEMMA KeysShared == Inv => OneExecutionPerKey
<1> SUFFICES ASSUME Inv, NEW a \in told
             PROVE  /\ exec[a.id].status \notin {"none", "pruned"}
                    /\ \A b \in told : a.job = b.job /\ a.key = b.key => a.id = b.id
  BY DEF OneExecutionPerKey
<1>1. \A b \in told : b.id \in Ids /\ b.key # None
  BY StoreConstants DEF Inv, TypeOK, Replies
<1> QED BY <1>1 DEF Inv, KeysInv, Stored

\* Keyed enqueues of one job are all answered with one stored execution
\* (store.go, Enqueue with its unique constraint; retention.go, PruneTerminal).
THEOREM OneExecution == StoreSpec => []OneExecutionPerKey
BY KeysShared, Invariance, PTL

\* Attempts of an execution are resolved in order: none starts while an earlier
\* one has neither been reported nor recovered.
THEOREM InOrder == StoreSpec => []EarlierAttemptsResolved
BY Invariance, PTL DEF Inv, Safe

LEMMA LeaseStep ==
  ASSUME Inv, StoreNext
  PROVE  \A c \in claims : Owns(c) /\ ~Owns(c)' /\ c \in claims' => exec[c.id].lockedUntil <= now
<1> SUFFICES ASSUME NEW c \in claims, Owns(c), ~Owns(c)', c \in claims'
             PROVE  exec[c.id].lockedUntil <= now
  OBVIOUS
<1>1. c.id \in Ids /\ c \in Claims /\ exec[c.id].status = "running"
  BY DEF Inv, TypeOK, Claims, Owns
<1>2. exec'[c.id] # exec[c.id]
  BY DEF Owns
<1>3. ASSUME NEW s \in Sessions, EnqueueInsert(s) PROVE FALSE
  BY <1>1, <1>2, <1>3 DEF EnqueueInsert, Inv, TypeOK
<1>4. ASSUME NEW s \in Sessions, NEW b \in BOOLEAN, ClaimCommit(s, b) PROVE FALSE
  BY <1>1, <1>2, <1>4 DEF ClaimCommit, Inv, LocksInv
<1>5. ASSUME NEW s \in Sessions, RecoverCommit(s) PROVE exec[c.id].lockedUntil <= now
  BY <1>1, <1>2, <1>5 DEF RecoverCommit, Inv, LocksInv
<1>6. ASSUME NEW d \in claims, NEW row, NEW kind, Report(d, row, kind) PROVE FALSE
  <2>1. Owns(d) /\ d.id = c.id /\ d \notin claims'
    BY <1>1, <1>2, <1>6 DEF Report, Inv, TypeOK, Claims
  <2>2. d = c
    BY <2>1 DEF Owns, Inv, Safe, OneWorkerPerAttempt
  <2> QED BY <2>1, <2>2
<1>7. ASSUME NEW d \in claims, NEW t, ExpireClaim(d, t) PROVE FALSE
  BY <1>1, <1>2, <1>7 DEF ExpireClaim, Owns, Inv, TypeOK, Row, Claims
<1>8. CASE Operating
  BY <1>1, <1>2, <1>8 DEF Operating, Cancel, SetJobEnabled, SyncJob, SetAppStatus, PruneTerminal,
                          Prunable, Terminal, Inv, TypeOK
<1>9. ASSUME NEW s \in Sessions, Enqueuing(s) PROVE FALSE
  BY <1>2, <1>3, <1>9 DEF Enqueuing, EnqueueFind, Retry
<1>10. ASSUME NEW s \in Sessions, Claiming(s) PROVE FALSE
  BY <1>2, <1>4, <1>10 DEF Claiming, ClaimSelect
<1>11. ASSUME NEW s \in Sessions, Recovering(s) PROVE exec[c.id].lockedUntil <= now
  BY <1>2, <1>5, <1>11 DEF Recovering, RecoverSelect
<1>12. ASSUME NEW d \in claims, Reporting(d) PROVE FALSE
  BY <1>2, <1>6, <1>7, <1>12 DEF Reporting, ReportError, Complete, Fail, FailFinal
<1> QED BY <1>2, <1>8, <1>9, <1>10, <1>11, <1>12 DEF StoreNext, Rollback, Crash, Tick

\* A live worker keeps its attempt until its lease has run out: no step of
\* another worker, an operator or retention takes it away before.
THEOREM Lease == StoreSpec => LeaseHonoured
<1> DEFINE Kept == \A c \in claims : Owns(c) /\ ~Owns(c)' /\ c \in claims' => exec[c.id].lockedUntil <= now
<1>1. Inv /\ StoreNext => Kept
  BY LeaseStep
<1>2. Inv /\ UNCHANGED storeVars => Kept
  BY DEF storeVars, Owns
<1> QED BY <1>1, <1>2, Invariance, PTL DEF StoreSpec, LeaseHonoured

-----------------------------------------------------------------------------
(* The store implements the promised queue.                                *)

LEMMA QueueInitially == StoreInit => Queue!QueueInit
BY DEF StoreInit, Queue!QueueInit, NoRow

\* Rows whose promised part is as before: nothing the queue promises changed.
LEMMA QueueStutters ==
  ASSUME \A id \in Ids : /\ exec'[id].status = exec[id].status /\ exec'[id].job = exec[id].job
                         /\ exec'[id].key = exec[id].key /\ exec'[id].attempts = exec[id].attempts
                         /\ exec'[id].max = exec[id].max
  PROVE  UNCHANGED Queue!queueVars
BY DEF Queue!queueVars

LEMMA QueueBegins ==
  ASSUME NEW S \in SUBSET Ids,
         \A id \in S : /\ exec[id].status = "queued" /\ exec[id].attempts < exec[id].max
                       /\ exec'[id].status = "running" /\ exec'[id].attempts = exec[id].attempts + 1,
         \A id \in Ids \ S : exec'[id].status = exec[id].status /\ exec'[id].attempts = exec[id].attempts,
         \A id \in Ids : /\ exec'[id].job = exec[id].job /\ exec'[id].key = exec[id].key
                         /\ exec'[id].max = exec[id].max
  PROVE  Queue!Begin(S)
BY DEF Queue!Begin

LEMMA QueueEnds ==
  ASSUME NEW S \in SUBSET Ids,
         \A id \in S : /\ exec[id].status = "running"
                       /\ exec'[id].status \in {"succeeded", "failed", "queued"}
                       /\ exec'[id].status = "queued" => exec[id].attempts < exec[id].max,
         \A id \in Ids \ S : exec'[id].status = exec[id].status,
         \A id \in Ids : /\ exec'[id].job = exec[id].job /\ exec'[id].key = exec[id].key
                         /\ exec'[id].max = exec[id].max /\ exec'[id].attempts = exec[id].attempts
  PROVE  Queue!End(S)
BY DEF Queue!End

LEMMA QueueForgets ==
  ASSUME NEW S \in SUBSET Ids,
         \A id \in S : /\ exec[id].status \in Terminal /\ exec[id].key = None
                       /\ exec'[id] = [NoRow EXCEPT !.status = "pruned"],
         \A id \in Ids \ S : exec'[id] = exec[id]
  PROVE  Queue!Forget(S)
BY DEF Queue!Forget, Queue!Over, Terminal, NoRow

LEMMA QueueSubmits ==
  ASSUME Inv, NEW s \in Sessions, EnqueueInsert(s)
  PROVE  \/ exec' = exec
         \/ \E id \in Ids, j \in Jobs, k \in Keys \cup {None}, b \in Budgets : Queue!Submit(id, j, k, b)
<1>1. PICK e \in Tx : e = tx[s] /\ e.job \in Jobs /\ e.key \in Keys \cup {None} /\ e.max \in Budgets
  BY DEF Inv, TypeOK, LocksInv, EnqueueInsert, Tx
<1>2. SUFFICES ASSUME exec' # exec
               PROVE  \E id \in Ids, j \in Jobs, k \in Keys \cup {None}, b \in Budgets : Queue!Submit(id, j, k, b)
  OBVIOUS
<1>3. PICK id \in Ids : /\ exec[id].status = "none"
                        /\ exec' = [exec EXCEPT ![id] = NewRow(e)]
                        /\ e.key = None \/ Holding(e.job, e.key) = {}
  BY <1>1, <1>2 DEF EnqueueInsert
<1>4. /\ exec'[id].status = "queued" /\ exec'[id].attempts = 0
      /\ exec'[id].job = e.job /\ exec'[id].key = e.key /\ exec'[id].max = e.max
      /\ \A i \in Ids : i # id => exec'[i] = exec[i]
  BY <1>1, <1>3, InsertedRow DEF Inv, TypeOK
<1>5. exec[id].attempts = 0
  BY <1>3 DEF Inv, RowsInv, Stored
<1>6. ASSUME e.key # None, NEW i \in Ids, exec[i].job = e.job, exec[i].key = e.key PROVE FALSE
  BY <1>1, <1>3, <1>6, StoreConstants DEF Inv, RowsInv, Holding
<1>7. e.key # None => \A i \in Ids : [job |-> exec[i].job, key |-> exec[i].key] # [job |-> e.job, key |-> e.key]
  BY <1>6
<1>8. Queue!Submit(id, e.job, e.key, e.max)
  <2>1. [i \in Ids |-> exec'[i].status] = [[i \in Ids |-> exec[i].status] EXCEPT ![id] = "queued"]
    BY <1>4
  <2>2. [i \in Ids |-> exec'[i].attempts] = [i \in Ids |-> exec[i].attempts]
    BY <1>4, <1>5
  <2>3. [i \in Ids |-> exec'[i].max] = [[i \in Ids |-> exec[i].max] EXCEPT ![id] = e.max]
    BY <1>4
  <2>4. [i \in Ids |-> [job |-> exec'[i].job, key |-> exec'[i].key]]
          = [[i \in Ids |-> [job |-> exec[i].job, key |-> exec[i].key]]
               EXCEPT ![id] = [job |-> e.job, key |-> e.key]]
    BY <1>4
  <2> QED BY <1>3, <1>7, <2>1, <2>2, <2>3, <2>4 DEF Queue!Submit
<1> QED BY <1>1, <1>8

LEMMA QueueStep == Inv /\ [StoreNext]_storeVars => [Queue!QueueNext]_(Queue!queueVars)
<1> SUFFICES ASSUME Inv, [StoreNext]_storeVars
             PROVE  Queue!QueueNext \/ UNCHANGED Queue!queueVars
  OBVIOUS
<1> DEFINE Promised == Queue!QueueNext \/ UNCHANGED Queue!queueVars
<1>1. ASSUME exec' = exec PROVE Promised
  BY <1>1, QueueStutters
<1>2. exec \in [Ids -> Row] /\ \A s \in Sessions : tx[s] \in Tx
  BY DEF Inv, TypeOK
<1>3. ASSUME NEW S \in SUBSET Ids, Queue!Begin(S) \/ Queue!End(S) \/ Queue!Forget(S) PROVE Promised
  BY <1>3 DEF Queue!QueueNext
<1>4. ASSUME NEW s \in Sessions, EnqueueInsert(s) PROVE Promised
  BY <1>1, <1>4, QueueSubmits DEF Queue!QueueNext, Budgets
<1>5. ASSUME NEW s \in Sessions, NEW b \in BOOLEAN, ClaimCommit(s, b) PROVE Promised
  <2> PICK e \in Tx, S \in SUBSET Ids : e = tx[s] /\ S = e.rows
    BY <1>2 DEF Tx
  <2>1. e.worker \in Workers /\ e.at \in Nat /\ \A id \in S : exec[id].status = "queued"
    BY <1>2, <1>5 DEF Inv, LocksInv, ClaimCommit, Tx
  <2>2. exec' = [id \in Ids |-> IF id \in S THEN ClaimedRow(exec[id], e.worker, e.at) ELSE exec[id]]
    BY <1>5 DEF ClaimCommit
  <2>3. ASSUME NEW id \in S
        PROVE  /\ exec[id].status = "queued" /\ exec[id].attempts < exec[id].max
               /\ exec'[id].status = "running" /\ exec'[id].attempts = exec[id].attempts + 1
               /\ exec'[id].job = exec[id].job /\ exec'[id].key = exec[id].key
               /\ exec'[id].max = exec[id].max
    BY <1>2, <2>1, <2>2, BegunRow DEF Inv, RowsInv, Stored
  <2>4. \A id \in Ids \ S : exec'[id] = exec[id]
    BY <2>2
  <2>5. Queue!Begin(S)
    BY <2>1, <2>3, <2>4, QueueBegins
  <2> QED BY <1>3, <2>1, <2>5
<1>6. ASSUME NEW s \in Sessions, RecoverCommit(s) PROVE Promised
  <2> PICK e \in Tx, S \in SUBSET Ids : e = tx[s] /\ S = e.rows
    BY <1>2 DEF Tx
  <2>1. e.at \in Nat /\ \A id \in S : exec[id].status = "running"
    BY <1>2, <1>6 DEF Inv, LocksInv, RecoverCommit, Tx
  <2>2. PICK delay \in [S -> RetryDelays] :
          exec' = [id \in Ids |-> IF id \in S THEN RetryOrFail(exec[id], e.at, delay[id]) ELSE exec[id]]
    BY <1>6 DEF RecoverCommit
  <2>3. ASSUME NEW id \in S
        PROVE  /\ exec'[id].status \in {"succeeded", "failed", "queued"}
               /\ exec'[id].status = "queued" => exec[id].attempts < exec[id].max
               /\ exec'[id].job = exec[id].job /\ exec'[id].key = exec[id].key
               /\ exec'[id].max = exec[id].max /\ exec'[id].attempts = exec[id].attempts
    <3>1. delay[id] \in Nat /\ exec'[id] = RetryOrFail(exec[id], e.at, delay[id])
      BY <2>1, <2>2, StoreConstants
    <3> QED BY <1>2, <2>1, <3>1, RetriedRow
  <2>4. \A id \in Ids \ S : exec'[id] = exec[id]
    BY <2>2
  <2>5. Queue!End(S)
    BY <2>1, <2>3, <2>4, QueueEnds
  <2> QED BY <1>3, <2>1, <2>5
<1>7. ASSUME NEW c \in claims, NEW row \in Row, NEW kind, Report(c, row, kind),
             row.status \in {"succeeded", "failed", "queued"},
             row.status = "queued" => exec[c.id].attempts < exec[c.id].max,
             row.job = exec[c.id].job, row.key = exec[c.id].key,
             row.attempts = exec[c.id].attempts, row.max = exec[c.id].max
      PROVE  Promised
  <2>1. CASE exec' = exec
    BY <1>1, <2>1
  <2>2. CASE exec' # exec
    <3> DEFINE S == {c.id}
    <3>1. c.id \in Ids /\ exec' = [exec EXCEPT ![c.id] = row] /\ exec[c.id].status = "running"
      BY <1>7, <2>2 DEF Report, Owns, Inv, TypeOK, Claims
    <3>2. S \in SUBSET Ids /\ \A id \in S : id = c.id /\ exec'[id] = row
      BY <1>2, <3>1
    <3>3. \A id \in Ids \ S : exec'[id] = exec[id]
      BY <1>2, <3>1
    <3> HIDE DEF S
    <3>4. Queue!End(S)
      BY <1>7, <3>1, <3>2, <3>3, QueueEnds
    <3> QED BY <1>3, <3>2, <3>4
  <2> QED BY <2>1, <2>2
<1>8. ASSUME NEW c \in claims, Reporting(c) PROVE Promised
  <2>1. exec[c.id] \in Row /\ Readings \subseteq Nat /\ RetryDelays \subseteq Nat
    BY ClockFacts, StoreConstants DEF Inv, TypeOK, Claims
  <2>2. "failed" \in Terminal /\ "succeeded" \in Terminal
    BY DEF Terminal
  <2>3. CASE ReportError(c)
    BY <1>1, <2>3 DEF ReportError
  <2>4. ASSUME NEW t \in Readings, ExpireClaim(c, t) PROVE Promised
    <3>1. \A id \in Ids : /\ exec'[id].status = exec[id].status /\ exec'[id].job = exec[id].job
                          /\ exec'[id].key = exec[id].key /\ exec'[id].attempts = exec[id].attempts
                          /\ exec'[id].max = exec[id].max
      BY <1>2, <2>4 DEF ExpireClaim, Row
    <3> QED BY <3>1, QueueStutters
  <2>5. ASSUME NEW t \in Readings, Complete(c, t) PROVE Promised
    <3> DEFINE row == Finished(exec[c.id], "succeeded", t)
    <3>1. row \in Row /\ row.status = "succeeded" /\ row.job = exec[c.id].job /\ row.key = exec[c.id].key
          /\ row.attempts = exec[c.id].attempts /\ row.max = exec[c.id].max
      BY <2>1, <2>2, FinishedRow
    <3>2. Report(c, row, "succeeded")
      BY <2>5 DEF Complete
    <3> HIDE DEF row
    <3> QED BY <1>7, <3>1, <3>2
  <2>6. ASSUME NEW t \in Readings, FailFinal(c, t) PROVE Promised
    <3> DEFINE row == Finished(exec[c.id], "failed", t)
    <3>1. row \in Row /\ row.status = "failed" /\ row.job = exec[c.id].job /\ row.key = exec[c.id].key
          /\ row.attempts = exec[c.id].attempts /\ row.max = exec[c.id].max
      BY <2>1, <2>2, FinishedRow
    <3>2. Report(c, row, "failed")
      BY <2>6 DEF FailFinal
    <3> HIDE DEF row
    <3> QED BY <1>7, <3>1, <3>2
  <2>7. ASSUME NEW t \in Readings, NEW d \in RetryDelays, Fail(c, t, d) PROVE Promised
    <3> DEFINE row == RetryOrFail(exec[c.id], t, d)
    <3>1. row \in Row /\ row.status \in {"queued", "failed"} /\ row.job = exec[c.id].job
          /\ row.key = exec[c.id].key /\ row.attempts = exec[c.id].attempts /\ row.max = exec[c.id].max
          /\ (row.status = "queued" => exec[c.id].attempts < exec[c.id].max)
      BY <2>1, RetriedRow
    <3>2. Report(c, row, "failed")
      BY <2>7 DEF Fail
    <3> HIDE DEF row
    <3> QED BY <1>7, <3>1, <3>2
  <2> QED BY <1>8, <2>3, <2>4, <2>5, <2>6, <2>7 DEF Reporting
<1>9. CASE Operating
  <2>1. ASSUME NEW id \in Ids, NEW t \in Readings, Cancel(id, t) PROVE Promised
    <3>1. Queue!Withdraw(id)
      BY <1>2, <2>1 DEF Cancel, Row, Queue!Withdraw
    <3> QED BY <3>1 DEF Queue!QueueNext
  <2>2. ASSUME NEW q, NEW t, NEW n, PruneTerminal(q, t, n) PROVE Promised
    <3>1. PICK S \in SUBSET Prunable(q, t) :
            exec' = [id \in Ids |-> IF id \in S THEN [NoRow EXCEPT !.status = "pruned"] ELSE exec[id]]
      BY <2>2 DEF PruneTerminal
    <3>2. S \in SUBSET Ids /\ \A id \in S : exec[id].status \in Terminal /\ exec[id].key = None
      BY DEF Prunable
    <3>3. Queue!Forget(S)
      BY <3>1, <3>2, QueueForgets
    <3> QED BY <1>3, <3>2, <3>3
  <2> QED BY <1>1, <1>9, <2>1, <2>2 DEF Operating, SetJobEnabled, SyncJob, SetAppStatus
<1>10. ASSUME NEW s \in Sessions, Enqueuing(s) PROVE Promised
  BY <1>1, <1>4, <1>10 DEF Enqueuing, Retry, EnqueueFind
<1>11. ASSUME NEW s \in Sessions, Claiming(s) \/ Recovering(s) PROVE Promised
  BY <1>1, <1>5, <1>6, <1>11 DEF Claiming, Recovering, ClaimSelect, RecoverSelect
<1> QED BY <1>1, <1>8, <1>9, <1>10, <1>11 DEF StoreNext, Rollback, Crash, Tick, storeVars

\* Every behaviour of the store, with its transactions, locks, leases and
\* crashes, is one of the promised queue.
THEOREM Refinement == StoreSpec => ImplementsQueue
BY QueueInitially, QueueStep, Invariance, PTL DEF StoreSpec, ImplementsQueue, Queue!QueueSpec

-----------------------------------------------------------------------------
(* The workers.  Least elements are needed to order the rows of a claim.   *)

\* Every non-empty set of naturals has a least element.
LEMMA FirstExists ==
  ASSUME NEW S \in SUBSET Nat, S # {}
  PROVE  \E d \in S : \A e \in S : d <= e
<1>1. PICK d \in S : \A e \in S : ~ (<<e, d>> \in OpToRel(<, Nat))
  BY NatLessThanWellFounded, WFMin, Zenon
<1>2. ASSUME NEW e \in S, e < d PROVE FALSE
  <2>1. <<e, d>> \in Nat \X Nat
    OBVIOUS
  <2>2. <<e, d>>[1] = e /\ <<e, d>>[2] = d
    OBVIOUS
  <2>3. <<e, d>>[1] < <<e, d>>[2]
    BY <1>2, <2>2
  <2>4. <<e, d>> \in OpToRel(<, Nat)
    BY <2>1, <2>3, Zenon DEF OpToRel
  <2> QED
    BY <1>1, <2>4, Zenon
<1> QED
  BY <1>2

-----------------------------------------------------------------------------
(* The inductive invariant, beside the one of the store.                   *)

\* A stored execution names a queue.
QueueInv ==
  /\ \A id \in Ids : Stored(id) => exec[id].queue \in Queues
  /\ \A s \in Sessions : tx[s].op = "enqueue" => tx[s].queue \in Queues

\* The slots counted as free at the top of the loop stay free until the
\* claimed executions fill them: nobody else fills the loop's slots.
Filling == {"recover", "recovering", "claim", "claiming"}

Slots(l) ==
  /\ at[l] <= now
  /\ IsFiniteSet(run[l] \cup done[l])
  /\ Busy(l) <= Concurrency[l]
  /\ pc[l] \in Filling => avail[l] + Busy(l) <= Concurrency[l]
  /\ pc[l] = "claiming" /\ tx[l].op = "claim" =>
       /\ tx[l].worker = WorkerOf[l]
       /\ IsFiniteSet(tx[l].rows) /\ Cardinality(tx[l].rows) <= avail[l]

SlotsInv == \A l \in Loops : Slots(l)

WInv == QueueInv /\ WorkerTypes /\ SlotsInv

-----------------------------------------------------------------------------
(* The steps on the database.                                              *)

\* What workers, peers and clients do to the store, at clock readings that may
\* be as old as they like.
Calls ==
  \/ \E s \in Sessions :
       \/ \E j \in Jobs, k \in Keys \cup {None}, p \in Nat, t \in Nat : EnqueueFind(s, j, k, p, t)
       \/ \E w \in Workers, q \in Queues, n \in Nat, t \in Nat : ClaimSelect(s, w, q, n, t)
       \/ \E w \in Workers, t \in 0 .. now : RecoverSelect(s, w, t)
       \/ EnqueueInsert(s) \/ RecoverCommit(s) \/ Rollback(s)
       \/ \E b \in BOOLEAN : ClaimCommit(s, b)
  \/ \E c \in claims :
       \/ ReportError(c) \/ ExpireClaim(c, now)
       \/ Complete(c, now) \/ FailFinal(c, now) \/ \E d \in RetryDelays : Fail(c, now, d)
  \/ \E w \in Workers : Crash(w)
  \/ Tick
  \/ UNCHANGED storeVars

\* What a call may do to one row.
RowStep(id) ==
  \/ exec'[id] = exec[id]
  \/ exec[id].status = "none" /\ exec'[id].status = "queued" /\ exec'[id].queue \in Queues
  \/ /\ exec[id].status = "queued" /\ exec'[id].status = "running"
     /\ exec'[id].attempts = exec[id].attempts + 1 /\ exec'[id].queue = exec[id].queue
  \/ /\ exec[id].status = "running" /\ exec'[id].status \in {"queued", "failed", "succeeded"}
     /\ exec'[id].attempts = exec[id].attempts /\ exec'[id].queue = exec[id].queue
  \/ /\ exec[id].status = "running"
     /\ exec'[id].status = "running" /\ exec'[id].lockedBy = exec[id].lockedBy
     /\ exec'[id].attempts = exec[id].attempts /\ exec'[id].queue = exec[id].queue
     /\ exec'[id].lockedUntil <= now

LEMMA CallsKeep == ASSUME Inv, Calls PROVE Inv'
<1>1. now \in Nat
  BY DEF Inv, TypeOK
<1>2. CASE UNCHANGED storeVars
  BY <1>2, NextInv
<1>3. RetryDelays \subseteq Nat
  BY StoreConstants
<1> QED
  BY <1>1, <1>2, <1>3, EnqueueFindInv, ClaimSelectInv, RecoverSelectInv, EnqueueInsertInv, RecoverCommitInv,
     RollbackInv, ClaimCommitInv, ReportErrorInv, ExpireClaimInv, ReportingInv, CrashInv, TickInv
     DEF Calls

LEMMA InsertedQueue ==
  ASSUME NEW e \in Tx
  PROVE  NewRow(e).queue = e.queue /\ NewRow(e).status = "queued"
<1>1. NoRow \in Row
  BY NoRowInRow
<1> QED
  BY <1>1 DEF NewRow, NoRow, Row, Tx

LEMMA RowsStep ==
  ASSUME Inv, QueueInv, Calls
  PROVE  \A id \in Ids : RowStep(id)
<1>1. /\ exec \in [Ids -> Row] /\ now \in Nat /\ claims \subseteq Claims
      /\ \A s \in Sessions : tx[s] \in Tx /\ tx[s].rows \subseteq Ids /\ tx[s].at \in Nat
  BY DEF Inv, TypeOK, Tx
<1>2. CASE exec' = exec
  BY <1>2 DEF RowStep
<1>3. ASSUME NEW s \in Sessions, EnqueueInsert(s) PROVE \A id \in Ids : RowStep(id)
  <2>1. CASE exec' = exec
    BY <2>1 DEF RowStep
  <2>2. CASE exec' # exec
    <3>1. PICK i \in Ids : exec[i].status = "none" /\ exec' = [exec EXCEPT ![i] = NewRow(tx[s])]
      BY <1>3, <2>2 DEF EnqueueInsert
    <3>2. NewRow(tx[s]).queue \in Queues /\ NewRow(tx[s]).status = "queued"
      BY <1>1, <1>3, InsertedQueue DEF QueueInv, EnqueueInsert
    <3> QED
      BY <1>1, <3>1, <3>2 DEF RowStep
  <2> QED
    BY <2>1, <2>2
<1>4. ASSUME NEW s \in Sessions, NEW b \in BOOLEAN, ClaimCommit(s, b) PROVE \A id \in Ids : RowStep(id)
  <2>1. \A id \in tx[s].rows : /\ exec[id].status = "queued" /\ exec[id] \in Row
                               /\ exec[id].job \in Jobs
    BY <1>1, <1>4 DEF ClaimCommit, Inv, LocksInv, RowsInv, Stored
  <2>2. tx[s].worker \in Workers /\ TypeOK
    BY <1>4 DEF ClaimCommit, Inv, LocksInv
  <2>3. \A id \in tx[s].rows :
          LET r == ClaimedRow(exec[id], tx[s].worker, tx[s].at)
          IN r.status = "running" /\ r.attempts = exec[id].attempts + 1 /\ r.queue = exec[id].queue
    <3> SUFFICES ASSUME NEW id \in tx[s].rows
                 PROVE  LET r == ClaimedRow(exec[id], tx[s].worker, tx[s].at)
                        IN r.status = "running" /\ r.attempts = exec[id].attempts + 1
                             /\ r.queue = exec[id].queue
      OBVIOUS
    <3> QED
      BY <2>1 DEF ClaimedRow, Row
  <2>4. \A id \in Ids : exec'[id] = IF id \in tx[s].rows
                                    THEN ClaimedRow(exec[id], tx[s].worker, tx[s].at) ELSE exec[id]
    BY <1>4 DEF ClaimCommit
  <2> QED
    BY <2>1, <2>3, <2>4 DEF RowStep
<1>5. ASSUME NEW s \in Sessions, RecoverCommit(s) PROVE \A id \in Ids : RowStep(id)
  <2>1. PICK delay \in [tx[s].rows -> RetryDelays] :
          \A id \in Ids : exec'[id] = IF id \in tx[s].rows THEN RetryOrFail(exec[id], tx[s].at, delay[id])
                                      ELSE exec[id]
    BY <1>5 DEF RecoverCommit
  <2>2. \A id \in tx[s].rows : exec[id].status = "running" /\ exec[id] \in Row
    BY <1>1, <1>5 DEF RecoverCommit, Inv, LocksInv
  <2>3. ASSUME NEW id \in tx[s].rows
        PROVE  /\ RetryOrFail(exec[id], tx[s].at, delay[id]).status \in {"queued", "failed"}
               /\ RetryOrFail(exec[id], tx[s].at, delay[id]).queue = exec[id].queue
              /\ RetryOrFail(exec[id], tx[s].at, delay[id]).attempts = exec[id].attempts
    BY <2>2 DEF RetryOrFail, Unlock, Row
  <2> QED
    BY <2>1, <2>2, <2>3 DEF RowStep
<1>6. ASSUME NEW c \in claims, NEW d \in Nat, Complete(c, now) \/ Fail(c, now, d) \/ FailFinal(c, now)
      PROVE  \A id \in Ids : RowStep(id)
  <2>1. CASE exec' = exec
    BY <2>1 DEF RowStep
  <2>2. CASE exec' # exec
    <3>1. PICK r : /\ exec' = [exec EXCEPT ![c.id] = r]
                   /\ r \in {Finished(exec[c.id], "succeeded", now), RetryOrFail(exec[c.id], now, d),
                             Finished(exec[c.id], "failed", now)}
      BY <1>6, <2>2 DEF Complete, Fail, FailFinal, Report
    <3>2. exec[c.id].status = "running" /\ c.id \in Ids /\ exec[c.id] \in Row
      BY <1>1, <1>6, <2>2 DEF Complete, Fail, FailFinal, Report, Owns, Claims
    <3>3. /\ r.status \in {"queued", "failed", "succeeded"} /\ r.queue = exec[c.id].queue
          /\ r.attempts = exec[c.id].attempts
      BY <3>1, <3>2 DEF Finished, RetryOrFail, Unlock, Row
    <3> QED
      BY <1>1, <3>1, <3>2, <3>3 DEF RowStep
  <2> QED
    BY <2>1, <2>2
<1>7. ASSUME NEW c \in claims, ExpireClaim(c, now) PROVE \A id \in Ids : RowStep(id)
  <2>1. exec' = [exec EXCEPT ![c.id].lockedUntil = now] /\ exec[c.id].status = "running"
    BY <1>7 DEF ExpireClaim, Owns
  <2> QED
    BY <1>1, <2>1 DEF RowStep, Row
<1>8. RetryDelays \subseteq Nat /\ 0 \in Nat
  BY StoreConstants
<1> QED
  BY <1>2, <1>3, <1>4, <1>5, <1>6, <1>7, <1>8
     DEF Calls, EnqueueFind, ClaimSelect, RecoverSelect, Rollback, ReportError, Crash, Tick, storeVars

LEMMA QueuesKept ==
  ASSUME Inv, QueueInv, Calls
  PROVE  QueueInv'
<1>1. ASSUME NEW id \in Ids, Stored(id)' PROVE exec'[id].queue \in Queues
  BY <1>1, RowsStep DEF RowStep, QueueInv, Stored
<1>2. tx \in [Sessions -> Tx] /\ \A j \in Jobs : job[j].queue \in Queues
  BY DEF Inv, TypeOK, JobRow
<1>3. ASSUME NEW s \in Sessions, tx'[s].op = "enqueue" PROVE tx'[s].queue \in Queues
  <2>1. CASE tx'[s] = tx[s]
    BY <1>3, <2>1 DEF QueueInv
  <2>2. CASE \E r \in Sessions, j \in Jobs, k \in Keys \cup {None}, p \in Nat, t \in Nat :
               EnqueueFind(r, j, k, p, t)
    <3>1. PICK r \in Sessions, j \in Jobs, k \in Keys \cup {None}, p \in Nat, t \in Nat :
            \/ tx' = tx
            \/ tx' = [tx EXCEPT ![r] = [IdleTx EXCEPT !.op = "enqueue", !.at = t, !.job = j,
                        !.key = k, !.queue = job[j].queue, !.priority = p, !.max = job[j].max]]
      BY <2>2 DEF EnqueueFind
    <3>2. [IdleTx EXCEPT !.op = "enqueue", !.at = t, !.job = j, !.key = k, !.queue = job[j].queue,
                         !.priority = p, !.max = job[j].max].queue = job[j].queue
      BY DEF IdleTx
    <3> QED
      BY <1>2, <1>3, <3>1, <3>2 DEF QueueInv
  <2>3. CASE \E r \in Sessions : \/ \E w \in Workers, q \in Queues, n \in Nat, t \in Nat : ClaimSelect(r, w, q, n, t)
                                 \/ \E w \in Workers, t \in 0 .. now : RecoverSelect(r, w, t)
    <3>1. PICK r \in Sessions :
            \/ \E w \in Workers, q \in Queues, n \in Nat, t \in Nat : ClaimSelect(r, w, q, n, t)
            \/ \E w \in Workers, t \in 0 .. now : RecoverSelect(r, w, t)
      BY <2>3
    <3>2. ASSUME NEW w, NEW q, NEW n, NEW t, ClaimSelect(r, w, q, n, t) PROVE s = r => FALSE
      BY <1>2, <1>3, <3>2 DEF ClaimSelect, IdleTx
    <3>3. ASSUME NEW w, NEW t, RecoverSelect(r, w, t) PROVE s = r => FALSE
      BY <1>2, <1>3, <3>3 DEF RecoverSelect, IdleTx
    <3>4. s # r => tx'[s] = tx[s]
      BY <1>2, <3>1 DEF ClaimSelect, RecoverSelect
    <3> QED
      BY <2>1, <3>1, <3>2, <3>3, <3>4
  <2>4. CASE tx'[s] = IdleTx
    BY <1>3, <2>4 DEF IdleTx
  <2>5. \/ \E r \in Sessions, j \in Jobs, k \in Keys \cup {None}, p \in Nat, t \in Nat :
             EnqueueFind(r, j, k, p, t)
        \/ \E r \in Sessions :
             \/ \E w \in Workers, q \in Queues, n \in Nat, t \in Nat : ClaimSelect(r, w, q, n, t)
             \/ \E w \in Workers, t \in 0 .. now : RecoverSelect(r, w, t)
        \/ tx'[s] = tx[s] \/ tx'[s] = IdleTx
    BY <1>2 DEF Calls, EnqueueInsert, RecoverCommit, Rollback, ClaimCommit, Close, Report, Complete, Fail,
                FailFinal, ReportError, ExpireClaim, Crash, Tick, storeVars
  <2> QED
    BY <2>1, <2>2, <2>3, <2>4, <2>5
<1> QED
  BY <1>1, <1>3 DEF QueueInv

-----------------------------------------------------------------------------
(* The steps of processes are such calls.                                  *)

LEMMA Constants ==
  /\ \A l \in Loops : /\ l \in Sessions /\ l \notin Clients /\ WorkerOf[l] \in Workers
                      /\ WorkerOf[l] \notin Peers /\ LoopQueue[l] \in Queues
                      /\ Concurrency[l] \in Nat /\ Concurrency[l] # 0
  /\ Clients \subseteq Sessions /\ Peers \subseteq Workers
  /\ Priorities \subseteq Nat /\ RetryDelays \subseteq Nat /\ Limits \subseteq Nat
BY WorkerConstants, StoreConstants

LEMMA HandlerCalls ==
  ASSUME Inv, NEW l \in Loops, NEW g \in run[l],
         \/ HandlerSucceeds(l, g) \/ HandlerFails(l, g) \/ HandlerMissing(l, g) \/ ReportFails(l, g)
         \/ HandlerHangs(l, g)
  PROVE  Calls
<1>1. RetryDelays \subseteq Nat /\ 0 \in Nat
  BY StoreConstants
<1>2. \A c : (ReportError(c) \/ Complete(c, now) \/ FailFinal(c, now)
                \/ \E d \in RetryDelays : Fail(c, now, d)) => Calls
  BY <1>1 DEF Calls, ReportError, Complete, Fail, FailFinal, Report
<1> QED
  BY <1>2 DEF HandlerSucceeds, HandlerFails, HandlerMissing, ReportFails, HandlerHangs, Calls

LEMMA LoopCalls ==
  ASSUME Inv, WInv, NEW l \in Loops, LoopStep(l) \/ StoreError(l)
  PROVE  Calls
<1>0. /\ avail[l] \in Nat /\ at[l] \in Nat /\ now \in Nat /\ at[l] <= now
  BY DEF Inv, TypeOK, WInv, WorkerTypes, SlotsInv, Slots
<1>1. /\ l \in Sessions /\ WorkerOf[l] \in Workers /\ LoopQueue[l] \in Queues
      /\ avail[l] \in Nat /\ at[l] \in Nat /\ at[l] \in 0 .. now
  BY <1>0, Constants
<1>2. CASE Recover(l) \/ ClaimBatch(l)
  BY <1>1, <1>2 DEF Recover, ClaimBatch, Calls
<1>3. CASE Recovered(l) \/ Start(l) \/ StoreError(l)
  BY <1>1, <1>3 DEF Recovered, Start, StoreError, Calls
<1>4. CASE ExpireTracked(l)
  BY <1>4 DEF ExpireTracked, ExpireClaim, Calls
<1>5. CASE Top(l) \/ Lookup(l) \/ Wake(l) \/ Quit(l) \/ CallCancelled(l) \/ Drained(l) \/ GiveUpWaiting(l)
  BY <1>5 DEF Top, Lookup, Wake, Quit, CallCancelled, Drained, GiveUpWaiting, Calls
<1> QED
  BY <1>2, <1>3, <1>4, <1>5 DEF LoopStep

LEMMA ClientCalls ==
  ASSUME Inv, NEW s \in Clients, Request(s) \/ Commit(s) \/ Abandon(s)
  PROVE  Calls
<1>1. /\ s \in Sessions /\ now \in Nat /\ After(now, 1) \in Nat /\ now \in 0 .. now
      /\ Priorities \subseteq Nat /\ Peers \subseteq Workers /\ Limits \subseteq Nat
  BY Constants, ClockFacts DEF Inv, TypeOK
<1>2. CASE Request(s)
  BY <1>1, <1>2 DEF Request, Calls
<1>3. CASE Commit(s) \/ Abandon(s)
  BY <1>1, <1>3 DEF Commit, Abandon, Calls
<1> QED
  BY <1>2, <1>3

LEMMA StepCalls ==
  ASSUME Inv, WInv, [Next]_vars
  PROVE  Calls
<1>1. ASSUME NEW c \in claims, PeerReports(c) PROVE Calls
  BY <1>1, Constants DEF PeerReports, Calls
<1>2. ASSUME NEW w \in Workers, Stop(w) \/ Die(w) \/ Fanout(w) \/ ListenerFails(w) PROVE Calls
  BY <1>2 DEF Stop, Die, Fanout, ListenerFails, Calls
<1>3. ASSUME NEW l \in Loops, NEW g \in done[l], Release(l, g) PROVE Calls
  BY <1>3 DEF Release, Calls
<1>4. CASE Clock
  BY <1>4 DEF Clock, Calls
<1>5. CASE UNCHANGED vars
  BY <1>5 DEF vars, Calls
<1> QED
  BY <1>1, <1>2, <1>3, <1>4, <1>5, HandlerCalls, LoopCalls, ClientCalls DEF Next, HandlerStep

-----------------------------------------------------------------------------
(* A claim locks no more rows than it asks for.                            *)

LEMMA PickedFew ==
  ASSUME TypeOK, NEW q, NEW t, NEW n \in Nat
  PROVE  IsFiniteSet(Picked(q, t, n)) /\ Cardinality(Picked(q, t, n)) <= n
<1> DEFINE free == {id \in Ready(q, t) : Unlocked(id)}
<1>1. PICK b : b = Picked(q, t, n)
  OBVIOUS
<1>2. /\ free \subseteq Ids /\ IsFiniteSet(free)
      /\ b = {id \in free : Cardinality({i \in free : Before(i, id)}) < n}
  BY <1>1, StoreConstants, FS_Subset DEF Picked, Ready
<1>3. b \subseteq free /\ IsFiniteSet(b) /\ Cardinality(b) \in Nat
  BY <1>2, FS_Subset, FS_CardinalityType
<1>4. \A a, c, d \in Ids : /\ ~Before(a, a)
                           /\ Before(a, c) /\ Before(c, d) => Before(a, d)
                           /\ a # c => Before(a, c) \/ Before(c, a)
  BY StoreConstants DEF TypeOK, Row, Before
<1> HIDE DEF free
<1>5. CASE b = {}
  BY <1>1, <1>3, <1>5, FS_EmptySet
<1>6. CASE b # {}
  <2> DEFINE Above(d) == {e \in b : Before(d, e)}
  <2>1. \A d \in b : IsFiniteSet(Above(d)) /\ Cardinality(Above(d)) \in Nat
    BY <1>3, FS_Subset, FS_CardinalityType
  <2>2. {Cardinality(Above(d)) : d \in b} \in SUBSET Nat /\ {Cardinality(Above(d)) : d \in b} # {}
    BY <1>6, <2>1
  <2> HIDE DEF Above
  <2>3. PICK d \in b : \A e \in b : Cardinality(Above(d)) <= Cardinality(Above(e))
    <3>1. PICK k \in {Cardinality(Above(d)) : d \in b} :
            \A m \in {Cardinality(Above(d)) : d \in b} : k <= m
      BY <2>2, FirstExists, Zenon
    <3> QED
      BY <3>1
  <2>4. ASSUME NEW e \in b, Before(d, e) PROVE FALSE
    <3>1. Above(e) \subseteq Above(d) /\ e \in Above(d) /\ e \notin Above(e)
      BY <1>2, <1>3, <1>4, <2>4, Zenon DEF Above
    <3>2. Cardinality(Above(e)) <= Cardinality(Above(d)) /\ Cardinality(Above(d)) # Cardinality(Above(e))
      BY <2>1, <3>1, FS_Subset
    <3> QED
      BY <2>1, <2>3, <3>2
  <2>5. \A e \in b \ {d} : Before(e, d)
    BY <1>2, <1>3, <1>4, <2>4, Zenon
  <2>6. /\ b \ {d} \subseteq {i \in free : Before(i, d)} /\ IsFiniteSet({i \in free : Before(i, d)})
        /\ Cardinality({i \in free : Before(i, d)}) \in Nat
    BY <1>2, <1>3, <2>5, FS_Subset, FS_CardinalityType
  <2>7. Cardinality(b \ {d}) = Cardinality(b) - 1 /\ Cardinality(b \ {d}) <= Cardinality({i \in free : Before(i, d)})
    BY <1>3, <2>6, FS_RemoveElement, FS_Subset
  <2>8. Cardinality({i \in free : Before(i, d)}) < n
    BY <1>2
  <2> QED
    BY <1>1, <1>3, <2>6, <2>7, <2>8
<1> QED
  BY <1>5, <1>6

-----------------------------------------------------------------------------
(* Steps that fill no slot.                                                *)

LEMMA NowGrows == ASSUME Inv, Calls PROVE now \in Nat /\ now' \in Nat /\ now' >= now
<1>1. now \in Nat
  BY DEF Inv, TypeOK
<1>2. now' = now \/ now' = now + 1
  <2>1. ASSUME NEW s, NEW j, NEW k, NEW p, NEW t, EnqueueFind(s, j, k, p, t) PROVE now' = now
    BY <2>1 DEF EnqueueFind
  <2>2. ASSUME NEW s, NEW w, NEW q, NEW n, NEW t, ClaimSelect(s, w, q, n, t) PROVE now' = now
    BY <2>2 DEF ClaimSelect
  <2>3. ASSUME NEW s, NEW b, ClaimCommit(s, b) PROVE now' = now
    BY <2>3 DEF ClaimCommit
  <2>4. ASSUME NEW c, NEW d, Complete(c, now) \/ Fail(c, now, d) \/ FailFinal(c, now) PROVE now' = now
    BY <2>4 DEF Complete, Fail, FailFinal, Report
  <2>5. ASSUME NEW s, NEW w, NEW t, RecoverSelect(s, w, t) PROVE now' = now
    BY <2>5 DEF RecoverSelect
  <2> QED
    BY <2>1, <2>2, <2>3, <2>4, <2>5, Zenon DEF Calls, EnqueueInsert, RecoverCommit, Rollback, ReportError,
       ExpireClaim, Crash, Tick, storeVars
<1> QED
  BY <1>1, <1>2

LEMMA SlotsKept ==
  ASSUME Inv, Calls, WorkerTypes, NEW l \in Loops, Slots(l),
         run'[l] \cup done'[l] \subseteq run[l] \cup done[l],
         at'[l] = at[l], avail'[l] = avail[l],
         pc'[l] = pc[l] \/ pc'[l] \notin Filling \/ (pc[l] \in Filling /\ pc'[l] # "claiming"),
         tx'[l] = tx[l] \/ tx'[l].op # "claim" \/ pc'[l] # "claiming"
  PROVE  Slots(l)'
<1>1. at'[l] <= now'
  BY NowGrows DEF WorkerTypes, Slots
<1>2. /\ IsFiniteSet(run'[l] \cup done'[l])
      /\ Cardinality(run'[l] \cup done'[l]) <= Cardinality(run[l] \cup done[l])
      /\ Cardinality(run'[l] \cup done'[l]) \in Nat /\ Cardinality(run[l] \cup done[l]) \in Nat
  BY FS_Subset, FS_CardinalityType DEF Slots
<1>3. Busy(l)' <= Busy(l) /\ Busy(l)' \in Nat /\ Busy(l) \in Nat
  BY <1>2 DEF Busy
<1>4. avail[l] \in Nat /\ Concurrency[l] \in Nat
  BY Constants DEF WorkerTypes
<1>5. pc'[l] \in Filling => pc[l] \in Filling
  OBVIOUS
<1>6. Busy(l)' <= Concurrency[l] /\ (pc'[l] \in Filling => avail[l] + Busy(l)' <= Concurrency[l])
  BY <1>3, <1>4, <1>5 DEF Slots
<1> QED
  BY <1>1, <1>2, <1>6 DEF Slots, Filling

\* The queues a call notifies are queues.
LEMMA RequeuedQueues ==
  ASSUME Inv, QueueInv, Calls
  PROVE  {exec'[id].queue : id \in Requeued} \subseteq Queues
<1>1. \A id \in Ids : exec'[id].status = "queued" => exec'[id].queue \in Queues
  BY QueuesKept DEF QueueInv, Stored
<1> QED
  BY <1>1 DEF Requeued

LEMMA Notified ==
  ASSUME Inv, WInv, Calls, NotifyRequeued
  PROVE  notices' \in [Workers -> SUBSET Queues] /\ wake' = wake /\ listening' = listening
<1>1. PICK qs : qs = {exec'[id].queue : id \in Requeued}
  OBVIOUS
<1>2. qs \subseteq Queues
  BY <1>1, RequeuedQueues DEF WInv
<1>3. notices' = [w \in Workers |-> IF w \in listening \cap alive THEN notices[w] \cup qs ELSE notices[w]]
  BY <1>1 DEF NotifyRequeued, NotifyQueues
<1> QED
  BY <1>2, <1>3 DEF NotifyRequeued, WInv, WorkerTypes

\* A call of one session leaves the transactions of the others alone.
LEMMA OwnSession ==
  ASSUME Inv, NEW s \in Sessions, NEW r \in Sessions, s # r,
         \/ \E j, k, p, t : EnqueueFind(s, j, k, p, t)
         \/ \E w, q, n, t : ClaimSelect(s, w, q, n, t)
         \/ \E w, t : RecoverSelect(s, w, t)
         \/ EnqueueInsert(s) \/ RecoverCommit(s) \/ Rollback(s) \/ ClaimCommit(s, TRUE) \/ ClaimCommit(s, FALSE)
  PROVE  tx'[r] = tx[r]
BY DEF Inv, TypeOK, EnqueueFind, ClaimSelect, RecoverSelect, EnqueueInsert, RecoverCommit, Rollback,
       ClaimCommit, Close

LEMMA OtherLoops ==
  ASSUME Inv, WInv, Calls, NEW l \in Loops, Slots(l)',
         \A m \in Loops \ {l} : /\ run'[m] = run[m] /\ done'[m] = done[m] /\ at'[m] = at[m]
                                /\ avail'[m] = avail[m] /\ pc'[m] = pc[m] /\ tx'[m] = tx[m]
  PROVE  SlotsInv'
<1>1. ASSUME NEW m \in Loops \ {l} PROVE Slots(m)'
  BY SlotsKept DEF WInv, SlotsInv
<1> QED
  BY <1>1 DEF SlotsInv

\* The loop goes to another point and fills no slot.
LEMMA LoopMoves ==
  ASSUME Inv, WInv, Calls, NEW l \in Loops, NEW p \in Points, Go(l, p),
         p \notin Filling \/ (pc[l] \in Filling /\ p # "claiming"),
         UNCHANGED <<run, done, at, avail>>, \A m \in Loops \ {l} : tx'[m] = tx[m]
  PROVE  SlotsInv' /\ pc' \in [Loops -> Points]
<1>1. /\ pc' \in [Loops -> Points] /\ pc'[l] = p /\ \A m \in Loops \ {l} : pc'[m] = pc[m]
  BY DEF Go, WInv, WorkerTypes
<1>2. Slots(l)'
  BY <1>1, SlotsKept DEF WInv, SlotsInv, Filling
<1> QED
  BY <1>1, <1>2, OtherLoops

LEMMA TopInv ==
  ASSUME Inv, WInv, Calls, NEW l \in Loops, Top(l)
  PROVE  WorkerTypes' /\ SlotsInv'
<1>1. /\ Busy(l) \in Nat /\ Concurrency[l] \in Nat /\ Busy(l) <= Concurrency[l]
      /\ Concurrency[l] - Busy(l) \in Nat /\ now \in Nat /\ After(now, Poll) \in Nat
  <2>1. IsFiniteSet(run[l] \cup done[l]) /\ Busy(l) <= Concurrency[l]
    BY DEF WInv, SlotsInv, Slots
  <2>2. Busy(l) \in Nat
    BY <2>1, FS_CardinalityType DEF Busy
  <2>3. now \in Nat /\ Concurrency[l] \in Nat /\ Poll \in Nat
    BY Constants, WorkerConstants DEF Inv, TypeOK
  <2>4. After(now, Poll) \in Nat
    BY <2>3, ClockFacts
  <2> HIDE DEF Busy
  <2> QED
    BY <2>1, <2>2, <2>3, <2>4
<1>2. /\ avail' = [avail EXCEPT ![l] = Concurrency[l] - Busy(l)]
      /\ UNCHANGED <<run, done, hung, tracked, failed, slotFree, wake, listening, notices, stopped, tx, now>>
  BY DEF Top, storeVars, slotVars, wakeVars
<1>3. PICK p \in {"recover", "wait"} : Go(l, p)
  BY DEF Top
<1>4. /\ pc' = [pc EXCEPT ![l] = p] /\ pc' \in [Loops -> Points] /\ pc'[l] = p
      /\ avail' \in [Loops -> Nat] /\ avail'[l] = Concurrency[l] - Busy(l)
  BY <1>1, <1>2, <1>3 DEF Go, Points, WInv, WorkerTypes
<1>5. /\ at' \in [Loops -> Nat] /\ deadline' \in [Loops -> Nat]
      /\ at'[l] <= now /\ \A m \in Loops \ {l} : at'[m] = at[m]
  <2>1. at \in [Loops -> Nat] /\ deadline \in [Loops -> Nat] /\ at[l] <= now
    BY DEF WInv, WorkerTypes, SlotsInv, Slots
  <2>2. \/ at' = [at EXCEPT ![l] = now] /\ deadline' = deadline
        \/ at' = at /\ deadline' = [deadline EXCEPT ![l] = After(now, Poll)]
    BY DEF Top
  <2> QED
    BY <1>1, <2>1, <2>2
<1>6. WorkerTypes'
  BY <1>2, <1>4, <1>5 DEF WInv, WorkerTypes
<1>7. Slots(l)'
  BY <1>1, <1>2, <1>3, <1>4, <1>5 DEF WInv, SlotsInv, Slots, Busy, Filling
<1> QED
  BY <1>2, <1>4, <1>5, <1>6, <1>7, OtherLoops DEF WInv, WorkerTypes

LEMMA RecoverInv ==
  ASSUME Inv, WInv, Calls, NEW l \in Loops, Recover(l) \/ Recovered(l)
  PROVE  WorkerTypes' /\ SlotsInv'
<1>1. PICK p \in {"recovering", "claim"} : Go(l, p)
  BY DEF Recover, Recovered
<1>2. UNCHANGED <<run, done, at, avail, deadline, hung, tracked, failed, slotFree, stopped>>
      /\ pc[l] \in Filling
  BY DEF Recover, Recovered, slotVars, Filling
<1>3. \A m \in Loops \ {l} : tx'[m] = tx[m]
  BY Constants, OwnSession DEF Recover, Recovered, storeVars
<1>4. SlotsInv' /\ pc' \in [Loops -> Points]
  BY <1>1, <1>2, <1>3, LoopMoves DEF Points
<1>5. notices' \in [Workers -> SUBSET Queues] /\ wake' = wake /\ listening' = listening
  BY Notified DEF Recover, Recovered, wakeVars, WInv, WorkerTypes
<1> QED
  BY <1>2, <1>4, <1>5 DEF WInv, WorkerTypes

LEMMA ClaimBatchInv ==
  ASSUME Inv, WInv, Calls, NEW l \in Loops, ClaimBatch(l)
  PROVE  WorkerTypes' /\ SlotsInv'
<1>1. UNCHANGED <<run, done, at, avail, deadline, hung, tracked, failed, slotFree, stopped,
                  wake, listening, notices>> /\ pc[l] = "claim"
  BY DEF ClaimBatch, slotVars, wakeVars
<1>2. CASE Go(l, "lookup") /\ UNCHANGED storeVars
  <2>1. SlotsInv' /\ pc' \in [Loops -> Points]
    BY <1>1, <1>2, LoopMoves DEF Points, Filling, storeVars
  <2> QED
    BY <1>1, <2>1 DEF WInv, WorkerTypes
<1>3. CASE ClaimSelect(l, WorkerOf[l], LoopQueue[l], avail[l], at[l]) /\ Go(l, "claiming")
  <2>1. pc' \in [Loops -> Points] /\ pc'[l] = "claiming" /\ \A m \in Loops \ {l} : pc'[m] = pc[m]
    BY <1>3 DEF Go, WInv, WorkerTypes, Points
  <2>2. PICK rows : rows = Picked(LoopQueue[l], at[l], avail[l])
    OBVIOUS
  <2>3. tx'[l].worker = WorkerOf[l] /\ tx'[l].rows = rows
    BY <1>3, <2>2, Constants DEF ClaimSelect, IdleTx, Inv, TypeOK
  <2>4. IsFiniteSet(rows) /\ Cardinality(rows) <= avail[l]
    BY <2>2, PickedFew DEF Inv, WInv, WorkerTypes
  <2>5. \A m \in Loops \ {l} : tx'[m] = tx[m]
    BY <1>3, Constants, OwnSession
  <2>6. pc[l] \in Filling /\ Slots(l) /\ now' = now
    BY <1>1, <1>3 DEF Filling, WInv, SlotsInv, ClaimSelect
  <2>7. Slots(l)'
    BY <1>1, <2>1, <2>3, <2>4, <2>6 DEF Slots, Busy
  <2>8. SlotsInv'
    BY <1>1, <2>1, <2>5, <2>7, OtherLoops
  <2> QED
    BY <1>1, <2>1, <2>8 DEF WInv, WorkerTypes
<1> QED
  BY <1>2, <1>3 DEF ClaimBatch

\* What a claim started fits into the slots that were free.
LEMMA StartFits ==
  ASSUME Inv, WInv, NEW l \in Loops, Start(l)
  PROVE  LET started == {[id |-> id, attempt |-> exec'[id].attempts] : id \in tx[l].rows}
         IN /\ started \subseteq Attempts
            /\ IsFiniteSet(run[l] \cup started \cup done[l])
            /\ Cardinality(run[l] \cup started \cup done[l]) <= Concurrency[l]
<1> DEFINE started == {[id |-> id, attempt |-> exec'[id].attempts] : id \in tx[l].rows}
<1>1. PICK S : S = started
  OBVIOUS
<1>2. PICK R : R = tx[l].rows
  OBVIOUS
<1>3. PICK B : B = run[l] \cup done[l]
  OBVIOUS
<1>4. /\ ClaimCommit(l, TRUE) /\ tx[l].op = "claim" /\ pc[l] = "claiming" /\ l \in Sessions
  BY Constants DEF Start, ClaimCommit
<1>5. exec' \in [Ids -> Row] /\ R \subseteq Ids
  BY <1>2, <1>4, ClaimCommitInv DEF Inv, TypeOK, Tx
<1>6. /\ IsFiniteSet(R) /\ Cardinality(R) <= avail[l] /\ Cardinality(R) \in Nat
      /\ IsFiniteSet(B) /\ avail[l] + Cardinality(B) <= Concurrency[l] /\ Cardinality(B) \in Nat
      /\ avail[l] \in Nat /\ Concurrency[l] \in Nat
  BY <1>2, <1>3, <1>4, Constants, FS_CardinalityType
     DEF WInv, WorkerTypes, SlotsInv, Slots, Filling, Busy
<1>7. S \subseteq Attempts
  BY <1>1, <1>2, <1>5 DEF Attempts, Row
<1>8. IsFiniteSet(S) /\ Cardinality(S) <= Cardinality(R)
  <2> DEFINE f == [id \in R |-> [id |-> id, attempt |-> exec'[id].attempts]]
  <2>1. f \in Surjection(R, S)
    BY <1>1, <1>2 DEF Surjection
  <2> QED
    BY <1>6, <2>1, FS_Surjection
<1>9. /\ IsFiniteSet(S \cup B) /\ Cardinality(S) \in Nat /\ Cardinality(S \cap B) \in Nat
      /\ Cardinality(S \cup B) = Cardinality(S) + Cardinality(B) - Cardinality(S \cap B)
      /\ Cardinality(S \cup B) \in Nat
  <2>1. IsFiniteSet(S \cap B) /\ IsFiniteSet(S \cup B)
    BY <1>6, <1>8, FS_Subset, FS_Union
  <2> QED
    BY <1>6, <1>8, <2>1, FS_Union, FS_CardinalityType
<1>a. S \cup B = run[l] \cup started \cup done[l]
  BY <1>1, <1>3
<1>b. IsFiniteSet(S \cup B) /\ Cardinality(S \cup B) <= Concurrency[l]
  BY <1>6, <1>8, <1>9
<1> QED
  BY <1>1, <1>7, <1>a, <1>b

LEMMA StartInv ==
  ASSUME Inv, WInv, Calls, NEW l \in Loops, Start(l)
  PROVE  WorkerTypes' /\ SlotsInv'
<1> DEFINE started == {[id |-> id, attempt |-> exec'[id].attempts] : id \in tx[l].rows}
<1>1. PICK S : S = started
  OBVIOUS
<1>2. /\ UNCHANGED <<at, avail, deadline, done, hung, failed, slotFree, wake, listening, notices, stopped>>
      /\ run' = [run EXCEPT ![l] = @ \cup S] /\ tracked' = [tracked EXCEPT ![l] = Track(@, S)]
      /\ Go(l, "lookup") /\ ClaimCommit(l, TRUE)
  BY <1>1 DEF Start, wakeVars
<1>3. /\ S \subseteq Attempts /\ IsFiniteSet(run[l] \cup S \cup done[l])
      /\ Cardinality(run[l] \cup S \cup done[l]) <= Concurrency[l]
  BY <1>1, StartFits
<1>4. Track(tracked[l], S) \subseteq Attempts
  BY <1>3 DEF Track, WInv, WorkerTypes
<1>5. /\ pc' \in [Loops -> Points] /\ pc'[l] = "lookup" /\ \A m \in Loops \ {l} : pc'[m] = pc[m]
      /\ run' \in [Loops -> SUBSET Attempts] /\ run'[l] = run[l] \cup S
      /\ \A m \in Loops \ {l} : run'[m] = run[m]
      /\ tracked' \in [Loops -> SUBSET Attempts]
  BY <1>2, <1>3, <1>4 DEF Go, WInv, WorkerTypes, Points
<1>6. WorkerTypes'
  BY <1>2, <1>5 DEF WInv, WorkerTypes
<1>7. \A m \in Loops \ {l} : tx'[m] = tx[m]
  BY <1>2, Constants, OwnSession
<1>8. Slots(l)'
  <2>1. at'[l] = at[l] /\ at[l] \in Nat /\ at[l] <= now /\ now \in Nat /\ now' \in Nat /\ now <= now'
    BY <1>2, NowGrows DEF WInv, WorkerTypes, SlotsInv, Slots
  <2>2. at'[l] <= now'
    BY <2>1
  <2>3. run'[l] \cup done'[l] = run[l] \cup S \cup done[l]
    BY <1>2, <1>5
  <2>4. IsFiniteSet(run'[l] \cup done'[l]) /\ Cardinality(run'[l] \cup done'[l]) <= Concurrency[l]
    BY <1>3, <2>3
  <2>5. pc'[l] \notin Filling /\ pc'[l] # "claiming"
    BY <1>5 DEF Filling
  <2> QED
    BY <2>2, <2>4, <2>5 DEF Slots, Busy
<1> QED
  BY <1>2, <1>5, <1>6, <1>7, <1>8, OtherLoops

\* A step that fills no slot of any loop.
LEMMA NoneFilled ==
  ASSUME Inv, WInv, Calls, UNCHANGED <<at, avail>>,
         \A l \in Loops : /\ run'[l] \cup done'[l] \subseteq run[l] \cup done[l]
                          /\ pc'[l] = pc[l] \/ pc'[l] \notin Filling
                          /\ tx'[l] = tx[l] \/ tx'[l].op # "claim"
  PROVE  SlotsInv'
<1>1. ASSUME NEW l \in Loops PROVE Slots(l)'
  BY SlotsKept DEF WInv, SlotsInv
<1> QED
  BY <1>1 DEF SlotsInv

LEMMA WaitInv ==
  ASSUME Inv, WInv, Calls, NEW l \in Loops, Lookup(l) \/ Wake(l) \/ Drained(l) \/ GiveUpWaiting(l)
  PROVE  WorkerTypes' /\ SlotsInv'
<1>1. PICK p \in {"wait", "top", "exited", "expiring"} : Go(l, p)
  BY DEF Lookup, Wake, Drained, GiveUpWaiting
<1>2. /\ UNCHANGED <<run, done, at, avail, hung, tracked, failed, listening, notices, stopped, tx>>
      /\ p \notin Filling /\ p \in Points
  BY DEF Lookup, Wake, Drained, GiveUpWaiting, slotVars, wakeVars, storeVars, Filling, Points
<1>3. SlotsInv' /\ pc' \in [Loops -> Points]
  BY <1>1, <1>2, LoopMoves
<1>4. slotFree' \in [Loops -> BOOLEAN] /\ wake' \in [Loops -> BOOLEAN]
  <2>1. slotFree' \in {slotFree, [slotFree EXCEPT ![l] = FALSE]} /\ wake' \in {wake, [wake EXCEPT ![l] = FALSE]}
    BY DEF Lookup, Wake, Drained, GiveUpWaiting, slotVars, wakeVars
  <2> QED
    BY <2>1 DEF WInv, WorkerTypes
<1>5. deadline' \in [Loops -> Nat]
  <2>1. deadline \in [Loops -> Nat]
    BY DEF WInv, WorkerTypes
  <2>2. CASE Lookup(l)
    <3>1. Future(l) \subseteq Nat /\ After(now, Poll) \in Nat
      BY ClockFacts, WorkerConstants DEF Future, Inv, TypeOK, Row
    <3>2. PICK t \in Nat : deadline' = [deadline EXCEPT ![l] = t]
      BY <2>2, <3>1 DEF Lookup
    <3> QED
      BY <2>1, <3>2
  <2>3. CASE deadline' = deadline
    BY <2>1, <2>3
  <2> QED
    BY <2>2, <2>3 DEF Wake, Drained, GiveUpWaiting
<1> QED
  BY <1>2, <1>3, <1>4, <1>5 DEF WInv, WorkerTypes

LEMMA LeaveInv ==
  ASSUME Inv, WInv, Calls, NEW l \in Loops, Quit(l) \/ CallCancelled(l) \/ StoreError(l)
  PROVE  WorkerTypes' /\ SlotsInv'
<1>1. Leave(l) /\ UNCHANGED <<run, done, at, avail, hung, tracked, slotFree>>
  BY DEF Quit, CallCancelled, StoreError, slotVars
<1>2. \A m \in Loops \ {l} : tx'[m] = tx[m]
  BY Constants, OwnSession DEF Quit, CallCancelled, StoreError, storeVars
<1>3. SlotsInv' /\ pc' \in [Loops -> Points]
  BY <1>1, <1>2, LoopMoves DEF Leave, Filling, Points
<1>4. failed' \in {failed, [failed EXCEPT ![l] = FALSE]}
  BY DEF Quit, CallCancelled, StoreError, slotVars
<1>5. notices' \in [Workers -> SUBSET Queues] /\ wake' = wake /\ listening' = listening
  BY Notified DEF Quit, CallCancelled, StoreError, wakeVars, WInv, WorkerTypes
<1>6. After(now, Grace) \in Nat /\ WorkerOf[l] \in Workers
  BY ClockFacts, WorkerConstants DEF Inv, TypeOK
<1>7. deadline' \in [Loops -> Nat] /\ stopped' \subseteq Workers
  BY <1>1, <1>6 DEF Leave, WInv, WorkerTypes
<1> QED
  BY <1>1, <1>3, <1>4, <1>5, <1>7 DEF WInv, WorkerTypes

LEMMA ExpireTrackedInv ==
  ASSUME Inv, WInv, Calls, NEW l \in Loops, ExpireTracked(l)
  PROVE  WorkerTypes' /\ SlotsInv'
<1>1. UNCHANGED <<run, done, at, avail, deadline, hung, failed, slotFree, wake, listening, stopped, tx>>
  BY DEF ExpireTracked, ExpireClaim, wakeVars, storeVars
<1>2. pc' = pc \/ \E p \in {"erring", "exited", "gaveup"} : pc' = [pc EXCEPT ![l] = p]
  BY DEF ExpireTracked, Go
<1>3. /\ pc' \in [Loops -> Points]
      /\ \A m \in Loops : pc'[m] = pc[m] \/ pc'[m] \notin Filling
  BY <1>2 DEF WInv, WorkerTypes, Points, Filling
<1>4. tracked' = tracked \/ \E g \in tracked[l] : tracked' = [tracked EXCEPT ![l] = @ \ {g}]
  BY DEF ExpireTracked
<1>5. tracked' \in [Loops -> SUBSET Attempts]
  BY <1>4 DEF WInv, WorkerTypes
<1>6. notices' \in [Workers -> SUBSET Queues]
  <2>1. \/ notices' = notices
        \/ notices' = [w \in Workers |-> IF w \in listening \cap alive
                                         THEN notices[w] \cup {LoopQueue[l]} ELSE notices[w]]
    BY DEF ExpireTracked, NotifyQueues, wakeVars
  <2> QED
    BY <2>1, Constants DEF WInv, WorkerTypes
<1>7. SlotsInv'
  BY <1>1, <1>3, NoneFilled
<1> QED
  BY <1>1, <1>3, <1>5, <1>6, <1>7 DEF WInv, WorkerTypes

-----------------------------------------------------------------------------
(* Handlers, releases, the process and everybody else.                     *)

LEMMA HandlerInv ==
  ASSUME Inv, WInv, Calls, NEW l \in Loops, NEW g \in run[l],
         HandlerSucceeds(l, g) \/ HandlerFails(l, g) \/ HandlerMissing(l, g) \/ ReportFails(l, g)
  PROVE  WorkerTypes' /\ SlotsInv'
<1>1. Settle(l, g)
  BY DEF HandlerSucceeds, HandlerFails, HandlerMissing, ReportFails
<1>2. tx' = tx
  BY DEF HandlerSucceeds, HandlerFails, HandlerMissing, ReportFails, ReportError, Complete, Fail, FailFinal,
         Report
<1>3. notices' \in [Workers -> SUBSET Queues] /\ wake' = wake /\ listening' = listening
  BY Notified DEF HandlerSucceeds, HandlerFails, HandlerMissing, ReportFails, wakeVars, WInv, WorkerTypes
<1>4. failed' \in {failed, [failed EXCEPT ![l] = TRUE]}
  BY DEF HandlerSucceeds, HandlerFails, HandlerMissing, ReportFails
<1>5. run' = [run EXCEPT ![l] = @ \ {g}] /\ done' = [done EXCEPT ![l] = @ \cup {g}]
  BY <1>1 DEF Settle
<1>6. /\ run' \in [Loops -> SUBSET Attempts] /\ done' \in [Loops -> SUBSET Attempts]
      /\ \A m \in Loops : run'[m] \cup done'[m] \subseteq run[m] \cup done[m]
  BY <1>5 DEF WInv, WorkerTypes
<1>7. UNCHANGED <<pc, at, avail, deadline, hung, tracked, slotFree, stopped>>
  BY <1>1 DEF Settle, loopVars
<1>8. SlotsInv'
  BY <1>2, <1>6, <1>7, NoneFilled
<1> QED
  BY <1>3, <1>4, <1>6, <1>7, <1>8 DEF WInv, WorkerTypes

LEMMA HangsInv ==
  ASSUME Inv, WInv, Calls, NEW l \in Loops, NEW g \in run[l], HandlerHangs(l, g)
  PROVE  WorkerTypes' /\ SlotsInv'
<1>1. /\ hung' = [hung EXCEPT ![l] = @ \cup {g}]
      /\ UNCHANGED <<tx, pc, at, avail, deadline, run, done, tracked, failed, slotFree, wake, listening,
                     notices, stopped>>
  BY DEF HandlerHangs, storeVars, loopVars, wakeVars
<1>2. SlotsInv'
  BY <1>1, NoneFilled
<1> QED
  BY <1>1, <1>2 DEF WInv, WorkerTypes

LEMMA ReleaseInv ==
  ASSUME Inv, WInv, Calls, NEW l \in Loops, NEW g \in done[l], Release(l, g)
  PROVE  WorkerTypes' /\ SlotsInv'
<1>1. /\ done' = [done EXCEPT ![l] = @ \ {g}]
      /\ slotFree' = [slotFree EXCEPT ![l] = TRUE]
      /\ tracked' = tracked \/ tracked' = [tracked EXCEPT ![l] = Untrack(@, g)]
      /\ UNCHANGED <<tx, pc, at, avail, deadline, run, hung, failed, wake, listening, notices, stopped>>
  BY DEF Release, storeVars, loopVars, wakeVars
<1>2. Untrack(tracked[l], g) \subseteq Attempts
  BY DEF Untrack, WInv, WorkerTypes
<1>3. /\ done' \in [Loops -> SUBSET Attempts] /\ tracked' \in [Loops -> SUBSET Attempts]
      /\ slotFree' \in [Loops -> BOOLEAN]
      /\ \A m \in Loops : run'[m] \cup done'[m] \subseteq run[m] \cup done[m]
  BY <1>1, <1>2 DEF WInv, WorkerTypes
<1>4. SlotsInv'
  BY <1>1, <1>3, NoneFilled
<1> QED
  BY <1>1, <1>3, <1>4 DEF WInv, WorkerTypes

LEMMA DieInv ==
  ASSUME Inv, WInv, Calls, NEW w \in Workers, Die(w)
  PROVE  WorkerTypes' /\ SlotsInv'
<1> DEFINE mine == {l \in Loops : WorkerOf[l] = w}
           Gone(f) == [l \in Loops |-> IF l \in mine THEN {} ELSE f[l]]
<1>1. /\ run' = Gone(run) /\ done' = Gone(done) /\ hung' = Gone(hung) /\ tracked' = Gone(tracked)
      /\ pc' = [l \in Loops |-> IF l \in mine THEN "exited" ELSE pc[l]]
      /\ listening' = listening \ {w} /\ notices' = [notices EXCEPT ![w] = {}]
      /\ UNCHANGED <<at, avail, deadline, failed, slotFree, wake, stopped>>
      /\ Crash(w)
  BY DEF Die
<1>2. \A l \in Loops : tx'[l] = tx[l] \/ tx'[l].op # "claim"
  <2>1. \A l \in Loops : tx'[l] = tx[l] \/ tx'[l] = IdleTx
    BY <1>1, Constants DEF Crash
  <2>2. IdleTx.op = "idle"
    BY DEF IdleTx
  <2> QED
    BY <2>1, <2>2
<1>3. \A f \in [Loops -> SUBSET Attempts] : Gone(f) \in [Loops -> SUBSET Attempts]
  OBVIOUS
<1>4. \A l \in Loops : run'[l] \cup done'[l] \subseteq run[l] \cup done[l]
  BY <1>1
<1>5. pc' \in [Loops -> Points] /\ \A l \in Loops : pc'[l] = pc[l] \/ pc'[l] \notin Filling
  BY <1>1 DEF WInv, WorkerTypes, Points, Filling
<1> HIDE DEF Gone
<1>6. SlotsInv'
  BY <1>1, <1>2, <1>4, <1>5, NoneFilled
<1>7. notices' \in [Workers -> SUBSET Queues] /\ listening' \subseteq Workers
  BY <1>1 DEF WInv, WorkerTypes
<1> QED
  BY <1>1, <1>3, <1>5, <1>6, <1>7 DEF WInv, WorkerTypes

LEMMA ProcessInv ==
  ASSUME Inv, WInv, Calls, NEW w \in Workers, Stop(w) \/ Fanout(w) \/ ListenerFails(w)
  PROVE  WorkerTypes' /\ SlotsInv'
<1>1. UNCHANGED <<tx, pc, at, avail, deadline, run, done, hung, tracked, failed, slotFree>>
  BY DEF Stop, Fanout, ListenerFails, storeVars, loopVars, slotVars
<1>2. SlotsInv'
  BY <1>1, NoneFilled
<1>3. stopped' \subseteq Workers /\ listening' \subseteq Workers
  BY DEF Stop, Fanout, ListenerFails, wakeVars, WInv, WorkerTypes
<1>4. wake' \in [Loops -> BOOLEAN]
  <2>1. \/ wake' = wake
        \/ \E q : wake' = [l \in Loops |-> wake[l] \/ (WorkerOf[l] = w /\ LoopQueue[l] = q)]
        \/ wake' = [l \in Loops |-> wake[l] \/ WorkerOf[l] = w]
    BY DEF Stop, Fanout, ListenerFails, wakeVars
  <2> QED
    BY <2>1, Zenon DEF WInv, WorkerTypes
<1>5. notices' \in [Workers -> SUBSET Queues]
  <2>1. \/ notices' = notices
        \/ \E q : notices' = [notices EXCEPT ![w] = @ \ {q}]
        \/ notices' = [notices EXCEPT ![w] = {}]
    BY DEF Stop, Fanout, ListenerFails, wakeVars
  <2> QED
    BY <2>1 DEF WInv, WorkerTypes
<1> QED
  BY <1>1, <1>2, <1>3, <1>4, <1>5 DEF WInv, WorkerTypes

LEMMA OutsideInv ==
  ASSUME Inv, WInv, Calls,
         \/ \E s \in Clients : Request(s) \/ Commit(s) \/ Abandon(s)
         \/ \E c \in claims : PeerReports(c)
         \/ Clock \/ UNCHANGED vars
  PROVE  WorkerTypes' /\ SlotsInv'
<1>1. UNCHANGED <<pc, at, avail, deadline, run, done, hung, tracked, failed, slotFree, stopped>>
  BY DEF Request, Commit, Abandon, PeerReports, Clock, vars, workerVars, loopVars, slotVars
<1>2. \A l \in Loops : tx'[l] = tx[l]
  <2>1. CASE \E s \in Clients : Request(s) \/ Commit(s) \/ Abandon(s)
    <3>1. PICK s \in Clients : Request(s) \/ Commit(s) \/ Abandon(s)
      BY <2>1
    <3>2. s \in Sessions /\ \A l \in Loops : l \in Sessions /\ l # s
      BY Constants
    <3> QED
      BY <3>1, <3>2, OwnSession DEF Request, Commit, Abandon
  <2>2. CASE \E c \in claims : PeerReports(c)
    BY <2>2 DEF PeerReports, Complete, Fail, Report
  <2>3. CASE Clock \/ UNCHANGED vars
    BY <2>3 DEF Clock, Tick, vars, storeVars
  <2> QED
    BY <2>1, <2>2, <2>3
<1>3. notices' \in [Workers -> SUBSET Queues] /\ wake' = wake /\ listening' = listening
  BY Notified DEF Request, Commit, Abandon, PeerReports, Clock, vars, workerVars, wakeVars, WInv, WorkerTypes
<1>4. SlotsInv'
  BY <1>1, <1>2, NoneFilled
<1> QED
  BY <1>1, <1>3, <1>4 DEF WInv, WorkerTypes

-----------------------------------------------------------------------------
(* The invariant is inductive.                                             *)

LEMMA InitWorkers == Init => Inv /\ WInv
<1> SUFFICES ASSUME Init PROVE Inv /\ WInv
  OBVIOUS
<1>1. Inv
  BY InitInv DEF Init
<1>2. now = 0 /\ \A id \in Ids : ~Stored(id)
  BY DEF Init, StoreInit, NoRow, Stored
<1>3. QueueInv
  <2>1. \A s \in Sessions : tx[s].op = "idle"
    BY DEF Init, StoreInit, IdleTx
  <2> QED
    BY <1>2, <2>1 DEF QueueInv
<1>4. WorkerTypes
  <2>1. Listeners \subseteq Workers
    BY WorkerConstants
  <2> QED
    BY <2>1 DEF Init, WorkerTypes, Points
<1>5. SlotsInv
  <2> SUFFICES ASSUME NEW l \in Loops PROVE Slots(l)
    BY DEF SlotsInv
  <2>1. pc[l] = "top" /\ at[l] = 0 /\ run[l] \cup done[l] = {}
    BY DEF Init
  <2>2. IsFiniteSet(run[l] \cup done[l]) /\ Cardinality(run[l] \cup done[l]) = 0
    BY <2>1, FS_EmptySet
  <2>3. 0 <= Concurrency[l]
    BY Constants
  <2> QED
    BY <1>2, <2>1, <2>2, <2>3 DEF Slots, Busy, Filling
<1> QED
  BY <1>1, <1>3, <1>4, <1>5 DEF WInv

LEMMA NextWorkers == Inv /\ WInv /\ [Next]_vars => Inv' /\ WInv'
<1> SUFFICES ASSUME Inv, WInv, [Next]_vars PROVE Inv' /\ WInv'
  OBVIOUS
<1>1. Calls
  BY StepCalls
<1>2. Inv' /\ QueueInv'
  BY <1>1, CallsKeep, QueuesKept DEF WInv
<1>3. ASSUME NEW l \in Loops, LoopStep(l) \/ StoreError(l) PROVE WorkerTypes' /\ SlotsInv'
  BY <1>1, <1>3, TopInv, RecoverInv, ClaimBatchInv, StartInv, WaitInv, LeaveInv, ExpireTrackedInv
     DEF LoopStep
<1>4. ASSUME NEW l \in Loops, HandlerStep(l) PROVE WorkerTypes' /\ SlotsInv'
  BY <1>1, <1>4, HandlerInv DEF HandlerStep
<1>5. WorkerTypes' /\ SlotsInv'
  BY <1>1, <1>3, <1>4, HangsInv, ReleaseInv, DieInv, ProcessInv, OutsideInv DEF Next
<1> QED
  BY <1>2, <1>5 DEF WInv

LEMMA WorkersInvariance == Spec => [](Inv /\ WInv)
BY InitWorkers, NextWorkers, PTL DEF Spec

-----------------------------------------------------------------------------
(* What worker processes keep.                                             *)

\* Every reachable state of the processes and their store is well-formed; in
\* particular the loop never counts fewer than no free slots (runtime.go,
\* runQueueLoop).
THEOREM WorkersTypeCorrect == Spec => []WorkerTypeOK
<1>1. Inv /\ WInv => WorkerTypeOK
  BY DEF Inv, WInv, WorkerTypeOK
<1> QED
  BY <1>1, WorkersInvariance, PTL

\* A loop never runs more handlers than it has slots, counted until the slot is
\* given back (runtime.go, the slots of runQueueLoop).
THEOREM SlotsHeld == Spec => [](\A l \in Loops : Busy(l) <= Concurrency[l])
<1>1. WInv => \A l \in Loops : Busy(l) <= Concurrency[l]
  BY DEF WInv, SlotsInv, Slots
<1> QED
  BY <1>1, WorkersInvariance, PTL

\* Workers, peers and clients keep what the store promises, with the clock
\* readings they took before: no attempt is handed out twice, has two outcomes
\* or is followed by another one after success or beyond its budget, and keyed
\* requests share one execution (runtime.go beside store.go).
THEOREM WorkersKeepTheStore ==
  Spec => [](/\ OneWorkerPerAttempt /\ OneOutcomePerAttempt /\ SuccessIsFinal
             /\ AttemptsWithinBudget /\ OneExecutionPerKey /\ EarlierAttemptsResolved)
<1>1. Inv => /\ OneWorkerPerAttempt /\ OneOutcomePerAttempt /\ SuccessIsFinal
             /\ AttemptsWithinBudget /\ OneExecutionPerKey /\ EarlierAttemptsResolved
  BY KeysShared DEF Inv, Safe, RowsInv, AttemptsWithinBudget
<1> QED
  BY <1>1, WorkersInvariance, PTL

LEMMA StoreSteps ==
  ASSUME Inv, Calls
  PROVE  StoreNext \/ exec' = exec
<1>1. now \in Readings
  BY StoreConstants DEF Readings, Inv, TypeOK
<1>2. ASSUME NEW c \in claims,
             \/ ReportError(c) \/ ExpireClaim(c, now)
             \/ Complete(c, now) \/ FailFinal(c, now) \/ \E d \in RetryDelays : Fail(c, now, d)
      PROVE  StoreNext
  BY <1>1, <1>2 DEF StoreNext, Reporting
<1>3. ASSUME NEW s \in Sessions,
             EnqueueInsert(s) \/ RecoverCommit(s) \/ Rollback(s) \/ \E b \in BOOLEAN : ClaimCommit(s, b)
      PROVE  StoreNext
  BY <1>3 DEF StoreNext, Enqueuing, Recovering, Claiming
<1> QED
  BY <1>2, <1>3 DEF Calls, EnqueueFind, ClaimSelect, RecoverSelect, Crash, Tick, storeVars

\* What worker processes, their crashes and everybody else do to the store is
\* the promised queue too.
THEOREM WorkersRefine == Spec => ImplementsQueue
<1>1. Inv /\ WInv /\ [Next]_vars => [Queue!QueueNext]_(Queue!queueVars)
  <2> SUFFICES ASSUME Inv, WInv, [Next]_vars PROVE [Queue!QueueNext]_(Queue!queueVars)
    OBVIOUS
  <2>1. CASE StoreNext
    BY <2>1, QueueStep
  <2>2. CASE exec' = exec
    BY <2>2, QueueStutters
  <2> QED
    BY <2>1, <2>2, StepCalls, StoreSteps
<1>2. Init => Queue!QueueInit
  BY QueueInitially DEF Init
<1> QED
  BY <1>1, <1>2, WorkersInvariance, PTL DEF Spec, ImplementsQueue, Queue!QueueSpec

\* No process takes an attempt from a live worker before its lease is over,
\* although recovery uses the clock read at the top of the loop (runtime.go,
\* runQueueLoop).
THEOREM WorkersHonourLeases == Spec => LeaseHonoured
<1> DEFINE Kept == \A c \in claims : Owns(c) /\ ~Owns(c)' /\ c \in claims' => exec[c.id].lockedUntil <= now
<1>1. Inv /\ WInv /\ [Next]_vars => Kept
  <2> SUFFICES ASSUME Inv, WInv, [Next]_vars PROVE Kept
    OBVIOUS
  <2>1. CASE StoreNext
    BY <2>1, LeaseStep
  <2>2. CASE exec' = exec
    BY <2>2 DEF Owns
  <2> QED
    BY <2>1, <2>2, StepCalls, StoreSteps
<1> QED
  BY <1>1, WorkersInvariance, PTL DEF Spec, LeaseHonoured

-----------------------------------------------------------------------------
(* Shutdown with one slot a loop.                                          *)

OneSlot == \A l \in Loops : Concurrency[l] = 1

\* The claim of the attempt is somebody else's or may be recovered at once.
Lost(l, g) == Owns(Claim(l, g)) => exec[g.id].lockedUntil <= now

\* What the loop runs was claimed once and its row has not gone back.
Held(g) == Stored(g.id) /\ g.attempt <= exec[g.id].attempts

\* A claim could not be expired.
Faltered(l) == pc[l] \in {"erring", "gaveup"}

SafeLoop(l) ==
  /\ run[l] \cap done[l] = {}
  /\ \A g \in run[l] : Held(g) /\ (Faltered(l) \/ g \in tracked[l] \/ Lost(l, g))
  /\ pc[l] = "exited" => \A g \in run[l] : Lost(l, g)

ShutdownInv == OneSlot /\ \A l \in Loops : SafeLoop(l)

\* A lost claim is not owned again, a held attempt stays held.
LEMMA LostKept ==
  ASSUME Inv, QueueInv, Calls, NEW l \in Loops, NEW g \in Attempts, Held(g)
  PROVE  Held(g)' /\ (Lost(l, g) => Lost(l, g)')
<1>1. /\ g.id \in Ids /\ g.attempt \in Nat /\ exec[g.id] \in Row
      /\ now \in Nat /\ now' \in Nat /\ now <= now'
  BY NowGrows DEF Attempts, Inv, TypeOK
<1>2. RowStep(g.id)
  BY <1>1, RowsStep
<1>3. exec'[g.id] \in Row
  BY <1>1, CallsKeep DEF Inv, TypeOK
<1>4. Claim(l, g).id = g.id /\ Claim(l, g).worker = WorkerOf[l] /\ Claim(l, g).attempt = g.attempt
  BY DEF Claim
<1>5. CASE exec'[g.id] = exec[g.id]
  BY <1>1, <1>4, <1>5 DEF Held, Lost, Stored, Owns, Claim, Row
<1>6. exec[g.id].status # "none"
  BY DEF Held, Stored
<1>7. CASE /\ exec[g.id].status = "queued" /\ exec'[g.id].status = "running"
           /\ exec'[g.id].attempts = exec[g.id].attempts + 1
  <2>1. g.attempt <= exec[g.id].attempts /\ exec[g.id].attempts \in Nat
    BY <1>1 DEF Held, Row
  <2>2. g.attempt < exec'[g.id].attempts
    BY <1>1, <1>7, <2>1
  <2> QED
    BY <1>1, <1>7, <2>1, <2>2 DEF Held, Lost, Stored, Owns, Claim
<1>8. CASE /\ exec[g.id].status = "running" /\ exec'[g.id].status \in {"queued", "failed", "succeeded"}
           /\ exec'[g.id].attempts = exec[g.id].attempts
  BY <1>1, <1>3, <1>8 DEF Held, Lost, Stored, Owns, Claim, Row
<1>9. CASE /\ exec[g.id].status = "running"
           /\ exec'[g.id].status = "running" /\ exec'[g.id].lockedBy = exec[g.id].lockedBy
           /\ exec'[g.id].attempts = exec[g.id].attempts
           /\ exec'[g.id].lockedUntil <= now
  BY <1>1, <1>3, <1>9 DEF Held, Lost, Stored, Owns, Claim, Row
<1> QED
  BY <1>2, <1>5, <1>6, <1>7, <1>8, <1>9 DEF RowStep

\* With one slot the slot is held by one attempt at a time.
LEMMA SlotOfOne ==
  ASSUME WInv, OneSlot, NEW l \in Loops, NEW g \in run[l] \cup done[l]
  PROVE  run[l] \cup done[l] = {g}
<1>1. PICK B : B = run[l] \cup done[l]
  OBVIOUS
<1>2. IsFiniteSet(B) /\ Cardinality(B) \in Nat /\ Cardinality(B) <= 1 /\ g \in B
  BY <1>1, FS_CardinalityType DEF WInv, SlotsInv, Slots, Busy, OneSlot
<1>3. IsFiniteSet(B \ {g}) /\ Cardinality(B \ {g}) = Cardinality(B) - 1 /\ Cardinality(B \ {g}) \in Nat
  BY <1>2, FS_RemoveElement, FS_CardinalityType
<1>4. B \ {g} = {}
  BY <1>2, <1>3, FS_EmptySet
<1> QED
  BY <1>1, <1>2, <1>4

LEMMA StartFromNone ==
  ASSUME WInv, OneSlot, NEW l \in Loops, Start(l)
  PROVE  tx[l].rows = {} \/ run[l] \cup done[l] = {}
<1>1. PICK R : R = tx[l].rows
  OBVIOUS
<1>2. PICK B : B = run[l] \cup done[l]
  OBVIOUS
<1>3. tx[l].op = "claim" /\ pc[l] = "claiming"
  BY DEF Start, ClaimCommit
<1>4. /\ IsFiniteSet(R) /\ Cardinality(R) <= avail[l] /\ Cardinality(R) \in Nat
      /\ IsFiniteSet(B) /\ avail[l] + Cardinality(B) <= 1 /\ Cardinality(B) \in Nat
      /\ avail[l] \in Nat
  BY <1>1, <1>2, <1>3, FS_CardinalityType
     DEF WInv, WorkerTypes, SlotsInv, Slots, Filling, Busy, OneSlot
<1>5. Cardinality(R) = 0 \/ Cardinality(B) = 0
  BY <1>4
<1> QED
  BY <1>1, <1>2, <1>4, <1>5, FS_EmptySet

\* A step that starts nothing in the loop.
LEMMA SafeLoopKept ==
  ASSUME Inv, WInv, Calls, NEW l \in Loops, SafeLoop(l),
         run'[l] \subseteq run[l], run'[l] \cap done'[l] = {},
         \A g \in run'[l] : g \in tracked[l] => Faltered(l)' \/ g \in tracked'[l] \/ Lost(l, g)',
         Faltered(l) => Faltered(l)' \/ run'[l] = {},
         pc'[l] = "exited" => pc[l] = "exited" \/ run'[l] = {} \/ (tracked[l] = {} /\ ~Faltered(l))
  PROVE  SafeLoop(l)'
<1>1. ASSUME NEW g \in run'[l] PROVE Held(g)' /\ (Lost(l, g) => Lost(l, g)')
  <2>1. g \in run[l] /\ g \in Attempts /\ Held(g)
    BY <1>1 DEF SafeLoop, WInv, WorkerTypes
  <2> QED
    BY <2>1, LostKept DEF WInv
<1>2. \A g \in run'[l] : Faltered(l)' \/ g \in tracked'[l] \/ Lost(l, g)'
  BY <1>1 DEF SafeLoop
<1>3. pc'[l] = "exited" => \A g \in run'[l] : Lost(l, g)'
  BY <1>1 DEF SafeLoop
<1> QED
  BY <1>1, <1>2, <1>3 DEF SafeLoop

LEMMA StartSafe ==
  ASSUME Inv, WInv, Calls, ShutdownInv, NEW l \in Loops, Start(l)
  PROVE  SafeLoop(l)'
<1> DEFINE started == {[id |-> id, attempt |-> exec'[id].attempts] : id \in tx[l].rows}
<1>1. PICK S : S = started
  OBVIOUS
<1>2. /\ done' = done /\ run' = [run EXCEPT ![l] = @ \cup S]
      /\ tracked' = [tracked EXCEPT ![l] = Track(@, S)] /\ Go(l, "lookup") /\ ClaimCommit(l, TRUE)
  BY <1>1 DEF Start
<1>3. /\ run'[l] = run[l] \cup S /\ tracked'[l] = Track(tracked[l], S)
      /\ pc[l] = "claiming" /\ pc'[l] = "lookup"
  BY <1>2 DEF Start, Go, WInv, WorkerTypes
<1>4. CASE tx[l].rows = {}
  <2>1. S = {} /\ run'[l] = run[l] /\ tracked'[l] = tracked[l]
    BY <1>1, <1>3, <1>4 DEF Track
  <2>2. run[l] \cap done[l] = {} /\ SafeLoop(l)
    BY DEF ShutdownInv, SafeLoop
  <2> QED
    BY <1>2, <1>3, <2>1, <2>2, SafeLoopKept DEF Faltered
<1>5. CASE run[l] \cup done[l] = {}
  <2>1. run'[l] = S /\ done'[l] = {} /\ S \subseteq tracked'[l]
    BY <1>2, <1>3, <1>5 DEF Track
  <2>2. ASSUME NEW g \in S PROVE Held(g)'
    <3>1. PICK id \in tx[l].rows : g = [id |-> id, attempt |-> exec'[id].attempts]
      BY <1>1
    <3>2. /\ id \in Ids /\ exec[id].status = "queued" /\ exec[id] \in Row /\ exec[id].job \in Jobs
          /\ tx[l].worker \in Workers /\ tx[l].at \in Nat
          /\ exec'[id] = ClaimedRow(exec[id], tx[l].worker, tx[l].at)
      BY <1>2, <3>1, Constants DEF ClaimCommit, Inv, TypeOK, Tx, LocksInv, RowsInv, Stored
    <3>3. exec'[id].status = "running" /\ exec'[id] \in Row
      BY <3>2, BegunRow DEF Inv
    <3> QED
      BY <3>1, <3>3 DEF Held, Stored, Row
  <2> QED
    BY <1>3, <2>1, <2>2 DEF SafeLoop
<1> QED
  BY <1>4, <1>5, StartFromNone DEF ShutdownInv

LEMMA LoopStepSafe ==
  ASSUME Inv, WInv, Calls, ShutdownInv, NEW l \in Loops, LoopStep(l) \/ StoreError(l)
  PROVE  \A m \in Loops : SafeLoop(m)'
<1> SUFFICES ASSUME NEW m \in Loops PROVE SafeLoop(m)'
  OBVIOUS
<1>1. SafeLoop(m) /\ run[m] \cap done[m] = {}
  BY DEF ShutdownInv, SafeLoop
<1>2. CASE Start(l)
  <2>1. m # l => run'[m] = run[m] /\ done'[m] = done[m] /\ tracked'[m] = tracked[m] /\ pc'[m] = pc[m]
    BY <1>2 DEF Start, Go, WInv, WorkerTypes
  <2> QED
    BY <1>1, <1>2, <2>1, StartSafe, SafeLoopKept DEF Faltered
<1>3. CASE ExpireTracked(l)
  <2>1. run' = run /\ done' = done
    BY <1>3 DEF ExpireTracked
  <2>2. CASE /\ tracked' = tracked /\ pc' = [pc EXCEPT ![l] = "exited"] /\ tracked[l] = {}
             /\ pc[l] = "expiring"
    <3>1. /\ pc'[m] = "exited" => pc[m] = "exited" \/ (tracked[m] = {} /\ ~Faltered(m))
          /\ Faltered(m) => pc'[m] = pc[m]
      BY <1>3, <2>2 DEF WInv, WorkerTypes, Faltered
    <3> QED
      BY <1>1, <2>1, <2>2, <3>1, SafeLoopKept DEF Faltered
  <2>3. CASE tracked' = tracked /\ pc' = [pc EXCEPT ![l] = "gaveup"]
    <3>1. pc'[m] = "exited" => pc[m] = "exited"
      BY <2>3 DEF WInv, WorkerTypes
    <3>2. Faltered(m) => Faltered(m)'
      BY <2>3 DEF WInv, WorkerTypes, Faltered
    <3> QED
      BY <1>1, <2>1, <2>3, <3>1, <3>2, SafeLoopKept
  <2>3a. CASE \E g \in tracked[l] : /\ tracked' = [tracked EXCEPT ![l] = @ \ {g}]
                                   /\ pc' = [pc EXCEPT ![l] = "erring"] /\ UNCHANGED storeVars
    <3>1. m # l => tracked'[m] = tracked[m] /\ pc'[m] = pc[m]
      BY <2>3a DEF WInv, WorkerTypes
    <3>2. pc'[l] = "erring"
      BY <2>3a DEF WInv, WorkerTypes
    <3> QED
      BY <1>1, <2>1, <3>1, <3>2, SafeLoopKept DEF Faltered
  <2>4. ASSUME NEW g \in tracked[l], pc' = pc, tracked' = [tracked EXCEPT ![l] = @ \ {g}],
               ExpireClaim(Claim(l, g), now) \/ (~Owns(Claim(l, g)) /\ UNCHANGED storeVars)
        PROVE  SafeLoop(m)'
    <3>1. g \in Attempts /\ Claim(l, g).id = g.id /\ now \in Nat
      BY DEF Claim, WInv, WorkerTypes, Inv, TypeOK
    <3>2. Lost(l, g)'
      <4>1. CASE ExpireClaim(Claim(l, g), now)
        <5>1. exec' = [exec EXCEPT ![g.id].lockedUntil = now] /\ now' = now /\ exec[g.id] \in Row /\ g.id \in Ids
          BY <3>1, <4>1 DEF ExpireClaim, Attempts, Inv, TypeOK
        <5>2. exec'[g.id].lockedUntil = now
          BY <5>1 DEF Inv, TypeOK, Row
        <5> QED
          BY <3>1, <5>1, <5>2 DEF Lost
      <4>2. CASE ~Owns(Claim(l, g)) /\ UNCHANGED storeVars
        BY <4>2 DEF Lost, Owns, storeVars, Claim
      <4> QED
        BY <2>4, <4>1, <4>2
    <3>3. \A h \in run'[m] : h \in tracked[m] => h \in tracked'[m] \/ Lost(m, h)'
      BY <2>4, <3>2 DEF WInv, WorkerTypes
    <3> QED
      BY <1>1, <2>1, <2>4, <3>3, SafeLoopKept DEF Faltered
  <2> QED
    BY <1>3, <2>2, <2>3, <2>3a, <2>4 DEF ExpireTracked, Go
<1>4. CASE Drained(l)
  <2>1. pc' = [pc EXCEPT ![l] = "exited"] /\ run' = run /\ done' = done /\ tracked' = tracked
    BY <1>4 DEF Drained, Go, slotVars
  <2>2. run[l] = {}
    <3>1. PICK B : B = run[l] \cup done[l]
      OBVIOUS
    <3>2. IsFiniteSet(B) /\ Cardinality(B) = 0
      BY <1>4, <3>1 DEF Drained, Busy, WInv, SlotsInv, Slots
    <3> QED
      BY <3>1, <3>2, FS_EmptySet
  <2>3. /\ pc'[m] = "exited" => pc[m] = "exited" \/ run'[m] = {}
        /\ Faltered(m) => Faltered(m)' \/ run'[m] = {}
    BY <2>1, <2>2 DEF WInv, WorkerTypes, Faltered
  <2> QED
    BY <1>1, <2>1, <2>3, SafeLoopKept
<1>5. CASE \/ Top(l) \/ Recover(l) \/ Recovered(l) \/ ClaimBatch(l) \/ Lookup(l) \/ Wake(l) \/ Quit(l)
           \/ CallCancelled(l) \/ GiveUpWaiting(l) \/ StoreError(l)
  <2>1. run' = run /\ done' = done /\ tracked' = tracked
    BY <1>5 DEF Top, Recover, Recovered, ClaimBatch, Lookup, Wake, Quit, CallCancelled, GiveUpWaiting,
                StoreError, slotVars
  <2>2. PICK p \in Points \ {"exited"} : Go(l, p)
    BY <1>5 DEF Top, Recover, Recovered, ClaimBatch, Lookup, Wake, Quit, CallCancelled, GiveUpWaiting,
                StoreError, Leave, Points
  <2>3. ~Faltered(l)
    BY <1>5 DEF Top, Recover, Recovered, ClaimBatch, Lookup, Wake, Quit, CallCancelled, GiveUpWaiting,
                StoreError, Faltered
  <2>4. (pc'[m] = "exited" => pc[m] = "exited") /\ (Faltered(m) => Faltered(m)')
    BY <2>2, <2>3 DEF Go, WInv, WorkerTypes, Faltered
  <2> QED
    BY <1>1, <2>1, <2>4, SafeLoopKept
<1> QED
  BY <1>2, <1>3, <1>4, <1>5 DEF LoopStep

LEMMA NextSafe == Inv /\ WInv /\ ShutdownInv /\ [Next]_vars => ShutdownInv'
<1> SUFFICES ASSUME Inv, WInv, ShutdownInv, [Next]_vars PROVE ShutdownInv'
  OBVIOUS
<1>1. Calls /\ OneSlot
  BY StepCalls DEF ShutdownInv
<1>2. SUFFICES ASSUME NEW m \in Loops, \A l \in Loops : ~LoopStep(l) /\ ~StoreError(l) PROVE SafeLoop(m)'
  BY <1>1, LoopStepSafe DEF ShutdownInv, OneSlot
<1>3. SafeLoop(m) /\ run[m] \cap done[m] = {}
  BY DEF ShutdownInv, SafeLoop
<1>4. ASSUME NEW l \in Loops, NEW g \in run[l], Settle(l, g) PROVE SafeLoop(m)'
  <2>1. /\ run' = [run EXCEPT ![l] = @ \ {g}] /\ done' = [done EXCEPT ![l] = @ \cup {g}]
        /\ tracked' = tracked /\ pc' = pc
    BY <1>4 DEF Settle, loopVars
  <2>2. run'[m] \subseteq run[m] /\ run'[m] \cap done'[m] = {}
    BY <1>3, <2>1 DEF WInv, WorkerTypes
  <2> QED
    BY <1>1, <1>3, <2>1, <2>2, SafeLoopKept DEF Faltered
<1>5. ASSUME NEW l \in Loops, NEW g \in done[l], Release(l, g) PROVE SafeLoop(m)'
  <2>1. /\ run' = run /\ pc' = pc /\ done' = [done EXCEPT ![l] = @ \ {g}]
        /\ tracked' = tracked \/ tracked' = [tracked EXCEPT ![l] = Untrack(@, g)]
    BY <1>5 DEF Release, loopVars
  <2>2. run[l] = {}
    BY <1>1, SlotOfOne DEF ShutdownInv, SafeLoop
  <2>3. run'[m] \cap done'[m] = {} /\ \A h \in run'[m] : h \in tracked[m] => h \in tracked'[m]
    BY <1>3, <2>1, <2>2 DEF WInv, WorkerTypes
  <2> QED
    BY <1>1, <1>3, <2>1, <2>3, SafeLoopKept DEF Faltered
<1>6. ASSUME NEW w \in Workers, Die(w) PROVE SafeLoop(m)'
  <2>1. CASE WorkerOf[m] = w
    <3>1. run'[m] = {} /\ done'[m] = {}
      BY <1>6, <2>1 DEF Die
    <3> QED
      BY <3>1 DEF SafeLoop
  <2>2. CASE WorkerOf[m] # w
    <3>1. run'[m] = run[m] /\ done'[m] = done[m] /\ tracked'[m] = tracked[m] /\ pc'[m] = pc[m]
      BY <1>6, <2>2 DEF Die
    <3> QED
      BY <1>1, <1>3, <3>1, SafeLoopKept DEF Faltered
  <2> QED
    BY <2>1, <2>2
<1>7. CASE UNCHANGED <<run, done, tracked, pc>>
  BY <1>1, <1>3, <1>7, SafeLoopKept DEF Faltered
<1>8. \/ UNCHANGED <<run, done, tracked, pc>>
      \/ \E l \in Loops : \/ \E g \in run[l] : Settle(l, g)
                          \/ \E g \in done[l] : Release(l, g)
      \/ \E w \in Workers : Die(w)
  BY <1>2 DEF Next, HandlerStep, HandlerSucceeds, HandlerFails, HandlerMissing, ReportFails, HandlerHangs,
              Stop, Fanout, ListenerFails, Request, Commit, Abandon, PeerReports, Clock, vars, workerVars,
              loopVars, slotVars
<1> QED
  BY <1>4, <1>5, <1>6, <1>7, <1>8

\* With one slot a queue, a loop that gave up on its handlers leaves no claim
\* of theirs with a lease to run (runtime.go, shutdownActiveExecutions): the
\* map keyed by the execution cannot lose an attempt to the release of another.
\* With two slots it can; the run JobWorkerShutdown shows how.
THEOREM OneSlotShutdown == OneSlot /\ Spec => []ShutdownExpiresLeases
<1>1. OneSlot /\ Init => Inv /\ WInv /\ ShutdownInv
  BY InitWorkers DEF Init, ShutdownInv, SafeLoop
<1>2. Inv /\ WInv /\ ShutdownInv => ShutdownExpiresLeases
  BY DEF ShutdownInv, SafeLoop, Lost, ShutdownExpiresLeases
<1> QED
  BY <1>1, <1>2, NextWorkers, NextSafe, PTL DEF Spec
=============================================================================
