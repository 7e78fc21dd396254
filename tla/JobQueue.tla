------------------------------ MODULE JobQueue ------------------------------
(***************************************************************************)
(* What the job queue promises, without transactions, locks, leases, clocks*)
(* or crashes: an execution is submitted once per job and key, is attempted*)
(* one attempt at a time and within its budget, ends at most once, and is  *)
(* forgotten only after it ended and only if it had no key.  Several       *)
(* executions may move in one step (a claimed batch, a recovered batch).   *)
(***************************************************************************)
EXTENDS Naturals

CONSTANTS Ids, Jobs, Keys, None,
  Budgets    \* how many attempts a job may allow

VARIABLES
  phase,    \* phase[id]: where the execution is in its life
  work,     \* work[id]: the job and key it was submitted for
  attempt,  \* attempt[id]: how many attempts were started
  budget    \* budget[id]: how many attempts it may have

queueVars == <<phase, work, attempt, budget>>

Over == {"succeeded", "failed", "cancelled"}

QueueInit ==
  /\ phase = [id \in Ids |-> "none"]
  /\ work = [id \in Ids |-> [job |-> None, key |-> None]]
  /\ attempt = [id \in Ids |-> 0]
  /\ budget = [id \in Ids |-> 0]

\* A keyed submission names work nobody has submitted before.
Submit(id, j, k, b) ==
  /\ phase[id] = "none"
  /\ k # None => \A i \in Ids : work[i] # [job |-> j, key |-> k]
  /\ phase' = [phase EXCEPT ![id] = "queued"]
  /\ work' = [work EXCEPT ![id] = [job |-> j, key |-> k]]
  /\ budget' = [budget EXCEPT ![id] = b]
  /\ UNCHANGED attempt

Begin(S) ==
  /\ \A id \in S : phase[id] = "queued" /\ attempt[id] < budget[id]
  /\ phase' = [id \in Ids |-> IF id \in S THEN "running" ELSE phase[id]]
  /\ attempt' = [id \in Ids |-> IF id \in S THEN attempt[id] + 1 ELSE attempt[id]]
  /\ UNCHANGED <<work, budget>>

\* An attempt succeeds, fails for good, or fails and is queued again if the
\* budget allows another one.
End(S) ==
  /\ \A id \in S : /\ phase[id] = "running"
                   /\ phase'[id] \in {"succeeded", "failed", "queued"}
                   /\ phase'[id] = "queued" => attempt[id] < budget[id]
  /\ phase' = [id \in Ids |-> IF id \in S THEN phase'[id] ELSE phase[id]]
  /\ UNCHANGED <<work, attempt, budget>>

Withdraw(id) ==
  /\ phase[id] = "queued"
  /\ phase' = [phase EXCEPT ![id] = "cancelled"]
  /\ UNCHANGED <<work, attempt, budget>>

Forget(S) ==
  /\ \A id \in S : phase[id] \in Over /\ work[id].key = None
  /\ phase' = [id \in Ids |-> IF id \in S THEN "pruned" ELSE phase[id]]
  /\ work' = [id \in Ids |-> IF id \in S THEN [job |-> None, key |-> None] ELSE work[id]]
  /\ attempt' = [id \in Ids |-> IF id \in S THEN 0 ELSE attempt[id]]
  /\ budget' = [id \in Ids |-> IF id \in S THEN 0 ELSE budget[id]]

QueueNext ==
  \/ \E id \in Ids, j \in Jobs, k \in Keys \cup {None}, b \in Budgets : Submit(id, j, k, b)
  \/ \E S \in SUBSET Ids : Begin(S) \/ End(S) \/ Forget(S)
  \/ \E id \in Ids : Withdraw(id)

QueueSpec == QueueInit /\ [][QueueNext]_queueVars
=============================================================================
