----------------------------- MODULE JobWorker ------------------------------
(***************************************************************************)
(* The worker process of internal/jobs/runtime: one loop per queue that    *)
(* recovers, claims and starts handlers in slots, sleeps until a timer, a  *)
(* free slot or a notification wakes it, and on shutdown drains for a while*)
(* and then expires the claims it still tracks.  Every step on the database*)
(* is an action of JobStore.                                               *)
(***************************************************************************)
EXTENDS JobStore

CONSTANTS
  Loops,        \* queue loops, each with a database session of its own
  Clients,      \* sessions of the other processes
  Peers,        \* worker ids of the other processes
  Listeners,    \* processes started without --poll-only
  WorkerOf,     \* WorkerOf[l]: the process the loop belongs to
  LoopQueue,    \* LoopQueue[l]: the queue it serves
  Concurrency,  \* Concurrency[l]: its slots
  Handlers,     \* jobs with a compiled handler
  Poll,         \* the fallback poll interval
  Grace         \* the shutdown timeout

ASSUME WorkerConstants ==
  /\ Loops \subseteq Sessions /\ Clients \subseteq Sessions \ Loops
  /\ WorkerOf \in [Loops -> Workers \ Peers] /\ Peers \subseteq Workers
  /\ Listeners \subseteq Workers
  /\ LoopQueue \in [Loops -> Queues]
  /\ Concurrency \in [Loops -> Nat \ {0}]
  /\ Handlers \subseteq Jobs
  /\ Poll \in Nat \ {0} /\ Grace \in Nat \ {0}

VARIABLES
  pc,         \* pc[l]: where the loop stands
  at,         \* at[l]: options.Now() read at the top of the loop
  avail,      \* avail[l]: the free slots counted at the top of the loop
  deadline,   \* deadline[l]: when the loop's timer fires
  run,        \* run[l]: the attempts whose handler runs
  done,       \* done[l]: the attempts reported whose slot is not released yet
  hung,       \* hung[l]: the running attempts whose handler will never return
  tracked,    \* tracked[l]: activeExecutions, the attempt kept per execution id
  failed,     \* failed[l]: errs holds a store error
  slotFree,   \* slotFree[l]: slotReleased holds a signal
  wake,       \* wake[l]: the loop's wakeup channel holds a signal
  stopped,    \* the processes whose run context is cancelled
  listening,  \* the processes whose notification listener works
  notices     \* notices[w]: queues notified and not yet fanned out

loopVars == <<pc, at, avail, deadline>>
slotVars == <<run, done, hung, tracked, failed, slotFree>>
wakeVars == <<wake, listening, notices>>
workerVars == <<loopVars, slotVars, wakeVars, stopped>>
vars == <<storeVars, workerVars>>

Attempts == [id : Ids, attempt : Nat]
Points == {"top", "recover", "recovering", "claim", "claiming", "lookup", "wait",
           "draining", "expiring", "erring", "exited", "gaveup"}

WorkerTypes ==
  /\ pc \in [Loops -> Points]
  /\ at \in [Loops -> Nat] /\ avail \in [Loops -> Nat] /\ deadline \in [Loops -> Nat]
  /\ run \in [Loops -> SUBSET Attempts] /\ done \in [Loops -> SUBSET Attempts]
  /\ hung \in [Loops -> SUBSET Attempts] /\ tracked \in [Loops -> SUBSET Attempts]
  /\ failed \in [Loops -> BOOLEAN] /\ slotFree \in [Loops -> BOOLEAN]
  /\ wake \in [Loops -> BOOLEAN]
  /\ stopped \subseteq Workers /\ listening \subseteq Workers
  /\ notices \in [Workers -> SUBSET Queues]

WorkerTypeOK == TypeOK /\ WorkerTypes

Init ==
  /\ StoreInit
  /\ pc = [l \in Loops |-> "top"]
  /\ at = [l \in Loops |-> 0]
  /\ avail = [l \in Loops |-> 0]
  /\ deadline = [l \in Loops |-> 0]
  /\ run = [l \in Loops |-> {}] /\ done = [l \in Loops |-> {}]
  /\ hung = [l \in Loops |-> {}] /\ tracked = [l \in Loops |-> {}]
  /\ failed = [l \in Loops |-> FALSE] /\ slotFree = [l \in Loops |-> FALSE]
  /\ wake = [l \in Loops |-> FALSE]
  /\ stopped = {}
  /\ listening = Listeners
  /\ notices = [w \in Workers |-> {}]

-----------------------------------------------------------------------------

Up(l) == WorkerOf[l] \in alive
Go(l, point) == pc' = [pc EXCEPT ![l] = point]
Claim(l, g) == [id |-> g.id, worker |-> WorkerOf[l], attempt |-> g.attempt]

\* len(slots): a slot is held until the goroutine's deferred release.
\* Mutant: tracked executions are counted beside their handlers.
BusyTracked(l) == Cardinality(run[l] \cup done[l]) + Cardinality(tracked[l])

Busy(l) == Cardinality(run[l] \cup done[l])

\* pg_notify is delivered, once the transaction commits, to who listens.
NotifyQueues(qs) ==
  notices' = [w \in Workers |-> IF w \in listening \cap alive THEN notices[w] \cup qs
                                ELSE notices[w]]

Requeued == {id \in Ids : exec[id].status # "queued" /\ exec'[id].status = "queued"}
NotifyRequeued == NotifyQueues({exec'[id].queue : id \in Requeued})
                  /\ UNCHANGED <<wake, listening>>

-----------------------------------------------------------------------------
(* runQueueLoop.                                                           *)

Top(l) ==
  /\ pc[l] = "top" /\ Up(l)
  /\ avail' = [avail EXCEPT ![l] = Concurrency[l] - Busy(l)]
  /\ \/ /\ Busy(l) < Concurrency[l]
        /\ at' = [at EXCEPT ![l] = now]
        /\ Go(l, "recover")
        /\ UNCHANGED deadline
     \/ /\ Busy(l) >= Concurrency[l]
        /\ deadline' = [deadline EXCEPT ![l] = After(now, Poll)]
        /\ Go(l, "wait")
        /\ UNCHANGED at
  /\ UNCHANGED <<storeVars, slotVars, wakeVars, stopped>>

\* Mutant: the loop leaves expired claims alone.
RecoverNothing(l) ==
  /\ pc[l] = "recover" /\ Up(l) /\ WorkerOf[l] \notin stopped
  /\ Go(l, "claim")
  /\ UNCHANGED <<storeVars, at, avail, deadline, slotVars, wakeVars, stopped>>

Recover(l) ==
  /\ pc[l] = "recover" /\ Up(l) /\ WorkerOf[l] \notin stopped
  /\ \/ RecoverSelect(l, WorkerOf[l], at[l]) /\ Go(l, "recovering")
     \/ /\ \A id \in Expired(at[l]) : ~RowFree(id)
        /\ Go(l, "claim") /\ UNCHANGED storeVars
  /\ UNCHANGED <<at, avail, deadline, slotVars, wakeVars, stopped>>

Recovered(l) ==
  /\ pc[l] = "recovering" /\ Up(l)
  /\ RecoverCommit(l)
  /\ NotifyRequeued
  /\ Go(l, "claim")
  /\ UNCHANGED <<at, avail, deadline, slotVars, stopped>>

ClaimBatch(l) ==
  /\ pc[l] = "claim" /\ Up(l) /\ WorkerOf[l] \notin stopped
  /\ \/ ClaimSelect(l, WorkerOf[l], LoopQueue[l], avail[l], at[l]) /\ Go(l, "claiming")
     \/ /\ Picked(LoopQueue[l], at[l], avail[l]) = {}
        /\ Go(l, "lookup") /\ UNCHANGED storeVars
  /\ UNCHANGED <<at, avail, deadline, slotVars, wakeVars, stopped>>

\* active.add overwrites what the map holds under the same id.
Track(kept, started) ==
  {g \in kept : \A h \in started : h.id # g.id} \cup started

Start(l) ==
  /\ pc[l] = "claiming" /\ Up(l)
  /\ ClaimCommit(l, TRUE)
  /\ LET started == {[id |-> id, attempt |-> exec'[id].attempts] : id \in tx[l].rows} IN
       /\ run' = [run EXCEPT ![l] = @ \cup started]
       /\ tracked' = [tracked EXCEPT ![l] = Track(@, started)]
  /\ Go(l, "lookup")
  /\ UNCHANGED <<at, avail, deadline, done, hung, failed, slotFree, wakeVars, stopped>>

\* NextRunAfter looks at future rows only; a row due already is not a reason
\* to wake up again.
Future(l) == {exec[id].runAfter : id \in {i \in Ids :
                /\ exec[i].status = "queued"
                /\ exec[i].queue = LoopQueue[l]
                /\ exec[i].runAfter > now}}

\* Mutant: without a future row the loop sets no timer.
LookupWithoutPoll(l) ==
  /\ pc[l] = "lookup" /\ Up(l) /\ WorkerOf[l] \notin stopped
  /\ \E t \in Future(l) \cup {Horizon + 1} :
       /\ \A u \in Future(l) \cup {Horizon + 1} : t <= u
       /\ deadline' = [deadline EXCEPT ![l] = t]
  /\ Go(l, "wait")
  /\ UNCHANGED <<storeVars, at, avail, slotVars, wakeVars, stopped>>

Lookup(l) ==
  /\ pc[l] = "lookup" /\ Up(l) /\ WorkerOf[l] \notin stopped
  /\ \E t \in Future(l) \cup {After(now, Poll)} :
       /\ \A u \in Future(l) \cup {After(now, Poll)} : t <= u
       /\ deadline' = [deadline EXCEPT ![l] = t]
  /\ Go(l, "wait")
  /\ UNCHANGED <<storeVars, at, avail, slotVars, wakeVars, stopped>>

\* The loop ends: its own context and, through runContinuous, its siblings'.
Leave(l) ==
  /\ Go(l, "draining")
  /\ stopped' = stopped \cup {WorkerOf[l]}
  /\ deadline' = [deadline EXCEPT ![l] = After(now, Grace)]

\* The select at the foot of the loop: the timer, a free slot, a notification.
Wake(l) ==
  /\ pc[l] = "wait" /\ Up(l)
  /\ \/ deadline[l] <= now /\ UNCHANGED <<slotFree, wake>>
     \/ slotFree[l] /\ slotFree' = [slotFree EXCEPT ![l] = FALSE] /\ UNCHANGED wake
     \/ wake[l] /\ wake' = [wake EXCEPT ![l] = FALSE] /\ UNCHANGED slotFree
  /\ Go(l, "top")
  /\ UNCHANGED <<storeVars, at, avail, deadline, run, done, hung, tracked, failed,
                 listening, notices, stopped>>

\* Its other cases: a goroutine's store error, or the cancelled context.
Quit(l) ==
  /\ pc[l] = "wait" /\ Up(l)
  /\ \/ failed[l] /\ failed' = [failed EXCEPT ![l] = FALSE]
     \/ WorkerOf[l] \in stopped /\ UNCHANGED failed
  /\ Leave(l)
  /\ UNCHANGED <<storeVars, at, avail, run, done, hung, tracked, slotFree, wakeVars>>

\* No transaction begins under a cancelled context.
CallCancelled(l) ==
  /\ pc[l] \in {"recover", "claim", "lookup"} /\ Up(l)
  /\ WorkerOf[l] \in stopped
  /\ Leave(l)
  /\ UNCHANGED <<storeVars, at, avail, slotVars, wakeVars>>

\* A store call returns another error: a lost connection before the commit, or
\* a commit the loop does not learn of.
StoreError(l) ==
  /\ Up(l)
  /\ \/ pc[l] \in {"recovering", "claiming"} /\ Rollback(l)
     \/ pc[l] = "claiming" /\ ClaimCommit(l, FALSE)
     \/ pc[l] = "recovering" /\ RecoverCommit(l)
     \/ pc[l] \in {"recover", "claim", "lookup"} /\ UNCHANGED storeVars
  /\ NotifyRequeued
  /\ Leave(l)
  /\ UNCHANGED <<at, avail, slotVars>>

-----------------------------------------------------------------------------
(* runExecution and the deferred release of its slot.                      *)

Settle(l, g) ==
  /\ run' = [run EXCEPT ![l] = @ \ {g}]
  /\ done' = [done EXCEPT ![l] = @ \cup {g}]
  /\ UNCHANGED <<loopVars, hung, tracked, slotFree, stopped>>

HandlerSucceeds(l, g) ==
  /\ g \notin hung[l]
  /\ exec[g.id].job \in Handlers
  /\ Complete(Claim(l, g), now)
  /\ Settle(l, g)
  /\ UNCHANGED <<failed, wakeVars>>

\* An error, a panic, a cancelled context or a passed deadline.
HandlerFails(l, g) ==
  /\ g \notin hung[l]
  /\ exec[g.id].job \in Handlers
  /\ \E d \in RetryDelays : Fail(Claim(l, g), now, d)
  /\ NotifyRequeued
  /\ Settle(l, g)
  /\ UNCHANGED failed

HandlerMissing(l, g) ==
  /\ exec[g.id].job \notin Handlers
  /\ FailFinal(Claim(l, g), now)
  /\ Settle(l, g)
  /\ UNCHANGED <<failed, wakeVars>>

\* The report returns another error: nothing was recorded, or it was committed
\* and the goroutine does not learn of it.
ReportFails(l, g) ==
  /\ g \notin hung[l]
  /\ \/ ReportError(Claim(l, g))
     \/ /\ exec[g.id].job \in Handlers
        /\ Complete(Claim(l, g), now) \/ \E d \in RetryDelays : Fail(Claim(l, g), now, d)
     \/ exec[g.id].job \notin Handlers /\ FailFinal(Claim(l, g), now)
  /\ NotifyRequeued
  /\ failed' = [failed EXCEPT ![l] = TRUE]
  /\ Settle(l, g)

HandlerHangs(l, g) ==
  /\ g \notin hung[l]
  /\ exec[g.id].job \in Handlers
  /\ hung' = [hung EXCEPT ![l] = @ \cup {g}]
  /\ UNCHANGED <<storeVars, loopVars, run, done, tracked, failed, slotFree, wakeVars, stopped>>

\* active.remove(execution.ID), <-slots, signal(slotReleased): the map is keyed
\* by the execution, not by the attempt.  A snapshot that was taken stays.
Expiring(l) == pc[l] \in {"expiring", "erring"}
Untrack(kept, g) == {h \in kept : h.id # g.id}

Release(l, g) ==
  /\ g \in done[l] /\ Up(l)
  /\ done' = [done EXCEPT ![l] = @ \ {g}]
  /\ tracked' = IF Expiring(l) THEN tracked
                ELSE [tracked EXCEPT ![l] = Untrack(@, g)]
  /\ slotFree' = [slotFree EXCEPT ![l] = TRUE]
  /\ UNCHANGED <<storeVars, loopVars, run, hung, failed, wakeVars, stopped>>

-----------------------------------------------------------------------------
(* Shutdown.                                                               *)

Stop(w) ==
  /\ w \in alive \ (stopped \cup Peers)
  /\ stopped' = stopped \cup {w}
  /\ UNCHANGED <<storeVars, loopVars, slotVars, wakeVars>>

\* inFlight.Wait returned before the grace period was over.
Drained(l) ==
  /\ pc[l] = "draining" /\ Up(l)
  /\ Busy(l) = 0
  /\ Go(l, "exited")
  /\ UNCHANGED <<storeVars, at, avail, deadline, slotVars, wakeVars, stopped>>

\* Mutants: the loop returns without expiring claims; it waits for its handlers.
GiveUpSilently(l) ==
  /\ pc[l] = "draining" /\ Up(l)
  /\ Busy(l) > 0 /\ deadline[l] <= now
  /\ Go(l, "exited")
  /\ UNCHANGED <<storeVars, at, avail, deadline, slotVars, wakeVars, stopped>>
WaitForHandlers(l) ==
  /\ pc[l] = "draining" /\ Up(l)
  /\ Busy(l) = 0 /\ deadline[l] <= now
  /\ Go(l, "expiring")
  /\ UNCHANGED <<storeVars, at, avail, deadline, slotVars, wakeVars, stopped>>

\* active.snapshot after the grace period.
GiveUpWaiting(l) ==
  /\ pc[l] = "draining" /\ Up(l)
  /\ Busy(l) > 0 /\ deadline[l] <= now
  /\ Go(l, "expiring")
  /\ UNCHANGED <<storeVars, at, avail, deadline, slotVars, wakeVars, stopped>>

\* Every claim of the snapshot is expired or found lost; an error of the store
\* is logged, and the loop goes on with the next claim.
ExpireTracked(l) ==
  /\ Expiring(l) /\ Up(l)
  /\ \/ \E g \in tracked[l] :
          /\ \/ /\ ExpireClaim(Claim(l, g), now)
                /\ NotifyQueues({LoopQueue[l]}) /\ UNCHANGED <<wake, listening, pc>>
             \/ /\ ~Owns(Claim(l, g)) /\ UNCHANGED <<storeVars, wakeVars, pc>>
             \/ /\ Go(l, "erring") /\ UNCHANGED <<storeVars, wakeVars>>
          /\ tracked' = [tracked EXCEPT ![l] = @ \ {g}]
     \/ /\ tracked[l] = {} /\ Go(l, IF pc[l] = "expiring" THEN "exited" ELSE "gaveup")
        /\ UNCHANGED <<storeVars, tracked, wakeVars>>
  /\ UNCHANGED <<at, avail, deadline, run, done, hung, failed, slotFree, stopped>>

Ended(l) == pc[l] \in {"exited", "gaveup"}

\* The process is gone: killed, or every loop has ended and Run returned.
Die(w) ==
  /\ Crash(w)
  /\ LET mine == {l \in Loops : WorkerOf[l] = w}
         Gone(f) == [l \in Loops |-> IF l \in mine THEN {} ELSE f[l]]
     IN /\ run' = Gone(run) /\ done' = Gone(done)
        /\ hung' = Gone(hung) /\ tracked' = Gone(tracked)
        /\ pc' = [l \in Loops |-> IF l \in mine THEN "exited" ELSE pc[l]]
  /\ listening' = listening \ {w}
  /\ notices' = [notices EXCEPT ![w] = {}]
  /\ UNCHANGED <<at, avail, deadline, failed, slotFree, wake, stopped>>

-----------------------------------------------------------------------------
(* Notifications, clients, time.                                           *)

\* runNotificationFanout wakes the loop of the queue; its channel holds one.
Fanout(w) ==
  /\ w \in listening \cap alive
  /\ \E q \in notices[w] :
       /\ notices' = [notices EXCEPT ![w] = @ \ {q}]
       /\ wake' = [l \in Loops |-> wake[l] \/ (WorkerOf[l] = w /\ LoopQueue[l] = q)]
  /\ UNCHANGED <<storeVars, loopVars, slotVars, listening, stopped>>

\* The listener's connection fails: notifications are lost, the channels are
\* closed, which wakes every loop once, and the process only polls from now on.
ListenerFails(w) ==
  /\ w \in listening \cap alive
  /\ listening' = listening \ {w}
  /\ notices' = [notices EXCEPT ![w] = {}]
  /\ wake' = [l \in Loops |-> wake[l] \/ WorkerOf[l] = w]
  /\ UNCHANGED <<storeVars, loopVars, slotVars, stopped>>

\* Other processes use the store at any time: requests enqueue, peers (workers
\* whose loops are not modelled) recover, claim and report.
Request(s) ==
  /\ \/ \E j \in Jobs, k \in Keys \cup {None}, p \in Priorities, t \in {now, After(now, 1)} :
          EnqueueFind(s, j, k, p, t)
     \/ \E w \in Peers, q \in Queues, n \in Limits : ClaimSelect(s, w, q, n, now)
     \/ \E w \in Peers : RecoverSelect(s, w, now)
  /\ UNCHANGED workerVars

Commit(s) ==
  /\ EnqueueInsert(s) \/ ClaimCommit(s, TRUE) \/ RecoverCommit(s)
  /\ NotifyRequeued
  /\ UNCHANGED <<loopVars, slotVars, stopped>>

Abandon(s) == Rollback(s) /\ UNCHANGED workerVars

PeerReports(c) ==
  /\ c.worker \in Peers
  /\ Complete(c, now) \/ \E d \in RetryDelays : Fail(c, now, d)
  /\ NotifyRequeued
  /\ UNCHANGED <<loopVars, slotVars, stopped>>

Clock == Tick /\ UNCHANGED workerVars

LoopStep(l) ==
  \/ Top(l) \/ Recover(l) \/ Recovered(l) \/ ClaimBatch(l) \/ Start(l) \/ Lookup(l)
  \/ Wake(l) \/ Quit(l) \/ CallCancelled(l) \/ Drained(l) \/ GiveUpWaiting(l) \/ ExpireTracked(l)

HandlerStep(l) ==
  \E g \in run[l] : \/ HandlerSucceeds(l, g) \/ HandlerFails(l, g)
                    \/ HandlerMissing(l, g) \/ ReportFails(l, g)

Next ==
  \/ \E l \in Loops : \/ LoopStep(l) \/ StoreError(l) \/ HandlerStep(l)
                      \/ \E g \in run[l] : HandlerHangs(l, g)
                      \/ \E g \in done[l] : Release(l, g)
  \/ \E w \in Workers : Stop(w) \/ Die(w) \/ Fanout(w) \/ ListenerFails(w)
  \/ \E s \in Clients : Request(s) \/ Commit(s) \/ Abandon(s)
  \/ \E c \in claims : PeerReports(c)
  \/ Clock

\* Loops, releases, fan-out and the clock go on; a handler that has not hung
\* returns; the transactions of other processes do not all roll back forever.
\* select picks uniformly among its ready cases, so quitting is not starved.
\* Errors, signals, crashes and listener failures need never happen.
Fairness ==
  /\ \A l \in Loops : WF_vars(LoopStep(l)) /\ WF_vars(HandlerStep(l)) /\ SF_vars(Quit(l))
                      /\ WF_vars(\E g \in done[l] : Release(l, g))
  /\ \A w \in Workers : WF_vars(Fanout(w))
  /\ \A s \in Clients : \A op \in {"claim", "recover"} : SF_vars(tx[s].op = op /\ Commit(s))
  /\ WF_vars(Clock)

Spec == Init /\ [][Next]_vars /\ Fairness

-----------------------------------------------------------------------------

\* A loop that gave up on handlers at shutdown leaves none of their claims with
\* a lease to run: another worker can recover every one of them at once.
ShutdownExpiresLeases ==
  \A l \in Loops : pc[l] = "exited" =>
    \A g \in run[l] : Owns(Claim(l, g)) => exec[g.id].lockedUntil <= now

\* Every slot is held by a handler that ignores its deadline.
Stalled(l) == Cardinality(hung[l]) = Concurrency[l]
Serves(l, id) == LoopQueue[l] = exec[id].queue
Working(l) == Up(l) /\ WorkerOf[l] \notin stopped /\ ~Stalled(l)

\* A queued execution is claimed or cancelled as long as one loop of its queue
\* keeps working, with notifications lost, rows skipped because they were
\* locked, and other workers dying half-way.
QueuedIsTaken ==
  \A id \in Ids : (exec[id].status = "queued") ~>
    (exec[id].status # "queued" \/ ~\E l \in Loops : Working(l) /\ Serves(l, id))

\* A running attempt ends, whatever happens to the worker that claimed it, as
\* long as one loop of any queue keeps working.
RunningEnds ==
  \A id \in Ids : (exec[id].status = "running") ~>
    (exec[id].status # "running" \/ ~\E l \in Loops : Working(l))

\* A stopped process comes to an end in every loop, hung handlers or not.
ShutdownEnds ==
  \A l \in Loops : (WorkerOf[l] \in stopped) ~> (Ended(l) \/ ~Up(l))
=============================================================================
