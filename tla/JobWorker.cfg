SPECIFICATION Spec
CONSTANTS
  None = None
  j1 = j1  j2 = j2  a1 = a1  q1 = q1  w1 = w1  w2 = w2  l1 = l1  c1 = c1
  Ids = {1}
  Jobs = {j1, j2}
  Apps = {a1}
  AppOf <- MCAppOf
  Queues = {q1}
  Keys = {}
  Priorities = {0}
  JobSpecs <- LongLease
  Workers = {w1, w2}
  Sessions = {l1, c1}
  RetryDelays = {1}
  Limits = {1}
  Lag = 0
  Horizon = 2
  Loops = {l1}
  Clients = {c1}
  Peers = {w2}
  Listeners = {w1}
  WorkerOf <- MCWorkerOf
  LoopQueue <- MCLoopQueue
  Concurrency <- One
  Handlers = {j1}
  Poll = 1
  Grace = 1
INVARIANTS WorkerTypeOK ShutdownExpiresLeases
