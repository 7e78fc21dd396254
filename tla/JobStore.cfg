SPECIFICATION StoreSpec
CONSTANTS
  None = None
  j1 = j1  a1 = a1  q1 = q1  k1 = k1
  w1 = w1  w2 = w2  s1 = s1  s2 = s2
  Ids = {1, 2}
  Jobs = {j1}
  Apps = {a1}
  AppOf <- MCAppOf
  Queues = {q1}
  Keys = {k1}
  Priorities = {0}
  JobSpecs <- MCJobSpecs
  Workers = {w1, w2}
  Sessions = {s1, s2}
  RetryDelays = {1}
  Limits = {1, 2}
  Lag = 0
  Horizon = 1
CONSTRAINT OneSwitchOff
SYMMETRY Symmetry
INVARIANTS TypeOK OneWorkerPerAttempt OneOutcomePerAttempt SuccessIsFinal AttemptsWithinBudget OneExecutionPerKey EarlierAttemptsResolved
PROPERTIES LeaseHonoured ImplementsQueue
