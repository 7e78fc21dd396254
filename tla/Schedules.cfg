SPECIFICATION Spec
CONSTANTS
  Ids = {1, 2}
  x1 = x1
  x2 = x2
  Sessions = {x1, x2}
  j1 = j1
  j2 = j2
  Jobs = {j1, j2}
  a1 = a1
  Apps = {a1}
  ScheduleApp <- MCScheduleApp
  JobApp <- MCJobApp
  Files <- MCFiles
  Limit = 1
  Horizon = 2
  Lag = 1
INVARIANTS TypeOK OneExecutionPerOccurrence CatchUpRunsOnce NoOccurrenceLost
PROPERTY DueAdvances
