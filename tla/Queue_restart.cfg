CONSTANTS
  api = api
  worker = worker
  h1 = h1
  h2 = h2
  w1 = w1
  Procs = {worker}
  Tasks = {w1}
  ProcOf <- WorkerOnly
  Testers = {}
  Jobs = {d1}
  Tests = {}
  MaxAttempts = 3
  DefaultMaxAttempts = 1
  LeaseTicks = 1
  MaxDelay = 2
  RetryAfters <- LongRetryAfter
  MaxFaults = 1
  NoTask = NoTask
  NoRow = NoRow
  d1 = d1
  d2 = d2
  x1 = x1
SPECIFICATION FairSpec
CHECK_DEADLOCK FALSE
PROPERTIES
  EveryJobSettles
