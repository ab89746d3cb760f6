CONSTANTS
  api = api
  worker = worker
  h1 = h1
  h2 = h2
  w1 = w1
  Procs = {api, worker}
  Tasks = {h1, w1}
  ProcOf <- TwoProcesses
  Testers = {h1}
  Jobs = {d1}
  Tests = {x1}
  MaxAttempts = 2
  DefaultMaxAttempts = 2
  LeaseTicks = 1
  MaxDelay = 2
  RetryAfters <- PastRetryAfter
  MaxFaults = 1
  NoTask = NoTask
  NoRow = NoRow
  d1 = d1
  d2 = d2
  x1 = x1
SPECIFICATION Spec
CHECK_DEADLOCK FALSE
INVARIANTS
  SendsAreCounted
  
  OvershootBounded
