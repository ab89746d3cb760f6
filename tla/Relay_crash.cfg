CONSTANTS
  api = api
  worker = worker
  m1 = m1
  m2 = m2
  m3 = m3
  r1 = r1
  r2 = r2
  e1 = e1
  Procs = {api}
  Ingesters = {api}
  Flushers = {api}
  Messages = {m1, m2}
  IdOf <- Own
  KeyOf <- Own
  Routes = {r1}
  Matches <- ToAll
  GroupOf <- OneGroup
  DestsOf <- OneDest
  Policies <- OnlyPairs
  FirstPolicy <- StartPairs
  MaxSubmits <- Twice
  MaxBatches = 2
  MaxChanges = 0
  MaxFaults = 1
  NoMessage = NoMessage
  NoRoute = NoRoute
SPECIFICATION Spec
INVARIANTS
  AnsweredIsRouted
