CONSTANTS
  api = api
  worker = worker
  m1 = m1
  m2 = m2
  m3 = m3
  r1 = r1
  r2 = r2
  e1 = e1
  Procs = {api}
  Ingesters = {api}
  Flushers = {api}
  Messages = {m1, m2}
  IdOf <- Own
  KeyOf <- Own
  Routes = {r1, r2}
  Matches <- FirstToAll
  GroupOf <- OneGroup
  DestsOf <- OneDest
  Policies <- WaitOrNot
  FirstPolicy <- StartWaits
  MaxSubmits <- FirstTwice
  MaxBatches = 3
  MaxChanges = 1
  MaxFaults = 0
  NoMessage = NoMessage
  NoRoute = NoRoute
SPECIFICATION FairSpec
INVARIANTS
  TypeOK
  AnsweredIsRouted
  ReadyIsQueued
PROPERTIES
  ClosedIsStable
  
