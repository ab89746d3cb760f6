CONSTANTS
  Runs <- ThreeRuns
  Watched <- TwoRuns
  Outputs = {0, 1, 2}
  PageLimit = 2
  SeenLimit = 1
  Inclusive <- Either
  Ties = FALSE
  MaxChanges = 3
  MaxFaults = 1
SPECIFICATION EachSpec
INVARIANTS
  EachTypeOK
  
  RepeatsNeedFaultsEach

  
