SPECIFICATION Spec
CONSTANTS
  Tasks <- TwoTasks
  Workers <- TwoWorkers
  w1 = w1
  w2 = w2
  Clients <- TwoClients
  c1 = c1
  c2 = c2
  NoTask = NoTask
  Planning = TRUE
  FaultKinds <- AllFaults
  MaxFaults = 2
  MaxRetries = 2
INVARIANTS TypeOK 
PROPERTIES CancelBeforeClaimSticks 
SYMMETRY Symmetry
CHECK_DEADLOCK FALSE
