SPECIFICATION FairSpec
CONSTANTS
  Tasks <- TwoTasks
  Workers <- OneWorker
  w1 = w1
  w2 = w2
  Clients <- TwoClients
  c1 = c1
  c2 = c2
  NoTask = NoTask
  Planning = FALSE
  FaultKinds <- CrashOnly
  MaxFaults = 2
  MaxRetries = 2
PROPERTIES EventuallySettled
CHECK_DEADLOCK FALSE
