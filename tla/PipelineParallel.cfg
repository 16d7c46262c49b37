SPECIFICATION FairSpec
CONSTANTS
  Stages <- Three
  Order <- ThenParallel
  NumGroups = 2
  Gated = {3}
  Doubtful = {}
  GateMaxRetries = 1
  CodeStages = {3}
  CondSource <- SecondOnFirst
  PlanStage = NoStage
  NoStage = NoStage
  StageMaxRetries = 1
  TokenLimit = 3
  MaxClock = 5
  MaxGates = 1
  MaxFaults = 1
  MaxRetries = 2
  MaxReviews = 1
INVARIANTS CompletedMeansAllDone EarlierGroupsDone SkippedForAReason
PROPERTIES EventuallySettled
CHECK_DEADLOCK FALSE
