SPECIFICATION Spec
CONSTANTS
  Stages <- Two
  Order <- InSequence
  NumGroups = 2
  Gated = {1}
  Doubtful = {1}
  GateMaxRetries = 1
  CodeStages = {1}
  CondSource <- NoConditions
  PlanStage = 1
  NoStage = NoStage
  StageMaxRetries = 1
  TokenLimit = 9
  MaxClock = 4
  MaxGates = 3
  MaxFaults = 1
  MaxRetries = 1
  MaxReviews = 3
INVARIANTS TypeOK GateDiscipline
CHECK_DEADLOCK FALSE
