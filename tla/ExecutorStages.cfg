SPECIFICATION Spec
CONSTANTS
  first = first
  second = second
  Stages <- MCStages
  Evaluators <- MCEvaluators
  MaxRetries = 1
  MaxContinuations = 1
  MaxIterations = 2
  MaxStarts = 2
  MaxCrashes = 1
INVARIANTS  StreamRowsClosed BookedOnce AgentIdleAtRest CompletedOnAnswer
PROPERTIES LedgerSpec ExecutionEnds
CHECK_DEADLOCK FALSE
