SPECIFICATION Spec
CONSTANTS
  Nodes <- One
  DependsOn <- Join
  OnFailure <- BackToFirst
  NoNode = NoNode
  MaxExecutions <- Twice
  Gated = {}
  CodeStages = {}
  Conditional = {}
  Added = {}
  LoopIterations = 2
  MaxRuns = 1
INVARIANTS GraphFailureFails
CHECK_DEADLOCK FALSE
