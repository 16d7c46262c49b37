SPECIFICATION FairSpec
CONSTANTS
  Nodes <- Three
  DependsOn <- Join
  OnFailure <- BackToFirst
  NoNode = NoNode
  MaxExecutions <- Twice
  Gated = {3}
  CodeStages = {1}
  Conditional = {2}
  Added = {1, 2}
  LoopIterations = 2
  MaxRuns = 2
INVARIANTS DependenciesDone LoopEndsWithAllDone
PROPERTIES RunEnds
CHECK_DEADLOCK FALSE
