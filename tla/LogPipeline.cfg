SPECIFICATION Spec
CONSTANTS
  e1 = e1
  e2 = e2
  t1 = t1
  Emitters <- MCEmitters
  Tasks <- MCTasks
  TaskOf <- MCTaskOf
  Rows <- MCRows
  QueueSize = 2
  BatchSize = 2
  MaxFailures = 1
  MaxCrashes = 1
INVARIANTS TypeOK SeqUnique SeqFollowsEmission RowsClosed
PROPERTY Drained
CHECK_DEADLOCK FALSE
