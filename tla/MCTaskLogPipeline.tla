-------------------------- MODULE MCTaskLogPipeline --------------------------
(* Two coroutines that log events of one task.                             *)
EXTENDS TaskLogPipeline

CONSTANTS e1, e2, t1

MCEmitters == {e1, e2}
MCTasks == {t1}
MCTaskOf == [e \in MCEmitters |-> t1]
MCRows == {<<e1, 1>>, <<e1, 2>>, <<e2, 1>>}
=============================================================================
