--------------------------- MODULE MCStageExecutor ---------------------------
(* Two parallel stages of one role; each with an evaluator of its own.     *)
EXTENDS StageExecutor, TLC

CONSTANTS first, second

MCStages == {first, second}
MCEvaluators == first :> {"self"} @@ second :> {"objective"}
=============================================================================
