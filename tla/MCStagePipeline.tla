-------------------------- MODULE MCStagePipeline --------------------------
(* StagePipeline on small templates. *)
EXTENDS StagePipeline

Two   == 1..2
Three == 1..3
\* One stage after the other.
InSequence == [s \in Stages |-> s]
\* The first stage alone, the others in parallel.
ThenParallel == [s \in Stages |-> IF s = 1 THEN 1 ELSE 2]

NoConditions == [s \in Stages |-> NoStage]
\* The second stage looks at the output of the first.
SecondOnFirst == [s \in Stages |-> IF s = 2 THEN 1 ELSE NoStage]
=============================================================================
