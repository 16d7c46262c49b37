----------------------------- MODULE MCGraphRun -----------------------------
(* GraphRun on a small template: 1 and 2 run in parallel, 3 joins them. *)
EXTENDS GraphRun

One   == 1..1
Three == 1..3
\* Inferred from the orders 1, 1, 2.
Join  == InferredDeps(Nodes, [n \in Nodes |-> IF n = 3 THEN 2 ELSE 1])
\* A failure of the last stage sends the run back to the first one.
BackToFirst == [n \in Nodes |-> IF n = 3 THEN 1 ELSE NoNode]
Twice == [n \in Nodes |-> 2]
=============================================================================
