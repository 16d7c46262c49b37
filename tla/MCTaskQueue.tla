---------------------------- MODULE MCTaskQueue ----------------------------
(* TaskQueue on small instances. *)
EXTENDS TaskQueue, TLC

CONSTANTS w1, w2, c1, c2

TwoTasks == 1..2
OneWorker == {w1}
TwoWorkers == {w1, w2}
TwoClients == {c1, c2}
AllFaults == {"interrupt", "dberror", "norecovery"}
CrashOnly == {"interrupt"}

\* Workers and requests are interchangeable: no property names one, and where
\* Owner chooses a holder there is just one.
Symmetry == Permutations(TwoWorkers) \cup Permutations(TwoClients)
=============================================================================
