----------------------------- MODULE StageGraph -----------------------------
(***************************************************************************)
(* The dependency graph of a template's stages (worker/graph.py) as pure   *)
(* operators over a set of nodes and their depends_on sets.                *)
(***************************************************************************)
EXTENDS Integers, FiniteSets

\* get_ready_stages.  The execution count is looked at for failed stages only.
\* (running is always empty: _process_task_graph never adds to it.)
Ready(Nodes, deps, completed, failed, skipped, counts, maxExecs) ==
  {n \in Nodes \ (completed \cup skipped) :
     /\ n \in failed => counts[n] < maxExecs[n]
     /\ deps[n] \subseteq completed \cup skipped}

\* Some stages wait for each other for ever: each depends on one of them.  In a
\* finite graph this is a cycle, as a walk along such dependencies returns.
Cyclic(Nodes, deps) ==
  \E S \in SUBSET Nodes : S # {} /\ \A n \in S : deps[n] \cap S # {}

\* Mutant: only the first stage of the previous group is waited for.
InferredFirstOnly(Nodes, order) ==
  [n \in Nodes |->
     LET Earlier == {m \in Nodes : order[m] < order[n]}
         Last    == {m \in Earlier : \A k \in Earlier : order[k] <= order[m]}
     IN {m \in Last : \A k \in Last : m <= k}]

\* from_template_stages without depends_on: a stage depends on the stages of
\* the closest smaller order value.
InferredDeps(Nodes, order) ==
  [n \in Nodes |->
     LET Earlier == {m \in Nodes : order[m] < order[n]}
     IN {m \in Earlier : \A k \in Earlier : order[k] <= order[m]}]

\* Without depends_on the ready set follows the groups of the linear mode: when
\* all stages below an order value and some of the stages at it are done, the
\* rest of that group is ready, or the whole next group if there is no rest.
GroupsAreLinear(Nodes, order) ==
  \A k \in {order[n] : n \in Nodes} :
    \A Part \in SUBSET {n \in Nodes : order[n] = k} :
      LET Done == {n \in Nodes : order[n] < k} \cup Part
          Rest == Nodes \ Done
      IN Ready(Nodes, InferredDeps(Nodes, order), Done, {}, {},
               [n \in Nodes |-> 0], [n \in Nodes |-> 1])
           = {n \in Rest : \A m \in Rest : order[n] <= order[m]}
=============================================================================
