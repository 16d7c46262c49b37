-------------------------- MODULE StageGraphSearch --------------------------
(***************************************************************************)
(* The two depth-first searches of worker/graph.py, validate and           *)
(* get_all_stage_names, one call after the other on one graph.  path is    *)
(* the recursion: the stages whose has_cycle or visit has not yet          *)
(* returned.  The order of a depends_on list and of the dictionary of      *)
(* stages is left open, so that every order is covered.                    *)
(***************************************************************************)
EXTENDS StageGraph, Sequences

CONSTANTS Names,    \* stage names
          Unknown,  \* names that depends_on lists mention and no stage has
          Orders    \* the order values of the templates

ASSUME NamesAreKnown == IsFiniteSet(Names) /\ Names \cap Unknown = {} /\ Orders \subseteq Int

VARIABLES deps,    \* depends_on of every stage
          order,   \* order of every stage
          call,    \* the function called, and which one has returned
          path,    \* the names that are being visited, each a dependency of the one before
          todo,    \* what the loop of a name on the path has not yet looked at
          colour,  \* colors of validate; what is not white is in visited of get_all_stage_names
          found,   \* whether errors has a cycle
          result   \* of get_all_stage_names

graph == <<deps, order>>
searchVars == <<graph, call, path, todo, colour, found, result>>

All == Names \cup Unknown
Dependencies(n) == IF n \in Names THEN deps[n] ELSE {}
Top == path[Len(path)]

SearchTypeOK ==
  /\ deps \in [Names -> SUBSET All] /\ order \in [Names -> Orders]
  /\ call \in {"none", "validate", "validated", "names", "named"}
  /\ path \in Seq(All) /\ result \in Seq(All)
  /\ todo \in [All -> SUBSET All] /\ colour \in [All -> {"white", "gray", "black"}]
  /\ found \in BOOLEAN

\* from_template_stages: the lists of the template if one of its stages has any
\* (the orders are then not looked at: one stands for all of them), or else
\* what follows from the orders.
FromTemplate ==
  /\ order \in [Names -> Orders]
  /\ \/ /\ deps \in [Names -> SUBSET All] /\ \E n \in Names : deps[n] # {}
        /\ \A n \in Names : order[n] = CHOOSE k \in Orders : TRUE
     \/ deps = InferredDeps(Names, order)

SearchInit == /\ FromTemplate
              /\ call = "none" /\ path = <<>> /\ result = <<>> /\ found = FALSE
              /\ todo = [n \in All |-> {}] /\ colour = [n \in All |-> "white"]

----------------------------------------------------------------------------
Running == call \in {"validate", "names"}

Call(c) == /\ ~Running
           /\ call' = c /\ path' = <<>> /\ result' = <<>> /\ found' = FALSE
           /\ todo' = [n \in All |-> {}] /\ colour' = [n \in All |-> "white"]
           /\ UNCHANGED graph

\* has_cycle or visit is called for n; left is what the loops then have to do.
Enter(n, left) == /\ path' = Append(path, n)
                  /\ colour' = [colour EXCEPT ![n] = "gray"]
                  /\ todo' = [left EXCEPT ![n] = Dependencies(n)]
                  /\ UNCHANGED <<graph, call, found, result>>

\* The loop over all stages.
StartTree(n) == Running /\ path = <<>> /\ colour[n] = "white" /\ Enter(n, todo)

\* The loop over the dependencies of a name is at d.
At(d) == Running /\ path # <<>> /\ d \in todo[Top]
Without(d) == [todo EXCEPT ![Top] = @ \ {d}]
\* validate knows no colour of a name without a stage; get_all_stage_names visits it.
Considered(d) == call = "validate" => d \in Names

Descend(d) == At(d) /\ Considered(d) /\ colour[d] = "white" /\ Enter(d, Without(d))

PassBy(d) == /\ At(d)
             /\ ~Considered(d) \/ colour[d] = "black" \/ (call = "names" /\ colour[d] = "gray")
             /\ todo' = Without(d)
             /\ UNCHANGED <<graph, call, path, colour, found, result>>

\* True goes up the whole path, and what was gray stays gray.
FindCycle(d) == /\ At(d) /\ call = "validate" /\ d \in Names /\ colour[d] = "gray"
                /\ found' = TRUE /\ path' = <<>>
                /\ UNCHANGED <<graph, call, todo, colour, result>>

\* Mutant: the function returns after the first dependency.
LeaveEarly == /\ Running /\ path # <<>> /\ (todo[Top] = Dependencies(Top) => todo[Top] = {})
              /\ path' = SubSeq(path, 1, Len(path) - 1)
              /\ colour' = [colour EXCEPT ![Top] = "black"]
              /\ result' = IF call = "names" THEN Append(result, Top) ELSE result
              /\ UNCHANGED <<graph, call, todo, found>>

Leave == /\ Running /\ path # <<>> /\ todo[Top] = {}
         /\ path' = SubSeq(path, 1, Len(path) - 1)
         /\ colour' = [colour EXCEPT ![Top] = "black"]
         /\ result' = IF call = "names" THEN Append(result, Top) ELSE result
         /\ UNCHANGED <<graph, call, todo, found>>

\* Mutant: the search starts from one stage only.
Visited == \E n \in Names : colour[n] # "white"
AllVisited == \A n \in Names : colour[n] # "white"

EndCall == /\ Running /\ path = <<>> /\ AllVisited
           /\ call' = IF call = "validate" THEN "validated" ELSE "named"
           /\ UNCHANGED <<graph, path, todo, colour, found, result>>

SearchNext == \/ \E c \in {"validate", "names"} : Call(c)
              \/ \E n \in Names : StartTree(n)
              \/ \E d \in All : Descend(d) \/ PassBy(d) \/ FindCycle(d)
              \/ Leave \/ EndCall

SearchSpec == SearchInit /\ [][SearchNext]_searchVars

----------------------------------------------------------------------------
\* validate reports a cycle exactly when there is one, although the search stops
\* at the first cycle of a tree and leaves its stages gray.
CycleFoundIffCyclic == call = "validated" => (found <=> Cyclic(Names, deps))

\* get_all_stage_names lists every stage once, and those names without a stage
\* that are mentioned; without a cycle a stage comes after all it depends on.
NamesInTopologicalOrder ==
  call = "named" =>
    /\ {result[i] : i \in DOMAIN result} = Names \cup UNION {deps[n] : n \in Names}
    /\ \A i, j \in DOMAIN result : result[i] = result[j] => i = j
    /\ ~Cyclic(Names, deps) =>
         \A i \in DOMAIN result : Dependencies(result[i]) \subseteq {result[j] : j \in 1 .. i - 1}

\* What from_template_stages infers from the order values makes the ready set
\* follow the groups of the linear mode, in whatever order a group gets done.
InferredGroupsAreLinear == GroupsAreLinear(Names, order)
=============================================================================
