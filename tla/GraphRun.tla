------------------------------ MODULE GraphRun ------------------------------
(***************************************************************************)
(* One task in graph mode (GRAPH_EXECUTION_ENABLED): _process_task_graph   *)
(* and the part of _process_task that follows it.  A gate either lets the  *)
(* run go on or makes it return; its inside is modelled in StagePipeline.  *)
(* The task, its stages and the API interleave with the run.               *)
(***************************************************************************)
EXTENDS StageGraph, FiniteSetsExt

CONSTANTS Nodes,          \* stages of the template, in the order of its list
          DependsOn,      \* depends_on of every stage
          OnFailure,      \* on_failure of every stage, or NoNode
          NoNode,
          MaxExecutions,  \* max_executions of every stage
          Gated,          \* stages with a gate behind them
          CodeStages,     \* stages named "code"
          Conditional,    \* stages with a condition
          Added,          \* stages the template may have got after the task was
                          \* created: the task has no row for them
          LoopIterations, \* GRAPH_MAX_LOOP_ITERATIONS
          MaxRuns         \* bound: runs of the task

ASSUME NodesAreNumbers == Nodes \subseteq Nat /\ IsFiniteSet(Nodes)
\* What validate lets through; any other graph fails the task before the loop.
ASSUME GraphIsValid ==
  /\ DependsOn \in [Nodes -> SUBSET Nodes]
  /\ ~ Cyclic(Nodes, DependsOn)
  /\ NoNode \notin Nodes /\ OnFailure \in [Nodes -> Nodes \cup {NoNode}]
ASSUME TemplateIsTyped ==
  /\ MaxExecutions \in [Nodes -> Nat]
  /\ Gated \cup CodeStages \cup Conditional \cup Added \subseteq Nodes
  /\ LoopIterations \in Nat /\ MaxRuns \in Nat

VARIABLES task,   \* tasks.status
          row,    \* task_stages: status, or absent, and execution_count
          run,    \* the memory of the run
          orphans, \* stages whose coroutines have outlived their run
          runs    \* runs so far

vars == <<task, row, run, orphans, runs>>

NoRun == [pc |-> "off", load |-> {}, completed |-> {}, failed |-> {}, skipped |-> {},
          counts |-> [n \in Nodes |-> 0], iteration |-> 0, live |-> {}, dead |-> {},
          await |-> {}, alone |-> FALSE, left |-> {}, gate |-> NoNode]

MaxIterations == LoopIterations * Cardinality(Nodes)

TypeOK ==
  /\ task \in {"pending", "running", "completed", "failed", "cancelled"}
  /\ row \in [Nodes -> [status : {"absent", "pending", "running", "completed", "failed", "skipped"},
                        count : Nat]]
  /\ run \in [pc : {"off", "load", "loop", "await", "gate", "loopend", "returned", "announce"},
              load : SUBSET Nodes, completed : SUBSET Nodes, failed : SUBSET Nodes,
              skipped : SUBSET Nodes, counts : [Nodes -> Nat], iteration : 0..MaxIterations,
              live : SUBSET Nodes, dead : SUBSET Nodes, await : SUBSET Nodes,
              alone : BOOLEAN, left : SUBSET Nodes, gate : Nodes \cup {NoNode}]
  /\ orphans \subseteq Nodes
  /\ runs \in 0..MaxRuns

Init == /\ task = "pending"
        /\ \E S \in SUBSET Added :
             row = [n \in Nodes |-> [status |-> IF n \in S THEN "absent" ELSE "pending",
                                     count |-> 0]]
        /\ run = NoRun
        /\ orphans = {}
        /\ runs = 0

----------------------------------------------------------------------------
FailTask == task' = IF task = "cancelled" THEN task ELSE "failed"

\* _process_task_graph returns; the coroutines in run.live were never cancelled.
Return == run' = [run EXCEPT !.pc = "returned", !.live = {}, !.dead = {}, !.await = {},
                             !.left = run.live]

\* The run is over, the coroutines in S are not.
EndRun(S) == /\ run' = NoRun
             /\ orphans' = orphans \cup S

\* A gate of the stage, if it has one, is next; otherwise go to pc.
GateOr(m, n, pc) == IF n \in Gated THEN [m EXCEPT !.pc = "gate", !.gate = n]
                    ELSE [m EXCEPT !.pc = pc]

StartRun ==
  /\ run.pc = "off"
  /\ task = "pending"
  /\ runs < MaxRuns
  /\ runs' = runs + 1
  /\ task' = "running"
  /\ run' = [NoRun EXCEPT !.pc = "load", !.load = Nodes]
  /\ UNCHANGED <<row, orphans>>

\* The stages of an earlier run are taken over one by one; the gate of a
\* completed one is asked again.
LoadStage ==
  /\ run.pc = "load"
  /\ run.load # {}
  /\ LET n == Min(run.load)
         m == [run EXCEPT !.load = @ \ {n}, !.counts[n] = row[n].count]
     IN run' = IF row[n].status = "completed"
               THEN GateOr([m EXCEPT !.completed = @ \cup {n}], n, "load")
               ELSE IF row[n].status = "skipped"
               THEN [m EXCEPT !.skipped = @ \cup {n}]
               ELSE m
  /\ UNCHANGED <<task, row, orphans, runs>>

\* A completed code stage without changes, or the circuit breaker, ends the loading.
LoadFails ==
  /\ run.pc = "load"
  /\ run.load # {}
  /\ LET n == Min(run.load)
     IN /\ row[n].status = "completed"
        /\ \/ n \in CodeStages /\ row' = [row EXCEPT ![n].status = "failed"]
           \/ UNCHANGED row
  /\ FailTask
  /\ Return
  /\ UNCHANGED <<orphans, runs>>

Loaded ==
  /\ run.pc = "load"
  /\ run.load = {}
  /\ run' = [run EXCEPT !.pc = "loop"]
  /\ UNCHANGED <<task, row, orphans, runs>>

----------------------------------------------------------------------------
(* One round of the loop. *)

ReadySet == Ready(Nodes, DependsOn, run.completed, run.failed, run.skipped,
                  run.counts, MaxExecutions)

\* stage_map has no entry for the stage.
Absent(n) == row[n].status = "absent"

InRound == run.pc = "loop" /\ run.iteration < MaxIterations

RoundCancelled ==
  /\ InRound
  /\ task = "cancelled"
  /\ run' = [run EXCEPT !.iteration = @ + 1, !.pc = "returned"]
  /\ UNCHANGED <<task, row, orphans, runs>>

\* Nothing is ready: stuck if some failed stage was never completed, else done.
RoundStuck ==
  /\ InRound
  /\ task # "cancelled"
  /\ ReadySet = {} /\ ~ (run.failed \subseteq run.completed)
  /\ FailTask
  /\ run' = [run EXCEPT !.iteration = @ + 1, !.pc = "returned"]
  /\ UNCHANGED <<row, orphans, runs>>

\* Mutant: a failed stage that may not be executed again is forgotten.
RoundIdle ==
  /\ InRound
  /\ task # "cancelled"
  /\ ReadySet = {}
  /\ run' = [run EXCEPT !.iteration = @ + 1, !.pc = "loopend"]
  /\ UNCHANGED <<task, row, orphans, runs>>

RoundAllDone ==
  /\ InRound
  /\ task # "cancelled"
  /\ ReadySet = {} /\ run.failed \subseteq run.completed
  /\ run' = [run EXCEPT !.iteration = @ + 1, !.pc = "loopend"]
  /\ UNCHANGED <<task, row, orphans, runs>>

\* Mutant: a lone ready stage does not count as a round.
RoundLaunchUncounted ==
  /\ InRound
  /\ task # "cancelled"
  /\ ReadySet # {}
  /\ row' = [n \in Nodes |-> IF n \in ReadySet
                             THEN [status |-> "running", count |-> 0] ELSE row[n]]
  /\ run' = [run EXCEPT !.live = ReadySet, !.await = ReadySet,
                        !.alone = Cardinality(ReadySet) = 1, !.pc = "await"]
  /\ UNCHANGED <<task, orphans, runs>>

\* The ready stages without a row count as skipped, those whose condition fails
\* are skipped, and the others start.
RoundLaunch ==
  /\ InRound
  /\ task # "cancelled"
  /\ ReadySet # {}
  /\ \E Skip \in SUBSET {n \in ReadySet \cap Conditional : ~ Absent(n)} :
       LET Gone == {n \in ReadySet : Absent(n)}
           Go   == ReadySet \ (Skip \cup Gone)
       IN /\ row' = [n \in Nodes |->
                       IF n \in Skip THEN [row[n] EXCEPT !.status = "skipped"]
                       ELSE IF n \in Go THEN [status |-> "running", count |-> run.counts[n] + 1]
                       ELSE row[n]]
          /\ run' = [run EXCEPT !.iteration = @ + 1, !.skipped = @ \cup Skip \cup Gone,
                                !.counts = [n \in Nodes |-> IF n \in Go THEN @[n] + 1 ELSE @[n]],
                                !.live = Go, !.await = Go, !.alone = Cardinality(ReadySet) = 1,
                                !.pc = IF Go = {} THEN "loop" ELSE "await"]
  /\ UNCHANGED <<task, orphans, runs>>

StageSucceeds(n) ==
  /\ n \in run.live
  /\ row' = [row EXCEPT ![n].status = "completed"]
  /\ run' = [run EXCEPT !.live = @ \ {n}]
  /\ UNCHANGED <<task, orphans, runs>>

\* _execute_single_stage marks the stage and the task failed and returns None.
StageFails(n) ==
  /\ n \in run.live
  /\ row' = [row EXCEPT ![n].status = "failed"]
  /\ FailTask
  /\ run' = [run EXCEPT !.live = @ \ {n}, !.dead = @ \cup {n}]
  /\ UNCHANGED <<orphans, runs>>

\* The coroutines are awaited in the order of the template; this one has returned.
Joins(n) == /\ run.await # {}
            /\ n = Min(run.await)
            /\ n \notin run.live

Joined(n) == [run EXCEPT !.await = @ \ {n}, !.dead = @ \ {n}]

\* A stage that ran alone goes to its gate, one of several does not.
JoinCompleted(n) ==
  /\ Joins(n) /\ n \notin run.dead
  /\ LET m == [Joined(n) EXCEPT !.completed = @ \cup {n}]
     IN run' = IF run.alone THEN GateOr(m, n, "loop") ELSE m
  /\ UNCHANGED <<task, row, orphans, runs>>

\* A code stage that changed nothing ends the run.
CodeCheckFails(n) ==
  /\ Joins(n) /\ n \in CodeStages \ run.dead
  /\ row' = [row EXCEPT ![n].status = "failed"]
  /\ FailTask
  /\ Return
  /\ UNCHANGED <<orphans, runs>>

\* The redirect of the stage leads to a stage of the task.
Redirects(n) == OnFailure[n] # NoNode /\ ~ Absent(OnFailure[n])

\* Mutant: the redirect target stays in the completed set.
RedirectKeeping(n) ==
  /\ Joins(n) /\ n \in run.dead
  /\ run.alone /\ Redirects(n)
  /\ row' = [row EXCEPT ![OnFailure[n]].status = "pending"]
  /\ run' = [Joined(n) EXCEPT !.pc = "loop", !.failed = (@ \cup {n}) \ {OnFailure[n]}]
  /\ UNCHANGED <<task, orphans, runs>>

\* A stage that ran alone has failed: its redirect target is reset.
Redirect(n) ==
  /\ Joins(n) /\ n \in run.dead
  /\ run.alone /\ Redirects(n)
  /\ row' = [row EXCEPT ![OnFailure[n]].status = "pending"]
  /\ run' = [Joined(n) EXCEPT !.pc = "loop", !.completed = @ \ {OnFailure[n]},
                              !.failed = (@ \cup {n}) \ {OnFailure[n]}]
  /\ UNCHANGED <<task, orphans, runs>>

\* ... or, without a target, the run returns.
StopFailed(n) ==
  /\ Joins(n) /\ n \in run.dead
  /\ run.alone /\ ~ Redirects(n)
  /\ FailTask
  /\ Return
  /\ UNCHANGED <<row, orphans, runs>>

\* The failure of one of several stages is remembered, its redirect is not followed.
JoinFailed(n) ==
  /\ Joins(n) /\ n \in run.dead
  /\ ~ run.alone
  /\ run' = [Joined(n) EXCEPT !.failed = @ \cup {n}]
  /\ UNCHANGED <<task, row, orphans, runs>>

\* An exception out of one of several stages, met when it is awaited: the stage
\* is marked failed, the task is not.
JoinRaises(n) ==
  /\ run.await # {} /\ n = Min(run.await)
  /\ n \in run.live
  /\ ~ run.alone
  /\ row' = [row EXCEPT ![n].status = "failed"]
  /\ run' = [Joined(n) EXCEPT !.live = @ \ {n}, !.failed = @ \cup {n}]
  /\ UNCHANGED <<task, orphans, runs>>

\* All stages that were started together have returned.
RoundJoined ==
  /\ run.pc = "await"
  /\ run.await = {}
  /\ run' = [run EXCEPT !.pc = "loop"]
  /\ UNCHANGED <<task, row, orphans, runs>>

GatePassed ==
  /\ run.pc = "gate"
  /\ run' = [run EXCEPT !.pc = IF run.iteration = 0 THEN "load" ELSE "loop",
                        !.gate = NoNode]
  /\ UNCHANGED <<task, row, orphans, runs>>

\* _handle_gate_with_retry fails the task and returns None; the stage it
\* executed again for the reviewer may have failed.
GateFails ==
  /\ run.pc = "gate"
  /\ \/ UNCHANGED row
     \/ row' = [row EXCEPT ![run.gate].status = "failed"]
  /\ FailTask
  /\ Return
  /\ UNCHANGED <<orphans, runs>>

\* After the loop, however it ended, the round counter is looked at once more.
LoopEnd ==
  /\ \/ run.pc = "loopend"
     \/ run.pc = "loop" /\ run.iteration = MaxIterations
  /\ IF run.iteration >= MaxIterations THEN FailTask ELSE UNCHANGED task
  /\ run' = [run EXCEPT !.pc = "returned"]
  /\ UNCHANGED <<row, orphans, runs>>

\* _process_task takes no notice of how _process_task_graph ended: resources
\* are finalized (which may fail the task) and the task is completed.
FinalizeFails ==
  /\ run.pc = "returned"
  /\ FailTask
  /\ EndRun(run.left)
  /\ UNCHANGED <<row, runs>>

CompleteTask ==
  /\ run.pc = "returned"
  /\ task' = "completed"
  /\ run' = [run EXCEPT !.pc = "announce"]
  /\ UNCHANGED <<row, orphans, runs>>

\* The broadcast, the audit record and the notification of _complete_task.
AnnounceDone ==
  /\ run.pc = "announce"
  /\ EndRun(run.left)
  /\ UNCHANGED <<task, row, runs>>

\* WORKER_TASK_TIMEOUT: the coroutine being awaited is cancelled with the run;
\* there is none while the output of a stage that has returned is dealt with.
\* An exception out of a stage that runs alone, or out of the run, ends it too.
Timeout ==
  /\ run.pc # "off"
  /\ FailTask
  /\ EndRun(IF run.await = {} THEN run.left ELSE run.live \ {Min(run.await)})
  /\ UNCHANGED <<row, runs>>

\* A coroutine nobody awaits ends while the run's session is still open ...
LeftoverEnds(n) ==
  /\ n \in run.left
  /\ run' = [run EXCEPT !.left = @ \ {n}]
  /\ \/ row' = [row EXCEPT ![n].status = "completed"] /\ UNCHANGED task
     \/ row' = [row EXCEPT ![n].status = "failed"] /\ FailTask
  /\ UNCHANGED <<orphans, runs>>

\* ... or later, when only the UPDATE of _fail_task reaches the database.
OrphanEnds(n) ==
  /\ n \in orphans
  /\ orphans' = orphans \ {n}
  /\ FailTask \/ UNCHANGED task
  /\ UNCHANGED <<row, run, runs>>

----------------------------------------------------------------------------
CancelTask == /\ task \in {"pending", "running"}
              /\ task' = "cancelled"
              /\ UNCHANGED <<row, run, orphans, runs>>

\* retry_task, here for stages below their retry limit; the execution count is
\* kept.  The task may be read as failed while its run is still going on.
RetryTask == /\ task = "failed" /\ runs < MaxRuns
             /\ task' = "pending"
             /\ row' = [n \in Nodes |-> IF row[n].status = "failed"
                                        THEN [row[n] EXCEPT !.status = "pending"] ELSE row[n]]
             /\ UNCHANGED <<run, orphans, runs>>

\* A crash and a restart; the recovery queues a running task again.
CrashAndRestart == /\ run.pc # "off" /\ runs < MaxRuns
                   /\ task' = IF task = "running" THEN "pending" ELSE task
                   /\ run' = NoRun
                   /\ orphans' = {}
                   /\ UNCHANGED <<row, runs>>

RunStep ==
  \/ StartRun \/ LoadStage \/ LoadFails \/ Loaded
  \/ RoundCancelled \/ RoundStuck \/ RoundAllDone \/ RoundLaunch \/ RoundJoined
  \/ GatePassed \/ GateFails \/ LoopEnd \/ FinalizeFails \/ CompleteTask
  \/ AnnounceDone

StageStep(n) ==
  \/ StageSucceeds(n) \/ StageFails(n) \/ JoinCompleted(n) \/ CodeCheckFails(n)
  \/ Redirect(n) \/ StopFailed(n) \/ JoinFailed(n) \/ JoinRaises(n)

\* What a run does by itself.
Progress == RunStep \/ \E n \in Nodes : StageStep(n)

Next ==
  \/ Progress \/ Timeout \/ CancelTask \/ RetryTask \/ CrashAndRestart
  \/ \E n \in Nodes : LeftoverEnds(n) \/ OrphanEnds(n)

Spec == Init /\ [][Next]_vars

\* Every step of the run is taken eventually; stages end because the executor
\* bounds them with timeouts.  WORKER_TASK_TIMEOUT is not needed for that.
FairSpec == Spec /\ WF_vars(Progress)

----------------------------------------------------------------------------
(* Properties. *)

\* While a stage executes, every stage it depends on, if the task has it, is
\* completed or skipped in the database, also after a redirect has reset one of
\* them or an exception has come out of one.
DependenciesDone ==
  \A n \in run.live : \A d \in DependsOn[n] :
    row[d].status \in {"completed", "skipped", "absent"}

\* When nothing is ready and nothing has failed the loop ends: then every stage of
\* the task is completed or skipped in the database, none is waiting for ever for
\* another, and one the task does not have has held nobody up.
LoopEndsWithAllDone ==
  run.pc = "loopend" => \A n \in Nodes : row[n].status \in {"completed", "skipped", "absent"}

\* A run ends, although failing stages may redirect to each other or to
\* themselves for ever: the loop has a limit of rounds.
RunEnds == run.pc # "off" ~> run.pc = "off"

\* A stage fails and there is no redirect: the task is failed, so a task that
\* is completed has no failed stage.
GraphFailureFails ==
  task = "completed" => \A n \in Nodes : row[n].status # "failed"

=============================================================================
