--------------------------- MODULE GraphRunProofs ---------------------------
(***************************************************************************)
(* Proofs about GraphRun, for any valid graph, any limits and any gates,   *)
(* and about the searches of StageGraphSearch, for any graph.              *)
(***************************************************************************)
EXTENDS GraphRun, StageGraphSearch, FiniteSetTheorems, SequenceTheorems,
        WellFoundedInduction, TLAPS

\* The loading and the awaiting take the first of the stages that are left:
\* a nonempty set of stages has a first element.
LEMMA FirstIsElement ==
  ASSUME NEW S \in SUBSET Nodes, S # {}
  PROVE  Min(S) \in S
<1>. DEFINE Below(x) == {y \in S : y < x}
            T == {Below(x) : x \in S}
<1>. USE NodesAreNumbers
<1>1. IsFiniteSet(S)
  BY FS_Subset
<1>2. T \subseteq FiniteSubsetsOf(S)
  <2>. SUFFICES ASSUME NEW x \in S PROVE Below(x) \in FiniteSubsetsOf(S)
    OBVIOUS
  <2>1. Below(x) \in SUBSET S
    OBVIOUS
  <2>2. IsFiniteSet(Below(x))
    BY <1>1, <2>1, FS_Subset
  <2>. QED
    BY <2>1, <2>2 DEF FiniteSubsetsOf
<1>3. T # {}
  <2>1. PICK x \in S : TRUE
    OBVIOUS
  <2>2. Below(x) \in T
    BY <2>1
  <2>. QED
    BY <2>2
<1>4. PICK B \in T : \A C \in T : ~ (<<C, B>> \in StrictSubsetOrdering(S))
  <2>. HIDE DEF T
  <2>. QED
    BY <1>2, <1>3, FS_StrictSubsetOrderingWellFounded, WFMin
<1>5. PICK x \in S : B = Below(x)
  OBVIOUS
<1>6. \A y \in S : x =< y
  <2>. SUFFICES ASSUME NEW y \in S, y < x PROVE FALSE
    OBVIOUS
  <2>1. Below(y) \in T /\ Below(y) \in SUBSET S /\ B \in SUBSET S
    BY <1>5
  <2>2. y \in B /\ y \notin Below(y)
    BY <1>5
  <2>3. Below(y) \subseteq B
    <3>. SUFFICES ASSUME NEW z \in S, z < y PROVE z < x
      BY <1>5
    <3>1. x \in Nat /\ y \in Nat /\ z \in Nat
      OBVIOUS
    <3>. QED
      BY <3>1
  <2>4. <<Below(y), B>> \in StrictSubsetOrdering(S)
    BY <2>1, <2>2, <2>3 DEF StrictSubsetOrdering
  <2>. QED
    BY <1>4, <2>1, <2>4
<1>. QED
  BY <1>6 DEF Min

----------------------------------------------------------------------------
(* Types. *)

\* The number of rounds is bounded by a natural number.
LEMMA RoundsAreNat == MaxIterations \in Nat
<1>1. Cardinality(Nodes) \in Nat
  BY NodesAreNumbers, FS_CardinalityType
<1>. QED
  BY <1>1, TemplateIsTyped DEF MaxIterations

Statuses == {"absent", "pending", "running", "completed", "failed", "skipped"}

\* The memory of a run, and of none.
Memory ==
  [pc : {"off", "load", "loop", "await", "gate", "loopend", "returned", "announce"},
   load : SUBSET Nodes, completed : SUBSET Nodes, failed : SUBSET Nodes,
   skipped : SUBSET Nodes, counts : [Nodes -> Nat], iteration : 0..MaxIterations,
   live : SUBSET Nodes, dead : SUBSET Nodes, await : SUBSET Nodes,
   alone : BOOLEAN, left : SUBSET Nodes, gate : Nodes \cup {NoNode}]

LEMMA NoRunIsMemory == NoRun \in Memory
  BY RoundsAreNat DEF NoRun, Memory

\* A round is counted while the limit is not reached.
LEMMA RoundIsCounted ==
  ASSUME run \in Memory, InRound
  PROVE  run.iteration + 1 \in 0..MaxIterations
  BY RoundsAreNat DEF Memory, InRound

\* _fail_task, the end of _process_task_graph and the marking of a stage.
LEMMA FailedTaskType ==
  ASSUME TypeOK, FailTask
  PROVE  task' \in {"pending", "running", "completed", "failed", "cancelled"}
  BY DEF TypeOK, FailTask

LEMMA ReturnedType ==
  ASSUME TypeOK, Return
  PROVE  run' \in Memory
  BY DEF TypeOK, Memory, Return

LEMMA MarkedType ==
  ASSUME TypeOK, NEW n, NEW st \in {"completed", "failed"},
         \/ UNCHANGED row
         \/ row' = [row EXCEPT ![n].status = st]
  PROVE  row' \in [Nodes -> [status : Statuses, count : Nat]]
  BY DEF TypeOK, Statuses

\* What loading and the rounds of the loop do keeps the types.
LEMMA RunStepType ==
  ASSUME TypeOK, RunStep
  PROVE  TypeOK'
<1>. USE RoundsAreNat DEF TypeOK, Statuses
<1>0. run \in Memory
  BY DEF Memory
<1>1. CASE StartRun
  <2>1. run' \in Memory
    <3>. HIDE DEF TypeOK
    <3>. QED
      BY <1>1, NoRunIsMemory DEF StartRun, Memory
  <2>2. runs' \in 0..MaxRuns
    BY <1>1, TemplateIsTyped DEF StartRun
  <2>. QED
    BY <1>1, <2>1, <2>2 DEF StartRun, Memory
<1>2. CASE LoadStage
  <2>1. Min(run.load) \in Nodes
    BY <1>2, FirstIsElement DEF LoadStage
  <2>. DEFINE n == Min(run.load)
              m == [run EXCEPT !.load = @ \ {n}, !.counts[n] = row[n].count]
              c == [m EXCEPT !.completed = @ \cup {n}]
  <2>2. m \in Memory
    BY <1>0, <2>1 DEF Memory
  <2>. HIDE DEF m
  <2>3. c \in Memory /\ [m EXCEPT !.skipped = @ \cup {n}] \in Memory
    BY <2>1, <2>2 DEF Memory
  <2>. HIDE DEF c
  <2>4. GateOr(c, n, "load") \in Memory
    BY <2>1, <2>3 DEF GateOr, Memory
  <2>5. run' \in {GateOr(c, n, "load"), [m EXCEPT !.skipped = @ \cup {n}], m}
    BY <1>2 DEF LoadStage, c, m
  <2>6. run' \in Memory
    BY <2>2, <2>3, <2>4, <2>5
  <2>7. UNCHANGED <<task, row, orphans, runs>>
    BY <1>2 DEF LoadStage
  <2>. QED
    BY <2>6, <2>7 DEF Memory
<1>3. CASE LoadFails
  <2>1. Min(run.load) \in Nodes
    BY <1>3, FirstIsElement DEF LoadFails
  <2>2. /\ FailTask /\ Return /\ UNCHANGED <<orphans, runs>>
        /\ \/ UNCHANGED row
           \/ row' = [row EXCEPT ![Min(run.load)].status = "failed"]
    BY <1>3 DEF LoadFails
  <2>. QED
    BY <2>2, FailedTaskType, ReturnedType, MarkedType DEF Memory
<1>4. CASE Loaded
  BY <1>4 DEF Loaded
<1>5. CASE RoundCancelled
  <2>1. run' \in Memory
    BY <1>0, <1>5, RoundIsCounted DEF RoundCancelled, Memory
  <2>. QED
    BY <1>5, <2>1 DEF RoundCancelled, Memory
<1>6. CASE RoundStuck
  <2>1. run' \in Memory
    BY <1>0, <1>6, RoundIsCounted DEF RoundStuck, Memory
  <2>. QED
    BY <1>6, <2>1 DEF RoundStuck, FailTask, Memory
<1>7. CASE RoundAllDone
  <2>1. run' \in Memory
    BY <1>0, <1>7, RoundIsCounted DEF RoundAllDone, Memory
  <2>. QED
    BY <1>7, <2>1 DEF RoundAllDone, Memory
<1>8. CASE RoundLaunch
  <2>1. PICK Skip \in SUBSET {n \in ReadySet \cap Conditional : ~ Absent(n)} :
          LET Gone == {n \in ReadySet : Absent(n)}
              Go   == ReadySet \ (Skip \cup Gone)
          IN /\ row' = [n \in Nodes |->
                          IF n \in Skip THEN [row[n] EXCEPT !.status = "skipped"]
                          ELSE IF n \in Go THEN [status |-> "running", count |-> run.counts[n] + 1]
                          ELSE row[n]]
             /\ run' = [run EXCEPT !.iteration = @ + 1, !.skipped = @ \cup Skip \cup Gone,
                                   !.counts = [n \in Nodes |-> IF n \in Go THEN @[n] + 1 ELSE @[n]],
                                   !.live = Go, !.await = Go, !.alone = Cardinality(ReadySet) = 1,
                                   !.pc = IF Go = {} THEN "loop" ELSE "await"]
    BY <1>8 DEF RoundLaunch
  <2>2. ReadySet \subseteq Nodes
    BY DEF ReadySet, Ready
  <2>. DEFINE Gone == {n \in ReadySet : Absent(n)}
              Go == ReadySet \ (Skip \cup Gone)
  <2>3. Go \subseteq Nodes /\ Skip \cup Gone \subseteq Nodes /\ Skip \subseteq Nodes
    BY <2>2
  <2>. HIDE DEF Go, Gone
  <2>4. run.counts \in [Nodes -> Nat]
    BY <1>0 DEF Memory
  <2>5. [n \in Nodes |-> IF n \in Go THEN run.counts[n] + 1 ELSE run.counts[n]] \in [Nodes -> Nat]
    BY <2>4
  <2>6. run' \in Memory
    <3>1. run.iteration + 1 \in 0..MaxIterations
      BY <1>0, <1>8, RoundIsCounted DEF RoundLaunch
    <3>2. (Cardinality(ReadySet) = 1) \in BOOLEAN
      OBVIOUS
    <3>3. run' = [run EXCEPT !.iteration = run.iteration + 1,
                             !.skipped = run.skipped \cup Skip \cup Gone,
                             !.counts = [n \in Nodes |-> IF n \in Go THEN run.counts[n] + 1
                                                        ELSE run.counts[n]],
                             !.live = Go, !.await = Go, !.alone = (Cardinality(ReadySet) = 1),
                             !.pc = IF Go = {} THEN "loop" ELSE "await"]
      BY <2>1 DEF Go, Gone
    <3>. HIDE DEF TypeOK
    <3>. QED
      BY <1>0, <2>3, <2>5, <3>1, <3>2, <3>3, ZenonT(40) DEF Memory
  <2>7. row' \in [Nodes -> [status : Statuses, count : Nat]]
    BY <2>1, <2>4 DEF Go
  <2>. QED
    BY <1>8, <2>6, <2>7 DEF RoundLaunch, Memory
<1>9. CASE RoundJoined
  BY <1>9 DEF RoundJoined
<1>10. CASE GatePassed
  BY <1>10 DEF GatePassed
<1>11. CASE GateFails
  <2>1. /\ FailTask /\ Return /\ UNCHANGED <<orphans, runs>>
        /\ \/ UNCHANGED row
           \/ row' = [row EXCEPT ![run.gate].status = "failed"]
    BY <1>11 DEF GateFails
  <2>. QED
    BY <2>1, FailedTaskType, ReturnedType, MarkedType DEF Memory
<1>12. CASE LoopEnd
  <2>1. run' \in Memory
    BY <1>0, <1>12 DEF LoopEnd, Memory
  <2>2. task' \in {task, "failed"}
    BY <1>12 DEF LoopEnd, FailTask
  <2>. QED
    BY <1>12, <2>1, <2>2 DEF LoopEnd, Memory
<1>13. CASE FinalizeFails
  <2>1. run' \in Memory
    BY <1>13, NoRunIsMemory DEF FinalizeFails, EndRun
  <2>2. task' \in {task, "failed"} /\ orphans' \subseteq Nodes
    BY <1>13 DEF FinalizeFails, EndRun, FailTask
  <2>3. UNCHANGED <<row, runs>>
    BY <1>13 DEF FinalizeFails
  <2>. QED
    BY <2>1, <2>2, <2>3 DEF Memory
<1>14. CASE CompleteTask
  <2>1. run' \in Memory
    BY <1>0, <1>14 DEF CompleteTask, Memory
  <2>. QED
    BY <1>14, <2>1 DEF CompleteTask, Memory
<1>15. CASE AnnounceDone
  BY <1>15, NoRunIsMemory DEF AnnounceDone, EndRun, Memory
<1>. QED
  BY <1>1, <1>2, <1>3, <1>4, <1>5, <1>6, <1>7, <1>8, <1>9, <1>10, <1>11, <1>12,
     <1>13, <1>14, <1>15 DEF RunStep

\* What happens to a stage, and when its coroutine is awaited, keeps the types.
LEMMA StageStepType ==
  ASSUME TypeOK, NEW n \in Nodes, StageStep(n)
  PROVE  TypeOK'
<1>. USE DEF TypeOK, Statuses
<1>1. CASE StageSucceeds(n)
  BY <1>1 DEF StageSucceeds
<1>2. CASE StageFails(n)
  BY <1>2 DEF StageFails, FailTask
<1>3. CASE JoinCompleted(n)
  BY <1>3, ZenonT(40) DEF JoinCompleted, Joined, GateOr
<1>4. CASE CodeCheckFails(n)
  BY <1>4, ZenonT(40) DEF CodeCheckFails, FailTask, Return
<1>5. CASE Redirect(n)
  BY <1>5, ZenonT(40) DEF Redirect, Joined
<1>6. CASE StopFailed(n)
  BY <1>6 DEF StopFailed, FailTask, Return
<1>7. CASE JoinFailed(n)
  BY <1>7 DEF JoinFailed, Joined
<1>8. CASE JoinRaises(n)
  BY <1>8, ZenonT(40) DEF JoinRaises, Joined
<1>. QED
  BY <1>1, <1>2, <1>3, <1>4, <1>5, <1>6, <1>7, <1>8 DEF StageStep

\* TypeOK is an invariant of a run in graph mode; among others the rounds of
\* its loop never go beyond the limit.
THEOREM TypeCorrect == Spec => []TypeOK
<1>1. Init => TypeOK
  BY NoRunIsMemory, TemplateIsTyped DEF Init, TypeOK, Memory
<1>2. TypeOK /\ [Next]_vars => TypeOK'
  <2>. SUFFICES ASSUME TypeOK, [Next]_vars PROVE TypeOK'
    OBVIOUS
  <2>1. CASE Timeout
    <3>1. run' \in Memory
      BY <2>1, NoRunIsMemory DEF Timeout, EndRun
    <3>2. task' \in {task, "failed"} /\ orphans' \subseteq Nodes
      BY <2>1 DEF Timeout, EndRun, FailTask, TypeOK
    <3>3. UNCHANGED <<row, runs>>
      BY <2>1 DEF Timeout
    <3>. QED
      BY <3>1, <3>2, <3>3 DEF TypeOK, Memory
  <2>2. CASE CancelTask
    BY <2>2 DEF CancelTask, TypeOK
  <2>3. CASE RetryTask
    BY <2>3 DEF RetryTask, TypeOK
  <2>4. CASE CrashAndRestart
    BY <2>4, NoRunIsMemory DEF CrashAndRestart, TypeOK, Memory
  <2>5. ASSUME NEW n \in Nodes, LeftoverEnds(n) PROVE TypeOK'
    <3>1. run' \in Memory
      BY <2>5 DEF LeftoverEnds, TypeOK, Memory
    <3>2. UNCHANGED task \/ FailTask
      BY <2>5 DEF LeftoverEnds
    <3>3. \E st \in {"completed", "failed"} : row' = [row EXCEPT ![n].status = st]
      BY <2>5 DEF LeftoverEnds
    <3>4. UNCHANGED <<orphans, runs>>
      BY <2>5 DEF LeftoverEnds
    <3>. QED
      BY <3>1, <3>2, <3>3, <3>4, FailedTaskType, MarkedType DEF TypeOK, Memory, Statuses
  <2>6. ASSUME NEW n \in Nodes, OrphanEnds(n) PROVE TypeOK'
    BY <2>6 DEF OrphanEnds, FailTask, TypeOK
  <2>7. CASE UNCHANGED vars
    BY <2>7 DEF vars, TypeOK
  <2>. QED
    BY <2>1, <2>2, <2>3, <2>4, <2>5, <2>6, <2>7, RunStepType, StageStepType DEF Next, Progress
<1>. QED
  BY <1>1, <1>2, PTL DEF Spec

----------------------------------------------------------------------------
(* Dependencies.  A redirect takes its target out of the completed and the *)
(* failed stages but not out of the skipped ones: a target that was        *)
(* skipped is pending and counts as done.  Hence the assumption, which is  *)
(* about the template.                                                     *)

RedirectsAreUnconditional == \A n \in Nodes : OnFailure[n] \notin Conditional

\* The run is somewhere between its loading and its return.
AtWork == run.pc \notin {"off", "returned", "announce"}

\* Only conditional stages are skipped; what a run remembers as completed or
\* skipped is so in the database, or the task does not have it.
MemoryMatches ==
  /\ \A n \in Nodes : row[n].status = "skipped" => n \in Conditional
  /\ AtWork =>
       /\ \A n \in run.completed : row[n].status = "completed"
       /\ \A n \in run.skipped : row[n].status \in {"skipped", "absent"}

\* Who is awaited and has neither failed nor goes on has completed.
AwaitsStages ==
  /\ run.live \subseteq run.await /\ run.dead \subseteq run.await
  /\ run.live \cap run.dead = {}
  /\ run.await # {} => run.pc = "await"
  /\ \A n \in run.await : n \notin run.live /\ n \notin run.dead => row[n].status = "completed"
  /\ run.alone /\ run.pc = "await" => \A m, n \in run.await : m = n
  /\ run.left # {} => run.pc \in {"returned", "announce"}

\* A stage that executes is not yet done, what it depends on is.
LiveMayRun ==
  \A n \in run.live :
    /\ n \notin run.completed /\ n \notin run.skipped
    /\ \A d \in DependsOn[n] : d \in run.completed \/ d \in run.skipped

DepInv == MemoryMatches /\ AwaitsStages /\ LiveMayRun

\* A step after which no stage executes and none is awaited, with the rows the
\* memory speaks of as they were, keeps the invariant.
LEMMA RestingSafe ==
  ASSUME TypeOK, DepInv, run'.live = {}, run'.dead = {}, run'.await = {},
         run'.left = {} \/ run'.pc \in {"returned", "announce"},
         \A n \in Nodes : row'[n].status = "skipped" => n \in Conditional,
         AtWork' =>
           /\ \A n \in run'.completed : row'[n].status = "completed"
           /\ \A n \in run'.skipped : row'[n].status \in {"skipped", "absent"}
  PROVE  DepInv'
  BY DEF DepInv, MemoryMatches, AwaitsStages, LiveMayRun

\* ... in particular a step that ends the run, or makes it return.
LEMMA EndedSafe ==
  ASSUME TypeOK, DepInv, run' = NoRun \/ Return,
         \A n \in Nodes : row'[n].status = "skipped" => row[n].status = "skipped"
  PROVE  DepInv'
<1>1. /\ run'.live = {} /\ run'.dead = {} /\ run'.await = {}
      /\ run'.left = {} \/ run'.pc = "returned"
      /\ run'.pc \in {"off", "returned"}
  <2>1. CASE run' = NoRun
    BY <2>1 DEF NoRun
  <2>2. CASE Return
    BY <2>2 DEF Return, TypeOK
  <2>. QED
    BY <2>1, <2>2
<1>2. \A n \in Nodes : row'[n].status = "skipped" => n \in Conditional
  BY DEF DepInv, MemoryMatches
<1>. QED
  BY <1>1, <1>2, RestingSafe DEF AtWork

\* Loading, the rounds of the loop and the gates keep the invariant.
LEMMA RunStepSafe ==
  ASSUME TypeOK, DepInv, RunStep
  PROVE  DepInv'
<1>1. \A n \in Nodes : row[n].status = "skipped" => n \in Conditional
  BY DEF DepInv, MemoryMatches
<1>2. /\ run.pc # "await" => run.await = {} /\ run.live = {} /\ run.dead = {}
      /\ run.pc \notin {"returned", "announce"} => run.left = {}
      /\ run.await = {} => run.live = {} /\ run.dead = {}
  BY DEF DepInv, AwaitsStages, TypeOK
<1>3. run.pc \notin {"off", "returned", "announce"} =>
        /\ \A n \in run.completed : row[n].status = "completed"
        /\ \A n \in run.skipped : row[n].status \in {"skipped", "absent"}
  BY DEF DepInv, MemoryMatches, AtWork
<1>4. ASSUME UNCHANGED row, run.pc \notin {"off", "await", "returned", "announce"} \/ RoundJoined,
             run'.completed = run.completed, run'.skipped = run.skipped, run'.live = run.live,
             run'.dead = run.dead, run'.await = run.await, run'.left = run.left
      PROVE  DepInv'
  <2>1. run.pc \notin {"off", "returned", "announce"} /\ run.await = {}
    BY <1>2, <1>4 DEF RoundJoined
  <2>. QED
    BY <1>1, <1>2, <1>3, <1>4, <2>1, RestingSafe DEF AtWork
<1>5. CASE StartRun
  <2>1. run' = [NoRun EXCEPT !.pc = "load", !.load = Nodes] /\ UNCHANGED row
    BY <1>5 DEF StartRun
  <2>2. /\ run'.live = {} /\ run'.dead = {} /\ run'.await = {} /\ run'.left = {}
        /\ run'.completed = {} /\ run'.skipped = {}
    BY <2>1 DEF NoRun
  <2>. QED
    BY <1>1, <2>1, <2>2, RestingSafe DEF AtWork
<1>6. CASE LoadStage
  <2>. DEFINE n == Min(run.load)
              m == [run EXCEPT !.load = @ \ {n}, !.counts[n] = row[n].count]
              c == [m EXCEPT !.completed = @ \cup {n}]
  <2>1. run.pc = "load" /\ n \in Nodes /\ UNCHANGED row
    BY <1>6, FirstIsElement DEF LoadStage, TypeOK
  <2>2. \/ row[n].status = "completed" /\ run' = GateOr(c, n, "load")
        \/ row[n].status = "skipped" /\ run' = [m EXCEPT !.skipped = @ \cup {n}]
        \/ run' = m
    BY <1>6 DEF LoadStage
  <2>3. /\ run'.live = run.live /\ run'.dead = run.dead /\ run'.await = run.await
        /\ run'.left = run.left
        /\ \/ run'.completed = run.completed
           \/ row[n].status = "completed" /\ run'.completed = run.completed \cup {n}
        /\ \/ run'.skipped = run.skipped
           \/ row[n].status = "skipped" /\ run'.skipped = run.skipped \cup {n}
    BY <2>2, ZenonT(30) DEF GateOr, TypeOK
  <2>. HIDE DEF n
  <2>. QED
    BY <1>1, <1>2, <1>3, <2>1, <2>3, RestingSafe DEF AtWork
<1>7. CASE LoadFails
  <2>1. Return
    BY <1>7 DEF LoadFails
  <2>2. \A n \in Nodes : row'[n].status = "skipped" => row[n].status = "skipped"
    BY <1>7 DEF LoadFails, TypeOK
  <2>. QED
    BY <2>1, <2>2, EndedSafe
<1>8. CASE Loaded
  BY <1>4, <1>8 DEF Loaded, TypeOK
<1>9. CASE RoundCancelled
  BY <1>4, <1>9 DEF RoundCancelled, InRound, TypeOK
<1>10. CASE RoundStuck
  BY <1>4, <1>10 DEF RoundStuck, InRound, TypeOK
<1>11. CASE RoundAllDone
  BY <1>4, <1>11 DEF RoundAllDone, InRound, TypeOK
<1>12. CASE RoundLaunch
  <2>1. PICK Skip \in SUBSET {n \in ReadySet \cap Conditional : ~ Absent(n)} :
          LET Gone == {n \in ReadySet : Absent(n)}
              Go   == ReadySet \ (Skip \cup Gone)
          IN /\ row' = [n \in Nodes |->
                          IF n \in Skip THEN [row[n] EXCEPT !.status = "skipped"]
                          ELSE IF n \in Go THEN [status |-> "running", count |-> run.counts[n] + 1]
                          ELSE row[n]]
             /\ run' = [run EXCEPT !.iteration = @ + 1, !.skipped = @ \cup Skip \cup Gone,
                                   !.counts = [n \in Nodes |-> IF n \in Go THEN @[n] + 1 ELSE @[n]],
                                   !.live = Go, !.await = Go, !.alone = Cardinality(ReadySet) = 1,
                                   !.pc = IF Go = {} THEN "loop" ELSE "await"]
    BY <1>12 DEF RoundLaunch
  <2>. DEFINE Gone == {n \in ReadySet : Absent(n)}
              Go == ReadySet \ (Skip \cup Gone)
  <2>2. /\ ReadySet \subseteq Nodes
        /\ \A n \in ReadySet : /\ n \notin run.completed /\ n \notin run.skipped
                               /\ DependsOn[n] \subseteq run.completed \cup run.skipped
    BY DEF ReadySet, Ready
  <2>3. /\ Go \subseteq ReadySet /\ Skip \subseteq ReadySet /\ Gone \subseteq ReadySet
        /\ Skip \subseteq Conditional /\ Go \cap (Skip \cup Gone) = {} /\ Gone \cap Skip = {}
        /\ \A n \in Gone : row[n].status = "absent"
    BY DEF Absent
  <2>4. run.pc = "loop" /\ run.dead = {} /\ run.left = {}
    BY <1>2, <1>12 DEF RoundLaunch, InRound
  <2>5. /\ run'.live = Go /\ run'.await = Go /\ run'.dead = {} /\ run'.left = {}
        /\ run'.completed = run.completed /\ run'.skipped = run.skipped \cup Skip \cup Gone
        /\ run'.alone = (Cardinality(ReadySet) = 1) /\ run'.pc = IF Go = {} THEN "loop" ELSE "await"
    BY <2>1, <2>4 DEF TypeOK
  <2>. HIDE DEF Go, Gone
  <2>6. \A n \in Nodes : row'[n].status = IF n \in Skip THEN "skipped"
                                         ELSE IF n \in Go THEN "running" ELSE row[n].status
    BY <2>1 DEF Go, Gone, TypeOK
  <2>7. run.completed \subseteq Nodes /\ run.skipped \subseteq Nodes
    BY DEF TypeOK
  <2>8. MemoryMatches'
    <3>1. \A n \in Nodes : row'[n].status = "skipped" => n \in Conditional
      BY <1>1, <2>3, <2>6
    <3>2. \A n \in run'.completed : row'[n].status = "completed"
      BY <1>3, <2>2, <2>3, <2>4, <2>5, <2>6, <2>7
    <3>3. \A n \in run'.skipped : row'[n].status \in {"skipped", "absent"}
      BY <1>3, <2>2, <2>3, <2>4, <2>5, <2>6, <2>7
    <3>. QED
      BY <3>1, <3>2, <3>3 DEF MemoryMatches
  <2>9. Cardinality(ReadySet) = 1 => \A m, n \in Go : m = n
    <3>1. IsFiniteSet(ReadySet)
      BY <2>2, NodesAreNumbers, FS_Subset
    <3>. QED
      BY <2>3, <3>1, FS_Singleton
  <2>10. AwaitsStages'
    BY <2>5, <2>9 DEF AwaitsStages
  <2>11. LiveMayRun'
    BY <2>2, <2>3, <2>5 DEF LiveMayRun
  <2>. QED
    BY <2>8, <2>10, <2>11 DEF DepInv
<1>13. CASE RoundJoined
  BY <1>4, <1>13 DEF RoundJoined, TypeOK
<1>14. CASE GatePassed
  BY <1>4, <1>14 DEF GatePassed, TypeOK
<1>15. CASE GateFails
  <2>1. Return
    BY <1>15 DEF GateFails
  <2>2. \A n \in Nodes : row'[n].status = "skipped" => row[n].status = "skipped"
    BY <1>15 DEF GateFails, TypeOK
  <2>. QED
    BY <2>1, <2>2, EndedSafe
<1>16. CASE LoopEnd
  BY <1>4, <1>16 DEF LoopEnd, TypeOK
<1>17. CASE FinalizeFails
  BY <1>17, EndedSafe DEF FinalizeFails, EndRun
<1>18. CASE CompleteTask
  <2>1. /\ UNCHANGED row /\ run.pc = "returned" /\ run'.pc = "announce"
        /\ run'.live = run.live /\ run'.dead = run.dead /\ run'.await = run.await
    BY <1>18 DEF CompleteTask, TypeOK
  <2>. QED
    BY <1>1, <1>2, <2>1, RestingSafe DEF AtWork
<1>19. CASE AnnounceDone
  BY <1>19, EndedSafe DEF AnnounceDone, EndRun
<1>. QED
  BY <1>5, <1>6, <1>7, <1>8, <1>9, <1>10, <1>11, <1>12, <1>13, <1>14, <1>15, <1>16,
     <1>17, <1>18, <1>19 DEF RunStep

\* A stage that ends, and the awaiting of one that has ended, keep the
\* invariant.
LEMMA StageStepSafe ==
  ASSUME RedirectsAreUnconditional, TypeOK, DepInv, NEW n \in Nodes, StageStep(n)
  PROVE  DepInv'
<1>. USE DEF TypeOK, AtWork
<1>1. CASE StageSucceeds(n)
  <2>1. n \in run.live /\ run'.live = run.live \ {n} /\ run.pc = "await"
    BY <1>1 DEF StageSucceeds, DepInv, AwaitsStages
  <2>2. /\ run'.dead = run.dead /\ run'.await = run.await /\ run'.completed = run.completed
        /\ run'.skipped = run.skipped /\ run'.pc = run.pc /\ run'.alone = run.alone
        /\ run'.left = run.left
    BY <1>1 DEF StageSucceeds
  <2>3. \A m \in Nodes : row'[m].status = IF m = n THEN "completed" ELSE row[m].status
    BY <1>1 DEF StageSucceeds
  <2>. QED
    BY <2>1, <2>2, <2>3 DEF DepInv, MemoryMatches, AwaitsStages, LiveMayRun
<1>2. CASE StageFails(n)
  <2>1. /\ n \in run.live /\ n \in run.await /\ run.pc = "await"
        /\ run'.live = run.live \ {n} /\ run'.dead = run.dead \cup {n}
    BY <1>2 DEF StageFails, DepInv, AwaitsStages
  <2>2. /\ run'.await = run.await /\ run'.completed = run.completed
        /\ run'.skipped = run.skipped /\ run'.pc = run.pc /\ run'.alone = run.alone
        /\ run'.left = run.left
    BY <1>2 DEF StageFails
  <2>3. \A m \in Nodes : row'[m].status = IF m = n THEN "failed" ELSE row[m].status
    BY <1>2 DEF StageFails
  <2>4. n \notin run.completed /\ n \notin run.skipped
    BY <2>1 DEF DepInv, LiveMayRun
  <2>. QED
    BY <2>1, <2>2, <2>3, <2>4 DEF DepInv, MemoryMatches, AwaitsStages, LiveMayRun
<1>3. ASSUME Joins(n)
      PROVE  n \in run.await /\ n \notin run.live /\ run.pc = "await" /\ run.left = {}
  BY <1>3, FirstIsElement DEF Joins, DepInv, AwaitsStages
<1>4. ASSUME Joins(n), run.alone
      PROVE  run.await = {n} /\ run.live = {} /\ run.dead \subseteq {n}
  BY <1>3, <1>4 DEF DepInv, AwaitsStages
<1>5. CASE JoinCompleted(n)
  <2>. DEFINE m == [Joined(n) EXCEPT !.completed = @ \cup {n}]
  <2>1. /\ n \in run.await /\ n \notin run.live /\ n \notin run.dead
        /\ row[n].status = "completed" /\ UNCHANGED row /\ run.pc = "await" /\ run.left = {}
    BY <1>3, <1>5 DEF JoinCompleted, DepInv, AwaitsStages
  <2>2. /\ run'.live = run.live /\ run'.dead = run.dead \ {n} /\ run'.await = run.await \ {n}
        /\ run'.completed = run.completed \cup {n} /\ run'.skipped = run.skipped
        /\ run'.alone = run.alone /\ run'.left = {}
        /\ run'.pc \in {"await", "gate", "loop"} /\ (~ run.alone => run'.pc = "await")
    BY <1>5, <2>1 DEF JoinCompleted, GateOr, Joined
  <2>3. run.alone => run'.live = {} /\ run'.dead = {} /\ run'.await = {}
    BY <1>4, <1>5, <2>2 DEF JoinCompleted
  <2>4. MemoryMatches'
    BY <2>1, <2>2 DEF DepInv, MemoryMatches
  <2>5. AwaitsStages'
    BY <2>1, <2>2, <2>3 DEF DepInv, AwaitsStages
  <2>6. LiveMayRun'
    BY <2>1, <2>2 DEF DepInv, LiveMayRun
  <2>. QED
    BY <2>4, <2>5, <2>6 DEF DepInv
<1>6. CASE CodeCheckFails(n)
  <2>1. \A m \in Nodes : row'[m].status = "skipped" => row[m].status = "skipped"
    BY <1>6 DEF CodeCheckFails
  <2>. QED
    BY <1>6, <2>1, EndedSafe DEF CodeCheckFails
<1>7. CASE Redirect(n)
  <2>1. /\ run.await = {n} /\ run.live = {} /\ run.dead = {n}
        /\ run.pc = "await" /\ run.left = {}
    BY <1>3, <1>4, <1>7 DEF Redirect
  <2>2. /\ run'.live = {} /\ run'.dead = {} /\ run'.await = {} /\ run'.left = {}
        /\ run'.completed = run.completed \ {OnFailure[n]} /\ run'.skipped = run.skipped
    BY <1>7, <2>1 DEF Redirect, Joined
  <2>3. OnFailure[n] \in Nodes /\ row[OnFailure[n]].status # "absent"
    BY <1>7, GraphIsValid DEF Redirect, Redirects, Absent
  <2>4. \A m \in Nodes : row'[m].status = IF m = OnFailure[n] THEN "pending" ELSE row[m].status
    BY <1>7, <2>3 DEF Redirect
  <2>5. OnFailure[n] \notin run.skipped
    BY <2>1, <2>3 DEF DepInv, MemoryMatches, RedirectsAreUnconditional
  <2>. QED
    BY <2>1, <2>2, <2>4, <2>5, RestingSafe DEF DepInv, MemoryMatches
<1>8. CASE StopFailed(n)
  BY <1>8, EndedSafe DEF StopFailed
<1>9. CASE JoinFailed(n)
  <2>1. /\ n \in run.await /\ n \notin run.live /\ n \in run.dead
        /\ UNCHANGED row /\ run.pc = "await" /\ run.left = {} /\ ~ run.alone
    BY <1>3, <1>9 DEF JoinFailed
  <2>2. /\ run'.live = run.live /\ run'.dead = run.dead \ {n} /\ run'.await = run.await \ {n}
        /\ run'.completed = run.completed /\ run'.skipped = run.skipped
        /\ run'.alone = run.alone /\ run'.left = {} /\ run'.pc = "await"
    BY <1>9, <2>1 DEF JoinFailed, Joined
  <2>. QED
    BY <2>1, <2>2 DEF DepInv, MemoryMatches, AwaitsStages, LiveMayRun
<1>10. CASE JoinRaises(n)
  <2>1. /\ n \in run.live /\ n \notin run.dead /\ run.pc = "await" /\ run.left = {} /\ ~ run.alone
        /\ n \notin run.completed /\ n \notin run.skipped
    BY <1>10 DEF JoinRaises, DepInv, AwaitsStages, LiveMayRun
  <2>2. /\ run'.live = run.live \ {n} /\ run'.dead = run.dead \ {n} /\ run'.await = run.await \ {n}
        /\ run'.completed = run.completed /\ run'.skipped = run.skipped
        /\ run'.alone = run.alone /\ run'.left = {} /\ run'.pc = "await"
    BY <1>10, <2>1 DEF JoinRaises, Joined
  <2>3. \A m \in Nodes : row'[m].status = IF m = n THEN "failed" ELSE row[m].status
    BY <1>10 DEF JoinRaises
  <2>. QED
    BY <2>1, <2>2, <2>3 DEF DepInv, MemoryMatches, AwaitsStages, LiveMayRun
<1>. QED
  BY <1>1, <1>2, <1>5, <1>6, <1>7, <1>8, <1>9, <1>10 DEF StageStep

\* DepInv is inductive.
LEMMA DepInvKept ==
  ASSUME RedirectsAreUnconditional, TypeOK, DepInv, [Next]_vars
  PROVE  DepInv'
<1>1. CASE Timeout
  BY <1>1, EndedSafe DEF Timeout, EndRun
<1>2. CASE CancelTask
  BY <1>2 DEF CancelTask, DepInv, MemoryMatches, AtWork, AwaitsStages, LiveMayRun
<1>3. CASE RetryTask
  <2>1. UNCHANGED run
    BY <1>3 DEF RetryTask
  <2>2. \A n \in Nodes : row[n].status # "failed" => row'[n].status = row[n].status
    BY <1>3 DEF RetryTask
  <2>3. \A n \in Nodes : row[n].status = "failed" => row'[n].status = "pending"
    BY <1>3 DEF RetryTask, TypeOK
  <2>4. /\ run.completed \subseteq Nodes /\ run.skipped \subseteq Nodes /\ run.live \subseteq Nodes
        /\ run.await \subseteq Nodes
    BY DEF TypeOK
  <2>5. MemoryMatches'
    BY <2>1, <2>2, <2>3, <2>4 DEF DepInv, MemoryMatches, AtWork
  <2>6. AwaitsStages'
    BY <2>1, <2>2, <2>4 DEF DepInv, AwaitsStages
  <2>7. LiveMayRun'
    BY <2>1 DEF DepInv, LiveMayRun
  <2>. QED
    BY <2>5, <2>6, <2>7 DEF DepInv
<1>4. CASE CrashAndRestart
  BY <1>4, EndedSafe DEF CrashAndRestart
<1>5. ASSUME NEW n \in Nodes, LeftoverEnds(n) PROVE DepInv'
  <2>1. run.pc \in {"returned", "announce"} /\ run'.pc = run.pc
    BY <1>5 DEF LeftoverEnds, DepInv, AwaitsStages, TypeOK
  <2>2. run.await = {} /\ run.live = {} /\ run.dead = {}
    BY <2>1 DEF DepInv, AwaitsStages, TypeOK
  <2>3. run'.await = {} /\ run'.live = {} /\ run'.dead = {}
    BY <1>5, <2>2 DEF LeftoverEnds, TypeOK
  <2>4. \A m \in Nodes : row'[m].status = "skipped" => row[m].status = "skipped"
    BY <1>5 DEF LeftoverEnds, TypeOK
  <2>. QED
    BY <2>1, <2>3, <2>4, RestingSafe DEF DepInv, MemoryMatches, AtWork
<1>6. ASSUME NEW n \in Nodes, OrphanEnds(n) PROVE DepInv'
  BY <1>6 DEF OrphanEnds, DepInv, MemoryMatches, AtWork, AwaitsStages, LiveMayRun
<1>7. CASE UNCHANGED vars
  BY <1>7 DEF vars, DepInv, MemoryMatches, AtWork, AwaitsStages, LiveMayRun
<1>. QED
  BY <1>1, <1>2, <1>3, <1>4, <1>5, <1>6, <1>7, RunStepSafe, StageStepSafe DEF Next, Progress

\* While a stage executes, what it depends on is completed or skipped in the
\* database, provided that no redirect leads to a conditional stage.
THEOREM DependenciesAreDone ==
  ASSUME RedirectsAreUnconditional
  PROVE  Spec => []DependenciesDone
<1>1. Init => DepInv
  BY DEF Init, NoRun, DepInv, MemoryMatches, AtWork, AwaitsStages, LiveMayRun
<1>2. TypeOK /\ DepInv /\ [Next]_vars => DepInv'
  BY DepInvKept
<1>3. TypeOK /\ DepInv => DependenciesDone
  <2>. SUFFICES ASSUME TypeOK, DepInv, NEW n \in run.live, NEW d \in DependsOn[n]
                PROVE  row[d].status \in {"completed", "skipped", "absent"}
    BY DEF DependenciesDone
  <2>1. run.pc = "await"
    BY DEF DepInv, AwaitsStages
  <2>2. d \in run.completed \/ d \in run.skipped
    BY DEF DepInv, LiveMayRun
  <2>. QED
    BY <2>1, <2>2 DEF DepInv, MemoryMatches, AtWork
<1>. QED
  BY <1>1, <1>2, <1>3, TypeCorrect, PTL DEF Spec

----------------------------------------------------------------------------
(* The end of the loop.                                                    *)

\* In a graph without a cycle something is ready unless all is done or failed.
LEMMA NothingReadyAllDone ==
  ASSUME TypeOK, ReadySet = {}, run.failed \subseteq run.completed
  PROVE  Nodes \subseteq run.completed \cup run.skipped
<1>. DEFINE S == Nodes \ (run.completed \cup run.skipped)
<1>1. \A n \in S : DependsOn[n] \cap S # {}
  <2>. SUFFICES ASSUME NEW n \in S PROVE DependsOn[n] \cap S # {}
    OBVIOUS
  <2>1. n \notin run.failed
    OBVIOUS
  <2>2. ~ (DependsOn[n] \subseteq run.completed \cup run.skipped)
    BY <2>1 DEF ReadySet, Ready
  <2>. QED
    BY <2>2, GraphIsValid
<1>2. S \in SUBSET Nodes
  OBVIOUS
<1>. HIDE DEF S
<1>3. S = {}
  BY <1>1, <1>2, GraphIsValid DEF Cyclic
<1>. QED
  BY <1>3 DEF S

\* The memory of a run whose loop has ended has all stages.
MemoryIsFull == run.pc = "loopend" => Nodes \subseteq run.completed \cup run.skipped

LEMMA MemoryStaysFull ==
  ASSUME TypeOK, DepInv, MemoryIsFull, [Next]_vars
  PROVE  MemoryIsFull'
<1>. SUFFICES ASSUME run'.pc = "loopend"
              PROVE  Nodes \subseteq run'.completed \cup run'.skipped
  BY DEF MemoryIsFull
<1>1. CASE RunStep
  <2>1. CASE RoundAllDone
    <3>1. run'.completed = run.completed /\ run'.skipped = run.skipped
      BY <2>1 DEF RoundAllDone, TypeOK
    <3>. QED
      BY <2>1, <3>1, NothingReadyAllDone DEF RoundAllDone
  <2>2. CASE LoadStage
    BY <2>2 DEF LoadStage, GateOr, TypeOK
  <2>3. CASE RoundLaunch
    BY <2>3 DEF RoundLaunch, TypeOK
  <2>4. ~ (StartRun \/ LoadFails \/ Loaded \/ RoundCancelled \/ RoundStuck \/ RoundJoined)
    BY DEF StartRun, LoadFails, Loaded, RoundCancelled, RoundStuck, RoundJoined, NoRun, Return, TypeOK
  <2>5. ~ (FinalizeFails \/ CompleteTask \/ AnnounceDone)
    BY DEF FinalizeFails, CompleteTask, AnnounceDone, EndRun, NoRun, TypeOK
  <2>6. ~ (GateFails \/ LoopEnd)
    BY DEF GateFails, LoopEnd, Return, TypeOK
  <2>7. ~ GatePassed
    <3>1. GatePassed => run'.pc \in {"load", "loop"}
      BY DEF GatePassed, TypeOK
    <3>. QED
      BY <3>1
  <2>. QED
    BY <1>1, <2>1, <2>2, <2>3, <2>4, <2>5, <2>6, <2>7 DEF RunStep
<1>2. ASSUME NEW n \in Nodes, StageStep(n) PROVE FALSE
  <2>1. run.pc = "await"
    BY <1>2 DEF DepInv, AwaitsStages, StageStep, StageSucceeds, StageFails, JoinCompleted,
                CodeCheckFails, Redirect, StopFailed, JoinFailed, JoinRaises, Joins
  <2>2. CASE StageSucceeds(n) \/ StageFails(n)
    BY <2>1, <2>2 DEF StageSucceeds, StageFails, TypeOK
  <2>3. CASE JoinCompleted(n) \/ JoinFailed(n) \/ JoinRaises(n) \/ Redirect(n)
    BY <2>1, <2>3 DEF JoinCompleted, JoinFailed, JoinRaises, Redirect, Joined, GateOr, TypeOK
  <2>4. CASE CodeCheckFails(n) \/ StopFailed(n)
    BY <2>4 DEF CodeCheckFails, StopFailed, Return, TypeOK
  <2>. QED
    BY <1>2, <2>2, <2>3, <2>4 DEF StageStep
<1>3. CASE Timeout \/ CrashAndRestart
  BY <1>3 DEF Timeout, CrashAndRestart, EndRun, NoRun
<1>4. CASE CancelTask \/ RetryTask \/ UNCHANGED vars
  BY <1>4 DEF CancelTask, RetryTask, vars, MemoryIsFull
<1>5. ASSUME NEW n \in Nodes, LeftoverEnds(n) \/ OrphanEnds(n)
      PROVE  Nodes \subseteq run'.completed \cup run'.skipped
  BY <1>5 DEF LeftoverEnds, OrphanEnds, TypeOK, MemoryIsFull
<1>. QED
  BY <1>1, <1>2, <1>3, <1>4, <1>5 DEF Next, Progress

\* The loop ends by itself only with every stage completed or skipped in the
\* database: in a graph that validate lets through, of any size, nothing is ready
\* for no other reason but a failure.
THEOREM LoopEndsWhenDone ==
  ASSUME RedirectsAreUnconditional
  PROVE  Spec => []LoopEndsWithAllDone
<1>1. Init => DepInv /\ MemoryIsFull
  BY DEF Init, NoRun, DepInv, MemoryMatches, AtWork, AwaitsStages, LiveMayRun, MemoryIsFull
<1>2. TypeOK /\ DepInv /\ MemoryIsFull /\ [Next]_vars => DepInv' /\ MemoryIsFull'
  BY DepInvKept, MemoryStaysFull
<1>3. DepInv /\ MemoryIsFull => LoopEndsWithAllDone
  BY DEF DepInv, MemoryMatches, AtWork, MemoryIsFull, LoopEndsWithAllDone
<1>. QED
  BY <1>1, <1>2, <1>3, TypeCorrect, PTL DEF Spec

----------------------------------------------------------------------------
(* Runs descend: the step of the argument for RunEnds that needs no        *)
(* fairness.                                                               *)

\* How far a run has got: the phase, then the stages to load or the rounds that are
\* left, then where it is in a round.  A gate in round 0 belongs to the loading.
Phase(m) ==
  CASE m.pc = "off" -> 0
    [] m.pc = "announce" -> 1
    [] m.pc = "returned" -> 2
    [] m.pc = "loopend" -> 3
    [] m.pc = "load" \/ (m.pc = "gate" /\ m.iteration = 0) -> 5
    [] OTHER -> 4

Turns(m) ==
  CASE Phase(m) = 5 -> Cardinality(m.load)
    [] Phase(m) = 4 -> MaxIterations - m.iteration
    [] OTHER -> 0

Place(m) ==
  CASE m.pc = "await" -> 2 + Cardinality(m.await) + Cardinality(m.live)
    [] m.pc = "gate" -> 1
    [] OTHER -> 0

Height(m) == <<Phase(m), <<Turns(m), Place(m)>>>>
Heights == Nat \X (Nat \X Nat)
Less == OpToRel(<, Nat)
Nearer == LexPairOrdering(Less, LexPairOrdering(Less, Less, Nat, Nat), Nat, Nat \X Nat)

Lower(e, f) ==
  \/ Phase(e) < Phase(f)
  \/ /\ Phase(e) = Phase(f)
     /\ \/ Turns(e) < Turns(f)
        \/ Turns(e) = Turns(f) /\ Place(e) < Place(f)

\* Stages are awaited in a round only, one that runs alone is the only one.
RunShape ==
  /\ run.live \subseteq run.await
  /\ run.await # {} => run.pc = "await"
  /\ run.alone => \A m, n \in run.await : m = n
  /\ run.pc = "await" => run.iteration > 0
  /\ run.pc = "load" => run.iteration = 0

\* Nothing descends for ever.
LEMMA HeightsAreWellFounded == IsWellFoundedOn(Nearer, Heights)
  BY NatLessThanWellFounded, WFLexPairOrdering DEF Nearer, Heights, Less

\* The stages a run has left to load, to await or executing are finitely many.
LEMMA SizeIsNat ==
  ASSUME NEW S \in SUBSET Nodes
  PROVE  IsFiniteSet(S) /\ Cardinality(S) \in Nat
  BY NodesAreNumbers, FS_Subset, FS_CardinalityType

LEMMA OneLess ==
  ASSUME NEW S \in SUBSET Nodes, NEW x \in S
  PROVE  Cardinality(S \ {x}) < Cardinality(S)
<1>1. IsFiniteSet(S) /\ Cardinality(S) \in Nat
  BY SizeIsNat
<1>2. Cardinality(S \ {x}) = Cardinality(S) - 1
  BY <1>1, FS_RemoveElement
<1>. QED
  BY <1>1, <1>2

LEMMA HeightType ==
  ASSUME NEW m \in Memory
  PROVE  /\ Phase(m) \in Nat /\ Turns(m) \in Nat /\ Place(m) \in Nat
         /\ Height(m) \in Heights
<1>1. Phase(m) \in Nat
  BY DEF Phase
<1>2. Turns(m) \in Nat
  <2>1. m.load \in SUBSET Nodes /\ m.iteration \in 0 .. MaxIterations
    BY DEF Memory
  <2>2. Cardinality(m.load) \in Nat
    BY <2>1, SizeIsNat
  <2>. QED
    BY <2>1, <2>2, RoundsAreNat DEF Turns
<1>3. Place(m) \in Nat
  <2>1. m.await \in SUBSET Nodes /\ m.live \in SUBSET Nodes
    BY DEF Memory
  <2>2. Cardinality(m.await) \in Nat /\ Cardinality(m.live) \in Nat
    BY <2>1, SizeIsNat
  <2>. QED
    BY <2>2 DEF Place
<1>. QED
  BY <1>1, <1>2, <1>3 DEF Height, Heights

LEMMA LowerIsNearer ==
  ASSUME NEW e \in Memory, NEW f \in Memory, Lower(e, f)
  PROVE  <<Height(e), Height(f)>> \in Nearer
<1>. DEFINE a == Phase(e)  b == Turns(e)  c == Place(e)
            i == Phase(f)  j == Turns(f)  k == Place(f)
            Inner == LexPairOrdering(Less, Less, Nat, Nat)
<1>1. /\ a \in Nat /\ b \in Nat /\ c \in Nat /\ i \in Nat /\ j \in Nat /\ k \in Nat
      /\ a < i \/ (a = i /\ (b < j \/ (b = j /\ c < k)))
  BY HeightType DEF Lower
<1>. HIDE DEF a, b, c, i, j, k
<1>2. \A m, n \in Nat : m < n => <<m, n>> \in Less
  BY DEF Less, OpToRel
<1>3. b < j \/ (b = j /\ c < k) => <<<<b, c>>, <<j, k>>>> \in Inner
  BY <1>1, <1>2 DEF LexPairOrdering
<1>. HIDE DEF Inner
<1>4. <<<<a, <<b, c>>>>, <<i, <<j, k>>>>>> \in LexPairOrdering(Less, Inner, Nat, Nat \X Nat)
  BY <1>1, <1>2, <1>3 DEF LexPairOrdering
<1>. QED
  BY <1>4 DEF Nearer, Inner, Height, a, b, c, i, j, k

\* A run that returns, or is over, has left the loading and the loop.
LEMMA ReturnDescends ==
  ASSUME TypeOK, RunShape, Return, run.pc \notin {"off", "returned", "announce"}
  PROVE  RunShape' /\ Lower(run', run)
<1>1. run'.pc = "returned" /\ run'.live = {} /\ run'.await = {}
  BY DEF Return, TypeOK
<1>. QED
  BY <1>1 DEF RunShape, Lower, Phase, TypeOK

LEMMA EndDescends ==
  ASSUME TypeOK, RunShape, run' = NoRun, run.pc # "off"
  PROVE  RunShape' /\ Lower(run', run)
<1>1. run'.pc = "off" /\ run'.live = {} /\ run'.await = {}
  BY DEF NoRun
<1>. QED
  BY <1>1 DEF RunShape, Lower, Phase, TypeOK

\* The loading takes a stage less each time, the loop has a round less each time.
LEMMA RunStepDescends ==
  ASSUME TypeOK, RunShape, RunStep, ~ StartRun
  PROVE  RunShape' /\ Lower(run', run)
<1>0. run \in Memory
  BY DEF TypeOK, Memory
<1>1. CASE LoadStage
  <2>1. run.pc = "load" /\ run.iteration = 0 /\ run.live = {} /\ run.await = {}
    BY <1>1 DEF LoadStage, RunShape
  <2>2. /\ run'.load = run.load \ {Min(run.load)} /\ run'.iteration = 0
        /\ run'.pc \in {"load", "gate"} /\ run'.live = {} /\ run'.await = {}
    BY <1>1, <2>1 DEF LoadStage, GateOr, TypeOK
  <2>3. Cardinality(run'.load) < Cardinality(run.load)
    BY <1>1, <2>2, FirstIsElement, OneLess DEF LoadStage, TypeOK
  <2>. QED
    BY <2>1, <2>2, <2>3 DEF RunShape, Lower, Phase, Turns
<1>2. CASE Loaded
  <2>1. /\ run.pc = "load" /\ run'.pc = "loop" /\ run'.live = run.live /\ run'.await = run.await
        /\ run'.alone = run.alone
    BY <1>2 DEF Loaded, TypeOK
  <2>. QED
    BY <2>1 DEF RunShape, Lower, Phase
<1>3. CASE RoundCancelled \/ RoundStuck \/ RoundAllDone \/ LoopEnd
  <2>1. /\ \/ run.pc = "loop" /\ run'.pc \in {"returned", "loopend"}
           \/ run.pc = "loopend" /\ run'.pc = "returned"
        /\ run'.live = run.live /\ run'.await = run.await /\ run'.alone = run.alone
    BY <1>3 DEF RoundCancelled, RoundStuck, RoundAllDone, LoopEnd, InRound, TypeOK
  <2>. QED
    BY <2>1 DEF RunShape, Lower, Phase
<1>4. CASE RoundLaunch
  <2>1. run.pc = "loop" /\ run.iteration \in 0 .. MaxIterations /\ run.iteration < MaxIterations
    BY <1>4 DEF RoundLaunch, InRound, TypeOK
  <2>2. PICK Go \in SUBSET ReadySet :
          /\ run'.iteration = run.iteration + 1 /\ run'.live = Go /\ run'.await = Go
          /\ run'.alone = (Cardinality(ReadySet) = 1)
          /\ run'.pc = IF Go = {} THEN "loop" ELSE "await"
    <3>1. PICK Skip \in SUBSET {n \in ReadySet \cap Conditional : ~ Absent(n)} :
            LET Gone == {n \in ReadySet : Absent(n)}
                Go   == ReadySet \ (Skip \cup Gone)
            IN run' = [run EXCEPT !.iteration = @ + 1, !.skipped = @ \cup Skip \cup Gone,
                                  !.counts = [n \in Nodes |-> IF n \in Go THEN @[n] + 1 ELSE @[n]],
                                  !.live = Go, !.await = Go, !.alone = Cardinality(ReadySet) = 1,
                                  !.pc = IF Go = {} THEN "loop" ELSE "await"]
      BY <1>4 DEF RoundLaunch
    <3>. DEFINE Go == ReadySet \ (Skip \cup {n \in ReadySet : Absent(n)})
    <3>2. /\ Go \in SUBSET ReadySet
          /\ run'.iteration = run.iteration + 1 /\ run'.live = Go /\ run'.await = Go
          /\ run'.alone = (Cardinality(ReadySet) = 1)
          /\ run'.pc = IF Go = {} THEN "loop" ELSE "await"
      BY <3>1 DEF TypeOK
    <3>. QED
      BY <3>2
  <2>3. run'.alone => \A m, n \in run'.await : m = n
    <3>1. SUFFICES ASSUME Cardinality(ReadySet) = 1
                   PROVE  \A m, n \in ReadySet : m = n
      BY <2>2
    <3>2. ReadySet \in SUBSET Nodes
      BY DEF ReadySet, Ready
    <3>3. IsFiniteSet(ReadySet)
      BY <3>2, SizeIsNat
    <3>. QED
      BY <3>1, <3>3, FS_Singleton
  <2>4. MaxIterations - run'.iteration < MaxIterations - run.iteration /\ run'.iteration > 0
    BY <2>1, <2>2, RoundsAreNat
  <2>5. RunShape'
    BY <2>2, <2>3, <2>4 DEF RunShape
  <2>. QED
    BY <2>1, <2>2, <2>4, <2>5 DEF Lower, Phase, Turns
<1>5. CASE RoundJoined
  <2>1. /\ run.pc = "await" /\ run'.pc = "loop" /\ run'.iteration = run.iteration
        /\ run'.live = run.live /\ run'.await = {} /\ run.await = {} /\ run'.alone = run.alone
    BY <1>5 DEF RoundJoined, TypeOK
  <2>2. Cardinality(run.await) \in Nat /\ Cardinality(run.live) \in Nat
    BY SizeIsNat DEF TypeOK
  <2>. QED
    BY <2>1, <2>2 DEF RunShape, Lower, Phase, Turns, Place
<1>6. CASE GatePassed
  <2>1. /\ run.pc = "gate" /\ run'.pc = IF run.iteration = 0 THEN "load" ELSE "loop"
        /\ run'.iteration = run.iteration /\ run'.load = run.load
        /\ run'.live = run.live /\ run'.await = run.await /\ run'.alone = run.alone
    BY <1>6 DEF GatePassed, TypeOK
  <2>. QED
    BY <2>1 DEF RunShape, Lower, Phase, Turns, Place
<1>7. CASE LoadFails \/ GateFails
  <2>1. Return /\ run.pc \in {"load", "gate"}
    BY <1>7 DEF LoadFails, GateFails
  <2>. QED
    BY <2>1, ReturnDescends
<1>8. CASE FinalizeFails \/ AnnounceDone
  <2>1. run' = NoRun /\ run.pc \in {"returned", "announce"}
    BY <1>8 DEF FinalizeFails, AnnounceDone, EndRun
  <2>. QED
    BY <2>1, EndDescends
<1>9. CASE CompleteTask
  <2>1. /\ run.pc = "returned" /\ run'.pc = "announce"
        /\ run'.live = run.live /\ run'.await = run.await /\ run'.alone = run.alone
    BY <1>9 DEF CompleteTask, TypeOK
  <2>. QED
    BY <2>1 DEF RunShape, Lower, Phase
<1>. QED
  BY <1>1, <1>2, <1>3, <1>4, <1>5, <1>6, <1>7, <1>8, <1>9 DEF RunStep

\* Every stage of a round ends once and is awaited once.
LEMMA StageStepDescends ==
  ASSUME TypeOK, RunShape, NEW n \in Nodes, StageStep(n)
  PROVE  RunShape' /\ Lower(run', run)
<1>1. run.pc = "await" /\ run.iteration > 0
  BY DEF RunShape, StageStep, StageSucceeds, StageFails, JoinCompleted, CodeCheckFails,
         Redirect, StopFailed, JoinFailed, JoinRaises, Joins
<1>2. /\ Cardinality(run.await) \in Nat /\ Cardinality(run.live) \in Nat
      /\ run.await \in SUBSET Nodes /\ run.live \in SUBSET Nodes
  BY SizeIsNat DEF TypeOK
<1>3. CASE StageSucceeds(n) \/ StageFails(n)
  <2>1. /\ n \in run.live /\ run'.live = run.live \ {n} /\ run'.await = run.await
        /\ run'.pc = "await" /\ run'.iteration = run.iteration /\ run'.alone = run.alone
    BY <1>1, <1>3 DEF StageSucceeds, StageFails, TypeOK
  <2>2. Cardinality(run'.live) < Cardinality(run.live) /\ Cardinality(run'.live) \in Nat
    BY <1>2, <2>1, OneLess, SizeIsNat
  <2>3. RunShape'
    BY <1>1, <2>1 DEF RunShape
  <2>. QED
    BY <1>1, <1>2, <2>1, <2>2, <2>3 DEF Lower, Phase, Turns, Place
<1>4. CASE JoinCompleted(n) \/ Redirect(n) \/ JoinFailed(n)
  <2>1. n = Min(run.await) /\ run.await # {} /\ n \notin run.live
    BY <1>4 DEF JoinCompleted, Redirect, JoinFailed, Joins
  <2>2. n \in run.await
    BY <1>2, <2>1, FirstIsElement
  <2>3. /\ run'.live = run.live /\ run'.await = run.await \ {n}
        /\ run'.iteration = run.iteration /\ run'.alone = run.alone
        /\ run'.pc = "await" \/ (run'.pc \in {"loop", "gate"} /\ run.alone)
    <3>1. CASE JoinCompleted(n)
      <4>. DEFINE m == [Joined(n) EXCEPT !.completed = @ \cup {n}]
      <4>1. /\ m.live = run.live /\ m.await = run.await \ {n} /\ m.pc = "await"
            /\ m.iteration = run.iteration /\ m.alone = run.alone /\ m \in Memory
        BY <1>1, <1>2, <2>2 DEF Joined, TypeOK, Memory
      <4>2. run' = IF run.alone THEN GateOr(m, n, "loop") ELSE m
        BY <3>1 DEF JoinCompleted
      <4>. HIDE DEF m
      <4>. QED
        BY <4>1, <4>2 DEF GateOr, Memory
    <3>2. CASE Redirect(n) \/ JoinFailed(n)
      BY <1>1, <3>2 DEF Redirect, JoinFailed, Joined, TypeOK
    <3>. QED
      BY <1>4, <3>1, <3>2
  <2>4. Cardinality(run'.await) < Cardinality(run.await) /\ Cardinality(run'.await) \in Nat
    BY <1>2, <2>2, <2>3, OneLess, SizeIsNat
  <2>5. RunShape'
    BY <1>1, <2>1, <2>2, <2>3 DEF RunShape
  <2>. QED
    BY <1>1, <1>2, <2>3, <2>4, <2>5 DEF Lower, Phase, Turns, Place
<1>5. CASE CodeCheckFails(n) \/ StopFailed(n)
  <2>1. Return
    BY <1>5 DEF CodeCheckFails, StopFailed
  <2>. QED
    BY <1>1, <2>1, ReturnDescends
<1>6. CASE JoinRaises(n)
  <2>1. /\ n \in run.live /\ n \in run.await /\ ~ run.alone
        /\ run'.live = run.live \ {n} /\ run'.await = run.await \ {n}
        /\ run'.pc = "await" /\ run'.iteration = run.iteration /\ run'.alone = run.alone
    BY <1>1, <1>6 DEF JoinRaises, Joined, RunShape, TypeOK
  <2>2. /\ Cardinality(run'.live) < Cardinality(run.live) /\ Cardinality(run'.live) \in Nat
        /\ Cardinality(run'.await) < Cardinality(run.await) /\ Cardinality(run'.await) \in Nat
    BY <1>2, <2>1, OneLess, SizeIsNat
  <2>3. RunShape'
    BY <1>1, <2>1 DEF RunShape
  <2>. QED
    BY <1>1, <1>2, <2>1, <2>2, <2>3 DEF Lower, Phase, Turns, Place
<1>. QED
  BY <1>3, <1>4, <1>5, <1>6 DEF StageStep

\* What a run does by itself brings it nearer to its end; nothing but its start
\* takes it back, not the API and not a stage whose coroutine it has left behind.
Descends ==
  /\ Progress \/ Timeout \/ CrashAndRestart =>
       StartRun \/ <<Height(run)', Height(run)>> \in Nearer
  /\ StartRun \/ Height(run)' = Height(run) \/ <<Height(run)', Height(run)>> \in Nearer

\* Whatever stages fail and redirect to each other, a run takes finitely many steps
\* only, in any valid graph: all of them descend, and nothing descends for ever.
THEOREM RunsDescend == Spec => IsWellFoundedOn(Nearer, Heights) /\ [][Descends]_vars
<1>1. Init => RunShape
  BY DEF Init, NoRun, RunShape
<1>2. TypeOK /\ RunShape /\ [Next]_vars => RunShape'
  <2>. SUFFICES ASSUME TypeOK, RunShape, [Next]_vars PROVE RunShape'
    OBVIOUS
  <2>1. CASE StartRun
    <3>1. /\ run'.pc = "load" /\ run'.live = {} /\ run'.await = {} /\ run'.iteration = 0
      BY <2>1 DEF StartRun, NoRun
    <3>. QED
      BY <3>1 DEF RunShape
  <2>2. CASE Progress /\ ~ StartRun
    BY <2>2, RunStepDescends, StageStepDescends DEF Progress
  <2>3. CASE Timeout \/ CrashAndRestart
    <3>1. run' = NoRun /\ run.pc # "off"
      BY <2>3 DEF Timeout, CrashAndRestart, EndRun
    <3>. QED
      BY <3>1, EndDescends
  <2>4. CASE UNCHANGED run
    BY <2>4 DEF RunShape
  <2>5. ASSUME NEW n \in Nodes, LeftoverEnds(n) PROVE RunShape'
    <3>1. /\ run'.pc = run.pc /\ run'.live = run.live /\ run'.await = run.await
          /\ run'.iteration = run.iteration /\ run'.alone = run.alone
      BY <2>5 DEF LeftoverEnds, TypeOK
    <3>. QED
      BY <3>1 DEF RunShape
  <2>6. CancelTask \/ RetryTask \/ UNCHANGED vars \/ (\E n \in Nodes : OrphanEnds(n)) => UNCHANGED run
    BY DEF CancelTask, RetryTask, OrphanEnds, vars
  <2>. QED
    BY <2>1, <2>2, <2>3, <2>4, <2>5, <2>6 DEF Next
<1>3. TypeOK /\ TypeOK' /\ RunShape /\ [Next]_vars => [Descends]_vars
  <2>. SUFFICES ASSUME TypeOK, TypeOK', RunShape, Next
                PROVE  Descends
    OBVIOUS
  <2>1. run \in Memory /\ run' \in Memory
    BY DEF TypeOK, Memory
  <2>2. Height(run)' = Height(run')
    BY DEF Height, Turns, Place, Phase
  <2>3. Lower(run', run) => <<Height(run)', Height(run)>> \in Nearer
    BY <2>1, <2>2, LowerIsNearer
  <2>4. Progress => StartRun \/ Lower(run', run)
    BY RunStepDescends, StageStepDescends DEF Progress
  <2>5. Timeout \/ CrashAndRestart => Lower(run', run)
    <3>. SUFFICES ASSUME Timeout \/ CrashAndRestart PROVE Lower(run', run)
      OBVIOUS
    <3>1. run' = NoRun /\ run.pc # "off"
      BY DEF Timeout, CrashAndRestart, EndRun
    <3>. QED
      BY <3>1, EndDescends
  <2>6. CancelTask \/ RetryTask \/ (\E n \in Nodes : OrphanEnds(n)) => run' = run
    BY DEF CancelTask, RetryTask, OrphanEnds
  <2>7. ASSUME NEW n \in Nodes, LeftoverEnds(n) PROVE Height(run') = Height(run)
    <3>1. /\ run'.pc = run.pc /\ run'.live = run.live /\ run'.await = run.await
          /\ run'.iteration = run.iteration /\ run'.load = run.load
      BY <2>7 DEF LeftoverEnds, TypeOK
    <3>. QED
      BY <3>1 DEF Height, Turns, Place, Phase
  <2>8. CancelTask \/ RetryTask \/ (\E n \in Nodes : LeftoverEnds(n) \/ OrphanEnds(n))
          => Height(run)' = Height(run)
    BY <2>2, <2>6, <2>7
  <2>. QED
    BY <2>3, <2>4, <2>5, <2>8 DEF Next, Descends
<1>. QED
  BY <1>1, <1>2, <1>3, TypeCorrect, HeightsAreWellFounded, PTL DEF Spec

----------------------------------------------------------------------------
(* The inference of dependencies from order values.                        *)

\* Integers that are bounded from above have a greatest one.
LEMMA Greatest ==
  ASSUME NEW S \in SUBSET Int, NEW b \in Int, \A i \in S : i < b, S # {}
  PROVE  \E i \in S : \A j \in S : j <= i
<1>. DEFINE T == {b - i : i \in S}
<1>1. T \in SUBSET Nat /\ T # {}
  <2>1. PICK i \in S : TRUE
    OBVIOUS
  <2>2. b - i \in T
    OBVIOUS
  <2>3. \A j \in S : b - j \in Nat
    OBVIOUS
  <2>. QED
    BY <2>2, <2>3
<1>2. PICK t \in T : \A u \in T : ~ (<<u, t>> \in OpToRel(<, Nat))
  <2>. HIDE DEF T
  <2>. QED
    BY <1>1, NatLessThanWellFounded, WFMin
<1>3. PICK i \in S : t = b - i
  OBVIOUS
<1>4. \A j \in S : ~ (b - j < b - i)
  <2>. SUFFICES ASSUME NEW j \in S, b - j < b - i
                PROVE  FALSE
    OBVIOUS
  <2>1. b - j \in T /\ b - j \in Nat /\ b - i \in Nat
    OBVIOUS
  <2>2. <<b - j, b - i>> \in OpToRel(<, Nat)
    BY <2>1 DEF OpToRel
  <2>. QED
    BY <1>2, <1>3, <2>1, <2>2
<1>5. \A j \in S : j <= i
  <2>. SUFFICES ASSUME NEW j \in S PROVE j <= i
    OBVIOUS
  <2>1. j \in Int /\ i \in Int /\ ~ (b - j < b - i)
    BY <1>4
  <2>. QED
    BY <2>1
<1>. QED
  BY <1>5, Zenon

\* Stages without depends_on are started group by group for any order values, be
\* they negative, far apart or shared, and however much of a group is done.
THEOREM InferredGroupsStartInOrder ==
  ASSUME NEW Stages, NEW rank \in [Stages -> Int]
  PROVE  GroupsAreLinear(Stages, rank)
<1>. SUFFICES ASSUME NEW k \in {rank[n] : n \in Stages},
                     NEW Part \in SUBSET {n \in Stages : rank[n] = k}
              PROVE  LET Done == {n \in Stages : rank[n] < k} \cup Part
                         Rest == Stages \ Done
                     IN Ready(Stages, InferredDeps(Stages, rank), Done, {}, {},
                              [n \in Stages |-> 0], [n \in Stages |-> 1])
                          = {n \in Rest : \A m \in Rest : rank[n] <= rank[m]}
  BY DEF GroupsAreLinear
<1>. DEFINE Done == {n \in Stages : rank[n] < k} \cup Part
            Rest == Stages \ Done
            Earlier(n) == {m \in Stages : rank[m] < rank[n]}
            Last(n) == {m \in Earlier(n) : \A p \in Earlier(n) : rank[p] <= rank[m]}
            Next1 == Ready(Stages, InferredDeps(Stages, rank), Done, {}, {},
                           [n \in Stages |-> 0], [n \in Stages |-> 1])
<1>1. Next1 = {n \in Rest : Last(n) \subseteq Done}
  BY DEF Ready, InferredDeps
<1>2. k \in Int /\ \A n \in Stages : rank[n] \in Int
  OBVIOUS
<1>3. ASSUME NEW n \in Rest, Last(n) \subseteq Done, NEW m \in Rest
      PROVE  rank[n] <= rank[m]
  <2>. SUFFICES ASSUME rank[m] < rank[n]
                PROVE  FALSE
    BY <1>2
  <2>. DEFINE S == {rank[p] : p \in Earlier(n)}
  <2>1. PICK i \in S : \A j \in S : j <= i
    <3>1. S \in SUBSET Int /\ rank[n] \in Int /\ rank[m] \in S /\ \A i \in S : i < rank[n]
      BY <1>2
    <3>. HIDE DEF S
    <3>. QED
      BY <3>1, Greatest
  <2>2. PICK p \in Earlier(n) : i = rank[p]
    OBVIOUS
  <2>3. /\ p \in Last(n) /\ rank[m] <= rank[p]
        /\ \A q \in Earlier(n) : rank[q] <= rank[p]
    BY <2>1, <2>2
  <2>4. rank[m] >= k
    BY <1>2
  <2>5. rank[p] <= k
    BY <1>2, <1>3, <2>3
  <2>6. rank[m] = rank[p] /\ m \in Earlier(n)
    BY <1>2, <2>3, <2>4, <2>5
  <2>7. m \in Last(n)
    BY <2>3, <2>6
  <2>. QED
    BY <1>3, <2>7
<1>4. ASSUME NEW n \in Rest, \A m \in Rest : rank[n] <= rank[m]
      PROVE  Last(n) \subseteq Done
  <2>. SUFFICES ASSUME NEW m \in Last(n), m \in Rest
                PROVE  FALSE
    OBVIOUS
  <2>. QED
    BY <1>2, <1>4
<1>. HIDE DEF Next1
<1>5. Next1 = {n \in Rest : \A m \in Rest : rank[n] <= rank[m]}
  BY <1>1, <1>3, <1>4
<1>. QED
  BY <1>5 DEF Next1

\* What is inferred from order values, whichever they are, passes validate: a finite
\* set of stages that wait for each other would have a first one in the order.
THEOREM InferredGraphsAreAcyclic ==
  ASSUME NEW Stages, IsFiniteSet(Stages), NEW rank \in [Stages -> Int]
  PROVE  ~ Cyclic(Stages, InferredDeps(Stages, rank))
<1>. SUFFICES ASSUME NEW S \in SUBSET Stages, S # {},
                     \A n \in S : InferredDeps(Stages, rank)[n] \cap S # {}
              PROVE  FALSE
  BY DEF Cyclic
<1>1. IsFiniteSet(S)
  BY FS_Subset
<1>. DEFINE Before(x) == {y \in S : rank[y] < rank[x]}
            T == {Before(x) : x \in S}
<1>2. T \subseteq FiniteSubsetsOf(S)
  <2>. SUFFICES ASSUME NEW x \in S PROVE Before(x) \in FiniteSubsetsOf(S)
    OBVIOUS
  <2>1. Before(x) \in SUBSET S
    OBVIOUS
  <2>2. IsFiniteSet(Before(x))
    BY <1>1, <2>1, FS_Subset
  <2>. QED
    BY <2>1, <2>2 DEF FiniteSubsetsOf
<1>3. T # {}
  <2>1. PICK x \in S : TRUE
    OBVIOUS
  <2>2. Before(x) \in T
    BY <2>1
  <2>. QED
    BY <2>2
<1>4. PICK B \in T : \A C \in T : ~ (<<C, B>> \in StrictSubsetOrdering(S))
  <2>. HIDE DEF T
  <2>. QED
    BY <1>1, <1>2, <1>3, FS_StrictSubsetOrderingWellFounded, WFMin
<1>5. PICK x \in S : B = Before(x)
  OBVIOUS
<1>6. PICK y \in S : rank[y] < rank[x]
  <2>1. PICK y \in InferredDeps(Stages, rank)[x] \cap S : TRUE
    OBVIOUS
  <2>2. rank[y] < rank[x]
    BY <2>1 DEF InferredDeps
  <2>. QED
    BY <2>1, <2>2
<1>7. Before(y) \in T /\ Before(y) \in SUBSET S /\ B \in SUBSET S
  BY <1>5
<1>8. y \in B /\ y \notin Before(y)
  BY <1>5, <1>6
<1>9. Before(y) \subseteq B
  <2>. SUFFICES ASSUME NEW z \in S, rank[z] < rank[y] PROVE rank[z] < rank[x]
    BY <1>5
  <2>1. rank[x] \in Int /\ rank[y] \in Int /\ rank[z] \in Int
    OBVIOUS
  <2>. QED
    BY <1>6, <2>1
<1>10. <<Before(y), B>> \in StrictSubsetOrdering(S)
  BY <1>7, <1>8, <1>9 DEF StrictSubsetOrdering
<1>. QED
  BY <1>4, <1>7, <1>10

----------------------------------------------------------------------------
(* The searches of validate and get_all_stage_names.                       *)

\* The last name on the path.
LEMMA TopIsName ==
  ASSUME SearchTypeOK, path # <<>>
  PROVE  /\ Len(path) \in Nat \ {0} /\ Top \in All /\ Top = path[Len(path)]
         /\ \A i \in 1 .. Len(path) : path[i] \in All
  BY DEF SearchTypeOK, Top

\* What a name depends on is a name.
LEMMA DependenciesAreNames ==
  ASSUME SearchTypeOK, NEW n \in All
  PROVE  Dependencies(n) \subseteq All
  BY DEF SearchTypeOK, Dependencies

\* What a call of has_cycle or visit does to the path.
LEMMA Entered ==
  ASSUME SearchTypeOK, NEW n \in All, NEW left \in [All -> SUBSET All], Enter(n, left)
  PROVE  /\ path' \in Seq(All) /\ Len(path) \in Nat /\ Len(path') = Len(path) + 1
         /\ path'[Len(path) + 1] = n
         /\ \A i \in 1 .. Len(path) : path'[i] = path[i] /\ path[i] \in All
         /\ todo' \in [All -> SUBSET All] /\ colour' \in [All -> {"white", "gray", "black"}]
         /\ todo'[n] = Dependencies(n) /\ colour'[n] = "gray"
         /\ \A m \in All : m # n => todo'[m] = left[m] /\ colour'[m] = colour[m]
         /\ UNCHANGED <<deps, order, call, found, result>>
<1>1. path' = Append(path, n) /\ path \in Seq(All)
  BY DEF Enter, SearchTypeOK
<1>2. /\ path' \in Seq(All) /\ Len(path) \in Nat /\ Len(path') = Len(path) + 1
      /\ path'[Len(path) + 1] = n
      /\ \A i \in 1 .. Len(path) : path'[i] = path[i] /\ path[i] \in All
  BY <1>1
<1>3. Dependencies(n) \in SUBSET All
  BY DependenciesAreNames
<1>4. /\ todo' \in [All -> SUBSET All] /\ todo'[n] = Dependencies(n)
      /\ \A m \in All : m # n => todo'[m] = left[m]
  BY <1>3 DEF Enter
<1>5. /\ colour' \in [All -> {"white", "gray", "black"}] /\ colour'[n] = "gray"
      /\ \A m \in All : m # n => colour'[m] = colour[m]
  BY DEF Enter, SearchTypeOK
<1>. QED
  BY <1>2, <1>4, <1>5 DEF Enter, graph

\* What its return does.
LEMMA Left ==
  ASSUME SearchTypeOK, Leave
  PROVE  /\ path' \in Seq(All) /\ Len(path) \in Nat \ {0} /\ Len(path') = Len(path) - 1
         /\ \A i \in 1 .. Len(path) - 1 : path'[i] = path[i]
         /\ \A i \in 1 .. Len(path) : path[i] \in All
         /\ Top \in All /\ Top = path[Len(path)] /\ todo[Top] = {}
         /\ colour' \in [All -> {"white", "gray", "black"}] /\ colour'[Top] = "black"
         /\ \A m \in All : m # Top => colour'[m] = colour[m]
         /\ result' \in Seq(All)
         /\ UNCHANGED <<deps, order, call, todo, found>>
<1>1. /\ path' = SubSeq(path, 1, Len(path) - 1) /\ path \in Seq(All) /\ path # <<>>
      /\ result \in Seq(All)
  BY DEF Leave, SearchTypeOK
<1>2. /\ Len(path) \in Nat \ {0} /\ Top \in All /\ Top = path[Len(path)]
      /\ \A i \in 1 .. Len(path) : path[i] \in All
  BY <1>1, TopIsName
<1>3. /\ path' \in Seq(All) /\ Len(path') = Len(path) - 1
      /\ \A i \in 1 .. Len(path) - 1 : path'[i] = path[i]
  <2>. DEFINE k == Len(path) - 1
  <2>1. k \in Nat /\ 1 \in Int /\ \A i \in 1 .. k : path[i] \in All
    BY <1>2
  <2>2. SubSeq(path, 1, k) = path'
    BY <1>1
  <2>. HIDE DEF k
  <2>3. /\ path' \in Seq(All) /\ Len(path') = (IF 1 <= k THEN k - 1 + 1 ELSE 0)
        /\ \A i \in 1 .. k - 1 + 1 : path'[i] = path[1 + i - 1]
    BY <2>1, <2>2, SubSeqProperties
  <2>4. path' \in Seq(All) /\ Len(path') = k /\ \A i \in 1 .. k : path'[i] = path[i]
    BY <2>1, <2>3
  <2>. QED
    BY <2>4 DEF k
<1>4. /\ colour' \in [All -> {"white", "gray", "black"}] /\ colour'[Top] = "black"
      /\ \A m \in All : m # Top => colour'[m] = colour[m]
  BY <1>2 DEF Leave, SearchTypeOK
<1>5. result' \in Seq(All)
  BY <1>1, <1>2 DEF Leave
<1>. QED
  BY <1>2, <1>3, <1>4, <1>5 DEF Leave, graph

\* The loop of the last name of the path goes on.
LEMMA Advanced ==
  ASSUME SearchTypeOK, NEW d, At(d)
  PROVE  /\ Without(d) \in [All -> SUBSET All]
         /\ Without(d)[Top] = todo[Top] \ {d}
         /\ \A m \in All : m # Top => Without(d)[m] = todo[m]
         /\ Len(path) \in Nat \ {0} /\ Top \in All /\ Top = path[Len(path)]
         /\ \A i \in 1 .. Len(path) : path[i] \in All
         /\ d \in todo[Top] /\ d \in All
  BY TopIsName DEF SearchTypeOK, Without, At

\* What is inferred is a list of stages for every stage.
LEMMA InferredIsTyped ==
  InferredDeps(Names, order) \in [Names -> SUBSET All]
  BY DEF InferredDeps, All

\* What a call begins with.
LEMMA FreshIsTyped ==
  /\ << >> \in Seq(All)
  /\ [n \in All |-> {}] \in [All -> SUBSET All]
  /\ [n \in All |-> "white"] \in [All -> {"white", "gray", "black"}]
<1>1. << >> \in Seq(All)
  BY EmptySeq
<1>. QED
  BY <1>1

\* The states of both searches are well typed, for every graph.
THEOREM SearchTypeCorrect == SearchSpec => []SearchTypeOK
<1>1. SearchInit => SearchTypeOK
  <2>. SUFFICES ASSUME SearchInit PROVE SearchTypeOK
    OBVIOUS
  <2>1. deps \in [Names -> SUBSET All] /\ order \in [Names -> Orders]
    BY InferredIsTyped DEF SearchInit, FromTemplate
  <2>. QED
    BY <2>1, FreshIsTyped DEF SearchInit, SearchTypeOK
<1>2. SearchTypeOK /\ [SearchNext]_searchVars => SearchTypeOK'
  <2>. SUFFICES ASSUME SearchTypeOK, [SearchNext]_searchVars PROVE SearchTypeOK'
    OBVIOUS
  <2>1. ASSUME NEW c \in {"validate", "names"}, Call(c) PROVE SearchTypeOK'
    BY <2>1, FreshIsTyped DEF Call, SearchTypeOK, graph
  <2>2. ASSUME NEW n \in Names, StartTree(n) PROVE SearchTypeOK'
    <3>1. n \in All /\ Enter(n, todo) /\ todo \in [All -> SUBSET All]
      BY <2>2 DEF StartTree, All, SearchTypeOK
    <3>. QED
      BY <3>1, Entered DEF SearchTypeOK
  <2>3. ASSUME NEW d \in All, Descend(d) PROVE SearchTypeOK'
    <3>1. Enter(d, Without(d)) /\ Without(d) \in [All -> SUBSET All]
      BY <2>3, Advanced DEF Descend
    <3>. QED
      BY <3>1, Entered DEF SearchTypeOK
  <2>4. ASSUME NEW d \in All, PassBy(d) PROVE SearchTypeOK'
    <3>1. Without(d) \in [All -> SUBSET All] /\ todo' = Without(d)
      BY <2>4, Advanced DEF PassBy
    <3>. QED
      BY <2>4, <3>1 DEF PassBy, SearchTypeOK, graph
  <2>5. ASSUME NEW d \in All, FindCycle(d) PROVE SearchTypeOK'
    BY <2>5, FreshIsTyped DEF FindCycle, SearchTypeOK, graph
  <2>6. CASE Leave
    BY <2>6, Left DEF SearchTypeOK
  <2>7. CASE EndCall
    BY <2>7 DEF EndCall, SearchTypeOK, graph
  <2>8. CASE UNCHANGED searchVars
    BY <2>8 DEF searchVars, graph, SearchTypeOK
  <2>. QED
    BY <2>1, <2>2, <2>3, <2>4, <2>5, <2>6, <2>7, <2>8 DEF SearchNext
<1>. QED
  BY <1>1, <1>2, PTL DEF SearchSpec

\* What from_template_stages infers is right for the order values of every graph.
THEOREM GroupsOfGraphsAreLinear == SearchSpec => []InferredGroupsAreLinear
<1>1. SearchTypeOK => InferredGroupsAreLinear
  <2>. SUFFICES ASSUME SearchTypeOK PROVE GroupsAreLinear(Names, order)
    BY DEF InferredGroupsAreLinear
  <2>1. order \in [Names -> Int]
    BY NamesAreKnown DEF SearchTypeOK
  <2>. QED
    BY <2>1, InferredGroupsStartInOrder
<1>. QED
  BY <1>1, SearchTypeCorrect, PTL

----------------------------------------------------------------------------
(* The inductive invariants of the searches.                               *)

Coloured(c) == {n \in All : colour[n] = c}

\* The path is a chain of dependencies, each of them the one its loop is at; a
\* gray name is on it, or stays gray after a cycle.
PathIsChain ==
  /\ ~ Running => path = <<>>
  /\ \A i \in 1 .. Len(path) : colour[path[i]] = "gray" /\ todo[path[i]] \subseteq Dependencies(path[i])
  /\ \A i, j \in 1 .. Len(path) : path[i] = path[j] => i = j
  /\ \A i \in 1 .. Len(path) - 1 : path[i + 1] \in Dependencies(path[i]) \ todo[path[i]]
  /\ ~ found => \A n \in Coloured("gray") : \E i \in 1 .. Len(path) : n = path[i]

\* Of what a loop on the path has looked at, all is black but the next name on the path.
LookedAt(S) ==
  \A i \in 1 .. Len(path) : \A d \in (Dependencies(path[i]) \cap S) \ todo[path[i]] :
     d \in Coloured("black") \/ (i < Len(path) /\ d = path[i + 1])

\* A finished stage of a search without a cycle leads to finished stages only, and
\* these have no cycle.
ValidateInv ==
  call \in {"validate", "validated"} =>
    /\ Coloured("gray") \cup Coloured("black") \subseteq Names
    /\ found => Cyclic(Names, deps)
    /\ ~ found => /\ \A n \in Coloured("black") : deps[n] \cap Names \subseteq Coloured("black")
                  /\ LookedAt(Names)
                  /\ ~ Cyclic(Coloured("black"), deps)
    /\ call = "validated" => AllVisited

Listed(n) == {result[j] : j \in 1 .. n}

\* The names that are listed are those that have been left; without a cycle all that
\* a listed name depends on is listed before it.
NamesInv ==
  call \in {"names", "named"} =>
    /\ ~ found
    /\ Coloured("black") = Listed(Len(result))
    /\ \A i, j \in 1 .. Len(result) : result[i] = result[j] => i = j
    /\ Coloured("gray") \cup Coloured("black") \subseteq Names \cup UNION {deps[n] : n \in Names}
    /\ \A n \in Coloured("black") : Dependencies(n) \cap Coloured("white") = {}
    /\ \A i \in 1 .. Len(path) : (Dependencies(path[i]) \ todo[path[i]]) \cap Coloured("white") = {}
    /\ ~ Cyclic(Names, deps) =>
         /\ LookedAt(All)
         /\ \A i \in 1 .. Len(result) : Dependencies(result[i]) \subseteq Listed(i - 1)
    /\ call = "named" => AllVisited

\* A visit begins: of a stage, as the first of a new path, or of the dependency
\* that the loop of the last name on the path is at.
Begins(n, left) ==
  /\ Running /\ n \in All /\ colour[n] = "white"
  /\ left \in [All -> SUBSET All] /\ Enter(n, left)
  /\ \/ path = <<>> /\ n \in Names /\ left = todo
     \/ At(n) /\ Considered(n) /\ left = Without(n)

LEMMA TreeBegins ==
  ASSUME SearchTypeOK, NEW n \in Names, StartTree(n)
  PROVE  Begins(n, todo)
  BY DEF StartTree, Begins, All, SearchTypeOK

LEMMA DescentBegins ==
  ASSUME SearchTypeOK, NEW d \in All, Descend(d)
  PROVE  Begins(d, Without(d))
  BY Advanced DEF Descend, Begins, At

\* PathIsChain is inductive.
LEMMA ChainBegins ==
  ASSUME SearchTypeOK, PathIsChain, NEW n, NEW left, Begins(n, left)
  PROVE  PathIsChain'
<1>1. /\ n \in All /\ left \in [All -> SUBSET All] /\ Enter(n, left) /\ colour[n] = "white"
      /\ Running
  BY DEF Begins
<1>. DEFINE k == Len(path)
<1>2. /\ k \in Nat /\ Len(path') = k + 1 /\ path'[k + 1] = n
      /\ \A i \in 1 .. k : path'[i] = path[i] /\ path[i] \in All
      /\ todo'[n] = Dependencies(n) /\ colour'[n] = "gray"
      /\ \A m \in All : m # n => todo'[m] = left[m] /\ colour'[m] = colour[m]
      /\ UNCHANGED <<deps, call, found>>
  BY <1>1, Entered
<1>3. Running' /\ \A m : Dependencies(m)' = Dependencies(m)
  BY <1>1, <1>2 DEF Running, Dependencies
<1>4. \A i \in 1 .. k : path[i] # n
  BY <1>1, <1>2 DEF PathIsChain
<1>5. /\ \A i \in 1 .. k - 1 : left[path[i]] = todo[path[i]]
      /\ k # 0 => /\ left[path[k]] = todo[path[k]] \ {n} /\ n \in todo[path[k]]
  <2>1. CASE path = <<>>
    BY <2>1, <1>2
  <2>2. CASE path # <<>>
    <3>1. /\ left[Top] = todo[Top] \ {n} /\ \A m \in All : m # Top => left[m] = todo[m]
          /\ k # 0 /\ Top \in All /\ Top = path[k] /\ n \in todo[Top]
      BY <2>2, Advanced DEF Begins
    <3>2. \A i \in 1 .. k - 1 : path[i] # path[k]
      BY <1>2, <3>1 DEF PathIsChain
    <3>. QED
      BY <1>2, <3>1, <3>2
  <2>. QED
    BY <2>1, <2>2
<1>6. \A i \in 1 .. k : left[path[i]] \subseteq Dependencies(path[i])
  <2>. SUFFICES ASSUME NEW i \in 1 .. k
                PROVE  left[path[i]] \subseteq Dependencies(path[i])
    OBVIOUS
  <2>1. todo[path[i]] \subseteq Dependencies(path[i])
    BY DEF PathIsChain
  <2>2. i \in 1 .. k - 1 \/ (i = k /\ k # 0)
    BY <1>2
  <2>. QED
    BY <1>5, <2>1, <2>2
<1>7. \A i \in 1 .. k + 1 : colour'[path'[i]] = "gray" /\ todo'[path'[i]] \subseteq Dependencies(path'[i])
  <2>. SUFFICES ASSUME NEW i \in 1 .. k + 1
                PROVE  colour'[path'[i]] = "gray" /\ todo'[path'[i]] \subseteq Dependencies(path'[i])
    OBVIOUS
  <2>1. CASE i = k + 1
    BY <1>2, <2>1
  <2>2. CASE i \in 1 .. k
    <3>1. path'[i] = path[i] /\ path[i] \in All /\ path[i] # n
      BY <1>2, <1>4, <2>2
    <3>2. colour'[path[i]] = colour[path[i]] /\ todo'[path[i]] = left[path[i]]
      BY <1>2, <3>1
    <3>. QED
      BY <1>6, <2>2, <3>1, <3>2 DEF PathIsChain
  <2>. QED
    BY <1>2, <2>1, <2>2
<1>8. \A i, j \in 1 .. k + 1 : path'[i] = path'[j] => i = j
  BY <1>2, <1>4 DEF PathIsChain
<1>9. \A i \in 1 .. k : path'[i + 1] \in Dependencies(path'[i]) \ todo'[path'[i]]
  <2>. SUFFICES ASSUME NEW i \in 1 .. k
                PROVE  path'[i + 1] \in Dependencies(path[i]) \ left[path[i]]
    BY <1>2, <1>4
  <2>1. CASE i = k
    <3>1. k # 0 /\ path'[i + 1] = n /\ path[i] = path[k]
      BY <1>2, <2>1
    <3>2. todo[path[k]] \subseteq Dependencies(path[k])
      BY <2>1 DEF PathIsChain
    <3>. QED
      BY <1>5, <3>1, <3>2
  <2>2. CASE i \in 1 .. k - 1
    <3>1. i + 1 \in 1 .. k
      BY <1>2, <2>2
    <3>. QED
      BY <1>2, <1>5, <2>2, <3>1 DEF PathIsChain
  <2>. QED
    BY <1>2, <2>1, <2>2
<1>10. ~ found' => \A m \in Coloured("gray")' : \E i \in 1 .. k + 1 : m = path'[i]
  <2>. SUFFICES ASSUME ~ found, NEW m \in Coloured("gray")'
                PROVE  \E i \in 1 .. k + 1 : m = path'[i]
    BY <1>2
  <2>1. CASE m = n
    BY <1>2, <2>1
  <2>2. CASE m # n
    <3>1. m \in Coloured("gray")
      BY <1>2, <2>2 DEF Coloured
    <3>2. PICK i \in 1 .. k : m = path[i]
      BY <3>1 DEF PathIsChain
    <3>3. i \in 1 .. k + 1 /\ path'[i] = m
      BY <1>2, <3>2
    <3>. QED
      BY <3>3
  <2>. QED
    BY <2>1, <2>2
<1>11. (k + 1) - 1 = k
  BY <1>2
<1>. QED
  BY <1>2, <1>3, <1>7, <1>8, <1>9, <1>10, <1>11 DEF PathIsChain

LEMMA ChainShrinks ==
  ASSUME SearchTypeOK, PathIsChain, Leave
  PROVE  PathIsChain'
<1>. DEFINE k == Len(path)
<1>1. /\ k \in Nat \ {0} /\ Len(path') = k - 1 /\ Top = path[k] /\ Top \in All
      /\ \A i \in 1 .. k - 1 : path'[i] = path[i]
      /\ \A i \in 1 .. k : path[i] \in All
      /\ colour'[Top] = "black" /\ \A m \in All : m # Top => colour'[m] = colour[m]
      /\ UNCHANGED <<deps, call, todo, found>> /\ Running
  BY Left DEF Leave
<1>2. Running' /\ \A m : Dependencies(m)' = Dependencies(m)
  BY <1>1 DEF Running, Dependencies
<1>3. \A i \in 1 .. k - 1 : path[i] # Top
  BY <1>1 DEF PathIsChain
<1>4. ~ found' => \A m \in Coloured("gray")' : \E i \in 1 .. k - 1 : m = path'[i]
  <2>. SUFFICES ASSUME ~ found, NEW m \in Coloured("gray")'
                PROVE  \E i \in 1 .. k - 1 : m = path'[i]
    BY <1>1
  <2>1. m # Top /\ m \in Coloured("gray")
    BY <1>1 DEF Coloured
  <2>2. PICK i \in 1 .. k : m = path[i]
    BY <2>1 DEF PathIsChain
  <2>3. i \in 1 .. k - 1
    BY <1>1, <2>1, <2>2
  <2>. QED
    BY <1>1, <2>2, <2>3
<1>5. \A i, j \in 1 .. k - 1 : path'[i] = path'[j] => i = j
  BY <1>1 DEF PathIsChain
<1>6. \A i \in 1 .. k - 1 : colour'[path'[i]] = "gray" /\ todo'[path'[i]] \subseteq Dependencies(path'[i])
  <2>. SUFFICES ASSUME NEW i \in 1 .. k - 1
                PROVE  colour'[path'[i]] = "gray" /\ todo'[path'[i]] \subseteq Dependencies(path'[i])
    OBVIOUS
  <2>1. path'[i] = path[i] /\ path[i] \in All /\ path[i] # Top /\ i \in 1 .. k
    BY <1>1, <1>3
  <2>2. colour'[path[i]] = colour[path[i]] /\ todo'[path[i]] = todo[path[i]]
    BY <1>1, <2>1
  <2>3. UNCHANGED deps
    BY <1>1
  <2>. QED
    BY <2>1, <2>2, <2>3 DEF PathIsChain, Dependencies
<1>7. \A i \in 1 .. (k - 1) - 1 : path'[i + 1] \in Dependencies(path'[i]) \ todo'[path'[i]]
  <2>. SUFFICES ASSUME NEW i \in 1 .. (k - 1) - 1
                PROVE  path'[i + 1] \in Dependencies(path'[i]) \ todo'[path'[i]]
    OBVIOUS
  <2>1. i \in 1 .. k - 1 /\ i + 1 \in 1 .. k - 1
    BY <1>1
  <2>. QED
    BY <1>1, <2>1 DEF PathIsChain
<1>8. Len(path') = k - 1 /\ UNCHANGED <<call, found>>
  BY <1>1
<1>. HIDE DEF k
<1>. QED
  BY <1>2, <1>4, <1>5, <1>6, <1>7, <1>8 DEF PathIsChain

LEMMA ChainKept ==
  ASSUME SearchTypeOK, PathIsChain, [SearchNext]_searchVars
  PROVE  PathIsChain'
<1>1. ASSUME NEW c \in {"validate", "names"}, Call(c) PROVE PathIsChain'
  BY <1>1 DEF Call, PathIsChain, Coloured, All
<1>2. ASSUME NEW n \in Names, StartTree(n) PROVE PathIsChain'
  BY <1>2, TreeBegins, ChainBegins
<1>3. ASSUME NEW d \in All, Descend(d) PROVE PathIsChain'
  BY <1>3, DescentBegins, ChainBegins
<1>4. ASSUME NEW d \in All, PassBy(d) PROVE PathIsChain'
  <2>1. At(d) /\ UNCHANGED <<deps, call, path, colour, found>> /\ todo' = Without(d)
    BY <1>4 DEF PassBy, graph
  <2>2. \A m \in All : todo'[m] \subseteq todo[m]
    BY <2>1, Advanced DEF SearchTypeOK
  <2>3. \A i \in 1 .. Len(path) : path[i] \in All
    BY <2>1, TopIsName DEF At
  <2>4. /\ Running' = Running /\ Coloured("gray")' = Coloured("gray")
        /\ \A m : Dependencies(m)' = Dependencies(m)
    BY <2>1 DEF Running, Coloured, Dependencies
  <2>5. \A i \in 1 .. Len(path) - 1 : i \in 1 .. Len(path)
    BY DEF SearchTypeOK
  <2>6. \A i \in 1 .. Len(path) : colour[path[i]] = "gray" /\ todo'[path[i]] \subseteq Dependencies(path[i])
    BY <2>2, <2>3 DEF PathIsChain
  <2>7. \A i \in 1 .. Len(path) - 1 : path[i + 1] \in Dependencies(path[i]) \ todo'[path[i]]
    BY <2>2, <2>3, <2>5 DEF PathIsChain
  <2>. QED
    BY <2>1, <2>4, <2>6, <2>7 DEF PathIsChain
<1>5. ASSUME NEW d \in All, FindCycle(d) PROVE PathIsChain'
  <2>1. path' = <<>> /\ Len(path') = 0 /\ found'
    BY <1>5 DEF FindCycle
  <2>. QED
    BY <2>1 DEF PathIsChain
<1>6. CASE Leave
  BY <1>6, ChainShrinks
<1>7. CASE EndCall
  <2>1. path = <<>> /\ UNCHANGED <<path, colour, found>>
    BY <1>7 DEF EndCall
  <2>. QED
    BY <2>1 DEF PathIsChain, Coloured
<1>8. CASE UNCHANGED searchVars
  BY <1>8 DEF searchVars, graph, PathIsChain, Running, Coloured, Dependencies
<1>. QED
  BY <1>1, <1>2, <1>3, <1>4, <1>5, <1>6, <1>7, <1>8 DEF SearchNext

\* What has not been left yet leads back to itself: a gray dependency of the last
\* name on the path closes a cycle.
LEMMA GrayClosesCycle ==
  ASSUME SearchTypeOK, PathIsChain, ~ found, NEW d, At(d), colour[d] = "gray"
  PROVE  Cyclic(Names, deps)
<1>. DEFINE k == Len(path)
<1>1. /\ k \in Nat \ {0} /\ Top = path[k] /\ d \in todo[path[k]] /\ d \in All
      /\ \A i \in 1 .. k : path[i] \in All
  BY Advanced
<1>2. PICK j \in 1 .. k : d = path[j]
  BY <1>1 DEF PathIsChain, Coloured
<1>. DEFINE S == {path[i] : i \in j .. k}
<1>. HIDE DEF S
<1>0. d \in S
  <2>1. j \in j .. k
    BY <1>1, <1>2
  <2>. QED
    BY <1>2, <2>1 DEF S
<1>3. \A i \in j .. k : path[i] \in Names /\ deps[path[i]] \cap S # {}
  <2>. SUFFICES ASSUME NEW i \in j .. k
                PROVE  path[i] \in Names /\ deps[path[i]] \cap S # {}
    OBVIOUS
  <2>1. \E m \in S : m \in Dependencies(path[i])
    <3>1. CASE i = k
      <4>1. k \in 1 .. k
        BY <1>1
      <4>2. d \in Dependencies(path[k])
        BY <1>1, <4>1 DEF PathIsChain
      <4>. QED
        BY <1>0, <3>1, <4>2
    <3>2. CASE i # k
      <4>1. i \in 1 .. k - 1 /\ i + 1 \in j .. k
        BY <1>1, <1>2, <3>2
      <4>2. path[i + 1] \in S
        BY <4>1 DEF S
      <4>3. path[i + 1] \in Dependencies(path[i])
        BY <4>1 DEF PathIsChain
      <4>. QED
        BY <4>2, <4>3
    <3>. QED
      BY <3>1, <3>2
  <2>. QED
    BY <2>1 DEF Dependencies
<1>4. S \in SUBSET Names /\ S # {}
  BY <1>0, <1>3 DEF S
<1>5. \A n \in S : deps[n] \cap S # {}
  BY <1>3 DEF S
<1>. QED
  BY <1>4, <1>5 DEF Cyclic

\* LookedAt is kept by what a loop and a visit do.
LEMMA LookedAtBegins ==
  ASSUME SearchTypeOK, PathIsChain, NEW S, LookedAt(S), NEW n, NEW left, Begins(n, left)
  PROVE  LookedAt(S)'
<1>. DEFINE k == Len(path)
<1>1. /\ n \in All /\ left \in [All -> SUBSET All] /\ Enter(n, left) /\ colour[n] = "white"
  BY DEF Begins
<1>2. /\ k \in Nat /\ Len(path') = k + 1 /\ path'[k + 1] = n
      /\ \A i \in 1 .. k : path'[i] = path[i] /\ path[i] \in All
      /\ todo'[n] = Dependencies(n) /\ colour'[n] = "gray"
      /\ \A m \in All : m # n => todo'[m] = left[m] /\ colour'[m] = colour[m]
      /\ UNCHANGED <<deps, call, found>>
  BY <1>1, Entered
<1>3. \A m : Dependencies(m)' = Dependencies(m)
  BY <1>2 DEF Dependencies
<1>4. Coloured("black")' = Coloured("black")
  BY <1>1, <1>2 DEF Coloured
<1>5. \A i \in 1 .. k : path[i] # n
  BY <1>1, <1>2 DEF PathIsChain
<1>6. \A i \in 1 .. k : \A d \in todo[path[i]] \ left[path[i]] : i = k /\ d = n
  <2>. SUFFICES ASSUME NEW i \in 1 .. k, NEW d \in todo[path[i]] \ left[path[i]]
                PROVE  i = k /\ d = n
    OBVIOUS
  <2>1. path # <<>> /\ At(n) /\ left = Without(n)
    BY DEF Begins
  <2>2. /\ left[Top] = todo[Top] \ {n} /\ \A m \in All : m # Top => left[m] = todo[m]
        /\ Top = path[k] /\ k # 0
    BY <2>1, Advanced
  <2>3. path[i] = path[k] /\ d = n
    BY <1>2, <2>2
  <2>. QED
    BY <1>2, <2>2, <2>3 DEF PathIsChain
<1>7. ASSUME NEW i \in 1 .. k + 1, NEW d \in (Dependencies(path'[i]) \cap S) \ todo'[path'[i]]
      PROVE  d \in Coloured("black") \/ (i < k + 1 /\ d = path'[i + 1])
  <2>1. CASE i = k + 1
    BY <1>2, <1>7, <2>1
  <2>2. CASE i \in 1 .. k
    <3>1. path'[i] = path[i] /\ todo'[path'[i]] = left[path[i]] /\ i < k + 1
      BY <1>2, <1>5, <2>2
    <3>2. CASE d \in todo[path[i]]
      BY <1>2, <1>6, <1>7, <2>2, <3>1, <3>2
    <3>3. CASE d \notin todo[path[i]]
      <4>1. d \in Coloured("black") \/ (i < k /\ d = path[i + 1])
        BY <1>7, <2>2, <3>1, <3>3 DEF LookedAt
      <4>2. i < k => path'[i + 1] = path[i + 1]
        BY <1>2, <2>2
      <4>. QED
        BY <3>1, <4>1, <4>2
    <3>. QED
      BY <3>2, <3>3
  <2>. QED
    BY <1>2, <2>1, <2>2
<1>. HIDE DEF k
<1>. QED
  BY <1>2, <1>3, <1>4, <1>7 DEF LookedAt

LEMMA LookedAtPassed ==
  ASSUME SearchTypeOK, PathIsChain, NEW S, LookedAt(S), NEW d, At(d),
         d \in S => colour[d] = "black", todo' = Without(d), UNCHANGED <<deps, path, colour>>
  PROVE  LookedAt(S)'
<1>1. /\ \A i \in 1 .. Len(path) : path[i] \in All
      /\ \A m \in All : todo[m] \ todo'[m] \subseteq {d}
      /\ d \in All
  BY Advanced
<1>2. \A m : Dependencies(m)' = Dependencies(m)
  BY DEF Dependencies
<1>3. Coloured("black")' = Coloured("black") /\ (d \in S => d \in Coloured("black"))
  BY <1>1 DEF Coloured
<1>4. ASSUME NEW i \in 1 .. Len(path), NEW m \in (Dependencies(path[i]) \cap S) \ todo'[path[i]]
      PROVE  m \in Coloured("black") \/ (i < Len(path) /\ m = path[i + 1])
  BY <1>1, <1>3, <1>4 DEF LookedAt
<1>. QED
  BY <1>2, <1>3, <1>4 DEF LookedAt

LEMMA LookedAtLeft ==
  ASSUME SearchTypeOK, PathIsChain, NEW S, LookedAt(S), Leave
  PROVE  LookedAt(S)'
<1>. DEFINE k == Len(path)
<1>1. /\ k \in Nat \ {0} /\ Len(path') = k - 1 /\ Top = path[k] /\ Top \in All
      /\ \A i \in 1 .. k - 1 : path'[i] = path[i]
      /\ colour'[Top] = "black" /\ \A m \in All : m # Top => colour'[m] = colour[m]
      /\ UNCHANGED <<deps, todo>>
  BY Left
<1>2. \A m : Dependencies(m)' = Dependencies(m)
  BY <1>1 DEF Dependencies
<1>3. Coloured("black")' = Coloured("black") \cup {Top}
  BY <1>1 DEF Coloured
<1>4. ASSUME NEW i \in 1 .. k - 1, NEW d \in (Dependencies(path'[i]) \cap S) \ todo[path'[i]]
      PROVE  d \in Coloured("black") \cup {Top} \/ (i < k - 1 /\ d = path'[i + 1])
  <2>1. i \in 1 .. k /\ path'[i] = path[i]
    BY <1>1
  <2>2. d \in Coloured("black") \/ d = path[i + 1]
    BY <1>4, <2>1 DEF LookedAt
  <2>3. CASE i = k - 1
    BY <1>1, <2>2, <2>3
  <2>4. CASE i # k - 1
    <3>1. i < k - 1 /\ path'[i + 1] = path[i + 1]
      BY <1>1, <2>4
    <3>. QED
      BY <2>2, <3>1
  <2>. QED
    BY <2>3, <2>4
<1>5. UNCHANGED todo /\ Len(path') = k - 1
  BY <1>1
<1>. HIDE DEF k
<1>. QED
  BY <1>2, <1>3, <1>4, <1>5 DEF LookedAt

\* All that the last name on the path depends on is black when it is left.
LEMMA LeftIsLookedAt ==
  ASSUME SearchTypeOK, NEW S, LookedAt(S), Leave
  PROVE  Dependencies(Top) \cap S \subseteq Coloured("black")
<1>1. /\ Len(path) \in Nat \ {0} /\ Top = path[Len(path)] /\ todo[Top] = {}
  BY Left
<1>. QED
  BY <1>1 DEF LookedAt

\* A stage all of whose dependencies are in an acyclic set can join the set.
LEMMA AcyclicGrows ==
  ASSUME NEW B \in SUBSET Names, ~ Cyclic(B, deps), NEW t \in Names, t \notin B,
         \A n \in B \cup {t} : deps[n] \cap Names \subseteq B
  PROVE  ~ Cyclic(B \cup {t}, deps)
<1>. SUFFICES ASSUME NEW S \in SUBSET (B \cup {t}), S # {}, \A n \in S : deps[n] \cap S # {}
              PROVE  FALSE
  BY DEF Cyclic
<1>. DEFINE R == S \ {t}
<1>1. \A n \in S : deps[n] \cap R # {}
  <2>. SUFFICES ASSUME NEW n \in S PROVE deps[n] \cap R # {}
    OBVIOUS
  <2>1. PICK m \in S : m \in deps[n]
    OBVIOUS
  <2>2. m \in B
    BY <2>1
  <2>. QED
    BY <2>1, <2>2
<1>2. R \in SUBSET B /\ R # {}
  BY <1>1
<1>3. \A n \in R : deps[n] \cap R # {}
  BY <1>1
<1>. HIDE DEF R
<1>. QED
  BY <1>2, <1>3 DEF Cyclic

\* ValidateInv is inductive.
LEMMA ValidateBegins ==
  ASSUME SearchTypeOK, PathIsChain, ValidateInv, NEW n, NEW left, Begins(n, left)
  PROVE  ValidateInv'
<1>. SUFFICES ASSUME call = "validate"
              PROVE  ValidateInv'
  <2>1. UNCHANGED call /\ Running
    BY DEF Begins, Enter
  <2>. QED
    BY <2>1 DEF Running, ValidateInv
<1>1. /\ n \in Names /\ n \in All /\ Enter(n, left) /\ left \in [All -> SUBSET All]
      /\ colour[n] = "white"
  BY DEF Begins, Considered
<1>2. /\ UNCHANGED <<deps, call, found>> /\ colour'[n] = "gray"
      /\ \A m \in All : m # n => colour'[m] = colour[m]
  BY <1>1, Entered
<1>3. Coloured("black")' = Coloured("black") /\ Coloured("gray")' \subseteq Coloured("gray") \cup {n}
  BY <1>1, <1>2 DEF Coloured
<1>4. LookedAt(Names) => LookedAt(Names)'
  BY LookedAtBegins
<1>. QED
  BY <1>1, <1>2, <1>3, <1>4 DEF ValidateInv

LEMMA ValidateLeaves ==
  ASSUME SearchTypeOK, PathIsChain, ValidateInv, Leave
  PROVE  ValidateInv'
<1>. SUFFICES ASSUME call = "validate"
              PROVE  ValidateInv'
  <2>1. UNCHANGED call /\ Running
    BY DEF Leave
  <2>. QED
    BY <2>1 DEF Running, ValidateInv
<1>1. /\ UNCHANGED <<deps, call, found>> /\ Top \in All /\ colour'[Top] = "black"
      /\ \A m \in All : m # Top => colour'[m] = colour[m]
      /\ Len(path) \in Nat \ {0} /\ Top = path[Len(path)]
  BY Left
<1>2. colour[Top] = "gray"
  BY <1>1 DEF PathIsChain
<1>3. /\ Coloured("black")' = Coloured("black") \cup {Top} /\ Top \notin Coloured("black")
      /\ Coloured("gray")' \subseteq Coloured("gray") /\ Top \in Coloured("gray")
  BY <1>1, <1>2 DEF Coloured
<1>4. Coloured("black") \subseteq Names /\ Top \in Names
  BY <1>3 DEF ValidateInv
<1>5. LookedAt(Names) => LookedAt(Names)'
  BY LookedAtLeft
<1>6. ~ found => deps[Top] \cap Names \subseteq Coloured("black")
  BY <1>4, LeftIsLookedAt DEF ValidateInv, Dependencies
<1>7. ~ found => ~ Cyclic(Coloured("black") \cup {Top}, deps)
  <2>. DEFINE B == Coloured("black")
  <2>. SUFFICES ASSUME ~ found
                PROVE  ~ Cyclic(B \cup {Top}, deps)
    OBVIOUS
  <2>1. B \in SUBSET Names /\ ~ Cyclic(B, deps) /\ Top \notin B /\ Top \in Names
    BY <1>3, <1>4 DEF ValidateInv
  <2>2. \A n \in B \cup {Top} : deps[n] \cap Names \subseteq B
    BY <1>6 DEF ValidateInv
  <2>. HIDE DEF B
  <2>. QED
    BY <2>1, <2>2, AcyclicGrows
<1>. QED
  BY <1>1, <1>3, <1>4, <1>5, <1>6, <1>7 DEF ValidateInv

LEMMA ValidateKept ==
  ASSUME SearchTypeOK, PathIsChain, ValidateInv, [SearchNext]_searchVars
  PROVE  ValidateInv'
<1>1. ASSUME NEW c \in {"validate", "names"}, Call(c) PROVE ValidateInv'
  <2>1. /\ Coloured("gray")' = {} /\ Coloured("black")' = {} /\ ~ found' /\ path' = <<>>
        /\ call' # "validated"
    BY <1>1 DEF Call, Coloured, All
  <2>2. LookedAt(Names)'
    BY <2>1 DEF LookedAt
  <2>3. ~ Cyclic({}, deps')
    BY DEF Cyclic
  <2>. QED
    BY <2>1, <2>2, <2>3 DEF ValidateInv
<1>2. ASSUME NEW n \in Names, StartTree(n) PROVE ValidateInv'
  BY <1>2, TreeBegins, ValidateBegins
<1>3. ASSUME NEW d \in All, Descend(d) PROVE ValidateInv'
  BY <1>3, DescentBegins, ValidateBegins
<1>4. ASSUME NEW d \in All, PassBy(d) PROVE ValidateInv'
  <2>1. /\ At(d) /\ UNCHANGED <<deps, call, path, colour, found>> /\ todo' = Without(d)
        /\ call = "validate" => (d \in Names => colour[d] = "black")
    BY <1>4 DEF PassBy, graph, Considered
  <2>2. \A c : Coloured(c)' = Coloured(c)
    BY <2>1 DEF Coloured
  <2>3. call = "validate" /\ LookedAt(Names) => LookedAt(Names)'
    BY <2>1, LookedAtPassed
  <2>4. call # "validated"
    BY <2>1 DEF At, Running
  <2>. QED
    BY <2>1, <2>2, <2>3, <2>4 DEF ValidateInv
<1>5. ASSUME NEW d \in All, FindCycle(d) PROVE ValidateInv'
  <2>1. /\ UNCHANGED <<deps, call, colour>> /\ found' /\ call = "validate"
        /\ At(d) /\ colour[d] = "gray"
    BY <1>5 DEF FindCycle, graph
  <2>2. Cyclic(Names, deps)
    BY <2>1, GrayClosesCycle DEF ValidateInv
  <2>3. \A c : Coloured(c)' = Coloured(c)
    BY <2>1 DEF Coloured
  <2>. QED
    BY <2>1, <2>2, <2>3 DEF ValidateInv
<1>6. CASE Leave
  BY <1>6, ValidateLeaves
<1>7. CASE EndCall
  <2>1. UNCHANGED <<deps, path, todo, colour, found>> /\ AllVisited /\ Running
        /\ call' \in {"validated", "named"} /\ (call' = "validated" => call = "validate")
    BY <1>7 DEF EndCall, graph, Running
  <2>2. (\A c : Coloured(c)' = Coloured(c)) /\ AllVisited' = AllVisited
    BY <2>1 DEF Coloured, AllVisited
  <2>3. LookedAt(Names)' = LookedAt(Names)
    BY <2>1, <2>2 DEF LookedAt, Dependencies
  <2>. QED
    BY <2>1, <2>2, <2>3 DEF ValidateInv
<1>8. CASE UNCHANGED searchVars
  <2>1. UNCHANGED <<deps, path, todo, colour, found, call>>
    BY <1>8 DEF searchVars, graph
  <2>2. (\A c : Coloured(c)' = Coloured(c)) /\ AllVisited' = AllVisited
    BY <2>1 DEF Coloured, AllVisited
  <2>3. LookedAt(Names)' = LookedAt(Names)
    BY <2>1, <2>2 DEF LookedAt, Dependencies
  <2>. QED
    BY <2>1, <2>2, <2>3 DEF ValidateInv
<1>. QED
  BY <1>1, <1>2, <1>3, <1>4, <1>5, <1>6, <1>7, <1>8 DEF SearchNext

\* The beginning of the two inductive invariants.
LEMMA SearchBegins ==
  ASSUME SearchInit
  PROVE  PathIsChain /\ ValidateInv /\ NamesInv
<1>1. call = "none" /\ path = <<>> /\ Coloured("gray") = {}
  BY DEF SearchInit, Coloured
<1>. QED
  BY <1>1 DEF PathIsChain, ValidateInv, NamesInv, Running

\* validate reports a cycle if and only if there is one, for every graph and every
\* order of its lists, although a search stops at the first cycle of its tree,
\* leaves the stages it has seen gray and passes by names that have no stage.
THEOREM CyclesAreFound == SearchSpec => []CycleFoundIffCyclic
<1>1. SearchInit => PathIsChain /\ ValidateInv
  BY SearchBegins
<1>2. SearchTypeOK /\ PathIsChain /\ ValidateInv /\ [SearchNext]_searchVars
        => PathIsChain' /\ ValidateInv'
  BY ChainKept, ValidateKept
<1>3. SearchTypeOK /\ PathIsChain /\ ValidateInv => CycleFoundIffCyclic
  <2>. SUFFICES ASSUME SearchTypeOK, PathIsChain, ValidateInv, call = "validated", ~ found
                PROVE  ~ Cyclic(Names, deps)
    BY DEF CycleFoundIffCyclic, ValidateInv
  <2>1. path = <<>>
    BY DEF PathIsChain, Running
  <2>2. Coloured("gray") = {}
    BY <2>1 DEF PathIsChain
  <2>3. Names \subseteq Coloured("black")
    BY <2>2 DEF ValidateInv, AllVisited, Coloured, All, SearchTypeOK
  <2>4. Coloured("black") = Names
    BY <2>3 DEF ValidateInv
  <2>. QED
    BY <2>4 DEF ValidateInv
<1>. QED
  BY <1>1, <1>2, <1>3, SearchTypeCorrect, PTL DEF SearchSpec

\* NamesInv is inductive.
LEMMA NamesBegins ==
  ASSUME SearchTypeOK, PathIsChain, NamesInv, NEW n, NEW left, Begins(n, left)
  PROVE  NamesInv'
<1>. SUFFICES ASSUME call = "names"
              PROVE  NamesInv'
  <2>1. UNCHANGED call /\ Running
    BY DEF Begins, Enter
  <2>. QED
    BY <2>1 DEF Running, NamesInv
<1>. DEFINE k == Len(path)
<1>1. /\ n \in All /\ Enter(n, left) /\ left \in [All -> SUBSET All] /\ colour[n] = "white"
  BY DEF Begins
<1>2. /\ k \in Nat /\ Len(path') = k + 1 /\ path'[k + 1] = n
      /\ \A i \in 1 .. k : path'[i] = path[i] /\ path[i] \in All
      /\ UNCHANGED <<deps, call, found, result>> /\ colour'[n] = "gray"
      /\ todo'[n] = Dependencies(n)
      /\ \A m \in All : m # n => colour'[m] = colour[m] /\ todo'[m] = left[m]
  BY <1>1, Entered
<1>3. /\ Coloured("black")' = Coloured("black")
      /\ Coloured("gray")' \subseteq Coloured("gray") \cup {n}
      /\ Coloured("white")' = Coloured("white") \ {n}
  BY <1>1, <1>2 DEF Coloured
<1>4. LookedAt(All) => LookedAt(All)'
  BY LookedAtBegins
<1>5. (\A m : Dependencies(m)' = Dependencies(m)) /\ (\A i : Listed(i)' = Listed(i))
  BY <1>2 DEF Dependencies, Listed
<1>6. \A i \in 1 .. k : path[i] # n
  BY <1>1, <1>2 DEF PathIsChain
<1>7. /\ n \in Names \cup UNION {deps[m] : m \in Names}
      /\ \A i \in 1 .. k : todo[path[i]] \ left[path[i]] \subseteq {n}
  <2>1. CASE path = <<>> /\ n \in Names /\ left = todo
    BY <2>1
  <2>2. CASE At(n) /\ left = Without(n)
    <3>1. /\ left[Top] = todo[Top] \ {n} /\ \A m \in All : m # Top => left[m] = todo[m]
          /\ Top = path[k] /\ k \in 1 .. k /\ n \in todo[Top]
      BY <2>2, Advanced
    <3>2. n \in Dependencies(Top)
      BY <3>1 DEF PathIsChain
    <3>. QED
      BY <1>2, <3>1, <3>2 DEF Dependencies
  <2>. QED
    BY <2>1, <2>2 DEF Begins
<1>8. \A i \in 1 .. k + 1 : (Dependencies(path'[i]) \ todo'[path'[i]]) \cap Coloured("white")' = {}
  <2>. SUFFICES ASSUME NEW i \in 1 .. k + 1, NEW d \in Dependencies(path'[i]) \ todo'[path'[i]],
                       d \in Coloured("white") \ {n}
                PROVE  FALSE
    BY <1>3
  <2>1. i \in 1 .. k
    BY <1>2
  <2>2. path'[i] = path[i] /\ todo'[path[i]] = left[path[i]]
    BY <1>2, <1>6, <2>1
  <2>3. d \in Dependencies(path[i]) \ todo[path[i]]
    BY <1>7, <2>1, <2>2
  <2>. QED
    BY <2>1, <2>3 DEF NamesInv
<1>. HIDE DEF k
<1>. QED
  BY <1>2, <1>3, <1>4, <1>5, <1>7, <1>8 DEF NamesInv

LEMMA NamesLeaves ==
  ASSUME SearchTypeOK, PathIsChain, NamesInv, Leave
  PROVE  NamesInv'
<1>. SUFFICES ASSUME call = "names"
              PROVE  NamesInv'
  <2>1. UNCHANGED call /\ Running
    BY DEF Leave
  <2>. QED
    BY <2>1 DEF Running, NamesInv
<1>. DEFINE k == Len(path)
<1>0. PICK r \in Nat : r = Len(result)
  BY DEF SearchTypeOK
<1>1. /\ k \in Nat \ {0} /\ Len(path') = k - 1 /\ Top = path[k] /\ Top \in All
      /\ \A i \in 1 .. k - 1 : path'[i] = path[i]
      /\ \A i \in 1 .. k : path[i] \in All
      /\ colour'[Top] = "black" /\ \A m \in All : m # Top => colour'[m] = colour[m]
      /\ UNCHANGED <<deps, call, todo, found>> /\ todo[Top] = {}
  BY Left
<1>2. /\ r \in Nat /\ Len(result') = r + 1 /\ result'[r + 1] = Top
      /\ \A i \in 1 .. r : result'[i] = result[i]
  <2>1. result' = Append(result, Top) /\ result \in Seq(All)
    BY DEF Leave, SearchTypeOK
  <2>. QED
    BY <1>0, <2>1
<1>3. k \in 1 .. k /\ colour[Top] = "gray"
  BY <1>1 DEF PathIsChain
<1>4. /\ Coloured("black")' = Coloured("black") \cup {Top} /\ Top \notin Coloured("black")
      /\ Coloured("gray")' \subseteq Coloured("gray") /\ Top \in Coloured("gray")
      /\ Coloured("white")' = Coloured("white")
  BY <1>1, <1>3 DEF Coloured
<1>5. \A m : Dependencies(m)' = Dependencies(m)
  BY <1>1 DEF Dependencies
<1>6. (\A i \in 0 .. r : Listed(i)' = Listed(i)) /\ Listed(r + 1)' = Listed(r) \cup {Top}
  <2>1. ASSUME NEW i \in 0 .. r PROVE Listed(i)' = Listed(i)
    <3>1. \A j \in 1 .. i : result'[j] = result[j]
      BY <1>2
    <3>. QED
      BY <3>1 DEF Listed
  <2>2. 1 .. r + 1 = (1 .. r) \cup {r + 1}
    OBVIOUS
  <2>3. {result'[j] : j \in 1 .. r + 1} = {result'[j] : j \in 1 .. r} \cup {result'[r + 1]}
    BY <2>2
  <2>4. Listed(r)' = Listed(r)
    BY <2>1
  <2>. QED
    BY <1>2, <2>1, <2>3, <2>4 DEF Listed
<1>7. Top \notin Listed(r)
  BY <1>0, <1>4 DEF NamesInv
<1>8. \A i, j \in 1 .. r + 1 : result'[i] = result'[j] => i = j
  <2>1. \A i \in 1 .. r : result'[i] # Top
    BY <1>2, <1>7 DEF Listed
  <2>2. \A i \in 1 .. r + 1 : i \in 1 .. r \/ i = r + 1
    BY <1>2
  <2>. QED
    BY <1>0, <1>2, <2>1, <2>2 DEF NamesInv
<1>9. \A n \in Coloured("black")' : Dependencies(n) \cap Coloured("white") = {}
  BY <1>1, <1>3, <1>4 DEF NamesInv
<1>10. \A i \in 1 .. k - 1 : (Dependencies(path'[i]) \ todo[path'[i]]) \cap Coloured("white") = {}
  BY <1>1 DEF NamesInv
<1>11. ~ Cyclic(Names, deps)
         => /\ LookedAt(All)'
            /\ \A i \in 1 .. r + 1 : Dependencies(result'[i]) \subseteq Listed(i - 1)'
  <2>. SUFFICES ASSUME ~ Cyclic(Names, deps)
                PROVE  /\ LookedAt(All)'
                       /\ \A i \in 1 .. r + 1 : Dependencies(result'[i]) \subseteq Listed(i - 1)'
    OBVIOUS
  <2>1. LookedAt(All)
    BY DEF NamesInv
  <2>2. Dependencies(Top) \subseteq Listed(r)
    BY <1>0, <1>1, <2>1, LeftIsLookedAt, DependenciesAreNames DEF NamesInv
  <2>3. ASSUME NEW i \in 1 .. r + 1 PROVE Dependencies(result'[i]) \subseteq Listed(i - 1)'
    <3>1. i - 1 \in 0 .. r
      BY <1>2
    <3>2. CASE i = r + 1
      <4>1. i - 1 = r
        BY <1>2, <3>2
      <4>. QED
        BY <1>2, <1>6, <2>2, <3>1, <3>2, <4>1
    <3>3. CASE i \in 1 .. r
      BY <1>0, <1>2, <1>6, <3>1, <3>3 DEF NamesInv
    <3>. QED
      BY <1>2, <3>2, <3>3
  <2>. QED
    BY <2>1, <2>3, LookedAtLeft
<1>12. 1 .. r + 1 = 1 .. Len(result') /\ 1 .. k - 1 = 1 .. Len(path')
  BY <1>1, <1>2
<1>13. Coloured("black")' = Listed(Len(result))'
  <2>1. Coloured("black")' = Listed(r + 1)'
    BY <1>0, <1>4, <1>6 DEF NamesInv
  <2>. QED
    BY <1>2, <2>1
<1>14. Coloured("black")' \cup Coloured("gray")' \subseteq Names \cup UNION {deps'[n] : n \in Names}
  BY <1>1, <1>4 DEF NamesInv
<1>15. ~ found' /\ call' # "named" /\ UNCHANGED <<deps, todo>>
  BY <1>1 DEF NamesInv
<1>. HIDE DEF k
<1>. QED
  BY <1>4, <1>5, <1>8, <1>9, <1>10, <1>11, <1>12, <1>13, <1>14, <1>15 DEF NamesInv

LEMMA NamesKept ==
  ASSUME SearchTypeOK, PathIsChain, NamesInv, [SearchNext]_searchVars
  PROVE  NamesInv'
<1>1. ASSUME NEW c \in {"validate", "names"}, Call(c) PROVE NamesInv'
  <2>1. /\ Coloured("gray")' = {} /\ Coloured("black")' = {} /\ ~ found' /\ path' = <<>>
        /\ call' # "named" /\ result' = <<>> /\ Len(result') = 0 /\ Len(path') = 0
    BY <1>1 DEF Call, Coloured, All
  <2>2. LookedAt(All)' /\ Listed(Len(result))' = {}
    BY <2>1 DEF LookedAt, Listed
  <2>3. 1 .. Len(result') = {} /\ 1 .. Len(path') = {}
    BY <2>1
  <2>4. ~ found' /\ call' # "named" /\ Coloured("gray")' = {} /\ Coloured("black")' = {}
    BY <2>1
  <2>. QED
    BY <2>2, <2>3, <2>4 DEF NamesInv
<1>2. ASSUME NEW n \in Names, StartTree(n) PROVE NamesInv'
  BY <1>2, TreeBegins, NamesBegins
<1>3. ASSUME NEW d \in All, Descend(d) PROVE NamesInv'
  BY <1>3, DescentBegins, NamesBegins
<1>4. ASSUME NEW d \in All, PassBy(d) PROVE NamesInv'
  <2>. SUFFICES ASSUME call = "names" PROVE NamesInv'
    <3>1. UNCHANGED call /\ Running
      BY <1>4 DEF PassBy, At
    <3>. QED
      BY <3>1 DEF Running, NamesInv
  <2>1. /\ At(d) /\ UNCHANGED <<deps, call, path, colour, found, result>> /\ todo' = Without(d)
        /\ colour[d] \in {"gray", "black"}
    BY <1>4 DEF PassBy, graph, Considered
  <2>2. /\ \A c : Coloured(c)' = Coloured(c)
        /\ \A m : Dependencies(m)' = Dependencies(m) /\ Listed(m)' = Listed(m)
    BY <2>1 DEF Coloured, Dependencies, Listed
  <2>3. ~ Cyclic(Names, deps) => LookedAt(All)'
    <3>. SUFFICES ASSUME ~ Cyclic(Names, deps) PROVE LookedAt(All)'
      OBVIOUS
    <3>1. colour[d] = "black" /\ LookedAt(All)
      BY <2>1, GrayClosesCycle DEF NamesInv
    <3>. QED
      BY <2>1, <3>1, LookedAtPassed
  <2>4. \A i \in 1 .. Len(path) : (Dependencies(path[i]) \ todo'[path[i]]) \cap Coloured("white") = {}
    <3>1. /\ \A m \in All : todo[m] \ todo'[m] \subseteq {d}
          /\ \A i \in 1 .. Len(path) : path[i] \in All
      BY <2>1, Advanced
    <3>2. d \notin Coloured("white")
      BY <2>1 DEF Coloured
    <3>. QED
      BY <3>1, <3>2 DEF NamesInv
  <2>. QED
    BY <2>1, <2>2, <2>3, <2>4 DEF NamesInv
<1>5. ASSUME NEW d \in All, FindCycle(d) PROVE NamesInv'
  BY <1>5 DEF FindCycle, NamesInv
<1>6. CASE Leave
  BY <1>6, NamesLeaves
<1>7. CASE EndCall
  <2>1. UNCHANGED <<deps, path, todo, colour, found, result>> /\ AllVisited
        /\ call' \in {"validated", "named"} /\ (call' = "named" => call = "names")
    BY <1>7 DEF EndCall, graph, Running
  <2>2. /\ \A c : Coloured(c)' = Coloured(c)
        /\ \A m : Dependencies(m)' = Dependencies(m) /\ Listed(m)' = Listed(m)
        /\ AllVisited' = AllVisited
    BY <2>1 DEF Coloured, Dependencies, Listed, AllVisited
  <2>3. LookedAt(All)' = LookedAt(All)
    BY <2>1, <2>2 DEF LookedAt
  <2>. QED
    BY <2>1, <2>2, <2>3 DEF NamesInv
<1>8. CASE UNCHANGED searchVars
  <2>1. UNCHANGED <<deps, path, todo, colour, found, call, result>>
    BY <1>8 DEF searchVars, graph
  <2>2. /\ \A c : Coloured(c)' = Coloured(c)
        /\ \A m : Dependencies(m)' = Dependencies(m) /\ Listed(m)' = Listed(m)
        /\ AllVisited' = AllVisited
    BY <2>1 DEF Coloured, Dependencies, Listed, AllVisited
  <2>3. LookedAt(All)' = LookedAt(All)
    BY <2>1, <2>2 DEF LookedAt
  <2>. QED
    BY <2>1, <2>2, <2>3 DEF NamesInv
<1>. QED
  BY <1>1, <1>2, <1>3, <1>4, <1>5, <1>6, <1>7, <1>8 DEF SearchNext

\* get_all_stage_names lists every stage and every name that is mentioned, once,
\* for every graph; without a cycle all that a stage depends on comes before it.
THEOREM NamesAreInTopologicalOrder == SearchSpec => []NamesInTopologicalOrder
<1>1. SearchInit => PathIsChain /\ NamesInv
  BY SearchBegins
<1>2. SearchTypeOK /\ PathIsChain /\ NamesInv /\ [SearchNext]_searchVars
        => PathIsChain' /\ NamesInv'
  BY ChainKept, NamesKept
<1>3. SearchTypeOK /\ PathIsChain /\ NamesInv => NamesInTopologicalOrder
  <2>. SUFFICES ASSUME SearchTypeOK, PathIsChain, NamesInv, call = "named"
                PROVE  NamesInTopologicalOrder
    BY DEF NamesInTopologicalOrder
  <2>. DEFINE Mentioned == Names \cup UNION {deps[n] : n \in Names}
  <2>1. path = <<>>
    BY DEF PathIsChain, Running
  <2>2. Coloured("gray") = {}
    BY <2>1 DEF PathIsChain, NamesInv
  <2>3. Names \subseteq Coloured("black")
    BY <2>2 DEF NamesInv, AllVisited, Coloured, All, SearchTypeOK
  <2>4. \A n \in Names : deps[n] \subseteq Coloured("black")
    <3>1. \A n \in Names : deps[n] \subseteq All /\ deps[n] \cap Coloured("white") = {}
      BY <2>3 DEF NamesInv, SearchTypeOK, Dependencies
    <3>2. All = Coloured("white") \cup Coloured("gray") \cup Coloured("black")
      BY DEF SearchTypeOK, Coloured
    <3>. QED
      BY <2>2, <3>1, <3>2
  <2>5. Coloured("black") = Mentioned
    BY <2>3, <2>4 DEF NamesInv
  <2>6. DOMAIN result = 1 .. Len(result)
    BY DEF SearchTypeOK
  <2>7. {result[i] : i \in DOMAIN result} = Mentioned
    BY <2>5, <2>6 DEF NamesInv, Listed
  <2>. QED
    BY <2>6, <2>7 DEF NamesInTopologicalOrder, NamesInv, Listed
<1>. QED
  BY <1>1, <1>2, <1>3, SearchTypeCorrect, PTL DEF SearchSpec
=============================================================================
