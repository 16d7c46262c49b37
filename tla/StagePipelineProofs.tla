------------------------ MODULE StagePipelineProofs ------------------------
(***************************************************************************)
(* Proofs about StagePipeline, for any template, any limits and any number *)
(* of crashes, retries and reviews.                                        *)
(***************************************************************************)
EXTENDS StagePipeline, FiniteSetTheorems, WellFoundedInduction, TLAPS

----------------------------------------------------------------------------
(* The first of a set of stages, and the latest of the gates.              *)

\* A nonempty finite set of numbers has a least element.
LEMMA LeastIsElement ==
  ASSUME NEW S \in SUBSET Nat, IsFiniteSet(S), S # {}
  PROVE  \E x \in S : \A y \in S : x =< y
<1>. DEFINE Below(x) == {y \in S : y < x}
            T == {Below(x) : x \in S}
<1>1. T \subseteq FiniteSubsetsOf(S)
  <2>. SUFFICES ASSUME NEW x \in S PROVE Below(x) \in FiniteSubsetsOf(S)
    OBVIOUS
  <2>1. Below(x) \in SUBSET S
    OBVIOUS
  <2>2. IsFiniteSet(Below(x))
    BY <2>1, FS_Subset
  <2>. QED
    BY <2>1, <2>2 DEF FiniteSubsetsOf
<1>2. T # {}
  <2>1. PICK x \in S : TRUE
    OBVIOUS
  <2>2. Below(x) \in T
    BY <2>1
  <2>. QED
    BY <2>2
<1>3. PICK B \in T : \A C \in T : ~ (<<C, B>> \in StrictSubsetOrdering(S))
  <2>. HIDE DEF T
  <2>. QED
    BY <1>1, <1>2, FS_StrictSubsetOrderingWellFounded, WFMin
<1>4. PICK x \in S : B = Below(x)
  OBVIOUS
<1>5. ASSUME NEW y \in S, y < x
      PROVE  FALSE
  <2>1. Below(y) \in T /\ Below(y) \in SUBSET S /\ B \in SUBSET S
    BY <1>4
  <2>2. y \in B /\ y \notin Below(y)
    BY <1>4, <1>5
  <2>3. Below(y) \subseteq B
    <3>. SUFFICES ASSUME NEW z \in S, z < y PROVE z < x
      BY <1>4
    <3>1. x \in Nat /\ y \in Nat /\ z \in Nat
      OBVIOUS
    <3>. QED
      BY <1>5, <3>1
  <2>4. <<Below(y), B>> \in StrictSubsetOrdering(S)
    BY <2>1, <2>2, <2>3 DEF StrictSubsetOrdering
  <2>. QED
    BY <1>3, <2>1, <2>4
<1>. QED
  BY <1>5

\* The stage a run awaits first, and the stage whose gate it is at.
LEMMA MinIsElement ==
  ASSUME NEW S \in SUBSET Stages, S # {}
  PROVE  Min(S) \in S
<1>1. S \in SUBSET Nat /\ IsFiniteSet(S)
  BY StagesAreNumbers, FS_Subset
<1>2. \E x \in S : \A y \in S : x =< y
  BY <1>1, LeastIsElement
<1>. QED
  BY <1>2 DEF Min

\* The gate with the largest number among some gates.
LEMMA MaxIsElement ==
  ASSUME NEW n \in Nat, NEW S \in SUBSET (1..n), S # {}
  PROVE  Max(S) \in S
<1>. DEFINE T == {n - x : x \in S}
<1>1. T \in SUBSET Nat /\ T # {} /\ \A t \in T : t =< n
  OBVIOUS
<1>2. IsFiniteSet(T)
  BY <1>1, FS_BoundedSetOfNaturals
<1>3. PICK t \in T : \A u \in T : t =< u
  <2>. HIDE DEF T
  <2>. QED
    BY <1>1, <1>2, LeastIsElement
<1>4. PICK x \in S : t = n - x
  OBVIOUS
<1>5. \A y \in S : x >= y
  <2>. SUFFICES ASSUME NEW y \in S PROVE x >= y
    OBVIOUS
  <2>1. n - y \in T
    OBVIOUS
  <2>2. n - x =< n - y
    BY <1>3, <1>4, <2>1
  <2>3. x \in Int /\ y \in Int
    OBVIOUS
  <2>. QED
    BY <2>2, <2>3
<1>. QED
  BY <1>5 DEF Max

----------------------------------------------------------------------------
(* Types, and where a run can be.                                          *)

PCs == {"off", "setup", "group", "await", "gate", "poll", "look", "again",
        "plan", "doubt", "final", "announce", "cleanup", "expired"}
Rows == [status : {"pending", "running", "completed", "failed", "skipped"},
         retry : 0..StageMaxRetries, done : Nat, says : {"none", "yes", "no"}]
Gates == [stage : Stages, status : {"pending", "approved", "rejected", "revised"},
          reviewed : Nat, approved : Nat, dynamic : BOOLEAN]
\* The memory of a run that knows n gates.
Memory(n) ==
  [pc : PCs, gi : 0..NumGroups + 1,
   launched : SUBSET Stages, live : SUBSET Stages, dead : SUBSET Stages,
   left : SUBSET Stages, outs : [Stages -> {"none", "yes", "no"}],
   todo : SUBSET Stages, tries : Nat, gate : 0..n]

InGroupPCs == {"await", "doubt", "gate", "poll", "look", "again", "plan"}

\* Where the run is in its groups; a completed task has no coroutines, and its
\* run at most announces it or is cut off while it does.
Place ==
  /\ run.pc = "off" => run = NoRun
  /\ task = "completed" => run.pc \in {"off", "announce", "expired"} /\ run.left = {}
  /\ run.pc # "off" => run.gi >= 1
  /\ run.pc \in InGroupPCs => run.gi =< NumGroups
  /\ run.pc \in {"final", "announce"} => run.gi = NumGroups + 1

\* Gates are left to pass while the run is at one, none while it is not.
Todo ==
  /\ run.pc \in {"setup", "group", "plan", "final"} => run.todo = {}
  /\ run.pc \in {"poll", "look", "again"} => run.todo # {}
  /\ \A s \in run.todo : s \in Gated /\ Order[s] = run.gi

\* Coroutines are of the run's group; they are awaited, or left by a run that
\* has returned.
Coroutines ==
  /\ \A s \in run.live : Order[s] = run.gi /\ row[s].status = "running"
  /\ \A s \in run.dead : Order[s] = run.gi
  /\ \A s \in run.left : Order[s] = run.gi /\ row[s].status = "running"
  /\ (run.live # {} \/ run.dead # {}) => run.pc \in {"await", "again"}
  /\ run.pc = "again" => run.live \subseteq {GateStage} /\ run.dead \subseteq {GateStage}
  /\ run.left # {} => run.pc \in {"cleanup", "expired"}

WhereInv == Place /\ Todo /\ Coroutines

Statuses == {"pending", "running", "planning", "completed", "failed", "cancelled"}

Usage == [faults : 0..MaxFaults, retries : 0..MaxRetries, reviews : 0..MaxReviews]

\* The parts of TypeOK by their names.
LEMMA Parts ==
  ASSUME TypeOK
  PROVE  /\ task \in Statuses /\ row \in [Stages -> Rows] /\ gates \in Seq(Gates)
         /\ tokens \in Nat /\ clock \in Nat /\ orphans \subseteq Stages
         /\ run \in Memory(Len(gates)) /\ Len(gates) \in Nat /\ NumGroups \in Nat
         /\ run.live \subseteq Stages /\ run.dead \subseteq Stages /\ run.left \subseteq Stages
         /\ run.launched \subseteq Stages /\ run.todo \subseteq Stages /\ run.gate \in 0..Len(gates)
         /\ run.gi \in 0..NumGroups + 1 /\ run.pc \in PCs /\ run.tries \in Nat
         /\ run.outs \in [Stages -> {"none", "yes", "no"}] /\ used \in Usage
<1>1. run \in Memory(Len(gates)) /\ gates \in Seq(Gates) /\ row \in [Stages -> Rows]
  BY DEF TypeOK, Memory, Rows, Gates, PCs
<1>2. Len(gates) \in Nat
  BY <1>1
<1>3. task \in Statuses /\ tokens \in Nat /\ clock \in Nat /\ orphans \subseteq Stages /\ used \in Usage
  BY DEF TypeOK, Statuses, Usage
<1>. QED
  BY <1>1, <1>2, <1>3, GroupsAreRanks DEF Memory

LEMMA NoRunIsMemory == \A n \in Nat : NoRun \in Memory(n)
  BY GroupsAreRanks DEF NoRun, Memory, PCs

LEMMA CountedUp ==
  ASSUME TypeOK
  PROVE  /\ used.faults < MaxFaults => [used EXCEPT !.faults = @ + 1] \in Usage
         /\ used.retries < MaxRetries => [used EXCEPT !.retries = @ + 1] \in Usage
         /\ used.reviews < MaxReviews => [used EXCEPT !.reviews = @ + 1] \in Usage
<1>1. used \in Usage /\ MaxFaults \in Nat /\ MaxRetries \in Nat /\ MaxReviews \in Nat
  BY Parts, LimitsAreNat
<1>2. /\ used.faults < MaxFaults => used.faults + 1 \in 0..MaxFaults
      /\ used.retries < MaxRetries => used.retries + 1 \in 0..MaxRetries
      /\ used.reviews < MaxReviews => used.reviews + 1 \in 0..MaxReviews
  BY <1>1 DEF Usage
<1>. QED
  BY <1>1, <1>2 DEF Usage

LEMMA MemoryGrows ==
  ASSUME NEW m \in Nat, NEW n \in Nat, m =< n, NEW r \in Memory(m)
  PROVE  r \in Memory(n)
  BY DEF Memory

\* The parts together.
LEMMA Typed ==
  ASSUME task' \in Statuses, row' \in [Stages -> Rows], gates' \in Seq(Gates), tokens' \in Nat,
         clock' \in Nat, run' \in Memory(Len(gates')), orphans' \subseteq Stages,
         used' \in Usage
  PROVE  TypeOK'
  BY DEF Usage, TypeOK, Memory, Rows, Gates, PCs, Statuses

LEMMA FailedTask ==
  ASSUME TypeOK, FailTask
  PROVE  task' \in {"cancelled", "failed"}
  BY DEF FailTask

LEMMA MarkedFailed ==
  ASSUME TypeOK, NEW s \in Stages, MarkFailed(s)
  PROVE  /\ row' \in [Stages -> Rows] /\ clock' = clock + 1
         /\ row'[s].status = "failed" /\ row'[s].done = clock + 1 /\ row'[s].says = row[s].says
         /\ \A u \in Stages : u # s => row'[u] = row[u]
<1>1. row \in [Stages -> Rows] /\ clock \in Nat
  BY Parts
<1>2. row' = [row EXCEPT ![s].status = "failed", ![s].done = clock + 1] /\ clock' = clock + 1
  BY DEF MarkFailed
<1>. DEFINE r == [row EXCEPT ![s].status = "failed"]
<1>3. r \in [Stages -> Rows]
  BY <1>1 DEF Rows
<1>4. row' = [r EXCEPT ![s].done = clock + 1]
  BY <1>1, <1>2 DEF Rows
<1>5. row' \in [Stages -> Rows]
  <2>. HIDE DEF r
  <2>. QED
    BY <1>1, <1>3, <1>4 DEF Rows
<1>. QED
  BY <1>1, <1>2, <1>5 DEF Rows

LEMMA MarkedCompleted ==
  ASSUME TypeOK, NEW s \in Stages, MarkCompleted(s)
  PROVE  /\ row' \in [Stages -> Rows] /\ clock' = clock + 1 /\ tokens' = tokens + 1
         /\ row'[s].status = "completed" /\ row'[s].done = clock + 1
         /\ \A u \in Stages : u # s => row'[u] = row[u]
<1>1. row \in [Stages -> Rows] /\ clock \in Nat
  BY Parts
<1>2. PICK v \in Answers(s) :
        row' = [row EXCEPT ![s].status = "completed", ![s].done = clock + 1, ![s].says = v]
  BY DEF MarkCompleted
<1>3. v \in {"none", "yes", "no"}
  BY <1>1 DEF Answers, Rows
<1>. DEFINE r == [row EXCEPT ![s].status = "completed"]
            q == [r EXCEPT ![s].done = clock + 1]
<1>4. r \in [Stages -> Rows]
  BY <1>1 DEF Rows
<1>5. q \in [Stages -> Rows]
  <2>. HIDE DEF r
  <2>. QED
    BY <1>1, <1>4 DEF Rows
<1>6. row' = [q EXCEPT ![s].says = v]
  BY <1>1, <1>2 DEF Rows
<1>7. row' \in [Stages -> Rows]
  <2>. HIDE DEF q
  <2>. QED
    BY <1>3, <1>5, <1>6 DEF Rows
<1>8. /\ row'[s].status = "completed" /\ row'[s].done = clock + 1
      /\ \A u \in Stages : u # s => row'[u] = row[u]
  BY <1>1, <1>2 DEF Rows
<1>. QED
  BY <1>7, <1>8 DEF MarkCompleted

LEMMA CollectedType ==
  ASSUME TypeOK, NEW S
  PROVE  Collected(S) \in [Stages -> {"none", "yes", "no"}]
<1>1. \A s \in Stages : row[s].says \in {"none", "yes", "no"}
  BY DEF TypeOK
<1>2. \A s \in Stages : run.outs[s] \in {"none", "yes", "no"}
  BY Parts
<1>. QED
  BY <1>1, <1>2 DEF Collected

\* _process_task returns: its coroutines are left behind or cancelled.
LEMMA Returned ==
  ASSUME TypeOK, WhereInv, run.pc # "off", NEW S \in SUBSET run.live, ReturnLeaving(S),
         task' # "completed",
         \A s \in S \cup run.left : row'[s].status = row[s].status
  PROVE  run' \in Memory(Len(gates)) /\ WhereInv'
<1>1. /\ run'.pc = "cleanup" /\ run'.gi = run.gi /\ run'.live = {} /\ run'.dead = {}
      /\ run'.left = run.left \cup S /\ run'.todo = run.todo
  BY Parts DEF ReturnLeaving, Memory
<1>2. run' \in Memory(Len(gates))
  BY Parts DEF ReturnLeaving, Memory, PCs
<1>3. Place'
  BY <1>1 DEF WhereInv, Place, InGroupPCs
<1>4. Todo'
  BY <1>1 DEF WhereInv, Todo
<1>5. Coroutines'
  BY <1>1 DEF WhereInv, Coroutines
<1>. QED
  BY <1>2, <1>3, <1>4, <1>5 DEF WhereInv

\* The run is over.
LEMMA Ended ==
  ASSUME run' = NoRun
  PROVE  WhereInv'
<1>1. /\ run'.pc = "off" /\ run'.live = {} /\ run'.dead = {}
      /\ run'.left = {} /\ run'.todo = {}
  BY DEF NoRun
<1>2. Place'
  BY <1>1 DEF Place, InGroupPCs
<1>3. Todo'
  BY <1>1 DEF Todo
<1>4. Coroutines'
  BY <1>1 DEF Coroutines
<1>. QED
  BY <1>2, <1>3, <1>4 DEF WhereInv

\* The run goes on without coroutines.
LEMMA Resting ==
  ASSUME run'.live = {}, run'.dead = {}, run'.left = {}, Place', Todo'
  PROVE  WhereInv'
  BY DEF WhereInv, Coroutines

\* A step that leaves the run alone and takes no running row away.
LEMMA Unmoved ==
  ASSUME TypeOK, WhereInv, UNCHANGED run, task' # "completed" \/ UNCHANGED task,
         \A s \in Stages : row[s].status = "running" => row'[s].status = "running"
  PROVE  WhereInv'
<1>1. run.live \subseteq Stages /\ run.left \subseteq Stages
  BY Parts
<1>2. Place'
  BY DEF WhereInv, Place
<1>3. Todo'
  BY DEF WhereInv, Todo
<1>4. Coroutines'
  BY <1>1 DEF WhereInv, Coroutines, GateStage
<1>. QED
  BY <1>2, <1>3, <1>4 DEF WhereInv

\* A row whose status is written is still a row.
LEMMA StatusWritten ==
  ASSUME NEW r \in Rows, NEW status \in {"pending", "running", "completed", "failed", "skipped"}
  PROVE  [r EXCEPT !.status = status] \in Rows
  BY DEF Rows

\* The steps of a run between its gates.
LEMMA RunStepKeeps ==
  ASSUME TypeOK, WhereInv, RunStep
  PROVE  TypeOK' /\ WhereInv'
<1>1. CASE StartRun
  <2>1. /\ UNCHANGED <<row, gates, tokens, clock, orphans, used>> /\ task' = "running"
        /\ run' = [NoRun EXCEPT !.pc = "setup", !.gi = 1]
    BY <1>1 DEF StartRun
  <2>2. run' \in Memory(Len(gates))
    <3>. HIDE DEF NoRun
    <3>1. NoRun \in Memory(Len(gates)) /\ 1 \in 0..NumGroups + 1
      BY Parts, NoRunIsMemory
    <3>. QED
      BY <2>1, <3>1 DEF Memory, PCs
  <2>3. TypeOK'
    BY <2>1, <2>2, Parts, Typed DEF Statuses
  <2>4. /\ run'.pc = "setup" /\ run'.gi = 1 /\ run'.live = {} /\ run'.dead = {}
        /\ run'.left = {} /\ run'.todo = {}
    BY <2>1 DEF NoRun
  <2>5. Place' /\ Todo'
    BY <2>1, <2>4 DEF Place, Todo, InGroupPCs
  <2>. QED
    BY <2>3, <2>4, <2>5, Resting
<1>2. ASSUME SetupDone \/ DynamicGateDone \/ NextGroup \/ Finalize
      PROVE  TypeOK' /\ WhereInv'
  <2>1. UNCHANGED <<task, row, gates, tokens, clock, orphans, used>>
    BY <1>2 DEF SetupDone, DynamicGateDone, NextGroup, Finalize
  <2>2. /\ run'.live = {} /\ run'.dead = {} /\ run'.left = {}
        /\ run'.todo = run.todo
        /\ \/ run.pc = "setup" /\ run'.pc = "group" /\ run'.gi = run.gi
           \/ run.pc = "doubt" /\ run'.pc = "gate" /\ run'.gi = run.gi
           \/ run.pc = "gate" /\ run'.pc = "group" /\ run'.gi = run.gi + 1 /\ run.todo = {}
           \/ run.pc = "group" /\ run'.pc = "final" /\ run'.gi = run.gi /\ run.gi = NumGroups + 1
    BY <1>2, Parts DEF SetupDone, DynamicGateDone, NextGroup, Finalize, WhereInv, Coroutines, Memory
  <2>3. run' \in Memory(Len(gates))
    <3>1. run.pc = "gate" => run.gi + 1 \in 0..NumGroups + 1
      BY Parts DEF WhereInv, Place, InGroupPCs
    <3>. QED
      BY <1>2, <3>1, Parts DEF SetupDone, DynamicGateDone, NextGroup, Finalize, Memory, PCs
  <2>4. TypeOK'
    BY <2>1, <2>3, Parts, Typed
  <2>5. Place' /\ Todo'
    BY <2>1, <2>2, Parts DEF WhereInv, Place, Todo, InGroupPCs
  <2>. QED
    BY <2>2, <2>4, <2>5, Resting
<1>3. ASSUME FailRun \/ StopCancelled \/ JoinFailed
      PROVE  TypeOK' /\ WhereInv'
  <2>1. /\ UNCHANGED <<row, gates, tokens, clock, orphans, used>>
        /\ run.pc # "off"
        /\ \E S \in SUBSET run.live : ReturnLeaving(S)
    BY <1>3 DEF FailRun, StopCancelled, JoinFailed, InGroup, WhereInv, Coroutines
  <2>2. task' \in {task, "failed"} /\ task # "completed"
    <3>1. run.pc \in {"setup", "final", "group", "await", "again"}
      BY <1>3 DEF FailRun, StopCancelled, JoinFailed, InGroup, WhereInv, Coroutines
    <3>2. task' \in {task, "failed"}
      BY <1>3 DEF FailRun, StopCancelled, JoinFailed, FailTask
    <3>. QED
      BY <3>1, <3>2 DEF WhereInv, Place
  <2>3. run' \in Memory(Len(gates)) /\ WhereInv'
    BY <2>1, <2>2, Returned
  <2>4. TypeOK'
    BY <2>1, <2>2, <2>3, Parts, Typed DEF Statuses
  <2>. QED
    BY <2>3, <2>4
<1>4. ASSUME ResumeGroup \/ JoinDone \/ InsertDynamicGate
      PROVE  TypeOK' /\ WhereInv'
  <2>1. /\ UNCHANGED <<task, row, tokens, clock, orphans, used>>
        /\ run'.live = {} /\ run'.dead = {} /\ run'.left = {}
        /\ run'.pc \in {"gate", "doubt"} /\ run'.gi = run.gi /\ run.gi \in 1..NumGroups
        /\ run'.todo = Gated \cap Group(run.gi) /\ run.pc \in {"group", "await"}
    BY <1>4, Parts DEF ResumeGroup, JoinDone, InsertDynamicGate, Joined, InGroup, Awaited, WhereInv,
       Coroutines, Memory
  <2>2. /\ gates' \in Seq(Gates) /\ Len(gates') >= Len(gates) /\ Len(gates') \in Nat
    <3>1. CASE InsertDynamicGate
      <4>1. PICK s \in Doubtful :
              gates' = Append(gates, [stage |-> s, status |-> "pending", reviewed |-> 0,
                                      approved |-> 0, dynamic |-> TRUE])
        BY <3>1 DEF InsertDynamicGate
      <4>2. [stage |-> s, status |-> "pending", reviewed |-> 0, approved |-> 0, dynamic |-> TRUE] \in Gates
        BY TemplateIsSane DEF Gates
      <4>. QED
        BY <4>1, <4>2, Parts
    <3>2. CASE UNCHANGED gates
      BY <3>2, Parts
    <3>. QED
      BY <1>4, <3>1, <3>2 DEF ResumeGroup, JoinDone
  <2>3. run' \in Memory(Len(gates'))
    <3>1. Gated \cap Group(run.gi) \subseteq Stages
      BY DEF Group
    <3>2. CASE ResumeGroup
      BY <2>2, <3>1, <3>2, Parts DEF ResumeGroup, Memory, PCs
    <3>3. ASSUME NEW pc \in {"gate", "doubt"}, Joined(pc)
          PROVE  run' \in Memory(Len(gates'))
      <4>. DEFINE outs == Collected(run.launched)
                  todo == Gated \cap Group(run.gi)
      <4>1. outs \in [Stages -> {"none", "yes", "no"}]
        BY CollectedType
      <4>2. run' = [run EXCEPT !.pc = pc, !.tries = 0, !.outs = outs, !.todo = todo]
        BY <3>3 DEF Joined
      <4>3. todo \subseteq Stages
        BY <3>1
      <4>. HIDE DEF outs, todo
      <4>4. run \in Memory(Len(gates'))
        BY <2>2, Parts, MemoryGrows
      <4>. QED
        BY <4>1, <4>2, <4>3, <4>4 DEF Memory, PCs
    <3>. QED
      BY <1>4, <3>2, <3>3 DEF JoinDone, InsertDynamicGate
  <2>4. TypeOK'
    BY <2>1, <2>2, <2>3, Parts, Typed
  <2>5. Place' /\ Todo'
    BY <2>1 DEF WhereInv, Place, Todo, InGroupPCs, Group
  <2>. QED
    BY <2>1, <2>4, <2>5, Resting
<1>5. CASE LaunchGroup
  <2>. DEFINE G == Group(run.gi)
              Rest == {s \in G : row[s].status # "completed"}
              Skip == {s \in Rest : Skips(s, Collected({u \in G \ Rest : u < s}))}
              Go == Rest \ Skip
              outs == Collected(G \ Rest)
  <2>1. /\ UNCHANGED <<task, gates, tokens, clock, orphans, used>>
        /\ row' = [s \in Stages |->
                     IF s \in Skip THEN [row[s] EXCEPT !.status = "skipped"]
                     ELSE IF s \in Rest THEN [row[s] EXCEPT !.status = "running"]
                     ELSE row[s]]
        /\ \/ run' = [run EXCEPT !.gi = @ + 1]
           \/ run' = [run EXCEPT !.pc = "await", !.launched = Go, !.live = Go, !.outs = outs]
        /\ run.pc = "group" /\ run.gi \in 1..NumGroups
    BY <1>5 DEF LaunchGroup, InGroup
  <2>2. /\ Rest \subseteq Stages /\ Go \subseteq Rest /\ Go \cap Skip = {}
        /\ \A s \in Rest : Order[s] = run.gi
    BY DEF Group
  <2>3. outs \in [Stages -> {"none", "yes", "no"}]
    BY CollectedType
  <2>. HIDE DEF Skip, Rest, outs
  <2>4. row' \in [Stages -> Rows]
    <3>1. \A s \in Stages : row[s] \in Rows
      BY Parts
    <3>2. \A s \in Stages : /\ [row[s] EXCEPT !.status = "skipped"] \in Rows
                            /\ [row[s] EXCEPT !.status = "running"] \in Rows
      BY <3>1, StatusWritten
    <3>. QED
      BY <2>1, <3>1, <3>2
  <2>5. run' \in Memory(Len(gates))
    <3>1. run.gi + 1 \in 0..NumGroups + 1
      BY <2>1, Parts
    <3>2. Go \subseteq Stages
      BY <2>2
    <3>. HIDE DEF Go
    <3>. QED
      BY <2>1, <2>3, <3>1, <3>2, Parts, ZenonT(30) DEF Memory, PCs
  <2>6. TypeOK'
    BY <2>1, <2>4, <2>5, Parts, Typed
  <2>7. run.todo = {} /\ run.live = {} /\ run.dead = {} /\ run.left = {}
    BY <2>1 DEF WhereInv, Todo, Coroutines
  <2>8. /\ run'.dead = {} /\ run'.left = {} /\ run'.todo = {}
        /\ \/ run'.pc = "group" /\ run'.gi = run.gi + 1 /\ run'.live = {}
           \/ run'.pc = "await" /\ run'.gi = run.gi /\ run'.live = Go
    <3>. HIDE DEF Go
    <3>. QED
      BY <2>1, <2>7, Parts DEF Memory
  <2>9. \A s \in Go : row'[s].status = "running"
    BY <2>1, <2>2, Parts DEF Rows
  <2>10. Place' /\ Todo'
    BY <2>1, <2>8, Parts DEF WhereInv, Place, Todo, InGroupPCs
  <2>11. Coroutines'
    BY <2>2, <2>8, <2>9 DEF Coroutines
  <2>. QED
    BY <2>6, <2>10, <2>11 DEF WhereInv
<1>6. ASSUME AnnounceDone \/ CleanupDone \/ FailExpired
      PROVE  TypeOK' /\ WhereInv'
  <2>1. /\ UNCHANGED <<row, gates, tokens, clock, used>> /\ run' = NoRun
        /\ orphans' \in {orphans, orphans \cup run.left}
        /\ task' \in {task, "failed"}
    BY <1>6 DEF AnnounceDone, CleanupDone, FailExpired, FailTask
  <2>2. TypeOK'
    BY <2>1, Parts, NoRunIsMemory, Typed DEF Statuses
  <2>. QED
    BY <2>1, <2>2, Ended
<1>7. CASE Timeout
  <2>. PICK S \in SUBSET run.live : CutOff(S)
    BY <1>7 DEF Timeout
  <2>0. run' = [run EXCEPT !.pc = "expired", !.live = {}, !.dead = {}, !.left = run.left \cup S]
    BY DEF CutOff
  <2>1. /\ UNCHANGED <<task, row, gates, tokens, clock, orphans, used>>
        /\ run.pc # "off"
        /\ run'.pc = "expired" /\ run'.gi = run.gi /\ run'.live = {} /\ run'.dead = {}
        /\ run'.todo = run.todo /\ run'.left \subseteq run.left \cup run.live
    <3>1. UNCHANGED <<task, row, gates, tokens, clock, orphans, used>> /\ run.pc # "off"
      BY <1>7 DEF Timeout, CutOff
    <3>2. /\ run'.pc = "expired" /\ run'.gi = run.gi /\ run'.live = {} /\ run'.dead = {}
          /\ run'.todo = run.todo /\ run'.left = run.left \cup S
      BY <2>0, Parts DEF Memory
    <3>. QED
      BY <3>1, <3>2
  <2>2. run' \in Memory(Len(gates))
    <3>1. run.left \cup S \subseteq Stages
      BY Parts
    <3>. QED
      BY <2>0, <3>1, Parts DEF Memory, PCs
  <2>3. TypeOK'
    BY <2>1, <2>2, Parts, Typed
  <2>4. Place'
    BY <2>1 DEF WhereInv, Place, Coroutines, InGroupPCs
  <2>5. Todo'
    BY <2>1 DEF WhereInv, Todo
  <2>6. Coroutines'
    BY <2>1 DEF WhereInv, Coroutines
  <2>. QED
    BY <2>3, <2>4, <2>5, <2>6 DEF WhereInv
<1>8. CASE CompleteTask
  <2>1. /\ UNCHANGED <<row, gates, tokens, clock, orphans, used>> /\ task' = "completed"
        /\ run.pc = "final" /\ run'.pc = "announce" /\ run'.gi = run.gi /\ run'.todo = run.todo
        /\ run'.live = run.live /\ run'.dead = run.dead /\ run'.left = run.left
    BY <1>8, Parts DEF CompleteTask, Memory
  <2>2. run' \in Memory(Len(gates))
    BY <1>8, Parts DEF CompleteTask, Memory, PCs
  <2>3. TypeOK'
    BY <2>1, <2>2, Parts, Typed DEF Statuses
  <2>4. run.live = {} /\ run.dead = {} /\ run.left = {}
    BY <2>1 DEF WhereInv, Coroutines
  <2>5. Place' /\ Todo'
    BY <2>1, <2>4 DEF WhereInv, Place, Todo, InGroupPCs
  <2>. QED
    BY <2>1, <2>3, <2>4, <2>5, Resting
<1>. QED
  BY <1>1, <1>2, <1>3, <1>4, <1>5, <1>6, <1>7, <1>8 DEF RunStep

\* A run at a gate has no coroutines, and the stage of the gate is one of its
\* group's gated stages.
LEMMA AtGateStage ==
  ASSUME TypeOK, WhereInv, run.pc \in {"poll", "look", "again"} \/ AtGate
  PROVE  /\ GateStage \in run.todo /\ GateStage \in Stages
         /\ GateStage \in Gated /\ Order[GateStage] = run.gi
         /\ run.left = {} /\ (run.pc # "again" => run.live = {} /\ run.dead = {})
<1>1. run.todo # {} /\ run.todo \subseteq Stages
  BY Parts DEF WhereInv, Todo, AtGate
<1>2. GateStage \in run.todo
  BY <1>1, MinIsElement DEF GateStage
<1>. QED
  BY <1>1, <1>2 DEF WhereInv, Todo, Coroutines, AtGate

\* The steps of a run at its gates.
LEMMA GateStepKeeps ==
  ASSUME TypeOK, WhereInv, GateStep
  PROVE  TypeOK' /\ WhereInv'
<1>1. CASE ReusePendingGate
  <2>1. PICK i \in PendingOf(GateStage) : run' = [run EXCEPT !.pc = "poll", !.gate = i]
    BY <1>1 DEF ReusePendingGate
  <2>2. /\ UNCHANGED <<task, row, gates, tokens, clock, orphans, used>>
        /\ run.pc = "gate" /\ run.todo # {}
    BY <1>1 DEF ReusePendingGate, AtGate
  <2>3. i \in 0..Len(gates)
    BY Parts DEF PendingOf, GatesOf
  <2>4. run' \in Memory(Len(gates))
    BY <2>1, <2>3, Parts DEF Memory, PCs
  <2>5. TypeOK'
    BY <2>2, <2>4, Parts, Typed
  <2>6. /\ run'.live = {} /\ run'.dead = {} /\ run'.left = {} /\ run'.todo = run.todo
        /\ run'.pc = "poll" /\ run'.gi = run.gi
    BY <2>1, <2>2, Parts DEF WhereInv, Coroutines, Memory
  <2>7. Place' /\ Todo'
    BY <2>2, <2>6 DEF WhereInv, Place, Todo, InGroupPCs
  <2>. QED
    BY <2>5, <2>6, <2>7, Resting
<1>2. ASSUME ReuseApprovedGate \/ GateApproved
      PROVE  TypeOK' /\ WhereInv'
  <2>1. /\ UNCHANGED <<task, row, gates, tokens, clock, orphans, used>>
        /\ run.pc \in {"gate", "look"} /\ PassGate
    BY <1>2 DEF ReuseApprovedGate, GateApproved, AtGate
  <2>2. run' \in Memory(Len(gates))
    <3>1. run.todo \ {GateStage} \subseteq Stages /\ 0 \in 0..Len(gates)
      BY Parts
    <3>. QED
      BY <2>1, <3>1, Parts DEF PassGate, Memory, PCs
  <2>3. TypeOK'
    BY <2>1, <2>2, Parts, Typed
  <2>4. /\ run'.live = {} /\ run'.dead = {} /\ run'.left = {} /\ run'.todo \subseteq run.todo
        /\ run'.pc = "gate" /\ run'.gi = run.gi
    BY <2>1, Parts DEF PassGate, WhereInv, Coroutines, Memory
  <2>5. Place' /\ Todo'
    BY <2>1, <2>4 DEF WhereInv, Place, Todo, InGroupPCs
  <2>. QED
    BY <2>3, <2>4, <2>5, Resting
<1>3. CASE CreateGate
  <2>. DEFINE g == [stage |-> GateStage, status |-> "pending",
                    reviewed |-> 0, approved |-> 0, dynamic |-> FALSE]
  <2>1. /\ UNCHANGED <<task, row, tokens, clock, orphans, used>>
        /\ run.pc = "gate" /\ run.todo # {}
        /\ gates' = Append(gates, g)
        /\ run' = [run EXCEPT !.pc = "poll", !.gate = Len(gates) + 1]
    BY <1>3 DEF CreateGate, AtGate
  <2>2. g \in Gates
    BY <1>3, AtGateStage DEF CreateGate, Gates
  <2>. HIDE DEF g
  <2>3. gates' \in Seq(Gates) /\ Len(gates') = Len(gates) + 1
    <3>1. gates \in Seq(Gates)
      BY Parts
    <3>. QED
      BY <2>1, <2>2, <3>1, SMTT(30)
  <2>4. run' \in Memory(Len(gates'))
    <3>1. run \in Memory(Len(gates')) /\ Len(gates) + 1 \in 0..Len(gates')
      BY <2>3, Parts, MemoryGrows
    <3>. QED
      BY <2>1, <3>1 DEF Memory, PCs
  <2>5. TypeOK'
    BY <2>1, <2>3, <2>4, Parts, Typed
  <2>6. /\ run'.live = {} /\ run'.dead = {} /\ run'.left = {} /\ run'.todo = run.todo
        /\ run'.pc = "poll" /\ run'.gi = run.gi
    BY <2>1, Parts DEF WhereInv, Coroutines, Memory
  <2>7. Place' /\ Todo'
    BY <2>1, <2>6 DEF WhereInv, Place, Todo, InGroupPCs
  <2>. QED
    BY <2>5, <2>6, <2>7, Resting
<1>4. ASSUME GateWaitFails \/ GateRejected
      PROVE  TypeOK' /\ WhereInv'
  <2>1. /\ UNCHANGED <<row, gates, tokens, clock, orphans, used>>
        /\ run.pc # "off" /\ FailTask /\ ReturnLeaving({})
    BY <1>4 DEF GateWaitFails, GateRejected
  <2>2. task' \in {"cancelled", "failed"}
    BY <2>1, FailedTask
  <2>3. run' \in Memory(Len(gates)) /\ WhereInv'
    BY <2>1, <2>2, Returned
  <2>. QED
    BY <2>1, <2>2, <2>3, Parts, Typed DEF Statuses
<1>5. ASSUME PollNotCancelled \/ GateUndecided
      PROVE  TypeOK' /\ WhereInv'
  <2>1. /\ UNCHANGED <<task, row, gates, tokens, clock, orphans, used>>
        /\ run.pc \in {"poll", "look"} /\ \E pc \in {"poll", "look"} : run' = [run EXCEPT !.pc = pc]
    BY <1>5 DEF PollNotCancelled, GateUndecided
  <2>2. run' \in Memory(Len(gates))
    BY <2>1, Parts DEF Memory, PCs
  <2>3. TypeOK'
    BY <2>1, <2>2, Parts, Typed
  <2>4. /\ run'.live = {} /\ run'.dead = {} /\ run'.left = {} /\ run'.todo = run.todo
        /\ run'.pc \in {"poll", "look"} /\ run'.gi = run.gi
    BY <2>1, Parts DEF WhereInv, Coroutines, Memory
  <2>5. Place' /\ Todo'
    BY <2>1, <2>4 DEF WhereInv, Place, Todo, InGroupPCs
  <2>. QED
    BY <2>3, <2>4, <2>5, Resting
<1>6. CASE ExecuteAgain
  <2>1. /\ UNCHANGED <<task, gates, tokens, clock, orphans, used>>
        /\ run.pc = "look"
        /\ row' = [row EXCEPT ![GateStage].status = "running"]
        /\ run' = [run EXCEPT !.pc = "again", !.tries = @ + 1, !.gate = 0, !.live = {GateStage}]
    BY <1>6 DEF ExecuteAgain
  <2>2. /\ GateStage \in Stages /\ Order[GateStage] = run.gi /\ run.todo # {}
        /\ run.dead = {} /\ run.left = {}
    BY <2>1, AtGateStage
  <2>3. row' \in [Stages -> Rows] /\ row'[GateStage].status = "running"
    BY <2>1, <2>2, Parts, ZenonT(40) DEF Rows
  <2>4. run' \in Memory(Len(gates))
    <3>1. {GateStage} \subseteq Stages /\ 0 \in 0..Len(gates) /\ run.tries + 1 \in Nat
      BY <2>2, Parts
    <3>2. run \in Memory(Len(gates))
      BY Parts
    <3>. QED
      BY <2>1, <3>1, <3>2 DEF Memory, PCs
  <2>5. TypeOK'
    BY <2>1, <2>3, <2>4, Parts, Typed
  <2>6. /\ run'.live = {GateStage} /\ run'.dead = {} /\ run'.left = {} /\ run'.todo = run.todo
        /\ run'.pc = "again" /\ run'.gi = run.gi
    BY <2>1, <2>2, Parts DEF Memory
  <2>7. Place' /\ Todo'
    BY <2>1, <2>6 DEF WhereInv, Place, Todo, InGroupPCs
  <2>8. Coroutines'
    BY <2>2, <2>3, <2>6 DEF Coroutines, GateStage
  <2>. QED
    BY <2>5, <2>7, <2>8 DEF WhereInv
<1>7. CASE AgainDone
  <2>1. /\ UNCHANGED <<task, row, gates, tokens, clock, orphans, used>>
        /\ run.pc = "again" /\ run.live = {} /\ run.dead = {} /\ run' = [run EXCEPT !.pc = "gate"]
    BY <1>7 DEF AgainDone, Awaited
  <2>2. run' \in Memory(Len(gates))
    BY <2>1, Parts DEF Memory, PCs
  <2>3. TypeOK'
    BY <2>1, <2>2, Parts, Typed
  <2>4. /\ run'.live = {} /\ run'.dead = {} /\ run'.left = {} /\ run'.todo = run.todo
        /\ run'.pc = "gate" /\ run'.gi = run.gi
    BY <2>1, Parts DEF WhereInv, Coroutines, Memory
  <2>5. Place' /\ Todo'
    BY <2>1, <2>4 DEF WhereInv, Place, Todo, InGroupPCs
  <2>. QED
    BY <2>3, <2>4, <2>5, Resting
<1>. QED
  BY <1>1, <1>2, <1>3, <1>4, <1>5, <1>6, <1>7 DEF GateStep

\* The steps of plan review.
LEMMA PlanStepKeeps ==
  ASSUME TypeOK, WhereInv, PlanStep
  PROVE  TypeOK' /\ WhereInv'
<1>1. ASSUME PausePlanning \/ PlanAccepted \/ PlanTurnedDown
      PROVE  TypeOK' /\ WhereInv'
  <2>1. UNCHANGED <<gates, tokens, clock, orphans, used>> /\ task' \in {"planning", "running"}
    BY <1>1 DEF PausePlanning, PlanAccepted, PlanTurnedDown
  <2>2. /\ run'.live = {} /\ run'.dead = {} /\ run'.left = {} /\ run'.todo = run.todo /\ run.todo = {}
        /\ \/ run.pc = "gate" /\ run'.pc = "plan" /\ run'.gi = run.gi
           \/ run.pc = "plan" /\ run'.pc = "group" /\ run'.gi = run.gi + 1
    BY <1>1, Parts DEF PausePlanning, PlanAccepted, PlanTurnedDown, WhereInv, Coroutines, Todo, Memory
  <2>3. run' \in Memory(Len(gates))
    <3>1. run.pc = "plan" => run.gi + 1 \in 0..NumGroups + 1
      BY Parts DEF WhereInv, Place, InGroupPCs
    <3>. QED
      BY <1>1, <3>1, Parts DEF PausePlanning, PlanAccepted, PlanTurnedDown, Memory, PCs
  <2>4. row' \in [Stages -> Rows]
    <3>1. row \in [Stages -> Rows]
      BY Parts
    <3>2. CASE PlanTurnedDown
      BY <3>1, <3>2 DEF PlanTurnedDown, Rows
    <3>. QED
      BY <1>1, <3>1, <3>2 DEF PausePlanning, PlanAccepted
  <2>5. TypeOK'
    BY <2>1, <2>3, <2>4, Parts, Typed DEF Statuses
  <2>6. Place' /\ Todo'
    BY <2>1, <2>2, Parts DEF WhereInv, Place, Todo, InGroupPCs
  <2>. QED
    BY <2>2, <2>5, <2>6, Resting
<1>2. CASE PlanFails
  <2>1. /\ UNCHANGED <<row, gates, tokens, clock, orphans, used>>
        /\ run.pc # "off" /\ FailTask /\ ReturnLeaving({})
    BY <1>2 DEF PlanFails
  <2>2. task' \in {"cancelled", "failed"}
    BY <2>1, FailedTask
  <2>3. run' \in Memory(Len(gates)) /\ WhereInv'
    BY <2>1, <2>2, Returned
  <2>. QED
    BY <2>1, <2>2, <2>3, Parts, Typed DEF Statuses
<1>. QED
  BY <1>1, <1>2 DEF PlanStep

\* What happens to a stage.
LEMMA StageStepKeeps ==
  ASSUME TypeOK, WhereInv, NEW s \in Stages, StageStep(s)
  PROVE  TypeOK' /\ WhereInv'
<1>1. ASSUME ResumeCodeCheckFails(s) \/ CodeCheckFails(s) \/ JoinRaises(s)
      PROVE  TypeOK' /\ WhereInv'
  <2>1. /\ UNCHANGED <<gates, tokens, orphans, used>> /\ MarkFailed(s) /\ FailTask
        /\ run.pc \in {"group", "await"}
    BY <1>1 DEF ResumeCodeCheckFails, CodeCheckFails, JoinRaises, InGroup
  <2>2. run.left = {}
    BY <2>1 DEF WhereInv, Coroutines
  <2>3. CodeCheckFails(s) => s \notin run.live
    <3>1. s \in Nat
      BY StagesAreNumbers
    <3>. QED
      BY <3>1 DEF CodeCheckFails, Awaited
  <2>4. PICK S \in SUBSET run.live : ReturnLeaving(S) /\ s \notin S
    BY <1>1, <2>3 DEF ResumeCodeCheckFails, CodeCheckFails, JoinRaises
  <2>5. task' \in {"cancelled", "failed"}
    BY <2>1, FailedTask
  <2>6. /\ row' \in [Stages -> Rows] /\ clock' = clock + 1
        /\ \A u \in Stages : u # s => row'[u] = row[u]
    BY <2>1, MarkedFailed
  <2>7. run' \in Memory(Len(gates)) /\ WhereInv'
    <3>1. S \subseteq Stages
      BY <2>4, Parts
    <3>2. \A u \in S \cup run.left : row'[u].status = row[u].status
      BY <2>2, <2>4, <2>6, <3>1
    <3>. QED
      BY <2>1, <2>4, <2>5, <3>2, Returned
  <2>8. clock' \in Nat
    BY <2>6, Parts
  <2>9. task' \in Statuses
    BY <2>5 DEF Statuses
  <2>. QED
    BY <2>1, <2>6, <2>7, <2>8, <2>9, Parts, Typed
<1>2. ASSUME StageSucceeds(s) \/ StageFails(s)
      PROVE  TypeOK' /\ WhereInv'
  <2>1. /\ UNCHANGED <<gates, orphans, used>> /\ s \in run.live
        /\ task' \in {task, "cancelled", "failed"}
    BY <1>2 DEF StageSucceeds, StageFails, FailTask
  <2>2. /\ row' \in [Stages -> Rows] /\ clock' = clock + 1 /\ tokens' \in {tokens, tokens + 1}
        /\ \A u \in Stages : u # s => row'[u] = row[u]
    BY <1>2, MarkedFailed, MarkedCompleted DEF StageSucceeds, StageFails
  <2>3. /\ run'.pc = run.pc /\ run'.gi = run.gi /\ run'.todo = run.todo /\ run'.left = run.left
        /\ run'.live = run.live \ {s} /\ run'.dead \in {run.dead, run.dead \cup {s}}
    BY <1>2, Parts DEF StageSucceeds, StageFails, Memory
  <2>4. run' \in Memory(Len(gates))
    <3>. DEFINE live == run.live \ {s}
                dead == run.dead \cup {s}
    <3>1. live \subseteq Stages /\ dead \subseteq Stages /\ run \in Memory(Len(gates))
      BY Parts
    <3>2. \/ run' = [run EXCEPT !.live = live]
          \/ run' = [run EXCEPT !.live = live, !.dead = dead]
      BY <1>2 DEF StageSucceeds, StageFails
    <3>. HIDE DEF live, dead
    <3>. QED
      BY <3>1, <3>2 DEF Memory
  <2>5. task' \in Statuses /\ clock' \in Nat /\ tokens' \in Nat
    BY <2>1, <2>2, Parts DEF Statuses
  <2>6. TypeOK'
    BY <2>1, <2>2, <2>4, <2>5, Parts, Typed
  <2>7. run.pc \in {"await", "again"} /\ run.left = {} /\ Order[s] = run.gi
    BY <2>1 DEF WhereInv, Coroutines
  <2>8. Place' /\ Todo'
    BY <2>1, <2>3, <2>7 DEF WhereInv, Place, Todo, InGroupPCs
  <2>9. \A u \in run'.live : u \in run.live /\ row'[u] = row[u]
    BY <2>2, <2>3, Parts
  <2>10. Coroutines'
    BY <2>1, <2>3, <2>7, <2>9 DEF WhereInv, Coroutines, GateStage
  <2>. QED
    BY <2>6, <2>8, <2>10 DEF WhereInv
<1>3. ASSUME LeftoverSucceeds(s) \/ LeftoverFails(s)
      PROVE  TypeOK' /\ WhereInv'
  <2>1. /\ UNCHANGED <<gates, orphans, used>> /\ s \in run.left
        /\ task' \in {task, "cancelled", "failed"}
    BY <1>3 DEF LeftoverSucceeds, LeftoverFails, FailTask
  <2>2. /\ row' \in [Stages -> Rows] /\ clock' = clock + 1 /\ tokens' \in {tokens, tokens + 1}
        /\ \A u \in Stages : u # s => row'[u] = row[u]
    BY <1>3, MarkedFailed, MarkedCompleted DEF LeftoverSucceeds, LeftoverFails
  <2>3. /\ run'.pc = run.pc /\ run'.gi = run.gi /\ run'.todo = run.todo /\ run'.left = run.left \ {s}
        /\ run'.live = run.live /\ run'.dead = run.dead
    BY <1>3, Parts DEF LeftoverSucceeds, LeftoverFails, Memory
  <2>4. run' \in Memory(Len(gates))
    <3>1. run' = [run EXCEPT !.left = @ \ {s}]
      BY <1>3 DEF LeftoverSucceeds, LeftoverFails
    <3>. DEFINE rest == run.left \ {s}
    <3>2. run \in Memory(Len(gates)) /\ rest \subseteq Stages
      BY Parts
    <3>. HIDE DEF rest
    <3>3. [run EXCEPT !.left = rest] \in Memory(Len(gates))
      BY <3>2 DEF Memory
    <3>. QED
      BY <3>1, <3>3 DEF rest
  <2>5. task' \in Statuses /\ clock' \in Nat /\ tokens' \in Nat
    BY <2>1, <2>2, Parts DEF Statuses
  <2>6. TypeOK'
    BY <2>1, <2>2, <2>4, <2>5, Parts, Typed
  <2>7. run.pc \in {"cleanup", "expired"} /\ run.live = {} /\ run.dead = {}
    BY <2>1 DEF WhereInv, Coroutines
  <2>8. Place' /\ Todo'
    BY <2>1, <2>3, <2>7 DEF WhereInv, Place, Todo, InGroupPCs
  <2>9. \A u \in run'.left : u \in run.left /\ row'[u] = row[u]
    BY <2>2, <2>3, Parts
  <2>10. Coroutines'
    BY <2>3, <2>7, <2>9 DEF WhereInv, Coroutines
  <2>. QED
    BY <2>6, <2>8, <2>10 DEF WhereInv
<1>4. CASE OrphanEnds(s)
  <2>1. /\ UNCHANGED <<row, gates, tokens, clock, run, used>> /\ orphans' = orphans \ {s}
        /\ task' \in {"cancelled", "failed"} \/ UNCHANGED task
    BY <1>4 DEF OrphanEnds, FailTask
  <2>2. TypeOK'
    BY <2>1, Parts, Typed DEF Statuses
  <2>. QED
    BY <2>1, <2>2, Unmoved
<1>. QED
  BY <1>1, <1>2, <1>3, <1>4 DEF StageStep

\* retry_task and retry_from_stage reset failed stages only.
LEMMA Reset ==
  ASSUME TypeOK, RetryTask \/ \E s \in Stages : RetryFromStage(s)
  PROVE  /\ task = "failed" /\ task' = "pending" /\ UNCHANGED <<gates, clock, run, orphans>>
         /\ row' \in [Stages -> Rows] /\ tokens' \in Nat /\ used' \in Usage
         /\ \A s \in Stages : \/ row'[s] = row[s]
                              \/ /\ row[s].status = "failed" /\ row'[s].status = "pending"
                                 /\ row'[s].done = 0 /\ row'[s].says = "none"
<1>1. PICK S \in SUBSET Stages : ResetForRetry(S) /\ \A s \in S : Retryable(s)
  <2>1. CASE RetryTask
    <3>. DEFINE S == {s \in Stages : Retryable(s)}
    <3>1. S \in SUBSET Stages /\ \A s \in S : Retryable(s)
      OBVIOUS
    <3>2. ResetForRetry(S)
      BY <2>1 DEF RetryTask
    <3>. HIDE DEF S
    <3>. QED
      BY <3>1, <3>2
  <2>2. ASSUME NEW s \in Stages, RetryFromStage(s)
        PROVE  \E S \in SUBSET Stages : ResetForRetry(S) /\ \A u \in S : Retryable(u)
    <3>1. ResetForRetry({s}) /\ Retryable(s) /\ {s} \in SUBSET Stages
      BY <2>2 DEF RetryFromStage
    <3>. QED
      BY <3>1
  <2>. QED
    BY <2>1, <2>2
<1>2. task = "failed" /\ task' = "pending" /\ UNCHANGED <<gates, clock, run, orphans>>
  BY DEF RetryTask, RetryFromStage, ResetForRetry
<1>3. \A s \in Stages : row[s] \in Rows
  BY Parts
<1>4. \A s \in S : row[s].status = "failed" /\ row[s].retry + 1 \in 0..StageMaxRetries
  BY <1>1, <1>3, LimitsAreNat DEF Retryable, Rows
<1>5. row' = [s \in Stages |->
               IF s \in S THEN [status |-> "pending", retry |-> row[s].retry + 1,
                                done |-> 0, says |-> "none"]
               ELSE row[s]]
  BY <1>1 DEF ResetForRetry
<1>6. \A s \in S : [status |-> "pending", retry |-> row[s].retry + 1, done |-> 0, says |-> "none"] \in Rows
  BY <1>4 DEF Rows
<1>7. row' \in [Stages -> Rows]
  BY <1>3, <1>5, <1>6
<1>8. tokens' \in Nat
  <2>1. IsFiniteSet({s \in Stages : row[s].status = "completed"})
    BY StagesAreNumbers, FS_Subset
  <2>. QED
    BY <1>1, <2>1, FS_CardinalityType DEF ResetForRetry
<1>9. used' \in Usage
  BY <1>1, CountedUp DEF ResetForRetry
<1>. QED
  BY <1>2, <1>4, <1>5, <1>7, <1>8, <1>9

\* A decision of a reviewer, on whatever gate.
LEMMA Reviewed ==
  ASSUME TypeOK, NEW i \in DOMAIN gates, NEW v \in {"approved", "rejected", "revised"}, Review(i, v)
  PROVE  /\ gates' \in Seq(Gates) /\ Len(gates') = Len(gates) /\ used' \in Usage
         /\ UNCHANGED <<task, row, tokens, clock, run, orphans>>
         /\ \A j \in DOMAIN gates : j # i => gates'[j] = gates[j]
         /\ gates'[i].stage = gates[i].stage /\ gates'[i].dynamic = gates[i].dynamic
         /\ gates'[i].status = v /\ gates'[i].reviewed = clock
         /\ gates'[i].approved = IF v = "approved" THEN clock ELSE gates[i].approved
<1>1. gates \in Seq(Gates) /\ clock \in Nat /\ Len(gates) \in Nat /\ DOMAIN gates = 1..Len(gates)
  BY Parts
<1>2. gates[i] \in Gates
  BY <1>1
<1>. DEFINE g == [gates[i] EXCEPT !.status = v, !.reviewed = clock,
                                  !.approved = IF v = "approved" THEN clock ELSE @]
<1>3. g \in Gates
  BY <1>1, <1>2 DEF Gates
<1>4. /\ g.stage = gates[i].stage /\ g.dynamic = gates[i].dynamic
      /\ g.status = v /\ g.reviewed = clock
      /\ g.approved = IF v = "approved" THEN clock ELSE gates[i].approved
  BY <1>2 DEF Gates
<1>5. gates' = [gates EXCEPT ![i] = g]
  BY <1>1, <1>2 DEF Review, Gates
<1>. HIDE DEF g
<1>6. gates' \in Seq(Gates) /\ Len(gates') = Len(gates)
  BY <1>1, <1>3, <1>5
<1>7. gates'[i] = g /\ \A j \in DOMAIN gates : j # i => gates'[j] = gates[j]
  BY <1>1, <1>5
<1>8. used' \in Usage
  BY CountedUp DEF Review
<1>. QED
  BY <1>4, <1>6, <1>7, <1>8 DEF Review

\* Crashes, cancels, retries and reviews.
LEMMA OutsideKeeps ==
  ASSUME TypeOK, WhereInv, Outside
  PROVE  TypeOK' /\ WhereInv'
<1>1. CASE CrashAndRestart
  <2>1. /\ UNCHANGED <<row, gates, tokens, clock>> /\ run' = NoRun /\ orphans' = {}
        /\ task' \in {"pending", task}
    BY <1>1 DEF CrashAndRestart
  <2>2. used' \in Usage
    BY <1>1, CountedUp DEF CrashAndRestart
  <2>3. TypeOK'
    BY <2>1, <2>2, Parts, NoRunIsMemory, Typed DEF Statuses
  <2>. QED
    BY <2>1, <2>3, Ended
<1>2. CASE CancelTask
  <2>1. UNCHANGED <<row, gates, tokens, clock, run, orphans, used>> /\ task' = "cancelled"
    BY <1>2 DEF CancelTask
  <2>2. TypeOK'
    BY <2>1, Parts, Typed DEF Statuses
  <2>. QED
    BY <2>1, <2>2, Unmoved
<1>3. CASE RetryTask \/ \E s \in Stages : RetryFromStage(s)
  <2>1. TypeOK'
    BY <1>3, Reset, Parts, Typed DEF Statuses
  <2>2. \A s \in Stages : row[s].status = "running" => row'[s].status = "running"
    BY <1>3, Reset
  <2>. QED
    BY <1>3, <2>1, <2>2, Reset, Unmoved
<1>4. ASSUME NEW i \in DOMAIN gates, NEW v \in {"approved", "rejected", "revised"}, Review(i, v)
      PROVE  TypeOK' /\ WhereInv'
  <2>1. TypeOK'
    BY <1>4, Reviewed, Parts, Typed
  <2>. QED
    BY <1>4, <2>1, Reviewed, Unmoved
<1>. QED
  BY <1>1, <1>2, <1>3, <1>4 DEF Outside

\* WhereInv is inductive together with the types.
LEMMA WhereInvKept == TypeOK /\ WhereInv /\ [Next]_vars => TypeOK' /\ WhereInv'
<1>. SUFFICES ASSUME TypeOK, WhereInv, [Next]_vars
              PROVE  TypeOK' /\ WhereInv'
  OBVIOUS
<1>1. CASE UNCHANGED vars
  <2>1. TypeOK'
    BY <1>1, Parts, Typed DEF vars
  <2>. QED
    BY <1>1, <2>1, Unmoved DEF vars
<1>. QED
  BY <1>1, RunStepKeeps, GateStepKeeps, PlanStepKeeps, StageStepKeeps, OutsideKeeps DEF Next

LEMMA WhereInvInit == Init => TypeOK /\ WhereInv
<1>. SUFFICES ASSUME Init
              PROVE  TypeOK /\ WhereInv
  OBVIOUS
<1>1. NoRun \in Memory(Len(gates)) /\ Len(gates) = 0
  BY NoRunIsMemory DEF Init
<1>2. TypeOK
  BY <1>1, LimitsAreNat DEF Init, TypeOK, Memory, PCs
<1>3. /\ run.pc = "off" /\ run = NoRun /\ run.live = {} /\ run.dead = {}
      /\ run.left = {} /\ run.todo = {}
  BY DEF Init, NoRun
<1>4. WhereInv
  BY <1>3 DEF WhereInv, Place, Todo, Coroutines, InGroupPCs
<1>. QED
  BY <1>2, <1>4

\* TypeOK is an invariant of the pipeline.
THEOREM TypeCorrect == Spec => []TypeOK
  BY WhereInvInit, WhereInvKept, PTL DEF Spec

----------------------------------------------------------------------------
(* Gates.  GateDiscipline speaks of stages the run has gone past and is    *)
(* not inductive: what makes it true is that a gate is passed by an        *)
(* approval of the latest output, and that a passed stage does not         *)
(* execute again in the same run.                                          *)

\* Completions lie in the past; an approval is at the time of the review.
Times ==
  /\ \A s \in Stages : row[s].done =< clock
  /\ \A i \in DOMAIN gates : gates[i].status = "approved" => gates[i].approved = gates[i].reviewed

Approved(s) == \E i \in GatesOf(s) : gates[i].approved >= row[s].done

\* The gate a run waits at is one of its stage, and an approval found there is
\* one of the latest output.
Waiting ==
  run.pc \in {"poll", "look"} =>
    /\ run.gate \in GatesOf(GateStage)
    /\ gates[run.gate].status = "approved" => gates[run.gate].approved >= row[GateStage].done

\* The gate of the stage is behind the run.
Behind(s) ==
  \/ Past(s)
  \/ /\ Order[s] = run.gi /\ s \notin run.todo
     /\ run.pc \in {"doubt", "gate", "poll", "look", "again", "plan"}

Passed == \A s \in Gated : Behind(s) /\ row[s].status = "completed" => Approved(s)

GateInv == Times /\ Waiting /\ Passed

\* Gates are never deleted, and an approval is never taken back in time.
GatesGrow ==
  /\ DOMAIN gates \subseteq DOMAIN gates'
  /\ \A i \in DOMAIN gates :
       /\ gates'[i].stage = gates[i].stage /\ gates'[i].dynamic = gates[i].dynamic
       /\ gates'[i].approved >= gates[i].approved

LEMMA GateFields ==
  ASSUME TypeOK
  PROVE  /\ \A i \in DOMAIN gates : gates[i] \in Gates /\ gates[i].approved \in Nat /\ gates[i].reviewed \in Nat
         /\ \A s \in Stages : row[s] \in Rows /\ row[s].done \in Nat
         /\ clock \in Nat /\ DOMAIN gates = 1..Len(gates)
<1>1. gates \in Seq(Gates) /\ row \in [Stages -> Rows] /\ clock \in Nat
  BY Parts
<1>2. DOMAIN gates = 1..Len(gates) /\ \A i \in DOMAIN gates : gates[i] \in Gates
  BY <1>1
<1>3. \A g \in Gates : g.approved \in Nat /\ g.reviewed \in Nat
  BY DEF Gates
<1>4. \A r \in Rows : r.done \in Nat
  BY DEF Rows
<1>. QED
  BY <1>1, <1>2, <1>3, <1>4

\* A stage that does not execute stays approved.
LEMMA StaysApproved ==
  ASSUME TypeOK, TypeOK', GatesGrow, NEW s \in Stages, Approved(s), row'[s].done = row[s].done
  PROVE  Approved(s)'
<1>1. PICK i \in GatesOf(s) : gates[i].approved >= row[s].done
  BY DEF Approved
<1>2. i \in DOMAIN gates /\ i \in DOMAIN gates' /\ gates'[i].stage = s /\ ~ gates'[i].dynamic
  BY <1>1 DEF GatesOf, GatesGrow
<1>3. gates'[i].approved >= gates[i].approved
  BY <1>2 DEF GatesGrow
<1>4. gates[i].approved \in Nat /\ row[s].done \in Nat
  BY <1>2, GateFields
<1>5. gates'[i].approved \in Nat
  <2>1. gates' \in Seq(Gates)
    BY DEF TypeOK, Gates
  <2>2. gates'[i] \in Gates
    BY <1>2, <2>1
  <2>. QED
    BY <2>2 DEF Gates
<1>6. gates'[i].approved >= row'[s].done
  BY <1>1, <1>3, <1>4, <1>5
<1>7. i \in GatesOf(s)'
  BY <1>2 DEF GatesOf
<1>. QED
  BY <1>6, <1>7 DEF Approved

\* A step that does not approach a gate: a stage whose gate is behind the run
\* afterwards had it behind before, and has not executed.
LEMMA GateQuiet ==
  ASSUME TypeOK, TypeOK', GateInv, UNCHANGED gates,
         \A s \in Stages : row'[s].done =< clock',
         run'.pc \notin {"poll", "look"},
         \A s \in Gated : Behind(s)' /\ row'[s].status = "completed"
                           => Behind(s) /\ row'[s] = row[s]
  PROVE  GateInv'
<1>1. Times' /\ Waiting'
  BY DEF GateInv, Times, Waiting
<1>2. GatesGrow
  BY GateFields DEF GatesGrow
<1>3. Passed'
  <2>. SUFFICES ASSUME NEW s \in Gated, Behind(s)', row'[s].status = "completed"
                PROVE  Approved(s)'
    BY DEF Passed
  <2>1. s \in Stages /\ Behind(s) /\ row'[s] = row[s]
    BY TemplateIsSane
  <2>2. Approved(s)
    BY <2>1 DEF GateInv, Passed
  <2>. QED
    BY <1>2, <2>1, <2>2, StaysApproved
<1>. QED
  BY <1>1, <1>3 DEF GateInv

\* No gate is behind a run that has not begun.
LEMMA NothingBehindOff ==
  ASSUME TypeOK', run' = NoRun, task' # "completed", NEW s \in Stages
  PROVE  ~ Behind(s)'
<1>1. run'.gi = 0 /\ run'.pc = "off"
  BY DEF NoRun
<1>2. Order[s] >= 1 /\ Order[s] \in Nat
  BY GroupsAreRanks
<1>. QED
  BY <1>1, <1>2 DEF Behind, Past

\* A run that returns is at no gate; its task fails or stays as it is.
LEMMA GateReturned ==
  ASSUME TypeOK, TypeOK', WhereInv, GateInv, UNCHANGED gates, run.pc # "off",
         task' # "completed" \/ UNCHANGED task,
         run'.gi = run.gi, run'.pc \in {"cleanup", "expired"},
         \A s \in Stages : row'[s].done =< clock' /\ (row'[s].status = "completed" => row'[s] = row[s])
  PROVE  GateInv'
  BY TemplateIsSane, GateQuiet DEF Behind, Past

\* A step that leaves the run and the gates alone, and resets some failed stages
\* if any.
LEMMA GateUnmoved ==
  ASSUME TypeOK, TypeOK', WhereInv, GateInv,
         UNCHANGED gates, UNCHANGED clock, UNCHANGED run,
         task' # "completed" \/ UNCHANGED task,
         \A s \in Stages : \/ row'[s] = row[s]
                           \/ row'[s].status = "pending" /\ row'[s].done = 0
  PROVE  GateInv'
<1>0. /\ \A s \in Stages : row[s].done =< clock /\ row[s].done \in Nat /\ row'[s].done =< row[s].done
      /\ Gated \subseteq Stages /\ clock \in Nat
  BY Parts, GateFields, TemplateIsSane DEF GateInv, Times
<1>1. Times'
  BY <1>0 DEF GateInv, Times
<1>2. Waiting'
  <2>. SUFFICES ASSUME run.pc \in {"poll", "look"}
                PROVE  /\ run.gate \in GatesOf(GateStage)
                       /\ gates[run.gate].status = "approved"
                            => gates[run.gate].approved >= row'[GateStage].done
    BY DEF Waiting, GatesOf, GateStage
  <2>1. GateStage \in Stages
    BY AtGateStage
  <2>2. run.gate \in GatesOf(GateStage) /\ run.gate \in DOMAIN gates
    BY DEF GateInv, Waiting, GatesOf
  <2>3. row[GateStage].done \in Nat /\ row'[GateStage].done =< row[GateStage].done /\ row'[GateStage].done \in {0, row[GateStage].done}
    BY <1>0, <2>1
  <2>4. gates[run.gate].approved \in Nat
    BY <2>2, GateFields
  <2>. QED
    BY <2>2, <2>3, <2>4 DEF GateInv, Waiting
<1>3. Passed'
  <2>. SUFFICES ASSUME NEW s \in Gated, Behind(s)', row'[s].status = "completed"
                PROVE  Approved(s)'
    BY DEF Passed
  <2>1. s \in Stages /\ row'[s] = row[s] /\ Behind(s)
    BY <1>0 DEF Behind, Past
  <2>2. Approved(s)
    BY <2>1 DEF GateInv, Passed
  <2>. QED
    BY <2>1, <2>2 DEF Approved, GatesOf
<1>. QED
  BY <1>1, <1>2, <1>3 DEF GateInv

\* The steps of a run between its gates keep GateInv.
LEMMA RunStepGates ==
  ASSUME TypeOK, TypeOK', WhereInv, WhereInv', GateInv, RunStep
  PROVE  GateInv'
<1>0. /\ \A s \in Stages : row[s].done =< clock /\ Order[s] \in 1..NumGroups
      /\ Gated \subseteq Stages /\ NumGroups \in Nat /\ run.gi \in 0..NumGroups + 1
  BY Parts, GroupsAreRanks, TemplateIsSane DEF GateInv, Times
<1>1. CASE StartRun
  <2>1. /\ UNCHANGED <<row, gates, clock>> /\ task' = "running"
        /\ run' = [NoRun EXCEPT !.pc = "setup", !.gi = 1]
    BY <1>1 DEF StartRun
  <2>2. run'.gi = 1 /\ run'.pc = "setup"
    BY <2>1 DEF NoRun
  <2>3. \A s \in Gated : ~ Behind(s)'
    BY <1>0, <2>1, <2>2 DEF Behind, Past
  <2>. QED
    BY <1>0, <2>1, <2>2, <2>3, GateQuiet
<1>2. ASSUME SetupDone \/ DynamicGateDone \/ NextGroup \/ Finalize
      PROVE  GateInv'
  <2>1. UNCHANGED <<task, row, gates, clock>>
    BY <1>2 DEF SetupDone, DynamicGateDone, NextGroup, Finalize
  <2>2. /\ run'.todo = run.todo
        /\ \/ run.pc = "setup" /\ run'.pc = "group" /\ run'.gi = run.gi
           \/ run.pc = "doubt" /\ run'.pc = "gate" /\ run'.gi = run.gi
           \/ run.pc = "gate" /\ run'.pc = "group" /\ run'.gi = run.gi + 1 /\ run.todo = {}
           \/ run.pc = "group" /\ run'.pc = "final" /\ run'.gi = run.gi
    BY <1>2, Parts DEF SetupDone, DynamicGateDone, NextGroup, Finalize, Memory
  <2>3. \A s \in Gated : Behind(s)' => Behind(s)
    BY <1>0, <2>1, <2>2 DEF Behind, Past
  <2>. QED
    BY <1>0, <2>1, <2>2, <2>3, GateQuiet
<1>3. ASSUME FailRun \/ StopCancelled \/ JoinFailed
      PROVE  GateInv'
  <2>1. /\ UNCHANGED <<row, gates, clock>> /\ run.pc # "off"
        /\ \E S \in SUBSET run.live : ReturnLeaving(S)
    BY <1>3 DEF FailRun, StopCancelled, JoinFailed, InGroup, WhereInv, Coroutines
  <2>2. task' # "completed"
    <3>1. run.pc \in {"setup", "final", "group", "await", "again"}
      BY <1>3 DEF FailRun, StopCancelled, JoinFailed, InGroup, WhereInv, Coroutines
    <3>2. task' \in {task, "failed"}
      BY <1>3 DEF FailRun, StopCancelled, JoinFailed, FailTask
    <3>. QED
      BY <3>1, <3>2 DEF WhereInv, Place
  <2>3. run'.gi = run.gi /\ run'.pc = "cleanup"
    BY <2>1, Parts DEF ReturnLeaving, Memory
  <2>. QED
    BY <1>0, <2>1, <2>2, <2>3, GateReturned
<1>4. ASSUME ResumeGroup \/ JoinDone
      PROVE  GateInv'
  <2>1. /\ UNCHANGED <<task, row, gates, clock>>
        /\ run'.pc = "gate" /\ run'.gi = run.gi
        /\ run'.todo = Gated \cap Group(run.gi)
    BY <1>4, Parts DEF ResumeGroup, JoinDone, Joined, Memory
  <2>2. \A s \in Gated : Behind(s)' => Behind(s)
    BY <1>0, <2>1 DEF Behind, Past, Group
  <2>. QED
    BY <1>0, <2>1, <2>2, GateQuiet
<1>5. CASE InsertDynamicGate
  <2>1. PICK g \in [stage : Stages, status : {"pending"}, reviewed : {0}, approved : {0}, dynamic : {TRUE}] :
          gates' = Append(gates, g)
    <3>1. PICK s \in Doubtful :
            gates' = Append(gates, [stage |-> s, status |-> "pending", reviewed |-> 0,
                                    approved |-> 0, dynamic |-> TRUE])
      BY <1>5 DEF InsertDynamicGate
    <3>. QED
      BY <3>1, TemplateIsSane
  <2>2. /\ UNCHANGED <<task, row, clock>>
        /\ run'.pc = "doubt" /\ run'.gi = run.gi
        /\ run'.todo = Gated \cap Group(run.gi)
    BY <1>5, Parts DEF InsertDynamicGate, Joined, Memory
  <2>3. /\ DOMAIN gates = 1..Len(gates) /\ DOMAIN gates' = 1..(Len(gates) + 1) /\ Len(gates) \in Nat
        /\ gates'[Len(gates) + 1] = g
        /\ \A i \in DOMAIN gates : gates'[i] = gates[i]
    BY <2>1, Parts
  <2>4. GatesGrow
    BY <2>3, GateFields DEF GatesGrow
  <2>5. Times' /\ Waiting'
    BY <1>0, <2>1, <2>2, <2>3 DEF GateInv, Times, Waiting
  <2>6. \A s \in Gated : Behind(s)' => Behind(s)
    BY <1>0, <2>2 DEF Behind, Past, Group
  <2>7. Passed'
    BY <1>0, <2>2, <2>4, <2>6, StaysApproved DEF GateInv, Passed
  <2>. QED
    BY <2>5, <2>7 DEF GateInv
<1>6. CASE LaunchGroup
  <2>. DEFINE G == Group(run.gi)
              Rest == {s \in G : row[s].status # "completed"}
              Skip == {s \in Rest : Skips(s, Collected({u \in G \ Rest : u < s}))}
              outs == Collected(G \ Rest)
  <2>1. /\ UNCHANGED <<task, gates, clock>>
        /\ row' = [s \in Stages |->
                     IF s \in Skip THEN [row[s] EXCEPT !.status = "skipped"]
                     ELSE IF s \in Rest THEN [row[s] EXCEPT !.status = "running"]
                     ELSE row[s]]
        /\ \/ run' = [run EXCEPT !.gi = @ + 1] /\ G = Skip
           \/ run' = [run EXCEPT !.pc = "await", !.launched = Rest \ Skip, !.live = Rest \ Skip,
                                 !.outs = outs]
        /\ run.pc = "group"
    BY <1>6 DEF LaunchGroup, InGroup
  <2>. HIDE DEF Skip, Rest, outs
  <2>2. \A s \in Stages : /\ row'[s].done = row[s].done
                          /\ s \in Skip => row'[s].status = "skipped"
                          /\ row'[s].status = "completed" => row'[s] = row[s]
    BY <2>1, Parts DEF Rows
  <2>3. \/ run'.gi = run.gi + 1 /\ run'.pc = "group" /\ G = Skip
        \/ run'.gi = run.gi /\ run'.pc = "await"
    BY <2>1, Parts DEF Memory
  <2>4. \A s \in Gated : Behind(s)' /\ row'[s].status = "completed" => Behind(s)
    BY <1>0, <2>1, <2>2, <2>3 DEF Behind, Past, Group
  <2>. QED
    BY <1>0, <2>1, <2>2, <2>3, <2>4, GateQuiet, SMTT(30)
<1>7. ASSUME CleanupDone \/ FailExpired
      PROVE  GateInv'
  <2>1. UNCHANGED <<row, gates, clock>> /\ run' = NoRun
    BY <1>7 DEF CleanupDone, FailExpired
  <2>2. task' # "completed"
    BY <1>7 DEF CleanupDone, FailExpired, FailTask, WhereInv, Place
  <2>3. run'.pc = "off"
    BY <2>1 DEF NoRun
  <2>. QED
    BY <1>0, <2>1, <2>2, <2>3, NothingBehindOff, GateQuiet
<1>8. CASE CompleteTask
  <2>1. UNCHANGED <<row, gates, clock>> /\ run.gi = NumGroups + 1
    BY <1>8 DEF CompleteTask, WhereInv, Place
  <2>2. run'.pc = "announce"
    BY <1>8, Parts DEF CompleteTask, Memory
  <2>3. \A s \in Gated : Behind(s)
    BY <1>0, <2>1 DEF Behind, Past
  <2>. QED
    BY <1>0, <2>1, <2>2, <2>3, GateQuiet
<1>9. CASE Timeout
  <2>1. /\ UNCHANGED <<task, row, gates, clock>> /\ run.pc # "off"
        /\ run'.pc = "expired" /\ run'.gi = run.gi
    BY <1>9, Parts DEF Timeout, CutOff, Memory
  <2>. QED
    BY <1>0, <2>1, GateReturned
<1>10. CASE AnnounceDone
  <2>1. UNCHANGED <<task, row, gates, clock>> /\ run' = NoRun
    BY <1>10 DEF AnnounceDone
  <2>2. run'.pc = "off" /\ run'.gi = 0
    BY <2>1 DEF NoRun
  <2>3. \A s \in Gated : Behind(s)' => Behind(s)
    BY <1>0, <2>1, <2>2 DEF Behind, Past
  <2>. QED
    BY <1>0, <2>1, <2>2, <2>3, GateQuiet
<1>. QED
  BY <1>1, <1>2, <1>3, <1>4, <1>5, <1>6, <1>7, <1>8, <1>9, <1>10 DEF RunStep

\* The steps of a run at its gates keep GateInv: a gate is passed by an
\* approval of the latest output.
LEMMA GateStepGates ==
  ASSUME TypeOK, TypeOK', WhereInv, WhereInv', GateInv, GateStep
  PROVE  GateInv'
<1>0. /\ \A s \in Stages : row[s].done =< clock /\ Order[s] \in 1..NumGroups
      /\ Gated \subseteq Stages /\ NumGroups \in Nat /\ run.gi \in 0..NumGroups + 1
  BY Parts, GroupsAreRanks, TemplateIsSane DEF GateInv, Times
\* The run waits at a gate of the same stage as before, which is no longer or
\* not yet approved, or is approved for the latest output.
<1>1. ASSUME UNCHANGED <<task, row, gates, clock>>, run'.pc \in {"poll", "look"},
             run.pc \in {"gate", "poll", "look"}, run'.todo = run.todo, run'.gi = run.gi,
             run'.gate \in GatesOf(GateStage),
             gates[run'.gate].status = "approved" => gates[run'.gate].approved >= row[GateStage].done
      PROVE  GateInv'
  <2>1. Times'
    BY <1>1 DEF GateInv, Times
  <2>2. GateStage' = GateStage /\ GatesOf(GateStage)' = GatesOf(GateStage)
    BY <1>1 DEF GateStage, GatesOf
  <2>3. Waiting'
    BY <1>1, <2>2 DEF Waiting
  <2>4. \A s \in Gated : Behind(s)' => Behind(s)
    BY <1>1 DEF Behind, Past
  <2>5. GatesGrow
    BY <1>1, GateFields DEF GatesGrow
  <2>6. Passed'
    BY <1>0, <1>1, <2>4, <2>5, StaysApproved DEF GateInv, Passed
  <2>. QED
    BY <2>1, <2>3, <2>6 DEF GateInv
<1>2. CASE ReusePendingGate
  <2>1. PICK i \in PendingOf(GateStage) : run' = [run EXCEPT !.pc = "poll", !.gate = i]
    BY <1>2 DEF ReusePendingGate
  <2>2. UNCHANGED <<task, row, gates, clock>> /\ run.pc = "gate"
    BY <1>2 DEF ReusePendingGate, AtGate
  <2>3. /\ run'.gate = i /\ run'.pc = "poll" /\ run'.todo = run.todo /\ run'.gi = run.gi
        /\ i \in GatesOf(GateStage) /\ gates[i].status = "pending"
    BY <2>1, Parts DEF PendingOf, Memory
  <2>. QED
    BY <1>1, <2>2, <2>3
<1>3. ASSUME PollNotCancelled \/ GateUndecided
      PROVE  GateInv'
  <2>1. /\ UNCHANGED <<task, row, gates, clock>> /\ run.pc \in {"poll", "look"}
        /\ \E pc \in {"poll", "look"} : run' = [run EXCEPT !.pc = pc]
    BY <1>3 DEF PollNotCancelled, GateUndecided
  <2>2. /\ run'.gate = run.gate /\ run'.pc \in {"poll", "look"} /\ run'.todo = run.todo
        /\ run'.gi = run.gi
    BY <2>1, Parts DEF Memory
  <2>. QED
    BY <1>1, <2>1, <2>2 DEF GateInv, Waiting
<1>4. CASE CreateGate
  <2>. DEFINE g == [stage |-> GateStage, status |-> "pending",
                    reviewed |-> 0, approved |-> 0, dynamic |-> FALSE]
  <2>1. /\ UNCHANGED <<task, row, clock>> /\ run.pc = "gate"
        /\ gates' = Append(gates, g)
        /\ run' = [run EXCEPT !.pc = "poll", !.gate = Len(gates) + 1]
    BY <1>4 DEF CreateGate, AtGate
  <2>2. g.stage = GateStage /\ g.status = "pending" /\ ~ g.dynamic
    OBVIOUS
  <2>. HIDE DEF g
  <2>3. /\ DOMAIN gates = 1..Len(gates) /\ DOMAIN gates' = 1..(Len(gates) + 1) /\ Len(gates) \in Nat
        /\ gates'[Len(gates) + 1] = g
        /\ \A i \in DOMAIN gates : gates'[i] = gates[i]
    BY <2>1, Parts
  <2>4. /\ run'.gate = Len(gates) + 1 /\ run'.pc = "poll" /\ run'.todo = run.todo /\ run'.gi = run.gi
    BY <2>1, Parts DEF Memory
  <2>5. GatesGrow
    BY <2>3, GateFields DEF GatesGrow
  <2>6. Times'
    BY <2>1, <2>2, <2>3 DEF GateInv, Times
  <2>7. Waiting'
    <3>1. GateStage' = GateStage
      BY <2>4 DEF GateStage
    <3>2. run'.gate \in GatesOf(GateStage)'
      BY <2>2, <2>3, <2>4, <3>1 DEF GatesOf
    <3>. QED
      BY <2>2, <2>3, <2>4, <3>2 DEF Waiting
  <2>8. \A s \in Gated : Behind(s)' => Behind(s)
    BY <2>1, <2>4 DEF Behind, Past
  <2>9. Passed'
    BY <1>0, <2>1, <2>5, <2>8, StaysApproved DEF GateInv, Passed
  <2>. QED
    BY <2>6, <2>7, <2>9 DEF GateInv
<1>5. ASSUME PassGate, UNCHANGED <<task, row, gates, clock>>, run.pc \in {"gate", "look"},
             GateStage \in Stages, Approved(GateStage)
      PROVE  GateInv'
  <2>1. run'.pc = "gate" /\ run'.gi = run.gi /\ run'.todo = run.todo \ {GateStage}
    BY <1>5, Parts DEF PassGate, Memory
  <2>2. Times' /\ Waiting'
    BY <1>5, <2>1 DEF GateInv, Times, Waiting
  <2>3. \A s \in Gated : Behind(s)' => Behind(s) \/ s = GateStage
    BY <1>5, <2>1 DEF Behind, Past
  <2>4. GatesGrow
    BY <1>5, GateFields DEF GatesGrow
  <2>5. Passed'
    <3>. SUFFICES ASSUME NEW s \in Gated, Behind(s)', row'[s].status = "completed"
                  PROVE  Approved(s)'
      BY DEF Passed
    <3>1. s \in Stages /\ row'[s] = row[s]
      BY <1>0, <1>5
    <3>2. Approved(s)
      BY <1>5, <2>3, <3>1 DEF GateInv, Passed
    <3>. QED
      BY <2>4, <3>1, <3>2, StaysApproved
  <2>. QED
    BY <2>2, <2>5 DEF GateInv
<1>6. CASE ReuseApprovedGate
  <2>1. /\ PassGate /\ UNCHANGED <<task, row, gates, clock>> /\ run.pc = "gate"
        /\ AlreadyApproved(GateStage)
    BY <1>6 DEF ReuseApprovedGate, AtGate
  <2>2. GateStage \in Stages
    BY <1>6, AtGateStage DEF ReuseApprovedGate
  <2>. DEFINE i == Max(GatesOf(GateStage))
  <2>3. i \in GatesOf(GateStage)
    <3>1. GatesOf(GateStage) \in SUBSET (1..Len(gates)) /\ Len(gates) \in Nat
      BY Parts DEF GatesOf
    <3>2. GatesOf(GateStage) # {}
      BY <2>1 DEF AlreadyApproved
    <3>. QED
      BY <3>1, <3>2, MaxIsElement
  <2>4. /\ gates[i].status = "approved"
        /\ row[GateStage].done = 0 \/ gates[i].reviewed >= row[GateStage].done
    BY <2>1 DEF AlreadyApproved
  <2>. HIDE DEF i
  <2>5. i \in DOMAIN gates
    BY <2>3 DEF GatesOf
  <2>6. gates[i].approved = gates[i].reviewed /\ gates[i].approved \in Nat
    BY <2>4, <2>5, GateFields DEF GateInv, Times
  <2>7. gates[i].approved >= row[GateStage].done
    BY <2>4, <2>6
  <2>8. Approved(GateStage)
    BY <2>3, <2>7 DEF Approved
  <2>. QED
    BY <1>5, <2>1, <2>2, <2>8
<1>7. CASE GateApproved
  <2>1. /\ PassGate /\ UNCHANGED <<task, row, gates, clock>> /\ run.pc = "look"
        /\ gates[run.gate].status = "approved"
    BY <1>7 DEF GateApproved
  <2>2. GateStage \in Stages
    BY <2>1, AtGateStage
  <2>3. Approved(GateStage)
    BY <2>1 DEF Approved, GateInv, Waiting
  <2>. QED
    BY <1>5, <2>1, <2>2, <2>3
<1>8. ASSUME GateWaitFails \/ GateRejected
      PROVE  GateInv'
  <2>1. /\ UNCHANGED <<row, gates, clock>> /\ run.pc # "off" /\ FailTask /\ ReturnLeaving({})
    BY <1>8 DEF GateWaitFails, GateRejected
  <2>2. task' \in {"cancelled", "failed"}
    BY <2>1, FailedTask
  <2>3. run'.gi = run.gi /\ run'.pc = "cleanup"
    BY <2>1, Parts DEF ReturnLeaving, Memory
  <2>. QED
    BY <1>0, <2>1, <2>2, <2>3, GateReturned
<1>9. CASE ExecuteAgain
  <2>1. /\ UNCHANGED <<task, gates, clock>> /\ run.pc = "look"
        /\ row' = [row EXCEPT ![GateStage].status = "running"]
        /\ run' = [run EXCEPT !.pc = "again", !.tries = @ + 1, !.gate = 0, !.live = {GateStage}]
    BY <1>9 DEF ExecuteAgain
  <2>2. run'.pc = "again" /\ run'.gi = run.gi /\ run'.todo = run.todo
    BY <2>1, Parts DEF Memory
  <2>3. \A s \in Stages : /\ row'[s].done = row[s].done
                          /\ row'[s].status = "completed" => row'[s] = row[s]
    BY <2>1, Parts DEF Rows
  <2>4. \A s \in Gated : Behind(s)' => Behind(s)
    BY <2>1, <2>2 DEF Behind, Past
  <2>. QED
    BY <1>0, <2>1, <2>2, <2>3, <2>4, GateQuiet
<1>10. CASE AgainDone
  <2>1. UNCHANGED <<task, row, gates, clock>> /\ run.pc = "again" /\ run' = [run EXCEPT !.pc = "gate"]
    BY <1>10 DEF AgainDone
  <2>2. run'.pc = "gate" /\ run'.gi = run.gi /\ run'.todo = run.todo
    BY <2>1, Parts DEF Memory
  <2>3. \A s \in Gated : Behind(s)' => Behind(s)
    BY <2>1, <2>2 DEF Behind, Past
  <2>. QED
    BY <1>0, <2>1, <2>2, <2>3, GateQuiet
<1>. QED
  BY <1>2, <1>3, <1>4, <1>6, <1>7, <1>8, <1>9, <1>10 DEF GateStep

\* Plan review comes after the gates of the stage, and keeps GateInv.
LEMMA PlanStepGates ==
  ASSUME TypeOK, TypeOK', WhereInv, WhereInv', GateInv, PlanStep
  PROVE  GateInv'
<1>0. /\ \A s \in Stages : row[s].done =< clock /\ Order[s] \in 1..NumGroups
      /\ Gated \subseteq Stages /\ NumGroups \in Nat /\ run.gi \in 0..NumGroups + 1
  BY Parts, GroupsAreRanks, TemplateIsSane DEF GateInv, Times
<1>1. ASSUME PausePlanning \/ PlanAccepted \/ PlanTurnedDown
      PROVE  GateInv'
  <2>1. UNCHANGED <<gates, clock>> /\ task' \in {"planning", "running"}
    BY <1>1 DEF PausePlanning, PlanAccepted, PlanTurnedDown
  <2>2. /\ run'.todo = run.todo /\ run.todo = {}
        /\ \/ run.pc = "gate" /\ run'.pc = "plan" /\ run'.gi = run.gi
           \/ run.pc = "plan" /\ run'.pc = "group" /\ run'.gi = run.gi + 1
    BY <1>1, Parts DEF PausePlanning, PlanAccepted, PlanTurnedDown, WhereInv, Todo, Memory
  <2>3. \A s \in Stages : /\ row'[s].done = row[s].done
                          /\ row'[s].status = "completed" => row'[s] = row[s]
    <3>1. row \in [Stages -> Rows]
      BY Parts
    <3>2. CASE PlanTurnedDown
      BY <3>1, <3>2 DEF PlanTurnedDown, Rows
    <3>. QED
      BY <1>1, <3>2 DEF PausePlanning, PlanAccepted
  <2>4. \A s \in Gated : Behind(s)' => Behind(s)
    BY <1>0, <2>1, <2>2 DEF Behind, Past
  <2>. QED
    BY <1>0, <2>1, <2>2, <2>3, <2>4, GateQuiet
<1>2. CASE PlanFails
  <2>1. /\ UNCHANGED <<row, gates, clock>> /\ run.pc # "off" /\ FailTask /\ ReturnLeaving({})
    BY <1>2 DEF PlanFails
  <2>2. task' \in {"cancelled", "failed"}
    BY <2>1, FailedTask
  <2>3. run'.gi = run.gi /\ run'.pc = "cleanup"
    BY <2>1, Parts DEF ReturnLeaving, Memory
  <2>. QED
    BY <1>0, <2>1, <2>2, <2>3, GateReturned
<1>. QED
  BY <1>1, <1>2 DEF PlanStep

\* A stage that ends is not one whose gate is behind the run.
LEMMA StageStepGates ==
  ASSUME TypeOK, TypeOK', WhereInv, WhereInv', GateInv, NEW s \in Stages, StageStep(s)
  PROVE  GateInv'
<1>0. /\ \A u \in Stages : row[u].done =< clock /\ row[u].done \in Nat /\ Order[u] \in 1..NumGroups
      /\ Gated \subseteq Stages /\ NumGroups \in Nat /\ run.gi \in 0..NumGroups + 1 /\ clock \in Nat
  BY Parts, GateFields, GroupsAreRanks, TemplateIsSane DEF GateInv, Times
<1>1. ASSUME ResumeCodeCheckFails(s) \/ CodeCheckFails(s) \/ JoinRaises(s)
      PROVE  GateInv'
  <2>1. /\ UNCHANGED gates /\ MarkFailed(s) /\ FailTask
        /\ run.pc # "off" /\ \E S \in SUBSET run.live : ReturnLeaving(S)
    BY <1>1 DEF ResumeCodeCheckFails, CodeCheckFails, JoinRaises, InGroup
  <2>2. run'.gi = run.gi /\ run'.pc = "cleanup"
    BY <2>1, Parts DEF ReturnLeaving, Memory
  <2>3. task' \in {"cancelled", "failed"}
    BY <2>1, FailedTask
  <2>4. /\ clock' = clock + 1 /\ row'[s].status = "failed" /\ row'[s].done = clock + 1
        /\ \A u \in Stages : u # s => row'[u] = row[u]
    BY <2>1, MarkedFailed
  <2>5. \A u \in Stages : row'[u].done =< clock' /\ (row'[u].status = "completed" => row'[u] = row[u])
    BY <1>0, <2>4
  <2>. QED
    BY <2>1, <2>2, <2>3, <2>5, GateReturned
<1>2. ASSUME StageSucceeds(s) \/ StageFails(s) \/ LeftoverSucceeds(s) \/ LeftoverFails(s)
      PROVE  GateInv'
  <2>1. /\ UNCHANGED gates /\ task' \in {task, "cancelled", "failed"}
        /\ s \in run.live \/ s \in run.left
    BY <1>2 DEF StageSucceeds, StageFails, LeftoverSucceeds, LeftoverFails, FailTask
  <2>2. run'.pc = run.pc /\ run'.gi = run.gi /\ run'.todo = run.todo
    BY <1>2, Parts DEF StageSucceeds, StageFails, LeftoverSucceeds, LeftoverFails, Memory
  <2>3. /\ clock' = clock + 1 /\ row'[s].done = clock + 1
        /\ \A u \in Stages : u # s => row'[u] = row[u]
    BY <1>2, MarkedFailed, MarkedCompleted DEF StageSucceeds, StageFails, LeftoverSucceeds, LeftoverFails
  <2>4. \A u \in Stages : row'[u].done =< clock'
    BY <1>0, <2>3
  <2>5. /\ run.pc \in {"await", "again", "cleanup", "expired"} /\ Order[s] = run.gi
        /\ run.pc = "again" => s \in run.todo
    <3>1. run.pc = "again" => GateStage \in run.todo
      BY AtGateStage
    <3>. QED
      BY <2>1, <3>1 DEF WhereInv, Coroutines
  <2>6. ~ Behind(s)'
    <3>1. task' # "completed"
      <4>1. run.left # {} \/ run.pc \in {"await", "again"}
        BY <2>1 DEF WhereInv, Coroutines
      <4>2. task # "completed"
        BY <4>1 DEF WhereInv, Place
      <4>. QED
        BY <2>1, <4>2
    <3>2. ~ (Order[s] < run'.gi)
      BY <1>0, <2>2, <2>5
    <3>. QED
      BY <2>2, <2>5, <3>1, <3>2 DEF Behind, Past
  <2>7. \A u \in Gated : Behind(u)' => Behind(u)
    BY <2>1, <2>2 DEF Behind, Past
  <2>8. run'.pc \notin {"poll", "look"}
    BY <2>2, <2>5
  <2>. QED
    BY <1>0, <2>1, <2>3, <2>4, <2>6, <2>7, <2>8, GateQuiet
<1>3. CASE OrphanEnds(s)
  <2>1. /\ UNCHANGED <<row, gates, clock, run>>
        /\ task' \in {"cancelled", "failed"} \/ UNCHANGED task
    BY <1>3 DEF OrphanEnds, FailTask
  <2>. QED
    BY <2>1, GateUnmoved
<1>. QED
  BY <1>1, <1>2, <1>3 DEF StageStep

\* Crashes, cancels, retries and reviews keep GateInv: a review is at the time
\* of the review, and a retry resets failed stages only.
LEMMA OutsideGates ==
  ASSUME TypeOK, TypeOK', WhereInv, WhereInv', GateInv, Outside
  PROVE  GateInv'
<1>0. /\ \A s \in Stages : row[s].done =< clock /\ Order[s] \in 1..NumGroups
      /\ Gated \subseteq Stages /\ NumGroups \in Nat /\ run.gi \in 0..NumGroups + 1 /\ clock \in Nat
  BY Parts, GroupsAreRanks, TemplateIsSane DEF GateInv, Times
<1>1. CASE CrashAndRestart
  <2>1. /\ UNCHANGED <<row, gates, clock>> /\ run' = NoRun /\ task' \in {"pending", task}
    BY <1>1 DEF CrashAndRestart
  <2>2. run'.pc = "off" /\ run'.gi = 0
    BY <2>1 DEF NoRun
  <2>3. \A s \in Gated : Behind(s)' => Behind(s)
    BY <1>0, <2>1, <2>2 DEF Behind, Past
  <2>. QED
    BY <1>0, <2>1, <2>2, <2>3, GateQuiet
<1>2. CASE CancelTask
  <2>1. UNCHANGED gates /\ UNCHANGED clock /\ UNCHANGED run /\ task' # "completed" /\ row' = row
    BY <1>2 DEF CancelTask
  <2>2. \A s \in Stages : row'[s] = row[s]
    BY <2>1
  <2>. QED
    BY <2>1, <2>2, GateUnmoved
<1>3. CASE RetryTask \/ \E s \in Stages : RetryFromStage(s)
  <2>1. /\ task' = "pending" /\ UNCHANGED <<gates, clock, run>>
        /\ \A s \in Stages : \/ row'[s] = row[s]
                             \/ /\ row[s].status = "failed" /\ row'[s].status = "pending"
                                /\ row'[s].done = 0
    BY <1>3, Reset
  <2>. QED
    BY <2>1, GateUnmoved
<1>4. ASSUME NEW i \in DOMAIN gates, NEW v \in {"approved", "rejected", "revised"}, Review(i, v)
      PROVE  GateInv'
  <2>1. /\ Len(gates') = Len(gates) /\ gates' \in Seq(Gates)
        /\ UNCHANGED <<task, row, clock, run>>
        /\ \A j \in DOMAIN gates : j # i => gates'[j] = gates[j]
        /\ gates'[i].stage = gates[i].stage /\ gates'[i].dynamic = gates[i].dynamic
        /\ gates'[i].status = v /\ gates'[i].reviewed = clock
        /\ gates'[i].approved = IF v = "approved" THEN clock ELSE gates[i].approved
    BY <1>4, Reviewed
  <2>2. DOMAIN gates' = DOMAIN gates
    BY <2>1, Parts
  <2>3. Times'
    BY <2>1, <2>2 DEF GateInv, Times
  <2>4. GateStage' = GateStage /\ \A s \in Stages : GatesOf(s)' = GatesOf(s)
    BY <2>1, <2>2 DEF GateStage, GatesOf
  <2>5. Waiting'
    <3>. SUFFICES ASSUME run.pc \in {"poll", "look"}
                  PROVE  /\ run.gate \in GatesOf(GateStage)'
                         /\ gates'[run.gate].status = "approved"
                              => gates'[run.gate].approved >= row[GateStage].done
      BY <2>1, <2>4 DEF Waiting
    <3>1. run.gate \in GatesOf(GateStage)' /\ run.gate \in DOMAIN gates
      BY <2>1, <2>2, <2>4, AtGateStage DEF GateInv, Waiting, GatesOf
    <3>2. CASE run.gate = i
      BY <1>0, <2>1, <3>1, <3>2, AtGateStage, GateFields
    <3>3. CASE run.gate # i
      BY <2>1, <3>1, <3>3 DEF GateInv, Waiting
    <3>. QED
      BY <3>1, <3>2, <3>3
  <2>6. Passed'
    <3>. SUFFICES ASSUME NEW s \in Gated, Behind(s), row[s].status = "completed"
                  PROVE  Approved(s)'
      BY <2>1 DEF Passed, Behind, Past
    <3>1. s \in Stages
      BY <1>0
    <3>2. PICK j \in GatesOf(s) : gates[j].approved >= row[s].done
      BY DEF GateInv, Passed, Approved
    <3>3. j \in GatesOf(s)' /\ j \in DOMAIN gates
      BY <2>4, <3>1, <3>2 DEF GatesOf
    <3>4. gates'[j].approved >= row[s].done
      BY <1>0, <2>1, <3>1, <3>2, <3>3, GateFields
    <3>. QED
      BY <2>1, <3>3, <3>4 DEF Approved
  <2>. QED
    BY <2>3, <2>5, <2>6 DEF GateInv
<1>. QED
  BY <1>1, <1>2, <1>3, <1>4 DEF Outside

LEMMA GateInvKept == (TypeOK /\ WhereInv) /\ GateInv /\ [Next]_vars => GateInv'
<1>. SUFFICES ASSUME TypeOK, WhereInv, GateInv, [Next]_vars
              PROVE  GateInv'
  OBVIOUS
<1>1. TypeOK' /\ WhereInv'
  BY WhereInvKept
<1>2. CASE UNCHANGED vars
  BY <1>1, <1>2, GateUnmoved DEF vars
<1>. QED
  BY <1>1, <1>2, RunStepGates, GateStepGates, PlanStepGates, StageStepGates, OutsideGates DEF Next

\* Nothing goes past a gated stage that is completed unless its gate was
\* approved after the stage last completed, for any template, through crashes,
\* retries, re-executions and reviews in any order.
THEOREM GatesAreRespected == Spec => []GateDiscipline
<1>1. Init => GateInv
  <2>. SUFFICES ASSUME Init
                PROVE  GateInv
    OBVIOUS
  <2>1. /\ run.pc = "off" /\ run.gi = 0 /\ task = "pending" /\ gates = <<>>
        /\ \A s \in Stages : row[s].done = 0 /\ row[s].status = "pending"
        /\ clock = 0
    BY DEF Init, NoRun
  <2>. QED
    BY <2>1, TemplateIsSane DEF GateInv, Times, Waiting, Passed
<1>2. GateInv => GateDiscipline
  BY DEF GateInv, Passed, Behind, Approved, GateDiscipline
<1>. QED
  BY <1>1, <1>2, WhereInvInit, WhereInvKept, GateInvKept, PTL DEF Spec

----------------------------------------------------------------------------
(* Completion.  What makes CompletedMeansAllDone and EarlierGroupsDone     *)
(* true is that everything in the groups the run has gone past is done and *)
(* that, in the group it is in, what is not done is awaited.               *)

\* The stage is done, or it is the one that plan review may reset and leave.
Settled(s) == row[s].status \in {"completed", "skipped"} \/ s = PlanStage

DoneInv ==
  /\ task = "completed" => \A s \in Stages : Settled(s)
  /\ \A s \in Stages : Order[s] < run.gi => Settled(s)
  /\ run.pc \in InGroupPCs =>
       \A s \in Stages : Order[s] = run.gi => Settled(s) \/ s \in run.live \/ s \in run.dead
  /\ run.pc = "await" => \A s \in run.launched : Order[s] = run.gi

LEMMA OrderType ==
  ASSUME TypeOK
  PROVE  run.gi \in Nat /\ \A s \in Stages : Order[s] \in Nat /\ Order[s] >= 1
<1>1. run.gi \in Nat /\ NumGroups \in Nat
  BY Parts
<1>. QED
  BY <1>1, GroupsAreRanks

\* A step that does not take the run to another group, and undoes nothing but
\* what is in the group it is in.
LEMMA DoneQuiet ==
  ASSUME TypeOK, DoneInv, task' = "completed" => task = "completed",
         run'.gi \in {0, 1, run.gi},
         \A s \in Stages : Settled(s) => Settled(s)' \/ (task # "completed" /\ Order[s] = run.gi),
         run'.pc \in InGroupPCs =>
           \A s \in Stages : Order[s] = run'.gi => Settled(s)' \/ s \in run'.live \/ s \in run'.dead,
         run'.pc = "await" => run.pc = "await" /\ run'.launched = run.launched /\ run'.gi = run.gi
  PROVE  DoneInv'
<1>1. run.gi \in Nat /\ \A s \in Stages : Order[s] \in Nat /\ Order[s] >= 1
  BY OrderType
<1>2. (task = "completed" => \A s \in Stages : Settled(s))'
  BY DEF DoneInv
<1>3. (\A s \in Stages : Order[s] < run.gi => Settled(s))'
  <2>. SUFFICES ASSUME NEW s \in Stages, Order[s] < run'.gi
                PROVE  Settled(s)'
    OBVIOUS
  <2>1. run'.gi = run.gi
    BY <1>1
  <2>2. Settled(s) /\ Order[s] # run.gi
    BY <1>1, <2>1 DEF DoneInv
  <2>. QED
    BY <2>2
<1>4. (run.pc = "await" => \A s \in run.launched : Order[s] = run.gi)'
  BY DEF DoneInv
<1>5. (run.pc \in InGroupPCs =>
        \A s \in Stages : Order[s] = run.gi => Settled(s) \/ s \in run.live \/ s \in run.dead)'
  OBVIOUS
<1>. QED
  BY <1>2, <1>3, <1>4, <1>5 DEF DoneInv

\* A step outside the groups that leaves the rows alone.
LEMMA DoneOutside ==
  ASSUME TypeOK, DoneInv, task' = "completed" => task = "completed",
         run'.gi \in {0, 1, run.gi}, run'.pc \notin InGroupPCs, UNCHANGED row
  PROVE  DoneInv'
<1>1. \A s \in Stages : Settled(s) => Settled(s)'
  BY DEF Settled
<1>. QED
  BY <1>1, DoneQuiet DEF InGroupPCs

\* The run goes on to the next group when nothing of its own is left.
LEMMA DoneNextGroup ==
  ASSUME TypeOK, DoneInv, task' # "completed", run.pc \in InGroupPCs, run.live = {}, run.dead = {},
         run'.gi = run.gi + 1, run'.pc = "group",
         \A s \in Stages : Settled(s) => Settled(s)'
  PROVE  DoneInv'
<1>1. run.gi \in Nat /\ \A s \in Stages : Order[s] \in Nat /\ Order[s] >= 1
  BY OrderType
<1>2. \A s \in Stages : Order[s] < run'.gi => Order[s] < run.gi \/ Order[s] = run.gi
  BY <1>1
<1>3. \A s \in Stages : Order[s] < run'.gi => Settled(s)
  BY <1>2 DEF DoneInv
<1>. QED
  BY <1>3 DEF DoneInv, InGroupPCs

\* The steps of a run between its gates.
LEMMA RunStepDone ==
  ASSUME TypeOK, WhereInv, DoneInv, RunStep
  PROVE  DoneInv'
<1>1. ASSUME StartRun \/ SetupDone \/ FailRun \/ StopCancelled \/ JoinFailed \/ Finalize
             \/ AnnounceDone \/ CleanupDone \/ FailExpired \/ Timeout
      PROVE  DoneInv'
  <2>1. UNCHANGED row /\ task' \in {task, "running", "failed"}
    BY <1>1 DEF StartRun, SetupDone, FailRun, StopCancelled, JoinFailed, Finalize, AnnounceDone,
       CleanupDone, FailExpired, Timeout, FailTask
  <2>2. run'.gi \in {0, 1, run.gi} /\ run'.pc \notin InGroupPCs
    <3>1. CASE AnnounceDone \/ CleanupDone \/ FailExpired
      BY <3>1 DEF AnnounceDone, CleanupDone, FailExpired, NoRun, InGroupPCs
    <3>2. CASE StartRun
      BY <3>2 DEF StartRun, NoRun, InGroupPCs
    <3>3. CASE FailRun \/ StopCancelled \/ JoinFailed
      BY <3>3, Parts DEF FailRun, StopCancelled, JoinFailed, ReturnLeaving, Memory, InGroupPCs
    <3>4. CASE SetupDone \/ Finalize \/ Timeout
      BY <3>4, Parts DEF SetupDone, Finalize, Timeout, CutOff, Memory, InGroupPCs
    <3>. QED
      BY <1>1, <3>1, <3>2, <3>3, <3>4
  <2>. QED
    BY <2>1, <2>2, DoneOutside
<1>2. CASE DynamicGateDone
  <2>1. /\ UNCHANGED <<task, row>> /\ run.pc = "doubt" /\ run'.pc = "gate" /\ run'.gi = run.gi
        /\ run'.live = run.live /\ run'.dead = run.dead
    BY <1>2, Parts DEF DynamicGateDone, Memory
  <2>2. \A s \in Stages : Settled(s) => Settled(s)'
    BY <2>1 DEF Settled
  <2>3. run.pc \in InGroupPCs
    BY <2>1 DEF InGroupPCs
  <2>. QED
    BY <2>1, <2>2, <2>3, DoneQuiet DEF DoneInv
<1>3. ASSUME ResumeGroup \/ JoinDone \/ InsertDynamicGate
      PROVE  DoneInv'
  <2>1. UNCHANGED <<task, row>> /\ run'.pc \in {"gate", "doubt"} /\ run'.gi = run.gi
    BY <1>3, Parts DEF ResumeGroup, JoinDone, InsertDynamicGate, Joined, Memory
  <2>2. \A s \in Stages : Settled(s) => Settled(s)'
    BY <2>1 DEF Settled
  <2>3. \A s \in Stages : Order[s] = run.gi => Settled(s)
    <3>1. CASE ResumeGroup
      BY <3>1 DEF ResumeGroup, AllCompleted, Group, Settled
    <3>2. CASE JoinDone \/ InsertDynamicGate
      BY <3>2 DEF JoinDone, InsertDynamicGate, Joined, InGroup, Awaited, DoneInv, InGroupPCs
    <3>. QED
      BY <1>3, <3>1, <3>2
  <2>. QED
    BY <2>1, <2>2, <2>3, DoneQuiet
<1>4. CASE LaunchGroup
  <2>. DEFINE G == Group(run.gi)
              Rest == {s \in G : row[s].status # "completed"}
              Skip == {s \in Rest : Skips(s, Collected({u \in G \ Rest : u < s}))}
              Go == Rest \ Skip
              outs == Collected(G \ Rest)
  <2>1. /\ UNCHANGED task /\ run.pc = "group" /\ run.gi \in 1..NumGroups
        /\ row' = [s \in Stages |->
                     IF s \in Skip THEN [row[s] EXCEPT !.status = "skipped"]
                     ELSE IF s \in Rest THEN [row[s] EXCEPT !.status = "running"]
                     ELSE row[s]]
        /\ \/ G = Skip /\ run' = [run EXCEPT !.gi = @ + 1]
           \/ run' = [run EXCEPT !.pc = "await", !.launched = Go, !.live = Go, !.outs = outs]
    BY <1>4 DEF LaunchGroup, InGroup
  <2>2. /\ Skip \subseteq Rest /\ Rest \subseteq G
        /\ \A s \in Stages : s \in G <=> Order[s] = run.gi
        /\ \A s \in Stages : s \in G /\ s \notin Rest => row[s].status = "completed"
    BY DEF Group
  <2>3. Go = Rest \ Skip
    OBVIOUS
  <2>. HIDE DEF G, Rest, Skip, Go, outs
  <2>4. /\ \A s \in Stages : s \notin G => row'[s] = row[s]
        /\ \A s \in Stages : s \in G => Settled(s)' \/ s \in Go
    BY <2>1, <2>2, <2>3, Parts DEF Settled, Rows
  <2>5. /\ run.gi \in Nat /\ \A s \in Stages : Order[s] \in Nat /\ Order[s] >= 1
    BY OrderType
  <2>6. task # "completed"
    BY <2>1 DEF WhereInv, Place
  <2>7. \A s \in Stages : Order[s] < run.gi => Settled(s)'
    BY <2>2, <2>4, <2>5 DEF DoneInv, Settled
  <2>8. CASE G = Skip /\ run' = [run EXCEPT !.gi = @ + 1]
    <3>1. run'.pc = "group" /\ run'.gi = run.gi + 1
      BY <2>1, <2>8, Parts DEF Memory
    <3>2. \A s \in Stages : Order[s] < run'.gi => Order[s] < run.gi \/ Order[s] = run.gi
      BY <2>5, <3>1
    <3>3. \A s \in Stages : Order[s] = run.gi => Settled(s)'
      BY <2>1, <2>2, <2>8, Parts DEF Settled, Rows
    <3>. QED
      BY <2>1, <2>6, <2>7, <3>1, <3>2, <3>3 DEF DoneInv, InGroupPCs
  <2>9. CASE run' = [run EXCEPT !.pc = "await", !.launched = Go, !.live = Go, !.outs = outs]
    <3>1. run'.pc = "await" /\ run'.gi = run.gi /\ run'.live = Go /\ run'.launched = Go
      BY <2>9, Parts DEF Memory
    <3>2. \A s \in Go : Order[s] = run.gi
      <4>1. Go \subseteq G /\ G \subseteq Stages
        BY <2>2, <2>3 DEF G, Group
      <4>. QED
        BY <2>2, <4>1
    <3>. QED
      BY <2>1, <2>2, <2>4, <2>6, <2>7, <3>1, <3>2 DEF DoneInv
  <2>. QED
    BY <2>1, <2>8, <2>9
<1>5. CASE NextGroup
  <2>1. /\ UNCHANGED <<task, row>> /\ run.pc = "gate" /\ run'.pc = "group" /\ run'.gi = run.gi + 1
    BY <1>5, Parts DEF NextGroup, Memory
  <2>2. run.live = {} /\ run.dead = {} /\ task # "completed" /\ run.pc \in InGroupPCs
    BY <2>1 DEF WhereInv, Coroutines, Place, InGroupPCs
  <2>3. \A s \in Stages : Settled(s) => Settled(s)'
    BY <2>1 DEF Settled
  <2>. QED
    BY <2>1, <2>2, <2>3, DoneNextGroup
<1>6. CASE CompleteTask
  <2>1. UNCHANGED row /\ run.gi = NumGroups + 1 /\ run'.pc = "announce" /\ run'.gi = run.gi
    BY <1>6, Parts DEF CompleteTask, Memory, WhereInv, Place
  <2>2. \A s \in Stages : Settled(s)
    <3>1. NumGroups \in Nat /\ \A s \in Stages : Order[s] \in 1..NumGroups
      BY GroupsAreRanks
    <3>2. \A s \in Stages : Order[s] < run.gi
      BY <2>1, <3>1
    <3>. QED
      BY <3>2 DEF DoneInv
  <2>3. \A s \in Stages : Settled(s)'
    BY <2>1, <2>2 DEF Settled
  <2>. QED
    BY <2>1, <2>3 DEF DoneInv, InGroupPCs
<1>. QED
  BY <1>1, <1>2, <1>3, <1>4, <1>5, <1>6 DEF RunStep

\* The steps of a run at its gates and in plan review.
LEMMA GateStepDone ==
  ASSUME TypeOK, WhereInv, DoneInv, GateStep \/ PlanStep
  PROVE  DoneInv'
<1>1. ASSUME ReusePendingGate \/ ReuseApprovedGate \/ CreateGate \/ PollNotCancelled \/ GateUndecided
             \/ GateApproved \/ AgainDone \/ PausePlanning
      PROVE  DoneInv'
  <2>1. /\ UNCHANGED row /\ task' \in {task, "planning"} /\ run'.gi = run.gi
        /\ run'.live = run.live /\ run'.dead = run.dead
        /\ run.pc \in InGroupPCs /\ run'.pc # "await"
    BY <1>1, Parts DEF ReusePendingGate, ReuseApprovedGate, CreateGate, PollNotCancelled,
       GateUndecided, GateApproved, AgainDone, PausePlanning, PassGate, AtGate, Memory, InGroupPCs
  <2>2. \A s \in Stages : Settled(s) => Settled(s)'
    BY <2>1 DEF Settled
  <2>. QED
    BY <2>1, <2>2, DoneQuiet DEF DoneInv
<1>2. ASSUME GateWaitFails \/ GateRejected \/ PlanFails
      PROVE  DoneInv'
  <2>1. UNCHANGED row /\ task' \in {task, "failed"} /\ run'.pc = "cleanup" /\ run'.gi = run.gi
    BY <1>2, Parts DEF GateWaitFails, GateRejected, PlanFails, FailTask, ReturnLeaving, Memory
  <2>. QED
    BY <2>1, DoneOutside DEF InGroupPCs
<1>3. CASE ExecuteAgain
  <2>1. /\ UNCHANGED task /\ run.pc = "look" /\ run'.pc = "again" /\ run'.gi = run.gi
        /\ run'.live = {GateStage} /\ run'.dead = run.dead
        /\ row' = [row EXCEPT ![GateStage].status = "running"]
    BY <1>3, Parts DEF ExecuteAgain, Memory
  <2>2. /\ GateStage \in Stages /\ Order[GateStage] = run.gi /\ run.live = {} /\ run.dead = {}
        /\ task # "completed"
    BY <2>1, AtGateStage DEF WhereInv, Place
  <2>3. \A s \in Stages : s # GateStage => row'[s] = row[s]
    BY <2>1, Parts
  <2>4. \A s \in Stages : Settled(s) => Settled(s)' \/ (task # "completed" /\ Order[s] = run.gi)
    BY <2>2, <2>3 DEF Settled
  <2>5. \A s \in Stages : Order[s] = run.gi => Settled(s)' \/ s \in run'.live
    BY <2>1, <2>2, <2>3 DEF Settled, DoneInv, InGroupPCs
  <2>. QED
    BY <2>1, <2>4, <2>5, DoneQuiet
<1>4. ASSUME PlanAccepted \/ PlanTurnedDown
      PROVE  DoneInv'
  <2>1. /\ task' = "running" /\ run.pc = "plan" /\ run'.pc = "group" /\ run'.gi = run.gi + 1
        /\ row' \in {row, [row EXCEPT ![PlanStage].status = "pending"]}
    BY <1>4, Parts DEF PlanAccepted, PlanTurnedDown, Memory
  <2>2. run.live = {} /\ run.dead = {} /\ run.pc \in InGroupPCs
    BY <2>1 DEF WhereInv, Coroutines, InGroupPCs
  <2>3. \A s \in Stages : Settled(s) => Settled(s)'
    BY <2>1, Parts DEF Settled
  <2>. QED
    BY <2>1, <2>2, <2>3, DoneNextGroup
<1>. QED
  BY <1>1, <1>2, <1>3, <1>4 DEF GateStep, PlanStep

\* What happens to a stage.
LEMMA StageStepDone ==
  ASSUME TypeOK, WhereInv, DoneInv, NEW s \in Stages, StageStep(s)
  PROVE  DoneInv'
<1>1. ASSUME ResumeCodeCheckFails(s) \/ CodeCheckFails(s) \/ JoinRaises(s)
      PROVE  DoneInv'
  <2>1. /\ MarkFailed(s) /\ FailTask /\ run.pc \in {"group", "await"}
        /\ run'.pc = "cleanup" /\ run'.gi = run.gi
    BY <1>1, Parts DEF ResumeCodeCheckFails, CodeCheckFails, JoinRaises, InGroup, ReturnLeaving, Memory
  <2>2. task' \in {"cancelled", "failed"} /\ task # "completed"
    BY <2>1, FailedTask DEF WhereInv, Place
  <2>3. Order[s] = run.gi
    BY <1>1 DEF ResumeCodeCheckFails, CodeCheckFails, JoinRaises, Group, WhereInv, Coroutines, DoneInv
  <2>4. \A u \in Stages : Settled(u) => Settled(u)' \/ (task # "completed" /\ Order[u] = run.gi)
    BY <2>1, <2>2, <2>3, MarkedFailed DEF Settled
  <2>. QED
    BY <2>1, <2>2, <2>4, DoneQuiet DEF InGroupPCs
<1>2. ASSUME StageSucceeds(s) \/ StageFails(s)
      PROVE  DoneInv'
  <2>1. /\ s \in run.live /\ task' \in {task, "cancelled", "failed"}
        /\ run'.pc = run.pc /\ run'.gi = run.gi /\ run'.launched = run.launched
        /\ run'.live = run.live \ {s}
        /\ \/ StageSucceeds(s) /\ run'.dead = run.dead
           \/ run'.dead = run.dead \cup {s}
    BY <1>2, Parts DEF StageSucceeds, StageFails, FailTask, Memory
  <2>2. /\ \A u \in Stages : u # s => row'[u] = row[u]
        /\ StageSucceeds(s) => row'[s].status = "completed"
    BY <1>2, MarkedFailed, MarkedCompleted DEF StageSucceeds, StageFails
  <2>3. Order[s] = run.gi /\ run.pc \in InGroupPCs /\ task # "completed"
    BY <2>1 DEF WhereInv, Coroutines, InGroupPCs, Place
  <2>4. \A u \in Stages : Settled(u) => Settled(u)' \/ (task # "completed" /\ Order[u] = run.gi)
    BY <2>2, <2>3 DEF Settled
  <2>5. \A u \in Stages : Order[u] = run.gi => Settled(u)' \/ u \in run'.live \/ u \in run'.dead
    <3>1. \A u \in Stages : Order[u] = run.gi => Settled(u) \/ u \in run.live \/ u \in run.dead
      BY <2>3 DEF DoneInv
    <3>2. \A u \in Stages : u # s /\ Settled(u) => Settled(u)'
      BY <2>2 DEF Settled
    <3>3. Settled(s)' \/ s \in run'.dead
      BY <2>1, <2>2 DEF Settled
    <3>. QED
      BY <2>1, <3>1, <3>2, <3>3
  <2>6. run'.pc = "await" => run.pc = "await"
    BY <2>1
  <2>. QED
    BY <2>1, <2>3, <2>4, <2>5, <2>6, DoneQuiet
<1>3. ASSUME LeftoverSucceeds(s) \/ LeftoverFails(s)
      PROVE  DoneInv'
  <2>1. /\ s \in run.left /\ task' \in {task, "cancelled", "failed"}
        /\ run'.pc = run.pc /\ run'.gi = run.gi
    BY <1>3, Parts DEF LeftoverSucceeds, LeftoverFails, FailTask, Memory
  <2>2. \A u \in Stages : u # s => row'[u] = row[u]
    BY <1>3, MarkedFailed, MarkedCompleted DEF LeftoverSucceeds, LeftoverFails
  <2>3. Order[s] = run.gi /\ run.pc \in {"cleanup", "expired"} /\ task # "completed"
    BY <2>1 DEF WhereInv, Coroutines, Place
  <2>4. \A u \in Stages : Settled(u) => Settled(u)' \/ (task # "completed" /\ Order[u] = run.gi)
    BY <2>2, <2>3 DEF Settled
  <2>. QED
    BY <2>1, <2>3, <2>4, DoneQuiet DEF InGroupPCs
<1>4. CASE OrphanEnds(s)
  <2>1. UNCHANGED row /\ UNCHANGED run /\ task' \in {task, "cancelled", "failed"}
    BY <1>4 DEF OrphanEnds, FailTask
  <2>2. \A u \in Stages : Settled(u) => Settled(u)'
    BY <2>1 DEF Settled
  <2>. QED
    BY <2>1, <2>2, DoneQuiet DEF DoneInv
<1>. QED
  BY <1>1, <1>2, <1>3, <1>4 DEF StageStep

\* Crashes, cancels, retries and reviews.
LEMMA OutsideDone ==
  ASSUME TypeOK, WhereInv, DoneInv, Outside \/ UNCHANGED vars
  PROVE  DoneInv'
<1>1. CASE CrashAndRestart
  <2>1. UNCHANGED row /\ run'.pc = "off" /\ run'.gi = 0 /\ task' \in {task, "pending"}
    BY <1>1 DEF CrashAndRestart, NoRun
  <2>. QED
    BY <2>1, DoneOutside DEF InGroupPCs
<1>2. ASSUME CancelTask \/ RetryTask \/ (\E s \in Stages : RetryFromStage(s))
             \/ (\E i \in DOMAIN gates, v \in {"approved", "rejected", "revised"} : Review(i, v))
             \/ UNCHANGED vars
      PROVE  DoneInv'
  <2>1. /\ UNCHANGED run /\ task' \in {task, "cancelled", "pending"}
        /\ \A s \in Stages : row'[s] = row[s] \/ row[s].status = "failed"
    <3>1. CASE RetryTask \/ \E s \in Stages : RetryFromStage(s)
      BY <3>1, Reset
    <3>. QED
      BY <1>2, <3>1 DEF CancelTask, Review, vars
  <2>2. \A s \in Stages : Settled(s) => Settled(s)'
    BY <2>1 DEF Settled
  <2>. QED
    BY <2>1, <2>2, DoneQuiet DEF DoneInv
<1>. QED
  BY <1>1, <1>2 DEF Outside

LEMMA DoneInvKept == (TypeOK /\ WhereInv) /\ DoneInv /\ [Next]_vars => DoneInv'
  BY RunStepDone, GateStepDone, StageStepDone, OutsideDone DEF Next

LEMMA DoneInvInit == Init => DoneInv
<1>. SUFFICES ASSUME Init
              PROVE  DoneInv
  OBVIOUS
<1>1. run.pc = "off" /\ run.gi = 0 /\ task = "pending"
  BY DEF Init, NoRun
<1>2. \A s \in Stages : Order[s] \in Nat /\ Order[s] >= 1
  BY GroupsAreRanks
<1>. QED
  BY <1>1, <1>2 DEF DoneInv, InGroupPCs

\* A task is reported as completed only when every stage of it is completed or
\* was skipped, but for the stage whose plan is reviewed: turned down with a
\* comment it is reset and never executed again (section 5 of the README).
THEOREM CompletedTasksAreSettled == Spec => [](task = "completed" => \A s \in Stages : Settled(s))
<1>1. DoneInv => (task = "completed" => \A s \in Stages : Settled(s))
  BY DEF DoneInv
<1>. QED
  BY <1>1, WhereInvInit, WhereInvKept, DoneInvInit, DoneInvKept, PTL DEF Spec

\* Plan review is off: interactive_planning of the task is not set.
PlanReviewOff == PlanStage = NoStage

LEMMA SettledMeansDone ==
  ASSUME PlanReviewOff, NEW s \in Stages, Settled(s)
  PROVE  row[s].status \in {"completed", "skipped"}
  BY TemplateIsSane DEF PlanReviewOff, Settled

\* Without plan review every stage of a completed task is done, whatever
\* failures, cancels, retries, timeouts and crashes lie behind it.
THEOREM CompletedTasksAreDone ==
  ASSUME PlanReviewOff
  PROVE  Spec => []CompletedMeansAllDone
<1>1. DoneInv => CompletedMeansAllDone
  BY SettledMeansDone DEF DoneInv, CompletedMeansAllDone
<1>. QED
  BY <1>1, WhereInvInit, WhereInvKept, DoneInvInit, DoneInvKept, PTL DEF Spec

\* Without plan review a stage executes only when all stages of earlier groups
\* are done: a retry that resets a stage never reaches behind a run in progress.
THEOREM GroupsInOrder ==
  ASSUME PlanReviewOff
  PROVE  Spec => []EarlierGroupsDone
<1>1. WhereInv /\ DoneInv => EarlierGroupsDone
  <2>. SUFFICES ASSUME WhereInv, DoneInv, NEW s \in run.live, NEW u \in Stages, Order[u] < Order[s]
                PROVE  row[u].status \in {"completed", "skipped"}
    BY DEF EarlierGroupsDone
  <2>1. Order[s] = run.gi
    BY DEF WhereInv, Coroutines
  <2>. QED
    BY <2>1, SettledMeansDone DEF DoneInv
<1>. QED
  BY <1>1, WhereInvInit, WhereInvKept, DoneInvInit, DoneInvKept, PTL DEF Spec

----------------------------------------------------------------------------
(* Conditions.  SkippedForAReason holds because what a run remembers of the *)
(* output of a stage is what its row says, and because a stage some         *)
(* condition looks at stays as it completed.                                *)

Sources == {CondSource[s] : s \in Stages} \cap Stages

\* Conditions look at stages that have no gate and no plan review behind them
\* and are no code stages: what is executed again, reset or failed after it has
\* completed would leave a skipped stage without its reason.
SourcesStand == Sources \cap (Gated \cup CodeStages \cup {PlanStage}) = {}

Remembered ==
  /\ \A s \in Sources : run.outs[s] # "none" =>
       row[s].status = "completed" /\ row[s].says = run.outs[s]
  /\ run.pc = "await" =>
       \A s \in run.launched : row[s].status = "completed" \/ s \in run.live \/ s \in run.dead

\* A step that skips no stage, collects no output and leaves completed sources alone.
LEMMA MemoryStands ==
  ASSUME TypeOK, Remembered, SkippedForAReason,
         \A s \in Sources : row[s].status = "completed" => row'[s] = row[s],
         \A s \in Stages : row'[s].status = "skipped" => row[s].status = "skipped",
         \A s \in Sources : run'.outs[s] \in {"none", run.outs[s]},
         run'.pc = "await" =>
           /\ run.pc = "await" /\ run'.launched = run.launched
           /\ \A s \in run.launched :
                row[s].status = "completed" => row'[s].status = "completed",
         run'.pc = "await" =>
           \A s \in run.launched : s \in run.live \cup run.dead =>
             row'[s].status = "completed" \/ s \in run'.live \cup run'.dead
  PROVE  Remembered' /\ SkippedForAReason'
<1>1. Remembered'
  BY DEF Remembered
<1>2. SkippedForAReason'
  <2>. SUFFICES ASSUME NEW s \in Stages, row'[s].status = "skipped"
                PROVE  /\ CondSource[s] # NoStage
                       /\ row'[CondSource[s]].status = "completed" /\ row'[CondSource[s]].says = "no"
    BY DEF SkippedForAReason
  <2>1. /\ CondSource[s] # NoStage
        /\ row[CondSource[s]].status = "completed" /\ row[CondSource[s]].says = "no"
    BY DEF SkippedForAReason
  <2>2. CondSource[s] \in Sources
    BY <2>1, TemplateIsSane DEF Sources
  <2>. QED
    BY <2>1, <2>2
<1>. QED
  BY <1>1, <1>2

\* A step that leaves the rows alone.
LEMMA MemoryAndRowsStand ==
  ASSUME TypeOK, Remembered, SkippedForAReason, UNCHANGED row,
         \A s \in Sources : run'.outs[s] \in {"none", run.outs[s]},
         run'.pc # "await" \/ UNCHANGED run
  PROVE  Remembered' /\ SkippedForAReason'
  BY MemoryStands

\* Outputs are collected of completed stages only.
LEMMA CollectedIsSaid ==
  ASSUME TypeOK, Remembered, NEW S, \A s \in S \cap Sources : row[s].status = "completed",
         NEW s \in Sources, Collected(S)[s] # "none"
  PROVE  row[s].status = "completed" /\ row[s].says = Collected(S)[s]
<1>1. s \in Stages
  BY DEF Sources
<1>2. Collected(S)[s] = IF s \in S /\ row[s].says # "none" THEN row[s].says ELSE run.outs[s]
  BY <1>1 DEF Collected
<1>. QED
  BY <1>2 DEF Remembered

\* The steps of a run.
LEMMA RunStepRemembers ==
  ASSUME TypeOK, WhereInv, Remembered, SkippedForAReason, RunStep \/ PausePlanning \/ PlanAccepted \/ PlanFails
  PROVE  Remembered' /\ SkippedForAReason'
<1>1. ASSUME SetupDone \/ FailRun \/ ResumeGroup \/ StopCancelled \/ JoinFailed \/ DynamicGateDone
             \/ NextGroup \/ Finalize \/ CompleteTask \/ Timeout \/ PausePlanning \/ PlanAccepted
             \/ PlanFails
      PROVE  Remembered' /\ SkippedForAReason'
  <2>1. UNCHANGED row /\ run'.outs = run.outs /\ run'.pc # "await"
    BY <1>1, Parts DEF SetupDone, FailRun, ResumeGroup, StopCancelled, JoinFailed, DynamicGateDone,
       NextGroup, Finalize, CompleteTask, Timeout, CutOff, PausePlanning, PlanAccepted, PlanFails,
       ReturnLeaving, Memory
  <2>. QED
    BY <2>1, MemoryAndRowsStand
<1>2. ASSUME StartRun \/ AnnounceDone \/ CleanupDone \/ FailExpired
      PROVE  Remembered' /\ SkippedForAReason'
  <2>1. UNCHANGED row /\ run'.outs = [s \in Stages |-> "none"] /\ run'.pc # "await"
    <3>1. CASE StartRun
      <4>1. run' = [NoRun EXCEPT !.pc = "setup", !.gi = 1] /\ UNCHANGED row
        BY <3>1 DEF StartRun
      <4>. QED
        BY <4>1 DEF NoRun
    <3>2. CASE run' = NoRun /\ UNCHANGED row
      BY <3>2 DEF NoRun
    <3>. QED
      BY <1>2, <3>1, <3>2 DEF AnnounceDone, CleanupDone, FailExpired
  <2>. QED
    BY <2>1, MemoryAndRowsStand DEF Sources
<1>3. ASSUME JoinDone \/ InsertDynamicGate
      PROVE  Remembered' /\ SkippedForAReason'
  <2>1. /\ UNCHANGED row /\ run'.outs = Collected(run.launched) /\ run'.pc # "await"
        /\ run.pc = "await" /\ run.live = {} /\ run.dead = {}
    BY <1>3, Parts DEF JoinDone, InsertDynamicGate, Joined, InGroup, Awaited, Memory
  <2>2. \A s \in run.launched : row[s].status = "completed"
    BY <2>1 DEF Remembered
  <2>3. \A s \in Sources : run'.outs[s] # "none" => row[s].status = "completed" /\ row[s].says = run'.outs[s]
    BY <2>1, <2>2, CollectedIsSaid
  <2>. QED
    BY <2>1, <2>3 DEF Remembered, SkippedForAReason
<1>4. CASE LaunchGroup
  <2>. DEFINE G == Group(run.gi)
              Rest == {s \in G : row[s].status # "completed"}
              Skip == {s \in Rest : Skips(s, Collected({u \in G \ Rest : u < s}))}
              Go == Rest \ Skip
              outs == Collected(G \ Rest)
  <2>1. /\ row' = [s \in Stages |->
                     IF s \in Skip THEN [row[s] EXCEPT !.status = "skipped"]
                     ELSE IF s \in Rest THEN [row[s] EXCEPT !.status = "running"]
                     ELSE row[s]]
        /\ \/ run' = [run EXCEPT !.gi = @ + 1]
           \/ run' = [run EXCEPT !.pc = "await", !.launched = Go, !.live = Go, !.outs = outs]
        /\ run.pc = "group"
    BY <1>4 DEF LaunchGroup, InGroup
  <2>2. \A s \in G \ Rest : row[s].status = "completed"
    OBVIOUS
  <2>3. \A s \in Skip : /\ CondSource[s] \in Sources
                        /\ row[CondSource[s]].status = "completed" /\ row[CondSource[s]].says = "no"
    <3>. SUFFICES ASSUME NEW s \in Skip
                  PROVE  /\ CondSource[s] \in Sources
                         /\ row[CondSource[s]].status = "completed" /\ row[CondSource[s]].says = "no"
      OBVIOUS
    <3>. DEFINE S == {u \in G \ Rest : u < s}
    <3>1. s \in Stages /\ CondSource[s] # NoStage /\ Collected(S)[CondSource[s]] = "no"
      BY DEF Skips, Group
    <3>2. CondSource[s] \in Sources
      BY <3>1, TemplateIsSane DEF Sources
    <3>3. \A u \in S \cap Sources : row[u].status = "completed"
      BY <2>2
    <3>. HIDE DEF S
    <3>. QED
      BY <3>1, <3>2, <3>3, CollectedIsSaid
  <2>4. \A s \in Sources : outs[s] # "none" => row[s].status = "completed" /\ row[s].says = outs[s]
    BY <2>2, CollectedIsSaid
  <2>5. Skip \subseteq Rest /\ Rest \subseteq Stages /\ \A s \in Rest : row[s].status # "completed"
    BY DEF Group
  <2>6. Go \subseteq Stages
    BY <2>5
  <2>. HIDE DEF Rest, Skip, Go, outs, G
  <2>7. \A s \in Stages : row[s].status = "completed" => row'[s] = row[s]
    BY <2>1, <2>5
  <2>8. \A s \in Stages : row'[s].status = "skipped" => s \in Skip \/ row[s].status = "skipped"
    BY <2>1, <2>5, Parts DEF Rows
  <2>9. \/ run'.pc = "group" /\ run'.outs = run.outs
        \/ run'.pc = "await" /\ run'.outs = outs /\ run'.launched = Go /\ run'.live = Go
    BY <2>1, Parts DEF Memory
  <2>10. Remembered'
    <3>1. \A s \in Sources : run'.outs[s] # "none" => row[s].status = "completed" /\ row[s].says = run'.outs[s]
      BY <2>4, <2>9 DEF Remembered
    <3>2. Sources \subseteq Stages
      BY DEF Sources
    <3>. QED
      BY <2>7, <2>9, <3>1, <3>2 DEF Remembered
  <2>11. SkippedForAReason'
    <3>. SUFFICES ASSUME NEW s \in Stages, row'[s].status = "skipped"
                  PROVE  /\ CondSource[s] # NoStage
                         /\ row'[CondSource[s]].status = "completed" /\ row'[CondSource[s]].says = "no"
      BY DEF SkippedForAReason
    <3>1. /\ CondSource[s] # NoStage
          /\ row[CondSource[s]].status = "completed" /\ row[CondSource[s]].says = "no"
      BY <2>3, <2>8, TemplateIsSane DEF SkippedForAReason, Sources
    <3>2. CondSource[s] \in Stages
      BY <3>1, TemplateIsSane
    <3>. QED
      BY <2>7, <3>1, <3>2
  <2>. QED
    BY <2>10, <2>11
<1>. QED
  BY <1>1, <1>2, <1>3, <1>4 DEF RunStep

\* The steps of a run at its gates, and a plan that is turned down.
LEMMA GateStepRemembers ==
  ASSUME SourcesStand, TypeOK, WhereInv, Remembered, SkippedForAReason, GateStep \/ PlanTurnedDown
  PROVE  Remembered' /\ SkippedForAReason'
<1>1. ASSUME ReusePendingGate \/ ReuseApprovedGate \/ CreateGate \/ GateWaitFails \/ PollNotCancelled
             \/ GateUndecided \/ GateApproved \/ AgainDone \/ GateRejected
      PROVE  Remembered' /\ SkippedForAReason'
  <2>1. UNCHANGED row /\ run'.outs = run.outs /\ run'.pc # "await"
    BY <1>1, Parts DEF ReusePendingGate, ReuseApprovedGate, CreateGate, GateWaitFails, PollNotCancelled,
       GateUndecided, GateApproved, AgainDone, GateRejected, PassGate, ReturnLeaving, Memory
  <2>. QED
    BY <2>1, MemoryAndRowsStand
<1>2. ASSUME ExecuteAgain \/ PlanTurnedDown
      PROVE  Remembered' /\ SkippedForAReason'
  <2>1. /\ run'.outs = run.outs /\ run'.pc # "await"
        /\ \E s \in Gated \cup {PlanStage}, st \in {"running", "pending"} :
             row' = [row EXCEPT ![s].status = st]
    <3>1. CASE ExecuteAgain
      <4>1. GateStage \in Gated
        BY <3>1, AtGateStage DEF ExecuteAgain
      <4>. QED
        BY <3>1, <4>1, Parts DEF ExecuteAgain, Memory
    <3>2. CASE PlanTurnedDown
      BY <3>2, Parts DEF PlanTurnedDown, Memory
    <3>. QED
      BY <1>2, <3>1, <3>2
  <2>2. PICK s \in Gated \cup {PlanStage}, st \in {"running", "pending"} :
          row' = [row EXCEPT ![s].status = st]
    BY <2>1
  <2>3. \A u \in Stages : u # s => row'[u] = row[u]
    BY <2>2, Parts
  <2>4. s \in Stages => row'[s].status # "skipped"
    BY <2>2, Parts DEF Rows
  <2>5. s \notin Sources
    BY DEF SourcesStand
  <2>6. \A u \in Sources : row'[u] = row[u]
    BY <2>3, <2>5 DEF Sources
  <2>7. \A u \in Stages : row'[u].status = "skipped" => row[u].status = "skipped"
    BY <2>3, <2>4
  <2>. QED
    BY <2>1, <2>6, <2>7, MemoryStands
<1>. QED
  BY <1>1, <1>2 DEF GateStep

\* What happens to a stage.
LEMMA StageStepRemembers ==
  ASSUME SourcesStand, TypeOK, WhereInv, Remembered, SkippedForAReason, NEW s \in Stages, StageStep(s)
  PROVE  Remembered' /\ SkippedForAReason'
<1>1. ASSUME ResumeCodeCheckFails(s) \/ CodeCheckFails(s) \/ JoinRaises(s)
      PROVE  Remembered' /\ SkippedForAReason'
  <2>1. MarkFailed(s) /\ run'.pc = "cleanup" /\ run'.outs = run.outs
    BY <1>1, Parts DEF ResumeCodeCheckFails, CodeCheckFails, JoinRaises, ReturnLeaving, Memory
  <2>2. s \notin Sources \/ row[s].status = "running"
    BY <1>1 DEF ResumeCodeCheckFails, CodeCheckFails, JoinRaises, SourcesStand, WhereInv, Coroutines
  <2>3. row'[s].status = "failed" /\ \A u \in Stages : u # s => row'[u] = row[u]
    BY <2>1, MarkedFailed
  <2>4. \A u \in Sources : row[u].status = "completed" => row'[u] = row[u]
    BY <2>2, <2>3 DEF Sources
  <2>5. \A u \in Stages : row'[u].status = "skipped" => row[u].status = "skipped"
    BY <2>3
  <2>. QED
    BY <2>1, <2>4, <2>5, MemoryStands
<1>2. ASSUME StageSucceeds(s) \/ StageFails(s) \/ LeftoverSucceeds(s) \/ LeftoverFails(s)
      PROVE  Remembered' /\ SkippedForAReason'
  <2>1. /\ run'.pc = run.pc /\ run'.outs = run.outs /\ run'.launched = run.launched
        /\ row[s].status = "running"
    BY <1>2, Parts DEF StageSucceeds, StageFails, LeftoverSucceeds, LeftoverFails, Memory, WhereInv,
       Coroutines
  <2>2. /\ row'[s].status \in {"completed", "failed"} /\ \A u \in Stages : u # s => row'[u] = row[u]
        /\ StageSucceeds(s) => row'[s].status = "completed"
    BY <1>2, MarkedFailed, MarkedCompleted DEF StageSucceeds, StageFails, LeftoverSucceeds, LeftoverFails
  <2>3. \A u \in Stages : row[u].status = "completed" => row'[u] = row[u]
    BY <2>1, <2>2
  <2>4. \A u \in Stages : row'[u].status = "skipped" => row[u].status = "skipped"
    BY <2>2
  <2>5. run.live \cup run.dead \subseteq run'.live \cup run'.dead \/ StageSucceeds(s)
    BY <1>2, Parts DEF StageFails, LeftoverSucceeds, LeftoverFails, Memory
  <2>6. StageSucceeds(s) => run'.live = run.live \ {s} /\ run'.dead = run.dead
    BY Parts DEF StageSucceeds, Memory
  <2>7. \A u \in run.launched : u \in run.live \cup run.dead =>
           row'[u].status = "completed" \/ u \in run'.live \cup run'.dead
    BY <2>2, <2>5, <2>6
  <2>8. run.launched \subseteq Stages /\ Sources \subseteq Stages
    BY Parts DEF Sources
  <2>. QED
    BY <2>1, <2>3, <2>4, <2>7, <2>8, MemoryStands
<1>3. CASE OrphanEnds(s)
  BY <1>3, MemoryAndRowsStand DEF OrphanEnds
<1>. QED
  BY <1>1, <1>2, <1>3 DEF StageStep

\* Crashes, cancels, retries and reviews.
LEMMA OutsideRemembers ==
  ASSUME TypeOK, WhereInv, Remembered, SkippedForAReason, Outside \/ UNCHANGED vars
  PROVE  Remembered' /\ SkippedForAReason'
<1>1. CASE CrashAndRestart
  <2>1. UNCHANGED row /\ run'.pc # "await" /\ run'.outs = [s \in Stages |-> "none"]
    BY <1>1 DEF CrashAndRestart, NoRun
  <2>. QED
    BY <2>1, MemoryAndRowsStand DEF Sources
<1>2. CASE RetryTask \/ \E s \in Stages : RetryFromStage(s)
  <2>1. /\ UNCHANGED run
        /\ \A s \in Stages : \/ row'[s] = row[s]
                             \/ row[s].status = "failed" /\ row'[s].status = "pending"
    BY <1>2, Reset
  <2>2. Sources \subseteq Stages /\ run.launched \subseteq Stages
    BY Parts DEF Sources
  <2>. QED
    BY <2>1, <2>2, MemoryStands
<1>3. ASSUME CancelTask \/ UNCHANGED vars
             \/ (\E i \in DOMAIN gates, v \in {"approved", "rejected", "revised"} : Review(i, v))
      PROVE  Remembered' /\ SkippedForAReason'
  <2>1. UNCHANGED row /\ UNCHANGED run
    BY <1>3 DEF CancelTask, Review, vars
  <2>. QED
    BY <2>1, MemoryAndRowsStand
<1>. QED
  BY <1>1, <1>2, <1>3 DEF Outside

\* A stage is skipped only if its condition looks at a stage that has completed
\* and whose output does not meet it, for any template whose conditions look at
\* stages that stay as they completed.
THEOREM SkipsHaveReasons ==
  ASSUME SourcesStand
  PROVE  Spec => []SkippedForAReason
<1>1. Init => Remembered /\ SkippedForAReason
  <2>. SUFFICES ASSUME Init
                PROVE  Remembered /\ SkippedForAReason
    OBVIOUS
  <2>1. /\ run.pc = "off" /\ run.outs = [s \in Stages |-> "none"]
        /\ \A s \in Stages : row[s].status = "pending"
    BY DEF Init, NoRun
  <2>. QED
    BY <2>1 DEF Remembered, SkippedForAReason, Sources
<1>2. (TypeOK /\ WhereInv) /\ (Remembered /\ SkippedForAReason) /\ [Next]_vars
        => (Remembered /\ SkippedForAReason)'
  <2>. SUFFICES ASSUME TypeOK, WhereInv, Remembered, SkippedForAReason, [Next]_vars
                PROVE  Remembered' /\ SkippedForAReason'
    OBVIOUS
  <2>. QED
    BY RunStepRemembers, GateStepRemembers, StageStepRemembers, OutsideRemembers DEF Next, PlanStep
<1>. QED
  BY <1>1, <1>2, WhereInvInit, WhereInvKept, PTL DEF Spec
=============================================================================
