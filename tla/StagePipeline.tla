--------------------------- MODULE StagePipeline ---------------------------
(***************************************************************************)
(* One task on one worker in linear mode (_process_task of worker/engine.py*)
(* with GRAPH_EXECUTION_ENABLED off): its groups of stages, the human gates*)
(* behind them, the re-execution a reviewer asks for, the circuit breaker, *)
(* plan review, timeouts and crashes, with the task API and the reviewers  *)
(* acting at any moment.  The rows of tasks, task_stages and human_gates   *)
(* outlive a run; what a run keeps in memory (run) does not.  How a worker *)
(* gets the task is in TaskQueue; here a pending task is simply taken.     *)
(***************************************************************************)
EXTENDS Integers, Sequences, FiniteSets, FiniteSetsExt

CONSTANTS Stages,          \* stage ids, in the order a group awaits them
          Order,           \* the rank of the stage's order value: its group
          NumGroups,
          Gated,           \* stages with a gate behind them
          Doubtful,        \* stages that may report low confidence: {} unless
                           \* DYNAMIC_GATE_ENABLED
          GateMaxRetries,  \* max_retries of the gates
          CodeStages,      \* stages named "code" (their run must change files)
          CondSource,      \* source_stage of the stage's condition, or NoStage
          PlanStage,       \* the stage whose plan is reviewed, or NoStage
          NoStage,
          StageMaxRetries, \* STAGE_DEFAULT_MAX_RETRIES
          TokenLimit,      \* CB_MAX_TOKENS_PER_TASK, in stage executions
          MaxClock,        \* bound: stage executions
          MaxGates,        \* bound: gates created
          MaxFaults,       \* bound: crashes
          MaxRetries,      \* bound: retry requests
          MaxReviews       \* bound: decisions of reviewers

ASSUME StagesAreNumbers == Stages \subseteq Nat \ {0} /\ IsFiniteSet(Stages)
ASSUME GroupsAreRanks ==
  /\ NumGroups \in Nat
  /\ Order \in [Stages -> 1..NumGroups]
  /\ \A i \in 1..NumGroups : \E s \in Stages : Order[s] = i
ASSUME TemplateIsSane ==
  /\ NoStage \notin Stages
  /\ Gated \subseteq Stages /\ Doubtful \subseteq Stages /\ CodeStages \subseteq Stages
  /\ PlanStage \in Stages \cup {NoStage}
  /\ CondSource \in [Stages -> Stages \cup {NoStage}]
ASSUME LimitsAreNat == {GateMaxRetries, StageMaxRetries, TokenLimit, MaxClock, MaxGates,
                        MaxFaults, MaxRetries, MaxReviews} \subseteq Nat

VARIABLES task,     \* tasks.status
          row,      \* task_stages: status, retry_count, completed_at, output_structured
          gates,    \* human_gates of the task, in order of creation
          tokens,   \* tasks.total_tokens, in stage executions
          clock,    \* stage executions ended so far: the time stamps of the model
          run,      \* the memory of the run in progress
          orphans,  \* stages whose coroutines have outlived their run
          used      \* how much of each bound has been used up

vars == <<task, row, gates, tokens, clock, run, orphans, used>>

Group(i) == {s \in Stages : Order[s] = i}
NoRun == [pc |-> "off", gi |-> 0, launched |-> {}, live |-> {}, dead |-> {}, left |-> {},
          outs |-> [s \in Stages |-> "none"], todo |-> {}, tries |-> 0, gate |-> 0]

TypeOK ==
  /\ task \in {"pending", "running", "planning", "completed", "failed", "cancelled"}
  /\ row \in [Stages -> [status : {"pending", "running", "completed", "failed", "skipped"},
                         retry : 0..StageMaxRetries, done : Nat, says : {"none", "yes", "no"}]]
  /\ gates \in Seq([stage : Stages, status : {"pending", "approved", "rejected", "revised"},
                    reviewed : Nat, approved : Nat, dynamic : BOOLEAN])
  /\ tokens \in Nat /\ clock \in Nat
  /\ run \in [pc : {"off", "setup", "group", "await", "gate", "poll", "look", "again",
                    "plan", "doubt", "final", "announce", "cleanup", "expired"},
              gi : 0..NumGroups + 1,
              launched : SUBSET Stages, live : SUBSET Stages, dead : SUBSET Stages,
              left : SUBSET Stages, outs : [Stages -> {"none", "yes", "no"}],
              todo : SUBSET Stages, tries : Nat, gate : 0..Len(gates)]
  /\ orphans \subseteq Stages
  /\ used \in [faults : 0..MaxFaults, retries : 0..MaxRetries, reviews : 0..MaxReviews]

Init ==
  /\ task = "pending"
  /\ row = [s \in Stages |-> [status |-> "pending", retry |-> 0, done |-> 0, says |-> "none"]]
  /\ gates = <<>>
  /\ tokens = 0 /\ clock = 0
  /\ run = NoRun
  /\ orphans = {}
  /\ used = [faults |-> 0, retries |-> 0, reviews |-> 0]

----------------------------------------------------------------------------
(* Parts of actions. *)

\* _fail_task: the UPDATE leaves a cancelled row alone.
FailTask == task' = IF task = "cancelled" THEN task ELSE "failed"

\* Mutant: the run goes on to its end after a failure.
ReturnToEnd(S) ==
  run' = [run EXCEPT !.pc = "group", !.gi = @ + 1, !.live = {}, !.dead = {}, !.left = @ \cup S]

\* _process_task returns; the coroutines still in S were never cancelled.
ReturnLeaving(S) ==
  run' = [run EXCEPT !.pc = "cleanup", !.live = {}, !.dead = {}, !.left = @ \cup S]

\* mark_stage_failed.
MarkFailed(s) ==
  /\ row' = [row EXCEPT ![s].status = "failed", ![s].done = clock + 1]
  /\ clock' = clock + 1

\* What a new output of s says to the conditions that look at it; an output
\* nothing can be extracted from leaves the previous answer in place.
Answers(s) == IF \E u \in Stages : CondSource[u] = s
              THEN {row[s].says, "yes", "no"} ELSE {"none"}

\* _finalize_stage_success.
MarkCompleted(s) ==
  /\ \E v \in Answers(s) :
       row' = [row EXCEPT ![s].status = "completed", ![s].done = clock + 1, ![s].says = v]
  /\ clock' = clock + 1
  /\ tokens' = tokens + 1

\* structured_outputs after the outputs of the stages in S have been collected.
Collected(S) == [s \in Stages |-> IF s \in S /\ row[s].says # "none"
                                  THEN row[s].says ELSE run.outs[s]]

\* Mutant: a condition whose source has no collected output counts as not met.
SkipsUnknown(s, outs) == CondSource[s] # NoStage /\ outs[CondSource[s]] # "yes"

\* _should_skip_stage: a condition whose source has no collected output counts as met.
Skips(s, outs) == CondSource[s] # NoStage /\ outs[CondSource[s]] = "no"

\* Mutant: a failed stage counts as finished.
AllFinished(G) == \A s \in G : row[s].status \in {"completed", "failed"}

AllCompleted(G) == \A s \in G : row[s].status = "completed"

\* The coroutines the run is awaiting, and the one it awaits first.
Awaited == run.live \cup run.dead
InGroup(pc) == run.pc = pc /\ run.gi \in 1..NumGroups

----------------------------------------------------------------------------
(* The run of the task. *)

StartRun ==
  /\ run.pc = "off"
  /\ task = "pending"
  /\ task' = "running"
  /\ run' = [NoRun EXCEPT !.pc = "setup", !.gi = 1]
  /\ UNCHANGED <<row, gates, tokens, clock, orphans, used>>

\* Workspace and sandbox are there.
SetupDone ==
  /\ run.pc = "setup"
  /\ run' = [run EXCEPT !.pc = "group"]
  /\ UNCHANGED <<task, row, gates, tokens, clock, orphans, used>>

\* The task fails between two stages: no workspace, tokens used up, push failed.
FailRun ==
  /\ \/ run.pc = "setup"
     \/ run.pc = "final"
     \/ /\ InGroup("group")
        /\ AllCompleted(Group(run.gi))
        /\ tokens > TokenLimit
     \/ /\ InGroup("await")
        /\ Awaited = {}
        /\ tokens > TokenLimit
  /\ FailTask
  /\ ReturnLeaving({})
  /\ UNCHANGED <<row, gates, tokens, clock, orphans, used>>

\* A group that was completed by an earlier run: only its gates are left to do.
ResumeGroup ==
  /\ InGroup("group")
  /\ AllCompleted(Group(run.gi))
  /\ tokens <= TokenLimit
  /\ run' = [run EXCEPT !.pc = "gate", !.launched = {}, !.tries = 0,
                        !.todo = Gated \cap Group(run.gi)]
  /\ UNCHANGED <<task, row, gates, tokens, clock, orphans, used>>

\* The code stage has left no change in the worktree (after a crash it is a new one).
ResumeCodeCheckFails(s) ==
  /\ InGroup("group")
  /\ AllCompleted(Group(run.gi))
  /\ s \in CodeStages \cap Group(run.gi)
  /\ MarkFailed(s)
  /\ FailTask
  /\ ReturnLeaving({})
  /\ UNCHANGED <<gates, tokens, orphans, used>>

StopCancelled ==
  /\ InGroup("group")
  /\ ~ AllCompleted(Group(run.gi))
  /\ task = "cancelled"
  /\ ReturnLeaving({})
  /\ UNCHANGED <<task, row, gates, tokens, clock, orphans, used>>

\* Stages that are not completed are skipped or started; a skipped stage alone
\* in its group has no gate, one in a larger group keeps its gate.
LaunchGroup ==
  /\ InGroup("group")
  /\ ~ AllCompleted(Group(run.gi))
  /\ task # "cancelled"
  /\ clock < MaxClock
  /\ LET G    == Group(run.gi)
         Rest == {s \in G : row[s].status # "completed"}
         Skip == {s \in Rest : Skips(s, Collected({u \in G \ Rest : u < s}))}
     IN /\ row' = [s \in Stages |->
                     IF s \in Skip THEN [row[s] EXCEPT !.status = "skipped"]
                     ELSE IF s \in Rest THEN [row[s] EXCEPT !.status = "running"]
                     ELSE row[s]]
        /\ run' = IF G = Skip /\ Cardinality(G) = 1
                  THEN [run EXCEPT !.gi = @ + 1]
                  ELSE [run EXCEPT !.pc = "await", !.launched = Rest \ Skip,
                                   !.live = Rest \ Skip, !.outs = Collected(G \ Rest)]
  /\ UNCHANGED <<task, gates, tokens, clock, orphans, used>>

StageSucceeds(s) ==
  /\ s \in run.live
  /\ MarkCompleted(s)
  /\ run' = [run EXCEPT !.live = @ \ {s}]
  /\ UNCHANGED <<task, gates, orphans, used>>

\* The coroutine marks its stage and the task failed and returns None.
StageFails(s) ==
  /\ s \in run.live
  /\ MarkFailed(s)
  /\ FailTask
  /\ run' = [run EXCEPT !.live = @ \ {s}, !.dead = @ \cup {s}]
  /\ UNCHANGED <<gates, tokens, orphans, used>>

\* The stage awaited next has returned None: the run returns, the others go on.
JoinFailed ==
  /\ run.dead # {}
  /\ Min(Awaited) \in run.dead
  /\ ReturnLeaving(run.live)
  /\ UNCHANGED <<task, row, gates, tokens, clock, orphans, used>>

\* An exception out of the coroutine awaited next: here the others are cancelled.
JoinRaises(s) ==
  /\ InGroup("await")
  /\ Cardinality(Group(run.gi)) > 1
  /\ s \in run.live /\ s = Min(Awaited)
  /\ MarkFailed(s)
  /\ FailTask
  /\ ReturnLeaving({})
  /\ UNCHANGED <<gates, tokens, orphans, used>>

\* A code stage that has just been awaited has changed no file.
CodeCheckFails(s) ==
  /\ run.pc = "await"
  /\ s \in CodeStages \cap run.launched
  /\ \A u \in Awaited : s < u
  /\ MarkFailed(s)
  /\ FailTask
  /\ ReturnLeaving(run.live)
  /\ UNCHANGED <<gates, tokens, orphans, used>>

\* All outputs of the group are collected; the gates come next.
Joined(pc) ==
  /\ InGroup("await")
  /\ Awaited = {}
  /\ tokens <= TokenLimit
  /\ run' = [run EXCEPT !.pc = pc, !.tries = 0, !.outs = Collected(run.launched),
                        !.todo = Gated \cap Group(run.gi)]

JoinDone ==
  /\ Joined("gate")
  /\ UNCHANGED <<task, row, gates, tokens, clock, orphans, used>>

\* A stage alone in its group reports little confidence: a gate of a type of its own.
InsertDynamicGate ==
  /\ Joined("doubt")
  /\ \E s \in Doubtful :
       /\ Group(run.gi) = {s}
       /\ gates' = Append(gates, [stage |-> s, status |-> "pending", reviewed |-> 0,
                                  approved |-> 0, dynamic |-> TRUE])
  /\ Len(gates) < MaxGates
  /\ UNCHANGED <<task, row, tokens, clock, orphans, used>>

\* The wait ends by a review, a cancel or after WORKER_GATE_MAX_WAIT_SECONDS;
\* _process_task goes on in the same way after each of them, a rejection too.
DynamicGateDone ==
  /\ run.pc = "doubt"
  /\ run' = [run EXCEPT !.pc = "gate"]
  /\ UNCHANGED <<task, row, gates, tokens, clock, orphans, used>>

\* Mutant: the group index is advanced twice.
NextGroupTwice ==
  /\ run.pc = "gate"
  /\ run.todo = {}
  /\ run' = [run EXCEPT !.pc = "group", !.gi = @ + 2]
  /\ UNCHANGED <<task, row, gates, tokens, clock, orphans, used>>

\* All gates of the group are passed, and no plan review follows.
NextGroup ==
  /\ run.pc = "gate"
  /\ run.todo = {}
  /\ run.launched # {PlanStage} \/ Group(run.gi) # {PlanStage}
  /\ run' = [run EXCEPT !.pc = "group", !.gi = @ + 1]
  /\ UNCHANGED <<task, row, gates, tokens, clock, orphans, used>>

Finalize ==
  /\ run.pc = "group"
  /\ run.gi = NumGroups + 1
  /\ run' = [run EXCEPT !.pc = "final"]
  /\ UNCHANGED <<task, row, gates, tokens, clock, orphans, used>>

\* _complete_task, whatever the row says; the run is not over yet.
CompleteTask ==
  /\ run.pc = "final"
  /\ task' = "completed"
  /\ run' = [run EXCEPT !.pc = "announce"]
  /\ UNCHANGED <<row, gates, tokens, clock, orphans, used>>

\* The broadcast, the audit record and the notification that follow.
AnnounceDone ==
  /\ run.pc = "announce"
  /\ run' = NoRun
  /\ UNCHANGED <<task, row, gates, tokens, clock, orphans, used>>

\* The run's session is closed; what it left running loses its rows.
CleanupDone ==
  /\ run.pc = "cleanup"
  /\ orphans' = orphans \cup run.left
  /\ run' = NoRun
  /\ UNCHANGED <<task, row, gates, tokens, clock, used>>

\* Mutant: the time spent waiting for a reviewer does not count.
TimeoutOutsideGates ==
  /\ run.pc \notin {"off", "expired", "poll", "look"}
  /\ run' = [run EXCEPT !.pc = "expired", !.live = {}, !.dead = {}]
  /\ UNCHANGED <<task, row, gates, tokens, clock, orphans, used>>

\* A run with stages in progress that awaits none of them: it deals with the
\* output of a stage that is done, or has just written a skipped one.
AwaitsNoStage ==
  /\ run.pc = "await"
  /\ \/ \E s \in run.launched : \A u \in Awaited : s < u
     \/ \E s \in Group(run.gi), u \in run.live : row[s].status = "skipped" /\ u < s

\* The run is cut off, and the coroutines in S go on.
CutOff(S) ==
  run' = [run EXCEPT !.pc = "expired", !.live = {}, !.dead = {}, !.left = @ \cup S]

\* WORKER_TASK_TIMEOUT: the coroutine being awaited is cancelled with the run.
Timeout ==
  /\ run.pc \notin {"off", "expired"}
  /\ \/ CutOff({s \in run.live : s # Min(Awaited)})
     \/ AwaitsNoStage /\ CutOff(run.live)
  /\ UNCHANGED <<task, row, gates, tokens, clock, orphans, used>>

FailExpired ==
  /\ run.pc = "expired"
  /\ FailTask
  /\ orphans' = orphans \cup run.left
  /\ run' = NoRun
  /\ UNCHANGED <<row, gates, tokens, clock, used>>

----------------------------------------------------------------------------
(* Gates: _handle_gate_with_retry and _handle_gate. *)

GateStage == Min(run.todo)
\* The gates the template asks for; dynamic ones have another gate_type.
GatesOf(s) == {i \in DOMAIN gates : gates[i].stage = s /\ ~ gates[i].dynamic}
PendingOf(s) == {i \in GatesOf(s) : gates[i].status = "pending"}
AtGate == run.pc = "gate" /\ run.todo # {}

\* Mutant: an approval of an earlier output counts.
EverApproved(s) ==
  /\ GatesOf(s) # {}
  /\ gates[Max(GatesOf(s))].status = "approved"

\* The latest gate of the stage was approved after the stage last completed.
AlreadyApproved(s) ==
  /\ GatesOf(s) # {}
  /\ LET g == gates[Max(GatesOf(s))]
     IN /\ g.status = "approved"
        /\ row[s].done = 0 \/ g.reviewed >= row[s].done

PassGate == run' = [run EXCEPT !.pc = "gate", !.todo = @ \ {GateStage}, !.tries = 0, !.gate = 0]

ReusePendingGate ==
  /\ AtGate
  /\ \E i \in PendingOf(GateStage) : run' = [run EXCEPT !.pc = "poll", !.gate = i]
  /\ UNCHANGED <<task, row, gates, tokens, clock, orphans, used>>

ReuseApprovedGate ==
  /\ AtGate
  /\ PendingOf(GateStage) = {}
  /\ AlreadyApproved(GateStage)
  /\ PassGate
  /\ UNCHANGED <<task, row, gates, tokens, clock, orphans, used>>

CreateGate ==
  /\ AtGate
  /\ PendingOf(GateStage) = {}
  /\ ~ AlreadyApproved(GateStage)
  /\ Len(gates) < MaxGates
  /\ gates' = Append(gates, [stage |-> GateStage, status |-> "pending",
                             reviewed |-> 0, approved |-> 0, dynamic |-> FALSE])
  /\ run' = [run EXCEPT !.pc = "poll", !.gate = Len(gates) + 1]
  /\ UNCHANGED <<task, row, tokens, clock, orphans, used>>

\* WORKER_GATE_MAX_WAIT_SECONDS have passed, or the task was cancelled.
GateWaitFails ==
  /\ run.pc = "poll"
  /\ FailTask
  /\ ReturnLeaving({})
  /\ UNCHANGED <<row, gates, tokens, clock, orphans, used>>

PollNotCancelled ==
  /\ run.pc = "poll"
  /\ task # "cancelled"
  /\ run' = [run EXCEPT !.pc = "look"]
  /\ UNCHANGED <<task, row, gates, tokens, clock, orphans, used>>

GateUndecided ==
  /\ run.pc = "look"
  /\ gates[run.gate].status = "pending"
  /\ run' = [run EXCEPT !.pc = "poll"]
  /\ UNCHANGED <<task, row, gates, tokens, clock, orphans, used>>

GateApproved ==
  /\ run.pc = "look"
  /\ gates[run.gate].status = "approved"
  /\ PassGate
  /\ UNCHANGED <<task, row, gates, tokens, clock, orphans, used>>

\* A revision always re-executes the stage, a rejection while retries are left.
ExecuteAgain ==
  /\ run.pc = "look"
  /\ \/ gates[run.gate].status = "revised"
     \/ gates[run.gate].status = "rejected" /\ run.tries < GateMaxRetries
  /\ clock < MaxClock
  /\ row' = [row EXCEPT ![GateStage].status = "running"]
  /\ run' = [run EXCEPT !.pc = "again", !.tries = @ + 1, !.gate = 0, !.live = {GateStage}]
  /\ UNCHANGED <<task, gates, tokens, clock, orphans, used>>

\* The new output goes back to the gate; it is neither checked for changes nor
\* against the token limit, and conditions do not see it.
AgainDone ==
  /\ run.pc = "again"
  /\ Awaited = {}
  /\ run' = [run EXCEPT !.pc = "gate"]
  /\ UNCHANGED <<task, row, gates, tokens, clock, orphans, used>>

GateRejected ==
  /\ run.pc = "look"
  /\ gates[run.gate].status = "rejected"
  /\ run.tries >= GateMaxRetries
  /\ FailTask
  /\ ReturnLeaving({})
  /\ UNCHANGED <<row, gates, tokens, clock, orphans, used>>

----------------------------------------------------------------------------
(* Plan review: _check_interactive_planning. *)

PausePlanning ==
  /\ run.pc = "gate"
  /\ run.todo = {}
  /\ run.launched = {PlanStage} /\ Group(run.gi) = {PlanStage}
  /\ task' = "planning"
  /\ run' = [run EXCEPT !.pc = "plan"]
  /\ UNCHANGED <<row, gates, tokens, clock, orphans, used>>

\* Approved, or turned down without a comment: on to the next group.
PlanAccepted ==
  /\ run.pc = "plan"
  /\ task' = "running"
  /\ run' = [run EXCEPT !.pc = "group", !.gi = @ + 1]
  /\ UNCHANGED <<row, gates, tokens, clock, orphans, used>>

\* Turned down with a comment: the stage is reset, and the loop goes on.
PlanTurnedDown ==
  /\ run.pc = "plan"
  /\ row' = [row EXCEPT ![PlanStage].status = "pending"]
  /\ task' = "running"
  /\ run' = [run EXCEPT !.pc = "group", !.gi = @ + 1]
  /\ UNCHANGED <<gates, tokens, clock, orphans, used>>

\* The review timed out, or the task was cancelled.
PlanFails ==
  /\ run.pc = "plan"
  /\ FailTask
  /\ ReturnLeaving({})
  /\ UNCHANGED <<row, gates, tokens, clock, orphans, used>>

----------------------------------------------------------------------------
(* Coroutines that outlive the run that started them. *)

\* While the run cleans up, its session still writes the rows they change.
LeftoverSucceeds(s) ==
  /\ s \in run.left
  /\ MarkCompleted(s)
  /\ run' = [run EXCEPT !.left = @ \ {s}]
  /\ UNCHANGED <<task, gates, orphans, used>>

LeftoverFails(s) ==
  /\ s \in run.left
  /\ MarkFailed(s)
  /\ FailTask
  /\ run' = [run EXCEPT !.left = @ \ {s}]
  /\ UNCHANGED <<gates, tokens, orphans, used>>

\* Afterwards only the UPDATE statement of _fail_task reaches the database.
OrphanEnds(s) ==
  /\ s \in orphans
  /\ orphans' = orphans \ {s}
  /\ FailTask \/ UNCHANGED task
  /\ UNCHANGED <<row, gates, tokens, clock, run, used>>

----------------------------------------------------------------------------
(* The rest of the world. *)

\* A crash and the next start_worker: running tasks are put back, planning ones are not.
CrashAndRestart ==
  /\ used.faults < MaxFaults
  /\ used' = [used EXCEPT !.faults = @ + 1]
  /\ task' = IF task = "running" THEN "pending" ELSE task
  /\ run' = NoRun
  /\ orphans' = {}
  /\ UNCHANGED <<row, gates, tokens, clock>>

CancelTask ==
  /\ task \in {"pending", "running", "planning"}
  /\ task' = "cancelled"
  /\ UNCHANGED <<row, gates, tokens, clock, run, orphans, used>>

\* _reset_stage_for_retry on the stages in S, and _recalculate_task_usage.
ResetForRetry(S) ==
  /\ task' = "pending"
  /\ row' = [s \in Stages |->
               IF s \in S THEN [status |-> "pending", retry |-> row[s].retry + 1,
                                done |-> 0, says |-> "none"]
               ELSE row[s]]
  /\ tokens' = Cardinality({s \in Stages : row[s].status = "completed"})
  /\ used.retries < MaxRetries
  /\ used' = [used EXCEPT !.retries = @ + 1]

Retryable(s) == row[s].status = "failed" /\ row[s].retry < StageMaxRetries

\* retry_task: the task is queued again even if none of its stages may be retried.
RetryTask ==
  /\ task = "failed"
  /\ ResetForRetry({s \in Stages : Retryable(s)})
  /\ UNCHANGED <<gates, clock, run, orphans>>

\* retry_from_stage; retry_batch picks the stage.
RetryFromStage(s) ==
  /\ task = "failed"
  /\ Retryable(s)
  /\ ResetForRetry({s})
  /\ UNCHANGED <<gates, clock, run, orphans>>

\* approve, reject and revise do not ask whether the gate is still pending.
Review(i, verdict) ==
  /\ used.reviews < MaxReviews
  /\ used' = [used EXCEPT !.reviews = @ + 1]
  /\ gates' = [gates EXCEPT ![i].status = verdict, ![i].reviewed = clock,
                            ![i].approved = IF verdict = "approved" THEN clock ELSE @]
  /\ UNCHANGED <<task, row, tokens, clock, run, orphans>>

----------------------------------------------------------------------------
GateStep ==
  \/ ReusePendingGate \/ ReuseApprovedGate \/ CreateGate \/ GateWaitFails
  \/ PollNotCancelled \/ GateUndecided \/ GateApproved \/ ExecuteAgain
  \/ AgainDone \/ GateRejected

PlanStep == PausePlanning \/ PlanAccepted \/ PlanTurnedDown \/ PlanFails

RunStep ==
  \/ StartRun \/ SetupDone \/ FailRun \/ ResumeGroup \/ StopCancelled \/ LaunchGroup
  \/ JoinFailed \/ JoinDone \/ InsertDynamicGate \/ DynamicGateDone \/ NextGroup
  \/ Finalize \/ CompleteTask \/ AnnounceDone \/ CleanupDone
  \/ Timeout \/ FailExpired

StageStep(s) ==
  \/ ResumeCodeCheckFails(s) \/ CodeCheckFails(s) \/ JoinRaises(s)
  \/ StageSucceeds(s) \/ StageFails(s)
  \/ LeftoverSucceeds(s) \/ LeftoverFails(s) \/ OrphanEnds(s)

Outside ==
  \/ CrashAndRestart \/ CancelTask \/ RetryTask
  \/ \E s \in Stages : RetryFromStage(s)
  \/ \E i \in DOMAIN gates, v \in {"approved", "rejected", "revised"} : Review(i, v)

Next == RunStep \/ GateStep \/ PlanStep \/ Outside \/ \E s \in Stages : StageStep(s)

Spec == Init /\ [][Next]_vars

\* Fairness: a pending task is taken by the poll loop, wait_for cuts every run
\* off at WORKER_TASK_TIMEOUT, and the handlers that follow run to their end.
\* Nothing is assumed of stages, reviewers or users.
FairSpec ==
  /\ Spec
  /\ WF_vars(StartRun) /\ WF_vars(Timeout) /\ WF_vars(FailExpired) /\ WF_vars(CleanupDone)

----------------------------------------------------------------------------
(* Properties. *)

\* The run has gone past the stage, or the task is reported as completed.
Past(s) == task = "completed" \/ Order[s] < run.gi

\* Nothing goes past a gated stage unless a reviewer has approved its gate
\* after the last time the stage completed: not after a re-execution, not
\* after a crash and not after a retry that finds gates of an earlier run.
GateDiscipline ==
  \A s \in Gated : Past(s) /\ row[s].status = "completed" =>
    \E i \in GatesOf(s) : gates[i].approved >= row[s].done

\* A task is reported as completed only when every stage of it is completed or
\* was skipped, whatever failures, retries and crashes lie behind it.
CompletedMeansAllDone ==
  task = "completed" => \A s \in Stages : row[s].status \in {"completed", "skipped"}

\* While a run executes a stage, all stages of earlier groups are done.
EarlierGroupsDone ==
  \A s \in run.live, u \in Stages :
    Order[u] < Order[s] => row[u].status \in {"completed", "skipped"}

\* A stage is skipped only if its condition looks at a stage that has completed
\* and whose output does not meet it; what a crash or a retry makes a run
\* forget never turns into a skipped stage.
SkippedForAReason ==
  \A s \in Stages : row[s].status = "skipped" =>
    /\ CondSource[s] # NoStage
    /\ row[CondSource[s]].status = "completed" /\ row[CondSource[s]].says = "no"

\* A queued task is eventually completed, failed or cancelled, although no
\* stage, no reviewer and no user is assumed ever to answer.
EventuallySettled == task = "pending" ~> task \in {"completed", "failed", "cancelled"}
=============================================================================
