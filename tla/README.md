# Silicon Agent platform: a TLA+ verification development

The platform (`src/platform`) runs software tasks through a template of stages
(parse, spec, code, test, review, ...). Webhooks, a cron scheduler and users create
tasks; a FastAPI application keeps tasks, stages and human gates in a database; a
worker loop takes pending tasks, lets language-model agents execute the stages, in
its own process or in a sandbox, waits for human approval at gates and finally
commits and pushes the result. This directory models what decides *what happens to a
task and to what is used for it*: the triggers that create it, the queue, the stage
pipeline with its gates, the graph-driven variant, the execution of one stage, the
log of its events, the sandboxes and the working copies of the repositories.

## 1. Inventory

| Component | State | Operations | Hard behaviour |
|---|---|---|---|
| Task queue, worker loop (`worker/engine.py`) | `tasks.status` | `_recover_stale_tasks`, `_pick_pending_task`, `_process_task`, `_complete_task`, `_fail_task`, task timeout | several processes, crash at any statement, reads and writes in separate transactions |
| Task API (`services/task_service.py`) | `tasks`, `task_stages` | create, clone, cancel, `retry_task`, `retry_from_stage`, `retry_batch` | requests race with the worker and with each other |
| Linear pipeline (`_process_task`) | stage rows; in memory the group index, collected outputs, running coroutines | groups in order, parallel coroutines, resume, finalise | coroutines that outlive the run, resume after a crash or retry, timeouts |
| Gates (`_handle_gate*`, `_maybe_insert_dynamic_gate`, `services/gate_service.py`) | `human_gates` | create, reuse, poll, approve, reject, revise | stale approvals, reviews out of order, two gates of one stage, nobody answers |
| Interactive planning | status `planning` | pause, resume, reset of the plan stage | the loop has already gone past the stage |
| Conditions (`worker/conditions.py`) | `structured_outputs` in memory | skip or execute | the memory is lost with the run |
| Circuit breaker | token totals | check, trip | checked only at some places |
| Graph mode (`_process_task_graph`, `worker/graph.py`) | completed/failed/skipped sets, execution counts | ready set, redirects, loop limit | redirect loops, early returns |
| Stage executor (`worker/executor.py`, `stage_event_tracker.py`) | stage row, token totals, agent row, open log rows | attempts, fallback, restarts, evaluator loops, sandboxed execution, final commits | an agent and a runner shared by parallel stages, time limits, cancellation, commits one by one |
| Triggers, webhooks, cron (`trigger_service.py`, `api/webhooks/`, `scheduler.py`) | rules, events, tasks | match, filter, deduplicate, create, log, mark | concurrent deliveries, rules edited meanwhile, crash between create and mark |
| Log pipeline (`task_log_pipeline.py`) | bounded queue, consumer, number cache | number, enqueue, batch, flush, stop, restart | full queue, stop race, lost batches, a second consumer |
| Sandboxes (`sandbox.py`, `sandbox_boxlite.py`) | containers, semaphore, role cache | create, reuse, destroy | half-way failures, timeouts, a container that outlives its owner |
| Agent server (`sandbox/agent_server.py`) | warm-ups done, requests, their chats | warm up, chat, stream, hang up | client, handler and chat end in any order |
| Workspaces (`worktree.py`, engine) | directories, git registrations, branches, pull requests | mirror, worktree or clone, commit, push, PR, clean up, prune | a crash or timeout between two commands, directories of earlier runs |
| Agent runners, memory, skills, KPI, audit, WebSocket, frontend | files, rows | mostly create/read/update | see `components` in `PROJECT.json` |

Components talk through the database: the API and the reviewers write rows that
the worker polls, the worker writes rows that the API reads. Inside the worker, one
task is one coroutine under `asyncio.wait_for(WORKER_TASK_TIMEOUT)`, and parallel
stages are coroutines of their own that share the task's session, its sandbox, its
workspace and, when they are of one role, an agent runner. A stage in a sandbox posts
one HTTP request to the server in the container and reads its events. Every component
reports to the log pipeline, a queue within the process.

What makes each part correct: a task is processed by one worker at a time; a
cancelled task is left alone; every queued task is settled in the end; stages run
in order and only after what they depend on; a gate is passed only by an approval
of the output it stands behind; a task is completed only if its stages are, and
then its work is at the origin; an execution ends, books its tokens once, closes
what it opened in the log and gives its agent back; log rows of a task are numbered
uniquely and in order; permits of the sandbox pool and live boxes are accounted for,
and a stage works in a live box of its own task; an event is handled once by a rule
unless two handlings overlap.

## 2. Modules

| Module | Models | Remarks |
|---|---|---|
| `WorkQueue` | the abstract queue: queued tasks, owners | what `TaskQueue` implements |
| `TaskQueue` | worker loop and task API, one action per database statement | parameters for planning and faults |
| `TaskQueueProofs` | theorems about `TaskQueue` | TLAPS |
| `StagePipeline` | one task in linear mode: runs, gates, planning, retries, reviews, crashes | |
| `StagePipelineProofs` | theorems about `StagePipeline` | TLAPS |
| `StageGraph` | `get_ready_stages` and dependency inference as operators | `Cyclic` is the reference definition of a cycle |
| `StageGraphSearch` | the two depth-first searches of `graph.py`, a step at a time | |
| `GraphRun` | one run in graph mode and what `_process_task` does after it | uses `StageGraph` |
| `GraphRunProofs` | theorems about `GraphRun`, `StageGraph` and `StageGraphSearch` | TLAPS |
| `StageLedger` | what an execution promises: what is recorded of stages and booked | what `StageExecutor` implements |
| `StageExecutor` | the inside of one stage execution, several at a time | |
| `StageExecutorProofs` | theorems about `StageExecutor` | TLAPS |
| `TaskLogPipeline` | numbering, queue, consumer | |
| `TaskLogPipelineProofs` | theorems about `TaskLogPipeline` | TLAPS |
| `AgentServer` | the HTTP server in a container | |
| `Sandboxes` | the platform's side of the sandboxes, composed with `AgentServer` | |
| `SandboxesProofs` | theorems about `Sandboxes` and `AgentServer` | TLAPS |
| `Workspaces` | worktrees, clones, mirrors, push, pull request | |
| `WorkspacesProofs` | theorems about `Workspaces` | TLAPS |
| `TriggerFilters` | webhook bodies, event types, filter trees | recursive, for TLC only |
| `Triggers` | `process_event`, dry run, scheduler, edits of rules | takes the filters as constants |
| `TriggersProofs` | theorems about `Triggers` | TLAPS |
| `MC...` | constants for TLC | `MCTriggers` puts `Triggers` and `TriggerFilters` together |

**TaskQueue.** `status` is the column `tasks.status` (`"none"` before the row
exists), `pc`/`cur` say where each worker is and which task it has selected or
holds, `api` holds requests between their read and their write. `SelectOldest` and
`Claim` are the two statements of `_pick_pending_task`, `Begin` the unconditional
write of `running`, `CheckCancelled`/`CheckNotCancelled` the calls of
`_is_cancelled`, `CompleteTask` the unconditional `_complete_task`, `FailTask` the
conditional `_fail_task`, `TimeoutTask` the handler of `wait_for`. After the commit of
`_complete_task` the run still broadcasts, audits and notifies under `wait_for`
(`"announcing"`, ended by `AnnounceDone`). A crash and `stop_worker` are `Interrupt`; an
exception the poll loop swallows is `PollError`. Three overlaps are possible and nothing
excludes them: a worker starts while another one is processing, two retry requests for
one task are in flight, the task timeout strikes while a failed task is being cleaned up
and its next worker already has it. `disturbed` is history, which no step reads: the
tasks to which one of the three has happened.

**WorkQueue.** Its queue holds the pending tasks, its owners are the workers that hold a
task, both of the undisturbed tasks only; a task leaves it at the step that disturbs it.

**StagePipeline.** `row` is `task_stages` (status, retry count, completion time
and what the structured output says to conditions), `gates` is `human_gates` in
order of creation, `run` is everything `_process_task` keeps in memory and loses
in a crash. Time stamps are replaced by `clock`, the number of stage executions
that have ended, which orders completions and approvals. A coroutine that is still
running when its run returns moves to `run.left` (the session is still open and
writes its row) and then to `orphans` (only the `UPDATE` of `_fail_task` still
reaches the database). A timeout cancels the coroutine the run is awaiting and leaves its
siblings going on; where the run is busy with the output of a stage that is done, it
awaits none and leaves them all (`CutOff`). What a stage does, whether a push works or files were
changed, is a nondeterministic choice. `Doubtful` are the stages whose confidence may
fall below the threshold: such an output gets a dynamic gate (`InsertDynamicGate`), and
the run goes on to the gate of the template whatever becomes of it
(`DynamicGateDone`). Dynamic gates are not found by `_find_approved_gate`, as their
type differs.

**GraphRun.** The same for `_process_task_graph`: the sets it keeps, the rounds of
its loop, coroutines awaited in the order of the template, redirects, and
`CompleteTask` however the loop ended. A gate only passes or fails here. The graph
is one that `validate` accepts; any other fails the task before the loop. The stages in
`Added` came into the template after the task was created: the task may have no row for
them, and the loop counts such a stage as skipped. An exception out of a stage that runs
beside others fails that stage (`JoinRaises`); out of one that runs alone it ends the run,
as the timeout does.

**StageGraphSearch.** The graph is what `from_template_stages` makes of any template: lists with
known and unknown names, or what follows from order values. `validate` and
`get_all_stage_names` are called on it, one after the other and again. `path` is the recursion
(the calls of `has_cycle` or `visit` that have not returned), `todo` what the loop of each still
has to look at, `colour` the colours of `validate` or the visited set. Which stage of the
dictionary and which name of a list is next is left open, so that every order is covered.
`FindCycle` is the `return True` that goes up the whole path and leaves its stages gray. The
checks for names no stage has are left out: they compare names and decide nothing else.

**StageExecutor.** One record `ex[s]` per stage holds the local variables of
`execute_stage` or `execute_stage_sandboxed`, its `pc` the next await. `SendChat` to
`FinalizeUnfinished` are the attempts: an answer, a failure with back-off, the switch to
the runner without tools, and the `finally` clause. `Restart*` are forced convergence and
continuations, `AssessSelf`/`RunVerification`/`Improve` the two evaluator loops,
`SendToSandbox`/`SandboxReturns` the sandboxed path; `CommitStage`, `BookTokens` and
`ReleaseAgent` are the three commits of `_finalize_stage_success`, `MarkStageFailed` the
first of `mark_stage_failed`. `open` are the tracker's dictionaries of log rows not yet
closed, `logged` those rows that say running in the log. The stages are of one role, so
they share the agent row and, in the process, a runner: `HearsRunner` lets a stage hear
the tool events of the other one, also after its own fallback, since the handlers stay on
the runner it has left. `StartStage` takes a stage in any status, as the engine executes
completed stages again when a gate is rejected, and failed ones after a retry. A
cancellation in the `finally` clause (`CancelFinalize`) leaves the rows it has not come to
running; the execution then ends as `"cut"`. `redone` and `lost` are history: completions
that overwrote the tokens of an earlier one, and completions whose booking was interrupted.

**StageLedger.** The refinement mapping takes the rows of the stages and the number of booked
stages as they are and hides the rest: a stage is at work (`Doing`) from the start of its
execution to the commit that completes or fails it, and is booking from there to `book`. A crash
or a cancellation is an `Interrupt` of those it takes with it.

**TaskLogPipeline.** An emitter is a coroutine that numbers an event (`ReadMax` under the
lock, or the cache), puts its creation on the queue and later its update. Consumers take
batches and write each in one transaction. `EnsureStarted` is the `start()` every emit
begins with: after `stop()` it starts a second consumer while the first may still be at
work. `astray` remembers the rows for which something went wrong that the pipeline does
not promise to survive: a lost transaction, a cancelled emit, the end of the process, two
consumers with parts of one row.

**AgentServer and Sandboxes.** `AgentServer` is the handler of the streaming endpoint, with
the two warm-ups (each under a lock, checked again inside), the chat as a task of its own
and the response stream. `Sandboxes` EXTENDS it and adds the platform: `mk` is where a
caller (the set-up of a run, or a stage) is inside `backend.create`, `slots` the backend's
table, `cache` the role cache of `SandboxManager`, `permits` the semaphore, `live` the boxes
that really run. Removing a box cuts its requests off; a stage that stops waiting leaves its
request behind. Between the return of `create` and the first stage the set-up of a run
still writes logs (`"created"`); a timeout there leaves the box in the table. A stage left going
on by its run (`LeaveStages`) is one whose sibling returned nothing or was cut off by the
timeout; only an exception cancels them all. Both backends are covered (`backend` is chosen in `Init`).

**Workspaces.** One worker, which in turn runs tasks; `mode` chooses worktrees or clones.
Each git or gh command is an action, with what git does in the state it finds: a directory
that is there is reused, a registered path without a directory is refused, a push is refused
when it is not a fast-forward. A branch holds nothing, what it was created from, the work of
the task, or `"diverged"` work: a commit on the base while the origin has work of an earlier
run. `newest` follows the latest commit of a task: made, at the origin, or refused. `Prune` is `prune_all_stale` for one repository at the start
of the worker. Repositories in `Managed` have their mirror below the directory of the
worktrees, as `get_managed_repo_path` puts it there.

**Triggers and TriggerFilters.** A call of `process_event` reads the rules (`Query`), goes
through them one by one (`Filtered`, `Duplicate`, `CreateTask`) and logs (`LogTriggered`);
calls interleave between these steps. A call of a delivery is named by the
delivery, one of the scheduler by its scan, its rule and the number of surprises before it. Rows that the session of the scheduler has loaded are
not read again (`held`). `Fire` and `Mark` are the scheduler's turn of a due rule before and
after `process_event`. `prior`, `fires` and `forecast` are history for the properties.
`TriggerFilters` translates the webhook handlers' event types and bodies, the filter tree and
the templates.

## 3. Runs

| Run | Shows | States |
|---|---|---|
| `TaskQueueSafe` | 2 workers, 2 clients, 2 tasks, 2 faults of any kind, 2 retries: the inductive invariant with exclusive claims, cancelled-before-claim stays cancelled, and the refinement of `WorkQueue`, starts, retries and cleanups overlapping as they may | 581,462 |
| `TaskQueueLive` | one worker, crashes (no other faults), overlapping retries, timeouts at any point; plan review off: every queued task is settled | 26,389 |
| `PipelineGates` | a plan stage with a dynamic gate and a gate of its template, and a second stage; 3 gates, 3 reviews, a crash, a retry: every gate is passed with an approval of the latest output | 1,697,935 |
| `PipelineParallel` | one stage, then a conditional and a gated one in parallel; failures, leftovers, a crash, a retry, the circuit breaker: completion, group order, skipping, settling | 246,982 |
| `StageGraphs` | `validate` and `get_all_stage_names` on all graphs over three stages and an unknown name, and on all that three order values make: cycles, topological order, inference; deadlock is checked | 1,069,955 |
| `GraphSafe` | two parallel stages and a join with redirect, gate, condition, code check, stages without a row, exceptions, retries and crashes: dependencies are done, a loop that ends by itself has every stage done, every run ends | 15,456 |
| `GraphFailure` | **violated**: a failed graph run is reported as completed | 36 |
| `ExecutorStages` | two parallel stages of one role, 2 executions (of both or of one twice), 2 attempts, 1 continuation, 2 iterations of a self and an objective evaluator, sandbox or process, cancellation, a crash: log rows, tokens, agent, answers, that executions end, and the refinement of `StageLedger` | 113,848 |
| `LogPipeline` | two coroutines with two rows and one, queue and batch of 2, a failed transaction, a crash, stop and restart: numbers, order, closed rows, draining | 370,431 |
| `SandboxPool` | 2 tasks, 2 stages, 2 roles, 2 boxes, 2 permits, one fault, either backend: accounting, live boxes, no chat without a reader; deadlock is checked | 723,840 |
| `Workspaces` | 2 tasks, one repository of its own and one managed mirror, one task with a target branch, 1 failure, 2 crashes: delivery and leftovers | 3,202,336 |
| `Triggers` | 2 deliveries and the scheduler, up to 2 rules, 3 minutes, one edit, error or crash: duplicates, cron points, dry run | 359,869 |

Each property of a holding run has a mutant in `PROJECT.json`: an operator beside
the definition it replaces (marked `Mutant:`) with which TLC finds the property
violated.

*Bounds.* Two workers and two clients are enough for every pair of steps to
interleave; two tasks for a worker to prefer one to the other. In the pipeline a
re-execution, a retry and a crash each happen at least once, in any order; `MaxClock`
limits stage executions, `MaxGates`, `MaxReviews`, `MaxFaults` and `MaxRetries` the
rest. In the executor two stages are enough for a shared runner and agent, two attempts for
a fallback in the last one and in an earlier one, and the loop bounds for each loop to be
entered, repeated and left by its limit. In the log pipeline one emitter writes two rows, so
that order can be violated, and the queue of two can be full with a creation and an update of
different rows. Three stages make every cycle from a loop on one stage to one through all, with
stages that only lead to it or away from it, and a listing of three with a fourth name. Two boxes are as many as two permits let live
as long as nothing has failed; tasks, stages, roles and boxes are symmetric.
Two crashes let a run find what pruning left of an earlier one. Three minutes and a window of
two let a key be seen within, at and beyond its window; cron rules have two points. The bounds
make the models stop, so deadlock is not checked where they apply;
`SandboxPool` and `StageGraphs` check it.

*Conditions on what holds.* `SafetyInv` (with exclusive claims as a conjunct) and `QueueSpec`
speak of the tasks that are not `disturbed`: a start, a second retry or a late timeout that
overlaps with the work on a task costs the promise for that task and for no other. Nothing is
assumed of the constants. `CancelBeforeClaimSticks` holds of every task, but says nothing of a
cancel after the claim. `NoOpenRows` leaves out executions that were cancelled while the
`finally` clause was closing the rows (`"cut"`), `BookedOnce` counts what a second execution
overwrites and what an interrupted one loses. `CompletedMeansAllDone` and
`EarlierGroupsDone` hold with plan review off, the default (`PlanReviewOff`): a plan turned down
with a comment resets its stage after the loop has passed it. `SkippedForAReason` holds if
conditions look at stages without a gate that are neither code stages nor the plan stage
(`SourcesStand`), `DependenciesDone` and `LoopEndsWithAllDone` if no failure redirects to a conditional stage
(`RedirectsAreUnconditional`). Each of these restrictions is on the template, and TLC finds a
counterexample when it is dropped (section 5).
`Accounted` speaks of histories without what the code knows not to clean up after (`faults`:
cancelled creates, lost containers, failed removals, crashes), `StageBoxUp` of those for BoxLite
and of all for Docker. `WorkDelivered` and `NothingLeft` exclude failing commands: a push that
fails completes the task all the same. A push that git refuses without any failure, because a
crash cost the task its branch and the new one has diverged from the origin, completes it too:
`WorkDelivered` names this case (`MadeAnew`) and denies every other. `StreamRowsClosed` leaves out the row of the chat
itself, and cancelled executions in a sandbox: the code closes neither.
`DuplicatesOverlap` allows the duplicates of handlings that overlap, `FiresOncePerPoint` the
second firing after a scan that was cut short, `ForecastHolds` compares with deliveries that
belong to no project, as the dry run knows none.

*Fairness.* In `TaskQueue`: a started worker polls, claims and begins; a run is cut
off by `wait_for` at `WORKER_TASK_TIMEOUT` (so the timeout is fair, the ends a run
reaches by itself are not); cleanups end; a cancel request that was read is written;
a stopped worker is started again by the deployment. In `StagePipeline`: a pending
task is taken, the timeout strikes, its handler and the cleanup end; nothing is
assumed of stages, reviewers or users. In `GraphRun`: the run's own steps are taken,
stages end because the executor bounds them with time limits. In `StageExecutor`: weak
fairness of each execution's own steps, as every chat is under `WORKER_STAGE_TIMEOUT`; nothing
about tool events, cancellation or crashes. In `TaskLogPipeline`: the event loop runs what can
run, that is the consumer and emits that have begun; nothing about who emits, cancels or stops.

## 4. Proofs

Checked by TLAPS, for every value of the constants that meets the named assumptions. Every
invariant that a run checks has its theorem, and so have the action property and both refinements.
In each module the invariant of the run alone is not inductive; what has to be known besides is
stated as an invariant of its own, which TLC checked before it was proved, and the proof has one
step or lemma per action. The type invariants of `GraphRun`, `StageGraphSearch` and `StageExecutor`
are proved and in no run: these runs spend their time on other properties.

`TaskQueueProofs`:

- `TypeCorrect`: `Spec => []TypeOK`.
- `SafetyCorrect`: `SafetyInv` is an invariant. `ClaimExclusive` alone is not inductive: a
  worker could claim a task that is pending and held at the same time. `SafetyInv` adds, each
  for undisturbed tasks, that a held task's row is claimed, running, planning or cancelled, or
  completed while that is announced (so it can be neither selected nor retried), that a task a
  retry request has read rests until the request writes, and that there is one such request
  per task. No overlap is assumed away; a step that makes one disturbs its task.
- `ClaimsAreExclusive` follows: a task that two workers process has been disturbed.
- `CancelledBeforeClaim`: the action property `CancelBeforeClaimSticks`, from types alone.
- `QueueRefinement`: `TaskQueue` implements `WorkQueue`. A task's owner is the worker that
  holds it, the queue is the set of pending rows, both without the disturbed tasks; each
  action maps to one abstract step or to none. The step lemmas use `SafetyInv` before and after the step, so that `Owner` picks
  the only holder.

`TaskLogPipelineProofs`:

- `TypeCorrect`: among others, neither queue nor batch outgrows its bound.
- `NumbersCorrect`, from which `NumbersUnique` (`SeqUnique`) and `NumbersFollowEmission`
  (`SeqFollowsEmission`) follow. The two properties speak of rows in the log and are not
  inductive: a row may get there long after it was numbered. A row is *alive* while it is in
  the log, in the queue, in a batch or with an emitter about to put it. `SeqInv` says that
  alive rows have different numbers, in the order of emission; that a cached number bounds
  those of the alive rows of its task; that while a task has no cached number only rows in
  the log are alive, so the number read from the database is a bound as well; that an
  emitter which has read it holds the lock; and that rows to come are not alive. A crash
  empties queue and batches together with the cache, which keeps the third part true.

- `RowsGetClosed` (`RowsClosed`). `RowInv` follows the operations of a row: those in the queue and
  the batches together are in order, the creation at most once and before the update, so that an
  update that is on its way finds its row there or its creation ahead; otherwise the row is astray.

`StageExecutorProofs`, for a finite set of stages (`StagesAreFinite`, as their tokens are summed)
and any bounds: `TypeCorrect`, `RowsAreClosed` (`NoOpenRows`), `StreamIsClosed`
(`StreamRowsClosed`), `CompletionHasAnswer` (`CompletedOnAnswer`), `AgentIsReturned`
(`AgentIdleAtRest`) and `TokensAreBookedOnce` (`BookedOnce`). The invariant `ExecInv` has three parts
besides the types.

- `Local` speaks of one execution: how far its counters may be at each await, that it has an
  answer from `extend` on, and how its rows in the log relate to those the tracker still has open.
  In the process they are the same set, which is empty outside the attempts and restarts; in a
  sandbox only the request's own row is in the log without being open.
- `AgentHeld`: an agent row that says running has an execution under way that will write idle, or
  was left by one that was cancelled (`AgentIdleAtRest` speaks of neither).
- `Tokens`: the equation of `BookedOnce`, and that stages at `book` have their tokens recorded. A completion of a stage that has tokens recorded
  adds to `redone`, one of any other to `Recorded`; the booking moves one from `Booking` to `booked`.

Most actions change one execution and nothing in the database. They are `Quiet`: one lemma says
that a quiet step keeps the invariant, one lemma for each action that it is quiet. The six that
write the database and the crash have a lemma each.

`LedgerRefinement`: `StageExecutor` implements `StageLedger`. Each action maps to one abstract step
or to none; the mapping needs `ExecInv` and `WorkIsMarked`, by which the row of a stage that is
worked on says running. So whatever attempts, restarts and loops do, a stage is completed or failed
only by an execution that has marked it running, and each completion has its tokens booked once,
before the stage is worked on again.

`ExecutionsDescend` is the half of `ExecutionEnds` that needs no fairness. The `Height` of an execution is
the phase it is in, then the attempts, restarts or iterations that are left, then the await in the
body of that loop. The lexicographic order of heights is well-founded; each step an execution takes
by itself descends, and nothing that events, other stages, a cancellation or a crash do takes it back:
only `StartStage` does.

`StagePipelineProofs`, for any template and any number of crashes, retries and reviews:

- `TypeCorrect`, together with where in its group a run is and which coroutines it has.
- `GatesAreRespected` (`GateDiscipline`, without a condition on the template). `GateInv` adds that
  the gate a run waits at is one of its stage and can only be approved for the latest output
  (`Waiting`), that completions lie in the past and approvals are dated when they are given
  (`Times`), and that the discipline already holds in the group of the run for stages it has dealt
  with (`Passed`). One lemma says that gates only grow, another that an approval found is not older
  than the output.
- `CompletedTasksAreDone` (`CompletedMeansAllDone`) and `GroupsInOrder` (`EarlierGroupsDone`) from
  `DoneInv`: what lies behind the run is done, and in its group every stage is done, executing or
  has just failed. `CompletedTasksAreSettled` is what remains with plan review on.
- `SkipsHaveReasons` (`SkippedForAReason`): what the run remembers of a stage is still what its row
  says (`Remembered`), which needs `SourcesStand`.

`GraphRunProofs`, for any valid graph (`GraphIsValid`: no cycle):

- `TypeCorrect`, and `DependenciesAreDone` (`DependenciesDone`) from `DepInv`, which says that
  memory and database agree on completed and skipped stages, that a stage which is awaited is
  executing, has failed or has completed, and that what executes had its dependencies in memory.
- `LoopEndsWhenDone` (`LoopEndsWithAllDone`): if nothing is ready and no failed stage is left, the
  stages that are not done would each wait for another of them, so there is none.
- `RunsDescend`, the half of `RunEnds` that needs no fairness, as for executions: loading takes a stage less
  each time, the loop has a round less each time, and in a round each stage ends and is awaited once.
  A redirect undoes a completion but not a round, which is why runs end however failures redirect.
- `InferredGroupsStartInOrder` and `InferredGraphsAreAcyclic`: dependency inference makes groups start in
  order and never makes a cycle, for any orders; `GroupsOfGraphsAreLinear`
  (`InferredGroupsAreLinear`) puts the former into `SearchSpec`.
- `CyclesAreFound` (`CycleFoundIffCyclic`) and `NamesAreInTopologicalOrder`
  (`NamesInTopologicalOrder`), for any finite set of stages, any lists and any order of them.
  `PathIsChain`: the path is a chain of dependencies without repetition, and a gray stage is on it
  unless a cycle was found. `ValidateInv`: a found cycle is one (a gray dependency closes a part of the
  path); until then what is black leads to black stages only and these have no cycle, so at the
  end, when all stages are black, there is none. `NamesInv`: what is listed is what
  has been left, and in a graph without a cycle all that a listed name depends on is listed before
  it, as a name that is met on the path would close a cycle.

`SandboxesProofs`: `SandboxInv` says who holds a box (the table, a caller in the middle of a
create, a run that removes it), that no box is held twice (`Apart`), that a box which is held is
alive and of its holder's task (`Owned`), that cache, runs and stages know only boxes in the table
(`InTable`), and that permits and holders add up (`Balance`: to the limit without faults, to no
more than it with them). From it `TypeCorrect`, `PoolIsBounded` (no permit is given back twice,
whatever fails), `EverythingIsAccounted` (`Accounted`), `StagesHaveTheirBox` (`StageBoxUp`), and,
from the part about requests, `ChatsHaveReaders` (`ChatHasReader` of `AgentServer`).

`WorkspacesProofs`: `WorkIsDelivered` (`WorkDelivered`) and `NothingIsLeft` (`NothingLeft`) from an
invariant of each task: `Delivers` says how far the work has come at each step of a run, `Follows`
and `Settled` how the branch, the origin and the newest commit relate, and when a commit can only have
diverged, `Tidies`
that a run without a path has no directory and one with a path still removes it, `SetsUp` that
registrations are in mirrors that exist. `OneRun` makes the steps of a run touch one task only.

`TriggersProofs`: `DuplicatesNeedOverlap` (`DuplicatesOverlap`) rests on `Names`, by which a name of
a call is never used again, so that the rows of a call lead to its one task (`RowsOfTasks`);
`PointsFireOnce` (`FiresOncePerPoint`) on `ScanInv`, by which the last trigger of a rule is not
before any scan that got past it and what is due has a point after it; `ForecastsHold`
(`ForecastHolds`) on `Foreseen`, by which a call has dealt with the first of the matching rules just
as the dry run said.

*What the proofs changed.* An attempt that failed showed four slips of the models, now corrected:
a scan repeated after a crash in the same minute gave two calls one name (`Fire`); CASE expressions
with overlapping arms, of which TLC takes the first and TLA+ promises none (`Verdict`, `Hook`,
`Added`); a bound of no faults, under which `Ready` would overwrite an entry without counting it
(`SandboxConstants`); rows numbered from 0, which no coroutine would write (`RowsAreNumbered`). It
also showed the behaviour of the code behind `RedirectsAreUnconditional` and `SourcesStand`
(section 5).

*Only model-checked.* Liveness (`EventuallySettled` of both models, `RunEnds`, `ExecutionEnds`,
`Drained`): that a fair step is taken needs ENABLED, which is out of the prover's reach. For `RunEnds` and
`ExecutionEnds` the well-founded descent is proved, and what TLC alone shows is that a fair step is
enabled until the end. The filters of `TriggerFilters` are recursive operators, which cost the
prover its SMT backend.

## 5. Where the code departs from its documents

`GraphFailure` is a run of its own (see `findings` in `PROJECT.json`). The following are in the
models too; each was seen as a counterexample or while translating.

- *Overlapping starts.* `_recover_stale_tasks` (engine.py:244) puts every running or claimed row
  back to pending, also those a live worker is processing, and the next claim hands them out a
  second time; engine.py:352 says of the claim "Uses a two-step approach to prevent multiple
  workers from picking the same task". So does a second retry request that read the row before
  the first one wrote it, and a timeout during the cleanup after a failure fails the task under
  its next worker. These are the steps that make a task `disturbed`.
- *Timeout after the completion.* `_complete_task` commits completed (engine.py:2799) and then
  broadcasts, audits and notifies under `wait_for`; a timeout there makes the task failed, with
  its work delivered, and a retry runs it again.
- *Errors in the poll loop.* An exception out of `_process_task` is logged (engine.py:314); the row
  stays claimed or running without an owner until a worker is started again.
- *Lost cancel.* `_process_task` writes running (engine.py:1132) and `_complete_task` completed
  without looking at the row, so a cancel that was answered with "cancelled" after the claim is
  overwritten. A cancel request that read the row before the task completed, on the other hand,
  turns a completed task into a cancelled one.
- *Conditions after a resume.* The branch for groups that are already completed (engine.py:1241)
  fills `prior_outputs` but not `structured_outputs`, so after a crash or retry a condition takes
  the default for a source that has run and said no; conditions.py:58 gives the default only for
  "Stage hasn't executed yet".
- *Outdated sources.* Within a run the output a condition looks at is the one collected when its
  stage was passed: a re-execution for a gate and a plan turned down leave it as it was, although
  the row says otherwise. And a code stage that fails its check for changes in a resumed run is
  failed after another stage was skipped for what it had said.
- *Plan turned down with a comment.* The plan stage is reset to pending (engine.py:2172) but the loop
  goes on behind it; the stage stays pending and the task completes.
- *Redirect to a skipped stage.* A redirect sets the row of its target to pending and discards it
  from the completed and failed stages (engine.py:1606), not from the skipped ones: a conditional
  stage that was skipped is not executed again, and still counts as done for its dependents.
- *Tokens of repeated executions.* A stage that is executed again for a rejected gate adds its tokens
  to the task's a second time (executor.py:581) while its own count is overwritten
  (executor.py:567); the circuit breaker sees both executions, the stage shows one, and a retry
  (`_recalculate_task_usage`) brings the task's count down to what the stages show. `redone` is the difference.
- *Rows cut off.* `finalize_unfinished` is awaited in the `finally` clause of `execute_stage`
  (executor.py:844) without a shield; a cancellation at one of its awaits leaves the rows it has not
  come to running in the log for good (`CancelFinalize`).
- *Stages without a row.* A stage the template got after the task was created counts as skipped in graph
  mode (engine.py:1569), so what depends on it is executed.
- *Retry limit.* A stage that has reached its limit is kept failed (task_service.py:334) but the
  task is queued all the same, and the run executes every stage that is not completed;
  docs/specs/feature-003 asks that the limit be respected.
- *Orphans.* When an awaited parallel stage returns nothing the run returns and its siblings go on
  (engine.py:1399); one that fails later marks the task failed, although it may have been retried
  and completed since. The branch for exceptions (engine.py:1390) does cancel them.
- *Dynamic gates.* The result of `_maybe_insert_dynamic_gate` is ignored (engine.py:1330): a
  rejected or cancelled dynamic gate stops nothing.
- *Breaker and graph gates.* The rest of a partly completed parallel group is started without a
  look at the circuit breaker; graph mode asks no gates for stages that are ready together; a
  redirect exempts its target from `max_executions`.
- *Chat row of a sandboxed stage.* The row "chat sent" (executor.py:1237) is created in status
  running and nobody keeps its id; it never changes.
- *Second consumer of the log.* `stop()` followed by an emit starts a second consumer while the
  first one ends; an update can be written before the creation of its row and is then lost
  (`astray`).
- *Cron rules.* A due rule calls `process_event`, which hits the first matching cron rule in order
  of creation, due or not (scheduler.py:77); the due one is marked as triggered
  (tests/test_cron_trigger.py:310: "多条规则各自独立判断是否到期", each rule is judged on its own).
- *GitLab labels.* `**data` (gitlab.py:52) replaces the list of label names by the raw labels,
  which have a title and no name, so that a filter on labels never matches.
- *Dry run.* `simulate_event` has no project, so it considers rules that a delivery for a project
  would not. A window of 0 hours means 24.
- *Pruning.* `prune_all_stale` (worktree.py:512) "removes orphaned worktree directories" of one
  repository, but every directory that another repository has registered, and the directory of the
  managed mirrors, count as orphaned. Work that was not pushed is lost; the next run of the task
  notices it at the check for changes and fails, and a retry keeps the completed code stage, so
  that it fails again.
- *Refused push.* A crash after the push and before the completion, with a managed mirror: pruning
  removes the mirror with the branch, the next run starts a new one on the base, the check for
  changes fails the code stage, and after a retry the new commit does not continue the pushed
  branch. `git push` (worktree.py:600) refuses it, `_finalize_task_resources` goes on and the task
  completes; the origin has the work of the earlier run only (`MadeAnew`).
- *Leftovers.* A task timeout during a clean-up or while a sandbox is created leaves directories,
  containers and permits behind (`failures`, `faults`). One just after the creation of a sandbox, before
  `_setup_sandbox` has returned, leaves a box in the table that its run does not clean up: it holds
  its permit until the clean-up of a later run of the task, or the shutdown, destroys it. A stage
  that goes on after its run and is creating a box when the process stops loses that box.

## 6. Not modelled, and the plan

Not modelled: text (prompts, memory, compression, contracts), credentials, broadcasts,
reporting, the user interface, rows that are created, read, updated and deleted without any
interaction (projects, templates, skills, integrations), and the copies of engine parts that only
tests import (`gate_orchestrator.py`, `workspace_manager.py`, `stage_tracker.py`,
`sandbox_orchestrator.py`). The older endpoint of the agent server, the tool policy, and the inside
of an agent runner are abstracted away; parallel stages of a role share a runner, and the model
includes what the executor sees of that, not how the runner's own conversation mixes. Dynamic
routing (`_route_decision`) is missing. Further details left out: a timeout between two commits while a
group or round is being launched; stages removed from a template that a task still has; failing
commits in `execute_stage` other than those named; the numbering of the turns a shared runner emits for
two stages at once (taken to be distinct). Whether an answer is cut off or convergence is forced is chosen when the
attempts are over. `StageLedger` is what `StagePipeline` takes for granted of its
one-step executions; that the pipeline composes with the executor in place of them is not shown.

Next, in this order:

1. `StagePipeline` with `StageExecutor` in place of its one-step executions.
2. Two workers in `Workspaces`, together with the overlapping starts of `TaskQueue`.
3. Dynamic routing in `StagePipeline`.
