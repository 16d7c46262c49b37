---------------------------- MODULE StageExecutor ----------------------------
(***************************************************************************)
(* One execution of a stage (worker/executor.py): the chat of the runner   *)
(* with its retries and its text-only fallback, the restarts of a          *)
(* truncated answer, the evaluator loops, the commits that end it, the log *)
(* rows the StageEventTracker opens on the way (worker/stage_event_tracker *)
(* .py), and the row of the agent, which all stages of a role share.  A    *)
(* stage runs in a sandbox if there is one for it, else in the process, on *)
(* a runner of the pool (worker/agents.py) that it shares with the other   *)
(* stages of its role.                                                     *)
(*                                                                         *)
(* The tokens an execution uses are counted as one unit.  Answers are      *)
(* abstracted to whether they hold the "Max turns reached" mark.  The      *)
(* settings of the agent do not change, so the pool never replaces a       *)
(* runner.  The engine may execute a stage again whatever has become of it *)
(* (a rejected gate, a retry, a redirect, a resumed run), but not before   *)
(* its previous execution has ended.                                       *)
(***************************************************************************)
EXTENDS Integers, FiniteSets

CONSTANTS Stages,            \* stages of one agent role, run side by side
          Evaluators,        \* the evaluators the template may give each stage
          MaxRetries,        \* WORKER_STAGE_MAX_RETRIES
          MaxContinuations,  \* _MAX_CONTINUATIONS
          MaxIterations,     \* of an evaluator loop
          MaxStarts,         \* bound of the model: executions that are started
          MaxCrashes         \* bound of the model

ASSUME StagesAreFinite == IsFiniteSet(Stages)
ASSUME EvaluatorKinds == Evaluators \in [Stages -> SUBSET {"none", "self", "objective"}]
ASSUME BoundsAreNat == {MaxRetries, MaxContinuations, MaxIterations, MaxStarts, MaxCrashes}
                         \subseteq Nat

VARIABLES row,      \* task_stages.status
          used,     \* task_stages.tokens_used
          booked,   \* tasks.total_tokens
          agent,    \* agents.status of the role
          ex,       \* what execute_stage holds in memory, per stage
          open,     \* rows in _chat_runs, _turn_runs and _tool_runs
          logged,   \* rows of this execution whose status in the log is running
          starts,   \* executions started so far
          crashes,
          redone,   \* history: completions that overwrote the tokens of an earlier one
          lost      \* history: completions interrupted before their tokens were booked

history == <<redone, lost>>
vars == <<row, used, booked, agent, ex, open, logged, starts, crashes, history>>

Rows == {"chat", "turn", "tool"} \X (0 .. MaxRetries + 1)   \* kind, attempt (0: a restart)
InTry == {"send", "chat", "backoff"}
Ends == {"done", "failed", "cancelled", "cut"}   \* cut: cancelled in the finally clause
PCs == InTry \cup Ends \cup
  {"idle", "claim", "finalize", "extend", "restart", "judge", "improve", "stream", "sandbox",
   "commit", "book", "release", "fail", "failAgent"}

Fresh == [pc |-> "claim", boxed |-> FALSE, attempt |-> 1, runner |-> "tools",   \* or "text", of get_agent_text_only
          answered |-> FALSE, raised |-> "no", truncated |-> FALSE, force |-> "unused",
          restarts |-> 0, evaluator |-> "none", iter |-> 1]

Execution == [pc : PCs, boxed : BOOLEAN, attempt : 1 .. MaxRetries + 1, runner : {"tools", "text"},
              answered : BOOLEAN, raised : {"no", "error", "cancelled"}, truncated : BOOLEAN,
              force : {"unused", "wanted", "used"}, restarts : 0 .. MaxContinuations + 1,
              evaluator : {"none", "self", "objective"}, iter : Nat \ {0}]

TypeOK ==
  /\ row \in [Stages -> {"pending", "running", "completed", "failed"}]
  /\ used \in [Stages -> 0 .. 1] /\ booked \in Nat
  /\ agent \in {"idle", "running"}
  /\ ex \in [Stages -> Execution]
  /\ open \in [Stages -> SUBSET Rows] /\ logged \in [Stages -> SUBSET Rows]
  /\ starts \in 0 .. MaxStarts /\ crashes \in 0 .. MaxCrashes
  /\ redone \in Nat /\ lost \in Nat

Init ==
  /\ row = [s \in Stages |-> "pending"]
  /\ used = [s \in Stages |-> 0] /\ booked = 0
  /\ agent = "idle"
  /\ ex = [s \in Stages |-> [Fresh EXCEPT !.pc = "idle"]]
  /\ open = [s \in Stages |-> {}] /\ logged = [s \in Stages |-> {}]
  /\ starts = 0 /\ crashes = 0
  /\ redone = 0 /\ lost = 0

-----------------------------------------------------------------------------
At(s, pc) == ex[s].pc = pc
Become(s, e) == ex' = [ex EXCEPT ![s] = e]
Go(s, pc) == Become(s, [ex[s] EXCEPT !.pc = pc])
\* On to pc with the local variables in e; the others are out of scope.
GoWith(s, e, pc) ==
  Become(s, [e EXCEPT !.pc = pc, !.boxed = ex[s].boxed, !.answered = ex[s].answered])
Open(s, r) == /\ open' = [open EXCEPT ![s] = @ \cup {r}]
              /\ logged' = [logged EXCEPT ![s] = @ \cup {r}]
Close(s, r) == /\ open' = [open EXCEPT ![s] = @ \ r]
               /\ logged' = [logged EXCEPT ![s] = @ \ (r \cap open[s])]
Database == <<row, used, booked, agent>>
Log == <<open, logged>>
Counts == <<starts, crashes, history>>

\* A stage is marked running, whatever is recorded of it.
StartStage(s) ==
  /\ ex[s].pc \in Ends \cup {"idle"} /\ starts < MaxStarts
  /\ starts' = starts + 1
  /\ row' = [row EXCEPT ![s] = "running"]
  /\ \/ Become(s, [Fresh EXCEPT !.boxed = TRUE])
     \/ \E e \in Evaluators[s] : Become(s, [Fresh EXCEPT !.evaluator = e])
  /\ open' = [open EXCEPT ![s] = {}] /\ logged' = [logged EXCEPT ![s] = {}]
  /\ UNCHANGED <<used, booked, agent, crashes, history>>

\* The runner is taken from the pool, also when another stage is using it; the
\* prompt, the runner or the row of the agent may fail to come.
ClaimAgent(s) ==
  /\ At(s, "claim")
  /\ \/ agent' = "running" /\ Go(s, IF ex[s].boxed THEN "sandbox" ELSE "send")
     \/ agent' \in {agent, "running"} /\ Go(s, "fail")
  /\ UNCHANGED <<row, used, booked, Log, Counts>>

-----------------------------------------------------------------------------
(* The attempts of execute_stage.                                          *)

MainChat(s) == <<"chat", ex[s].attempt>>

SendChat(s) ==
  /\ At(s, "send")
  /\ Open(s, MainChat(s))
  /\ Go(s, "chat")
  /\ UNCHANGED <<Database, Counts>>

\* The pool has one runner per role and task, and a second one without tools.
\* The handlers stay on the first one after the fallback to the second.
Instrumented(s) == {"tools", ex[s].runner}
Chats(o) == ex[o].pc \in {"chat", "restart", "judge", "improve"}
\* A stage also hears of the tool calls that another one makes with a runner
\* they share (after its attempts it may be on either one).
HearsRunner(s, kind) ==
  \/ ex[s].pc = "chat"
  \/ /\ kind = "tool" /\ ex[s].pc \in InTry
     /\ \E o \in Stages \ {s} : Chats(o) /\ ex[o].runner \in Instrumented(s)
\* _handle_sandbox_event keeps rows of its own for the turns and tool calls.
HearsStream(s) == ex[s].pc = "stream"
Hears(s, kind) == HearsRunner(s, kind) \/ HearsStream(s)
Call(s, kind) == <<kind, ex[s].attempt>>

EventStarts(s, kind) ==
  /\ Hears(s, kind) /\ Call(s, kind) \notin open[s]
  /\ Open(s, Call(s, kind))
  /\ UNCHANGED <<Database, ex, Counts>>

TurnEnds(s) ==
  /\ Hears(s, "turn") /\ Call(s, "turn") \in open[s]
  /\ Close(s, {Call(s, "turn")})
  /\ UNCHANGED <<Database, ex, Counts>>

ToolEnds(s) ==
  /\ Hears(s, "tool") /\ Call(s, "tool") \in open[s]
  /\ Close(s, {Call(s, "tool")})
  /\ UNCHANGED <<Database, ex, Counts>>

\* The attempts are over, with or without an answer.
ForEvaluator(s) == [Fresh EXCEPT !.evaluator = ex[s].evaluator]
Over(s, got, raised) ==
  Become(s, [ForEvaluator(s) EXCEPT !.answered = got, !.raised = raised, !.pc = "finalize"])

ChatAnswers(s) ==
  /\ At(s, "chat")
  /\ Close(s, {MainChat(s)})
  /\ Over(s, TRUE, "no")
  /\ UNCHANGED <<Database, Counts>>

LastAttempt(s) == ex[s].attempt = MaxRetries + 1

\* A timeout, or an error that leaves no other way.
ChatFails(s) ==
  /\ At(s, "chat")
  /\ Close(s, {MainChat(s)})
  /\ IF LastAttempt(s) THEN Over(s, FALSE, "error") ELSE Go(s, "backoff")
  /\ UNCHANGED <<Database, Counts>>

\* A tool-call error: the runner without tools takes over in the next attempt,
\* if there is one.
FallBackToText(s) ==
  /\ At(s, "chat") /\ ex[s].runner = "tools"
  /\ Close(s, {MainChat(s)})
  /\ IF LastAttempt(s) THEN Over(s, FALSE, "no")
     ELSE Become(s, [ex[s] EXCEPT !.runner = "text", !.attempt = @ + 1, !.pc = "send"])
  /\ UNCHANGED <<Database, Counts>>

Retry(s) ==
  /\ At(s, "backoff")
  /\ Become(s, [ex[s] EXCEPT !.attempt = @ + 1, !.pc = "send"])
  /\ UNCHANGED <<Database, Log, Counts>>

\* Mutant: the check for a missing response is lost.
AfterAttemptsUnchecked(s) == IF ex[s].raised = "cancelled" THEN "cancelled"
                             ELSE IF ex[s].raised = "error" THEN "fail" ELSE "extend"

\* The finally clause: close what is still open, then fail without an answer.
AfterAttempts(s) == IF ex[s].raised = "cancelled" THEN "cancelled"
                    ELSE IF ex[s].raised = "error" \/ ~ex[s].answered THEN "fail"
                    ELSE "extend"

\* The answer may hold the mark of a cut-off one, and the tool calls on the way
\* to it may have been enough for should_force_convergence.
Answer(s, t, f) == [ForEvaluator(s) EXCEPT !.truncated = t, !.force = f]
Afterwards(s) ==
  IF AfterAttempts(s) = "extend"
  THEN \E t \in BOOLEAN, f \in {"unused", "wanted"} : GoWith(s, Answer(s, t, f), "extend")
  ELSE GoWith(s, Fresh, AfterAttempts(s))

\* Mutant: the rows of tools are not closed.
FinalizeAllButTools(s) ==
  /\ At(s, "finalize")
  /\ Close(s, {r \in open[s] : r[1] # "tool"})
  /\ Afterwards(s)
  /\ UNCHANGED <<Database, Counts>>

FinalizeUnfinished(s) ==
  /\ At(s, "finalize")
  /\ Close(s, open[s])
  /\ Afterwards(s)
  /\ UNCHANGED <<Database, Counts>>

-----------------------------------------------------------------------------
(* Restarts: once to force convergence, then while the answer is cut off.  *)

RestartRow == <<"chat", 0>>
MoreRestarts(s) == ex[s].truncated /\ ex[s].restarts < MaxContinuations

Restart(s) ==
  /\ At(s, "extend") /\ (ex[s].force = "wanted" \/ MoreRestarts(s))
  /\ Open(s, RestartRow)
  /\ Become(s, [ex[s] EXCEPT !.restarts = @ + 1, !.pc = "restart",
                             !.force = IF @ = "wanted" THEN "used" ELSE @])
  /\ UNCHANGED <<Database, Counts>>

\* Mutant: only restarts that come back with an answer count.
RestartReturnsUncounted(s) ==
  /\ At(s, "restart")
  /\ Close(s, {RestartRow})
  /\ \/ \E t \in BOOLEAN : Become(s, [ex[s] EXCEPT !.truncated = t, !.pc = "extend"])
     \/ Become(s, [ex[s] EXCEPT !.restarts = @ - 1, !.pc = "extend"])
  /\ UNCHANGED <<Database, Counts>>

\* A failed restart leaves the answer, and its mark, as it was.
RestartReturns(s) ==
  /\ At(s, "restart")
  /\ Close(s, {RestartRow})
  /\ \E t \in BOOLEAN \cup {ex[s].truncated} :
       Become(s, [ex[s] EXCEPT !.truncated = t, !.pc = "extend"])
  /\ UNCHANGED <<Database, Counts>>

NoRestart(s) ==
  /\ At(s, "extend") /\ ex[s].force # "wanted" /\ ~MoreRestarts(s)
  /\ GoWith(s, ForEvaluator(s), IF ex[s].evaluator = "none" THEN "commit" ELSE "judge")
  /\ UNCHANGED <<Database, Log, Counts>>

-----------------------------------------------------------------------------
(* The evaluator loops; both end with whatever answer they have.           *)

LastIteration(s) == ex[s].iter >= MaxIterations

\* _run_evaluator_loop_inner asks for a self-assessment: an exception, an
\* answer that does not parse, or enough confidence end the loop.
AssessSelf(s) ==
  /\ At(s, "judge") /\ ex[s].evaluator = "self"
  /\ Go(s, "commit") \/ Go(s, "improve")
  /\ UNCHANGED <<Database, Log, Counts>>

\* _run_objective_loop runs the commands; no fix is asked for when they pass,
\* over budget, or in the last iteration.
RunVerification(s) ==
  /\ At(s, "judge") /\ ex[s].evaluator = "objective"
  /\ Go(s, "commit") \/ (~LastIteration(s) /\ Go(s, "improve"))
  /\ UNCHANGED <<Database, Log, Counts>>

Improve(s) ==
  /\ At(s, "improve")
  /\ \/ Go(s, "commit")
     \/ ~LastIteration(s) /\ Become(s, [ex[s] EXCEPT !.iter = @ + 1, !.pc = "judge"])
  /\ UNCHANGED <<Database, Log, Counts>>

-----------------------------------------------------------------------------
(* execute_stage_sandboxed: one request, whose events arrive as a stream.  *)

\* The row of the request is written, but nobody keeps its id.
SendToSandbox(s) ==
  /\ At(s, "sandbox")
  /\ logged' = [logged EXCEPT ![s] = @ \cup {MainChat(s)}]
  /\ Go(s, "stream")
  /\ UNCHANGED <<Database, open, Counts>>

\* Mutant: calls still running when the stream ends are forgotten.
SandboxReturnsForgetting(s) ==
  /\ At(s, "stream")
  /\ \/ Become(s, [ex[s] EXCEPT !.answered = TRUE, !.pc = "commit"])
     \/ Become(s, [ex[s] EXCEPT !.raised = "error", !.pc = "fail"])
  /\ UNCHANGED <<Database, Log, Counts>>

\* What the stream left open is closed, then the result is looked at.
SandboxReturns(s) ==
  /\ At(s, "stream")
  /\ Close(s, open[s])
  /\ \/ Become(s, [ex[s] EXCEPT !.answered = TRUE, !.pc = "commit"])
     \/ Become(s, [ex[s] EXCEPT !.raised = "error", !.pc = "fail"])
  /\ UNCHANGED <<Database, Counts>>

-----------------------------------------------------------------------------
(* The end: three commits on success, two on failure.  A completed stage is *)
(* set on the session before the structure of the answer is extracted, so  *)
(* a commit of another stage may write it before its own; the step is the  *)
(* first of these commits.                                                 *)

\* Mutant: a completed stage goes on without its tokens being booked.
CompletesUnbooked(s) ==
  /\ row' = [row EXCEPT ![s] = "completed"]
  /\ used' = [used EXCEPT ![s] = 1]
  /\ redone' = redone + used[s]
  /\ GoWith(s, Fresh, "release")
  /\ UNCHANGED <<booked, agent, Log, starts, crashes, lost>>

Completes(s) ==
  /\ row' = [row EXCEPT ![s] = "completed"]
  /\ used' = [used EXCEPT ![s] = 1]
  /\ redone' = redone + used[s]
  /\ GoWith(s, Fresh, "book")
  /\ UNCHANGED <<booked, agent, Log, starts, crashes, lost>>

CommitStage(s) == At(s, "commit") /\ ~ex[s].boxed /\ Completes(s)
CommitSandboxed(s) == At(s, "commit") /\ ex[s].boxed /\ Completes(s)

\* Mutant: everything spent so far is booked again, not what this stage used.
BookAll(s) ==
  /\ At(s, "book")
  /\ booked' = booked + booked + used[s]
  /\ Go(s, "release")
  /\ UNCHANGED <<row, used, agent, Log, Counts>>

BookTokens(s) ==
  /\ At(s, "book")
  /\ booked' = booked + used[s]
  /\ Go(s, "release")
  /\ UNCHANGED <<row, used, agent, Log, Counts>>

ReleaseAgent(s) ==
  /\ ex[s].pc \in {"release", "failAgent"}
  /\ agent' = "idle"
  /\ Go(s, IF At(s, "release") THEN "done" ELSE "failed")
  /\ UNCHANGED <<row, used, booked, Log, Counts>>

\* Mutant: a failure leaves the agent as it is.
MarkFailedOnly(s) ==
  /\ At(s, "fail")
  /\ row' = [row EXCEPT ![s] = "failed"]
  /\ Go(s, "failed")
  /\ UNCHANGED <<used, booked, agent, Log, Counts>>

MarkStageFailed(s) ==
  /\ At(s, "fail")
  /\ row' = [row EXCEPT ![s] = "failed"]
  /\ GoWith(s, Fresh, "failAgent")
  /\ UNCHANGED <<used, booked, agent, Log, Counts>>

\* The timeout of the task, or the end of the process, cancels the coroutine
\* at an await.  Only the attempts and the restarts close their rows; nothing
\* resets the stage or the agent.
CancelAttempt(s) ==
  /\ ex[s].pc \in InTry
  /\ Close(s, IF At(s, "chat") THEN {MainChat(s)} ELSE {})
  /\ Over(s, FALSE, "cancelled")
  /\ UNCHANGED <<Database, Counts>>

CancelRest(s) ==
  /\ ex[s].pc \notin InTry \cup Ends \cup {"idle", "finalize"}
  /\ logged' = [logged EXCEPT ![s] = IF At(s, "restart") THEN @ \ {RestartRow} ELSE @]
  /\ open' = [open EXCEPT ![s] = {}]
  /\ GoWith(s, Fresh, "cancelled")
  /\ lost' = lost + (IF At(s, "book") THEN 1 ELSE 0)
  /\ UNCHANGED <<Database, starts, crashes, redone>>

\* finalize_unfinished closes turns, then chats, then tools, the older first, and
\* is not shielded: a cancellation at one of its awaits leaves the rest running.
ClosedBefore(r, q) == \/ r[1] = "turn" /\ q[1] # "turn"
                      \/ r[1] = "chat" /\ q[1] = "tool"
                      \/ r[1] = q[1] /\ r[2] < q[2]
CancelFinalize(s) ==
  /\ At(s, "finalize")
  /\ \E closed \in SUBSET open[s] :
       /\ \A r \in closed, q \in open[s] \ closed : ClosedBefore(r, q)
       /\ logged' = [logged EXCEPT ![s] = @ \ closed]
  /\ open' = [open EXCEPT ![s] = {}]
  /\ GoWith(s, Fresh, "cut")
  /\ UNCHANGED <<Database, Counts>>

Cancel(s) == CancelAttempt(s) \/ CancelRest(s) \/ CancelFinalize(s)

Booking == {s \in Stages : ex[s].pc = "book"}

\* The process dies and is started again; the task runs again.
CrashAndRestart ==
  /\ crashes < MaxCrashes
  /\ crashes' = crashes + 1
  /\ ex' = [s \in Stages |-> IF ex[s].pc \in Ends THEN ex[s] ELSE [Fresh EXCEPT !.pc = "idle"]]
  /\ open' = [s \in Stages |-> {}]
  /\ lost' = lost + Cardinality(Booking)
  /\ UNCHANGED <<Database, logged, starts, redone>>

-----------------------------------------------------------------------------
Attempt(s) == SendChat(s) \/ ChatAnswers(s) \/ ChatFails(s) \/ FallBackToText(s) \/ Retry(s)
Extend(s) == Restart(s) \/ RestartReturns(s) \/ NoRestart(s)
              \/ AssessSelf(s) \/ RunVerification(s) \/ Improve(s)
Conclude(s) == CommitStage(s) \/ CommitSandboxed(s) \/ BookTokens(s) \/ ReleaseAgent(s) \/ MarkStageFailed(s)
Sandbox(s) == SendToSandbox(s) \/ SandboxReturns(s)
Proceed(s) == ClaimAgent(s) \/ Attempt(s) \/ FinalizeUnfinished(s) \/ Extend(s)
               \/ Sandbox(s) \/ Conclude(s)
Event(s) == TurnEnds(s) \/ ToolEnds(s) \/ \E k \in {"turn", "tool"} : EventStarts(s, k)

Next == (\E s \in Stages : StartStage(s) \/ Proceed(s) \/ Event(s) \/ Cancel(s))
        \/ CrashAndRestart

\* WORKER_STAGE_TIMEOUT ends every chat, so each step is taken if it stays
\* possible; nothing makes the runner or the task timeout do anything.
Spec == Init /\ [][Next]_vars /\ \A s \in Stages : WF_vars(Proceed(s))

-----------------------------------------------------------------------------
AtRest == \A s \in Stages : ex[s].pc \in {"idle", "done", "failed"}

\* An execution in the process that is over has left no row of a chat, turn or
\* tool call running in the log: timed-out attempts, the fallback runner,
\* restarts and a cancellation do not lose track of a row, unless it strikes
\* while the finally clause is closing them.
NoOpenRows ==
  \A s \in Stages : (ex[s].pc \in Ends \ {"cut"} /\ ~ex[s].boxed) => logged[s] = {}

\* In a sandbox the turns and tool calls the stream left open are closed when
\* the request returns, whatever its result.
StreamRowsClosed ==
  \A s \in Stages : (ex[s].pc \in {"done", "failed"} /\ ex[s].boxed)
                      => \A r \in logged[s] : r[1] = "chat"

\* The token count of the task, which the circuit breaker reads, against what
\* the stages record: an execution that completes its stage is booked once, the
\* repeated ones on top of what the stage records, and only a cancellation or a
\* crash between the two commits loses one.
Recorded == {s \in Stages : used[s] = 1}
BookedOnce ==
  booked + Cardinality(Booking) + lost = Cardinality(Recorded) + redone

\* When every execution has ended by itself the agent row is idle again, on
\* whichever path each of them ended.
AgentIdleAtRest == (crashes = 0 /\ AtRest) => agent = "idle"

\* A stage is completed only on an answer of its runner: falling back to text
\* in the last attempt must not end as a success without a response.
CompletedOnAnswer ==
  \A s \in Stages : ex[s].pc \in {"book", "release", "done"} => ex[s].answered

\* Between its start and the commit that completes or fails the stage.
Working == InTry \cup {"claim", "finalize", "extend", "restart", "judge", "improve", "sandbox",
                       "stream", "commit", "fail"}
Doing(s) == IF ex[s].pc \in Working THEN "work"
            ELSE IF ex[s].pc = "book" THEN "booking" ELSE "nothing"

Ledger == INSTANCE StageLedger WITH status <- row, doing <- [s \in Stages |-> Doing(s)]

\* Whatever happens inside an execution, it keeps what StageLedger promises: only
\* a stage it has marked running is completed or failed, and its tokens are booked
\* once, by the execution that completed it, before it can be executed again.
LedgerSpec == Ledger!Spec

\* Every execution ends: retries, restarts and evaluator loops are bounded.
ExecutionEnds == <>[](\A s \in Stages : ex[s].pc \in Ends \cup {"idle"})
=============================================================================
