----------------------------- MODULE TaskQueue -----------------------------
(***************************************************************************)
(* The life of tasks in the database of the platform, as the worker        *)
(* processes (worker/engine.py) and the task API (services/task_service.py)*)
(* move them.  One step is one database statement together with the        *)
(* commit that ends it; everything between two statements may interleave:  *)
(*   - a worker SELECTs the oldest pending task, then claims it with a     *)
(*     conditional UPDATE, then writes "running" without a condition;      *)
(*   - cancel and retry read the row in one step and write it in another;  *)
(*   - a worker may be interrupted (crash or stop_worker) between any two  *)
(*     statements, and a starting worker puts the interrupted tasks back.  *)
(* What happens inside one run of a task (stages, gates) is in             *)
(* StagePipeline; here a run ends in any way the code allows.              *)
(***************************************************************************)
EXTENDS Integers

CONSTANTS Tasks,          \* task ids, ordered by created_at
          Workers,        \* processes that run the poll loop
          Clients,        \* concurrent API requests
          NoTask,         \* "no task", for a worker or a request without one
          Planning,       \* settings.INTERACTIVE_PLANNING_ENABLED
          FaultKinds,     \* faults that can happen, from the set in the assumption below
          MaxFaults,      \* bound: number of faults
          MaxRetries      \* bound: number of retry requests that commit

ASSUME TasksAreNumbers == Tasks \subseteq Int
ASSUME NoTaskIsNone == NoTask \notin Tasks \cup Workers
ASSUME PlanningIsBoolean == Planning \in BOOLEAN
ASSUME FaultsAreKnown == FaultKinds \subseteq {"interrupt", "dberror", "norecovery"}
ASSUME BoundsAreNat == MaxFaults \in Nat /\ MaxRetries \in Nat

VARIABLES status,   \* tasks.status of every task; "none" before the row exists
          pc,       \* where every worker is in its poll loop
          cur,      \* the task a worker has selected, holds or cleans up
          api,      \* the request every client has in flight, between its read and its write
          faults,   \* faults so far
          retries,  \* retry requests committed so far
          disturbed \* history, read by no step: tasks two parties have worked on at once

vars == <<status, pc, cur, api, faults, retries, disturbed>>

Statuses == {"none", "pending", "claimed", "running", "planning",
             "completed", "failed", "cancelled"}
Terminal == {"completed", "failed", "cancelled"}
HoldPCs  == {"claimed", "begun", "executing", "planning", "announcing"}
PCs      == {"off", "idle", "selected", "cleanup"} \cup HoldPCs

Idle == [op |-> "idle", task |-> NoTask]

TypeOK ==
  /\ status \in [Tasks -> Statuses]
  /\ pc \in [Workers -> PCs]
  /\ cur \in [Workers -> Tasks \cup {NoTask}]
  /\ \A w \in Workers : cur[w] = NoTask <=> pc[w] \in {"off", "idle"}
  /\ api \in [Clients -> [op : {"idle", "cancel", "retry"}, task : Tasks \cup {NoTask}]]
  /\ \A c \in Clients : api[c].task = NoTask <=> api[c].op = "idle"
  /\ faults \in 0..MaxFaults
  /\ retries \in 0..MaxRetries
  /\ disturbed \subseteq Tasks

\* Worker w is inside _process_task for t (its cleanup after a failure excepted).
Holds(w, t) == pc[w] \in HoldPCs /\ cur[w] = t
Holding(w) == pc[w] \in HoldPCs
Held(t) == \E w \in Workers : Holds(w, t)
Retrying(c, t) == api[c].op = "retry" /\ api[c].task = t

Init == /\ status = [t \in Tasks |-> "none"]
        /\ pc = [w \in Workers |-> "off"]
        /\ cur = [w \in Workers |-> NoTask]
        /\ api = [c \in Clients |-> Idle]
        /\ faults = 0
        /\ retries = 0
        /\ disturbed = {}

----------------------------------------------------------------------------
(* Small steps the actions are made of. *)

Write(t, s) == status' = [status EXCEPT ![t] = s]
Goto(w, p)  == pc' = [pc EXCEPT ![w] = p]
\* The worker drops its task and is back at the top of the poll loop.
Release(w)  == /\ Goto(w, "idle")
               /\ cur' = [cur EXCEPT ![w] = NoTask]

\* _fail_task: the UPDATE excludes cancelled rows.
WriteFailed(t) == IF status[t] = "cancelled" THEN UNCHANGED status ELSE Write(t, "failed")

Fault(kind) == /\ kind \in FaultKinds
               /\ faults < MaxFaults
               /\ faults' = faults + 1

\* The tasks of S are disturbed from now on.
Disturb(S) == disturbed' = disturbed \cup S

----------------------------------------------------------------------------
(* The worker process. *)

\* Mutants: the recovery forgets the claimed rows; it excludes only two of the terminal states.
RecoveredRunningOnly == [t \in Tasks |-> IF status[t] = "running"
                                         THEN "pending" ELSE status[t]]
RecoveredUnfinished == [t \in Tasks |-> IF status[t] \in {"none", "completed", "failed"}
                                        THEN status[t] ELSE "pending"]

\* The rows _recover_stale_tasks puts back: running and claimed, not planning.
Recovered == [t \in Tasks |-> IF status[t] \in {"running", "claimed"}
                              THEN "pending" ELSE status[t]]

\* start_worker: recover the stale tasks, then poll.  It cannot tell a stale
\* task from one that another process holds: that one is disturbed.
StartWorker(w) ==
  /\ pc[w] = "off"
  /\ status' = Recovered
  /\ Goto(w, "idle")
  /\ Disturb({t \in Tasks : Held(t) /\ status[t] \in {"running", "claimed"}})
  /\ UNCHANGED <<cur, api, faults, retries>>

\* An exception in the recovery is logged and the worker starts without it.
StartUnrecovered(w) ==
  /\ pc[w] = "off"
  /\ Fault("norecovery")
  /\ Goto(w, "idle")
  /\ UNCHANGED <<status, cur, api, retries, disturbed>>

\* Mutant: the interrupted worker keeps its task.
InterruptKeepingTask(w) ==
  /\ pc[w] # "off"
  /\ Fault("interrupt")
  /\ Goto(w, "off")
  /\ UNCHANGED <<status, cur, api, retries, disturbed>>

\* A crash, or stop_worker cancelling the poll loop: no row is written.
Interrupt(w) ==
  /\ pc[w] # "off"
  /\ Fault("interrupt")
  /\ Goto(w, "off")
  /\ cur' = [cur EXCEPT ![w] = NoTask]
  /\ UNCHANGED <<status, api, retries, disturbed>>

\* An exception out of _process_task is logged by the poll loop, nothing else.
PollError(w) ==
  /\ pc[w] \in PCs \ {"off", "idle"}
  /\ Fault("dberror")
  /\ Release(w)
  /\ UNCHANGED <<status, api, retries, disturbed>>

\* _pick_pending_task, step 1: the oldest pending id.
SelectOldest(w) ==
  /\ pc[w] = "idle"
  /\ \E t \in Tasks :
       /\ status[t] = "pending"
       /\ \A u \in Tasks : status[u] = "pending" => t <= u
       /\ cur' = [cur EXCEPT ![w] = t]
  /\ Goto(w, "selected")
  /\ UNCHANGED <<status, api, faults, retries, disturbed>>

\* Mutant: the claim is an UPDATE by id alone.
ClaimById(w) ==
  /\ pc[w] = "selected"
  /\ Write(cur[w], "claimed")
  /\ Goto(w, "claimed")
  /\ UNCHANGED <<cur, api, faults, retries, disturbed>>

\* _pick_pending_task, step 2: the claim succeeds only if the row is still pending.
Claim(w) ==
  /\ pc[w] = "selected"
  /\ IF status[cur[w]] = "pending"
     THEN /\ Write(cur[w], "claimed")
          /\ Goto(w, "claimed")
          /\ UNCHANGED cur
     ELSE /\ Release(w)
          /\ UNCHANGED status
  /\ UNCHANGED <<api, faults, retries, disturbed>>

\* _process_task starts with an unconditional status = "running".
Begin(w) ==
  /\ pc[w] = "claimed"
  /\ Write(cur[w], "running")
  /\ Goto(w, "begun")
  /\ UNCHANGED <<cur, api, faults, retries, disturbed>>

\* _is_cancelled says no (or its read fails, which it reports as no): run a group of stages.
CheckNotCancelled(w) ==
  /\ pc[w] = "begun"
  /\ \/ /\ status[cur[w]] # "cancelled"
        /\ UNCHANGED faults
     \/ Fault("dberror")
  /\ Goto(w, "executing")
  /\ UNCHANGED <<status, cur, api, retries, disturbed>>

\* _is_cancelled says yes: _process_task returns through its cleanup.
CheckCancelled(w) ==
  /\ pc[w] \in {"begun", "planning"}
  /\ status[cur[w]] = "cancelled"
  /\ Goto(w, "cleanup")
  /\ UNCHANGED <<status, cur, api, faults, retries, disturbed>>

\* The group of stages is done, and there is another one.
GroupDone(w) ==
  /\ pc[w] = "executing"
  /\ Goto(w, "begun")
  /\ UNCHANGED <<status, cur, api, faults, retries, disturbed>>

\* _check_interactive_planning pauses the task for the review of its plan.
PausePlanning(w) ==
  /\ Planning
  /\ pc[w] = "executing"
  /\ Write(cur[w], "planning")
  /\ Goto(w, "planning")
  /\ UNCHANGED <<cur, api, faults, retries, disturbed>>

\* The plan has been reviewed: back to running.
ResumePlanned(w) ==
  /\ pc[w] = "planning"
  /\ Write(cur[w], "running")
  /\ Goto(w, "begun")
  /\ UNCHANGED <<cur, api, faults, retries, disturbed>>

\* _complete_task is unconditional; a task without stages completes at once.
\* The row is committed; broadcast, audit record and notification follow.
CompleteTask(w) ==
  /\ pc[w] \in {"begun", "executing"}
  /\ Write(cur[w], "completed")
  /\ Goto(w, "announcing")
  /\ UNCHANGED <<cur, api, faults, retries, disturbed>>

\* _process_task returns: the completion has been announced.
AnnounceDone(w) ==
  /\ pc[w] = "announcing"
  /\ Release(w)
  /\ UNCHANGED <<status, api, faults, retries, disturbed>>

\* _fail_task inside _process_task; the cleanup in the finally block is still to come.
FailTask(w) ==
  /\ pc[w] \in {"begun", "executing", "planning"}
  /\ WriteFailed(cur[w])
  /\ Goto(w, "cleanup")
  /\ UNCHANGED <<cur, api, faults, retries, disturbed>>

\* WORKER_TASK_TIMEOUT: _process_task is cancelled, then the poll loop fails the
\* task, also one just completed, and also one that was retried and taken by
\* another worker during the cleanup after its failure: that one is disturbed.
TimeoutTask(w) ==
  /\ pc[w] \in {"begun", "executing", "planning", "announcing", "cleanup"}
  /\ WriteFailed(cur[w])
  /\ Disturb({t \in {cur[w]} : \E v \in Workers \ {w} : Holds(v, t)})
  /\ Release(w)
  /\ UNCHANGED <<api, faults, retries>>

CleanupDone(w) ==
  /\ pc[w] = "cleanup"
  /\ Release(w)
  /\ UNCHANGED <<status, api, faults, retries, disturbed>>

----------------------------------------------------------------------------
(* The task API. *)

\* POST /tasks: the row is inserted as pending; ids follow created_at.
CreateTask(t) ==
  /\ status[t] = "none"
  /\ \A u \in Tasks : u < t => status[u] # "none"
  /\ Write(t, "pending")
  /\ UNCHANGED <<pc, cur, api, faults, retries, disturbed>>

\* cancel_task reads the row; a task that is over is returned as it is.
CancelRead(c, t) ==
  /\ api[c] = Idle
  /\ status[t] \notin Terminal \cup {"none"}
  /\ api' = [api EXCEPT ![c] = [op |-> "cancel", task |-> t]]
  /\ UNCHANGED <<status, pc, cur, faults, retries, disturbed>>

\* cancel_task writes the row, whatever has become of it since the read.
CancelWrite(c) ==
  /\ api[c].op = "cancel"
  /\ Write(api[c].task, "cancelled")
  /\ api' = [api EXCEPT ![c] = Idle]
  /\ UNCHANGED <<pc, cur, faults, retries, disturbed>>

\* Mutant: every task that is not completed may be retried.
RetryReadUncompleted(c, t) ==
  /\ api[c] = Idle
  /\ status[t] \notin {"none", "completed"}
  /\ Disturb({u \in {t} : \E d \in Clients : Retrying(d, u)})
  /\ api' = [api EXCEPT ![c] = [op |-> "retry", task |-> t]]
  /\ UNCHANGED <<status, pc, cur, faults, retries>>

\* retry_task and retry_from_stage read the row; only a failed task goes on.  A
\* second request before the first has written disturbs the task.
RetryRead(c, t) ==
  /\ api[c] = Idle
  /\ status[t] = "failed"
  /\ Disturb({u \in {t} : \E d \in Clients : Retrying(d, u)})
  /\ api' = [api EXCEPT ![c] = [op |-> "retry", task |-> t]]
  /\ UNCHANGED <<status, pc, cur, faults, retries>>

\* The task is put back to pending, whatever has become of it since the read.
RetryWrite(c) ==
  /\ api[c].op = "retry"
  /\ retries < MaxRetries
  /\ retries' = retries + 1
  /\ Write(api[c].task, "pending")
  /\ api' = [api EXCEPT ![c] = Idle]
  /\ UNCHANGED <<pc, cur, faults, disturbed>>

----------------------------------------------------------------------------
WorkerStep(w) ==
  \/ SelectOldest(w) \/ Claim(w) \/ Begin(w)
  \/ CheckNotCancelled(w) \/ CheckCancelled(w) \/ GroupDone(w)
  \/ PausePlanning(w) \/ ResumePlanned(w)
  \/ CompleteTask(w) \/ AnnounceDone(w)
  \/ FailTask(w) \/ TimeoutTask(w) \/ CleanupDone(w)

ProcessStep(w) ==
  StartWorker(w) \/ StartUnrecovered(w) \/ Interrupt(w) \/ PollError(w)

ApiStep(c) ==
  \/ CancelWrite(c) \/ RetryWrite(c)
  \/ \E t \in Tasks : CancelRead(c, t) \/ RetryRead(c, t)

Next ==
  \/ \E w \in Workers : WorkerStep(w) \/ ProcessStep(w)
  \/ \E c \in Clients : ApiStep(c)
  \/ \E t \in Tasks : CreateTask(t)

Spec == Init /\ [][Next]_vars

\* Fairness.  A started worker keeps polling and finishes each statement; a
\* run cannot last for ever because wait_for cuts it off at WORKER_TASK_TIMEOUT
\* (so TimeoutTask is fair, the ends a run reaches by itself are not); a
\* request that was read is written; and a stopped worker is started again by
\* whoever operates the deployment.
WorkerFairness(w) ==
  /\ WF_vars(StartWorker(w))
  /\ WF_vars(SelectOldest(w))
  /\ WF_vars(Claim(w))
  /\ WF_vars(Begin(w))
  /\ WF_vars(TimeoutTask(w))
  /\ WF_vars(CleanupDone(w))

FairSpec ==
  /\ Spec
  /\ \A w \in Workers : WorkerFairness(w)
  /\ \A c \in Clients : WF_vars(CancelWrite(c))

----------------------------------------------------------------------------
(* Properties.  A task is disturbed once a worker has started while another *)
(* one was processing it, two retry requests for it have overlapped, or the *)
(* timeout of a worker that was still cleaning up after it has failed it    *)
(* under its next worker.  Nothing in the code excludes these; everything   *)
(* else the code does keeps what follows.                                   *)

\* No undisturbed task is processed by two workers at once: the conditional
\* UPDATE of _pick_pending_task keeps workers apart, together with everything
\* that puts a task back to pending (recovery, retry).
ClaimExclusive ==
  \A v, w \in Workers : v # w /\ Holding(v) /\ Holding(w) /\ cur[v] = cur[w]
                        => cur[v] \in disturbed

\* While a worker holds a task, nothing but a cancel request changes its row.
HolderStatus ==
  \A w \in Workers : Holding(w) /\ cur[w] \notin disturbed =>
    status[cur[w]] \in IF pc[w] = "announcing" THEN {"completed", "cancelled"}
                       ELSE {"claimed", "running", "planning", "cancelled"}

\* Until a retry request has written, the task it read as failed rests.
RetryQuiet ==
  \A c \in Clients : api[c].op = "retry" /\ api[c].task \notin disturbed =>
    /\ status[api[c].task] \in {"failed", "cancelled"}
    /\ ~ Held(api[c].task)

\* No two retry requests are under way for one task.
RetrySerial ==
  \A c, d \in Clients : /\ c # d
                        /\ api[c].op = "retry" /\ api[d].op = "retry"
                        /\ api[c].task = api[d].task
                        => api[c].task \in disturbed

\* The inductive strengthening of ClaimExclusive: a held task is never
\* pending or failed, so it can be neither selected nor retried.
SafetyInv == ClaimExclusive /\ HolderStatus /\ RetryQuiet /\ RetrySerial

\* A task cancelled before any worker has claimed it, with no retry request
\* under way, stays cancelled: neither a worker that had already selected it,
\* nor the recovery at a start, nor a late _fail_task takes it up again.
Unclaimed(t) == /\ \A w \in Workers : ~ Holds(w, t)
                /\ \A c \in Clients : ~ Retrying(c, t)

CancelBeforeClaimSticks ==
  [][\A t \in Tasks : status[t] = "cancelled" /\ Unclaimed(t)
                      => status'[t] = "cancelled"]_vars

\* Every task that waits in the queue is eventually completed, failed or
\* cancelled, interruptions of the worker at any statement included.
EventuallySettled ==
  \A t \in Tasks : status[t] = "pending" ~> status[t] \in Terminal

\* The queue the workers share, as WorkQueue describes it.
Owner(t) == IF t \notin disturbed /\ Held(t)
            THEN CHOOSE w \in Workers : Holds(w, t)
            ELSE NoTask

Queue == INSTANCE WorkQueue
           WITH queued  <- {t \in Tasks \ disturbed : status[t] = "pending"},
                owner   <- [t \in Tasks |-> Owner(t)],
                NoOwner <- NoTask

\* Tasks are handed out as WorkQueue promises: only a queued task without an
\* owner, to a worker that owns nothing, and never queued while it is owned.
QueueSpec == Queue!Spec
=============================================================================
