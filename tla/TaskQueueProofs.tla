-------------------------- MODULE TaskQueueProofs --------------------------
(***************************************************************************)
(* Proofs about TaskQueue, for any number of tasks, workers, requests and  *)
(* faults.                                                                 *)
(***************************************************************************)
EXTENDS TaskQueue, TLAPS

USE TasksAreNumbers, NoTaskIsNone, PlanningIsBoolean, BoundsAreNat

\* Every step of a worker keeps the types.
LEMMA WorkerStepType ==
  ASSUME TypeOK, NEW w \in Workers, WorkerStep(w)
  PROVE  TypeOK'
<1>. USE DEF TypeOK, Idle, Statuses, PCs, HoldPCs, Write, Goto, Release, WriteFailed, Disturb
<1>1. CASE SelectOldest(w)
  BY <1>1 DEF SelectOldest
<1>2. CASE Claim(w)
  BY <1>2 DEF Claim
<1>3. CASE Begin(w)
  BY <1>3 DEF Begin
<1>4. CASE CheckNotCancelled(w)
  BY <1>4 DEF CheckNotCancelled, Fault
<1>5. CASE CheckCancelled(w)
  BY <1>5 DEF CheckCancelled
<1>6. CASE GroupDone(w)
  BY <1>6 DEF GroupDone
<1>7. CASE PausePlanning(w)
  BY <1>7 DEF PausePlanning
<1>8. CASE ResumePlanned(w)
  BY <1>8 DEF ResumePlanned
<1>9. CASE CompleteTask(w)
  BY <1>9 DEF CompleteTask
<1>10. CASE FailTask(w)
  BY <1>10 DEF FailTask
<1>11. CASE TimeoutTask(w)
  <2>. USE <1>11 DEF TimeoutTask
  <2>1. status' \in [Tasks -> Statuses]
    OBVIOUS
  <2>2. disturbed' \subseteq Tasks
    <3>1. cur[w] \in Tasks
      OBVIOUS
    <3>. QED
      BY <3>1, ZenonT(40)
  <2>3. pc' \in [Workers -> PCs] /\ cur' \in [Workers -> Tasks \cup {NoTask}]
    OBVIOUS
  <2>4. \A v \in Workers : cur'[v] = NoTask <=> pc'[v] \in {"off", "idle"}
    OBVIOUS
  <2>5. UNCHANGED <<api, faults, retries>>
    OBVIOUS
  <2>. QED
    BY <2>1, <2>2, <2>3, <2>4, <2>5
<1>12. CASE CleanupDone(w)
  BY <1>12 DEF CleanupDone
<1>13. CASE AnnounceDone(w)
  BY <1>13 DEF AnnounceDone
<1>. QED
  BY <1>1, <1>2, <1>3, <1>4, <1>5, <1>6, <1>7, <1>8, <1>9, <1>10, <1>11, <1>12, <1>13
  DEF WorkerStep

\* Starts, interrupts and poll errors keep the types.
LEMMA ProcessStepType ==
  ASSUME TypeOK, NEW w \in Workers, ProcessStep(w)
  PROVE  TypeOK'
<1>. USE DEF TypeOK, Idle, Statuses, PCs, HoldPCs, Goto, Release, Disturb, Fault
<1>1. CASE StartWorker(w)
  BY <1>1 DEF StartWorker, Recovered
<1>2. CASE StartUnrecovered(w)
  BY <1>2 DEF StartUnrecovered
<1>3. CASE Interrupt(w)
  BY <1>3 DEF Interrupt
<1>4. CASE PollError(w)
  BY <1>4 DEF PollError
<1>. QED
  BY <1>1, <1>2, <1>3, <1>4 DEF ProcessStep

\* The steps of the API keep the types.
LEMMA ApiStepType ==
  ASSUME TypeOK, NEW c \in Clients, ApiStep(c)
  PROVE  TypeOK'
<1>. USE DEF TypeOK, Idle, Statuses, Write, Disturb
<1>1. CASE CancelWrite(c)
  BY <1>1 DEF CancelWrite
<1>2. CASE RetryWrite(c)
  BY <1>2 DEF RetryWrite
<1>3. ASSUME NEW t \in Tasks, CancelRead(c, t)
      PROVE  TypeOK'
  BY <1>3 DEF CancelRead
<1>4. ASSUME NEW t \in Tasks, RetryRead(c, t)
      PROVE  TypeOK'
  BY <1>4 DEF RetryRead
<1>. QED
  BY <1>1, <1>2, <1>3, <1>4 DEF ApiStep

\* TypeOK is an invariant of the task queue.
THEOREM TypeCorrect == Spec => []TypeOK
<1>1. Init => TypeOK
  BY DEF Init, TypeOK, Idle, Statuses, PCs
<1>2. TypeOK /\ [Next]_vars => TypeOK'
  <2>. SUFFICES ASSUME TypeOK, [Next]_vars PROVE TypeOK'
    OBVIOUS
  <2>1. ASSUME NEW t \in Tasks, CreateTask(t) PROVE TypeOK'
    BY <2>1 DEF CreateTask, TypeOK, Statuses, Write
  <2>2. CASE UNCHANGED vars
    BY <2>2 DEF TypeOK, vars
  <2>. QED
    BY <2>1, <2>2, WorkerStepType, ProcessStepType, ApiStepType DEF Next
<1>. QED
  BY <1>1, <1>2, PTL DEF Spec

----------------------------------------------------------------------------
(* Exclusive claims of the undisturbed tasks, in every behaviour.           *)

\* A worker that fails its task and lets it go: whoever else holds that task
\* disturbs it, and a retry request under way for it finds it failed or cancelled.
LEMMA FailedRunSafe ==
  ASSUME TypeOK, SafetyInv, NEW w \in Workers, cur[w] \in Tasks,
         WriteFailed(cur[w]), UNCHANGED api, disturbed \subseteq disturbed',
         \A v \in Workers : v # w /\ Holds(v, cur[w]) => cur[w] \in disturbed',
         NEW p \in PCs \ HoldPCs, pc' = [pc EXCEPT ![w] = p],
         \A v \in Workers : v # w => cur'[v] = cur[v]
  PROVE  SafetyInv'
<1>. USE DEF TypeOK, Holding, Holds, HoldPCs
<1>1. \A v \in Workers : Holding(v)' => /\ v # w /\ Holding(v)
                                        /\ cur'[v] = cur[v] /\ pc'[v] = pc[v]
  OBVIOUS
<1>2. \A v \in Workers : Holding(v)' /\ cur'[v] \notin disturbed'
                         => cur[v] # cur[w] /\ cur[v] \notin disturbed /\ cur[v] \in Tasks
  <2>. SUFFICES ASSUME NEW v \in Workers, Holding(v)', cur'[v] \notin disturbed'
                PROVE  cur[v] # cur[w] /\ cur[v] \notin disturbed /\ cur[v] \in Tasks
    OBVIOUS
  <2>1. v # w /\ Holding(v) /\ cur'[v] = cur[v]
    BY <1>1
  <2>2. cur[v] # cur[w]
    BY <2>1
  <2>. QED
    BY <2>1, <2>2 DEF PCs
<1>3. \A t \in Tasks : t # cur[w] => status'[t] = status[t]
  BY DEF WriteFailed, Write
<1>4. status'[cur[w]] \in {"failed", "cancelled"}
  BY DEF WriteFailed, Write
<1>5. ClaimExclusive'
  <2>. SUFFICES ASSUME NEW u \in Workers, NEW v \in Workers, u # v,
                       Holding(u)', Holding(v)', cur'[u] = cur'[v]
                PROVE  cur'[u] \in disturbed'
    BY DEF ClaimExclusive
  <2>1. Holding(u) /\ Holding(v) /\ cur[u] = cur[v] /\ cur'[u] = cur[u]
    BY <1>1
  <2>2. cur[u] \in disturbed
    BY <2>1 DEF SafetyInv, ClaimExclusive
  <2>. QED
    BY <2>1, <2>2
<1>6. HolderStatus'
  <2>. SUFFICES ASSUME NEW v \in Workers, Holding(v)', cur'[v] \notin disturbed'
                PROVE  status'[cur'[v]] \in IF pc'[v] = "announcing" THEN {"completed", "cancelled"}
                                           ELSE {"claimed", "running", "planning", "cancelled"}
    BY DEF HolderStatus
  <2>1. status'[cur'[v]] = status[cur[v]] /\ pc'[v] = pc[v]
    BY <1>1, <1>2, <1>3
  <2>2. Holding(v) /\ cur[v] \notin disturbed
    BY <1>1, <1>2
  <2>. QED
    BY <2>1, <2>2 DEF SafetyInv, HolderStatus
<1>7. RetryQuiet'
  <2>. SUFFICES ASSUME NEW c \in Clients, api[c].op = "retry", api[c].task \notin disturbed'
                PROVE  /\ status'[api[c].task] \in {"failed", "cancelled"}
                       /\ ~ Held(api[c].task)'
    BY DEF RetryQuiet
  <2>1. api[c].task \in Tasks /\ api[c].task \notin disturbed
    OBVIOUS
  <2>2. status[api[c].task] \in {"failed", "cancelled"} /\ ~ Held(api[c].task)
    BY <2>1 DEF SafetyInv, RetryQuiet
  <2>3. status'[api[c].task] \in {"failed", "cancelled"}
    BY <1>3, <1>4, <2>1, <2>2
  <2>4. ~ Held(api[c].task)'
    BY <1>1, <2>2 DEF Held
  <2>. QED
    BY <2>3, <2>4
<1>8. RetrySerial'
  BY DEF SafetyInv, RetrySerial
<1>. QED
  BY <1>5, <1>6, <1>7, <1>8 DEF SafetyInv

\* Only a worker's claim makes it a holder, and the task it claims is
\* pending, hence held by nobody; the other steps of a worker keep its task
\* or drop it, and write only the row of the task they hold.
LEMMA WorkerStepSafe ==
  ASSUME TypeOK, TypeOK', SafetyInv, NEW w \in Workers, WorkerStep(w)
  PROVE  SafetyInv'
<1>. USE DEF TypeOK, SafetyInv, ClaimExclusive, HolderStatus, RetryQuiet, RetrySerial,
             Holding, Holds, Held, HoldPCs, Write, Goto, Release, WriteFailed
<1>1. CASE SelectOldest(w)
  BY <1>1 DEF SelectOldest
<1>2. CASE Claim(w)
  <2>1. CASE status[cur[w]] # "pending"
    BY <1>2, <2>1 DEF Claim
  <2>2. CASE status[cur[w]] = "pending"
    <3>1. /\ cur[w] \in Tasks
          /\ status' = [status EXCEPT ![cur[w]] = "claimed"]
          /\ pc' = [pc EXCEPT ![w] = "claimed"]
          /\ UNCHANGED <<cur, api, disturbed>>
      BY <1>2, <2>2 DEF Claim, PCs
    <3>2. \A v \in Workers : Holding(v) /\ cur[w] \notin disturbed => cur[v] # cur[w]
      BY <2>2
    <3>3. ClaimExclusive'
      BY <3>1, <3>2
    <3>4. HolderStatus'
      BY <3>1, <3>2
    <3>5. RetryQuiet'
      BY <2>2, <3>1
    <3>6. RetrySerial'
      BY <3>1
    <3>. QED
      BY <3>3, <3>4, <3>5, <3>6
  <2>. QED
    BY <2>1, <2>2
<1>3. CASE Begin(w)
  BY <1>3 DEF Begin
<1>4. CASE CheckNotCancelled(w)
  BY <1>4 DEF CheckNotCancelled
<1>5. CASE CheckCancelled(w)
  BY <1>5 DEF CheckCancelled
<1>6. CASE GroupDone(w)
  BY <1>6 DEF GroupDone
<1>7. CASE PausePlanning(w)
  BY <1>7 DEF PausePlanning
<1>8. CASE ResumePlanned(w)
  BY <1>8 DEF ResumePlanned
<1>9. CASE CompleteTask(w)
  BY <1>9 DEF CompleteTask
<1>10. CASE FailTask(w)
  <2>1. cur[w] \in Tasks /\ Holding(w) /\ UNCHANGED <<api, disturbed>> /\ WriteFailed(cur[w])
    BY <1>10 DEF FailTask, PCs
  <2>2. \A v \in Workers : v # w /\ Holds(v, cur[w]) => cur[w] \in disturbed'
    BY <2>1
  <2>3. "cleanup" \in PCs \ HoldPCs
    BY DEF PCs
  <2>4. pc' = [pc EXCEPT ![w] = "cleanup"] /\ \A v \in Workers : v # w => cur'[v] = cur[v]
    BY <1>10 DEF FailTask
  <2>. QED
    BY <2>1, <2>2, <2>3, <2>4, FailedRunSafe
<1>11. CASE TimeoutTask(w)
  <2>1. cur[w] \in Tasks /\ UNCHANGED api /\ WriteFailed(cur[w])
    BY <1>11 DEF TimeoutTask, PCs
  <2>2. /\ disturbed \subseteq disturbed'
        /\ \A v \in Workers : v # w /\ Holds(v, cur[w]) => cur[w] \in disturbed'
    BY <1>11 DEF TimeoutTask, Disturb
  <2>3. "idle" \in PCs \ HoldPCs
    BY DEF PCs
  <2>4. pc' = [pc EXCEPT ![w] = "idle"] /\ \A v \in Workers : v # w => cur'[v] = cur[v]
    BY <1>11 DEF TimeoutTask
  <2>. QED
    BY <2>1, <2>2, <2>3, <2>4, FailedRunSafe
<1>12. CASE CleanupDone(w)
  BY <1>12 DEF CleanupDone
<1>13. CASE AnnounceDone(w)
  BY <1>13 DEF AnnounceDone
<1>. QED
  BY <1>1, <1>2, <1>3, <1>4, <1>5, <1>6, <1>7, <1>8, <1>9, <1>10, <1>11, <1>12, <1>13
  DEF WorkerStep

\* A start disturbs every held task it recovers; an interrupt and a poll error
\* make a worker drop its task.
LEMMA ProcessStepSafe ==
  ASSUME TypeOK, TypeOK', SafetyInv, NEW w \in Workers, ProcessStep(w)
  PROVE  SafetyInv'
<1>. USE DEF TypeOK, SafetyInv, ClaimExclusive, HolderStatus, RetryQuiet, RetrySerial,
             Holding, Holds, Held, HoldPCs, Goto, Release
<1>1. CASE StartWorker(w)
  BY <1>1 DEF StartWorker, Recovered, Disturb
<1>2. CASE StartUnrecovered(w)
  BY <1>2 DEF StartUnrecovered
<1>3. CASE Interrupt(w)
  BY <1>3 DEF Interrupt
<1>4. CASE PollError(w)
  BY <1>4 DEF PollError
<1>. QED
  BY <1>1, <1>2, <1>3, <1>4 DEF ProcessStep

\* A retry request writes the row of a task nobody holds; a cancel request
\* may hit a held task, whose holder allows for that.
LEMMA ApiStepSafe ==
  ASSUME TypeOK, TypeOK', SafetyInv, NEW c \in Clients, ApiStep(c)
  PROVE  SafetyInv'
<1>. USE DEF TypeOK, Idle, SafetyInv, ClaimExclusive, HolderStatus, RetryQuiet, RetrySerial,
             Holding, Holds, Held, HoldPCs, Write
<1>1. CASE CancelWrite(c)
  BY <1>1 DEF CancelWrite
<1>2. CASE RetryWrite(c)
  BY <1>2 DEF RetryWrite
<1>3. ASSUME NEW t \in Tasks, CancelRead(c, t)
      PROVE  SafetyInv'
  BY <1>3 DEF CancelRead
<1>4. ASSUME NEW t \in Tasks, RetryRead(c, t)
      PROVE  SafetyInv'
  <2>1. /\ status[t] = "failed" /\ UNCHANGED <<status, pc, cur>>
        /\ api' = [api EXCEPT ![c] = [op |-> "retry", task |-> t]]
        /\ disturbed' = disturbed \cup {u \in {t} : \E d \in Clients : Retrying(d, u)}
    BY <1>4 DEF RetryRead, Disturb
  <2>2. t \notin disturbed => ~ Held(t)
    BY <2>1
  <2>3. ClaimExclusive' /\ HolderStatus'
    BY <2>1
  <2>4. RetryQuiet'
    BY <2>1, <2>2
  <2>5. RetrySerial'
    BY <2>1 DEF Retrying
  <2>. QED
    BY <2>3, <2>4, <2>5
<1>. QED
  BY <1>1, <1>2, <1>3, <1>4 DEF ApiStep

\* One step of the queue keeps the inductive invariant.
LEMMA StepSafe ==
  ASSUME TypeOK, TypeOK', SafetyInv, [Next]_vars
  PROVE  SafetyInv'
<1>1. ASSUME NEW t \in Tasks, CreateTask(t) PROVE SafetyInv'
  BY <1>1 DEF CreateTask, TypeOK, SafetyInv, ClaimExclusive, HolderStatus, RetryQuiet,
              RetrySerial, Holding, Holds, Held, HoldPCs, Write
<1>2. CASE UNCHANGED vars
  BY <1>2 DEF vars, SafetyInv, ClaimExclusive, HolderStatus, RetryQuiet,
              RetrySerial, Holding, Holds, Held
<1>. QED
  BY <1>1, <1>2, WorkerStepSafe, ProcessStepSafe, ApiStepSafe DEF Next

\* The inductive invariant holds in every reachable state.
THEOREM SafetyCorrect == Spec => []SafetyInv
<1>1. Init => SafetyInv
  BY DEF Init, Idle, SafetyInv, ClaimExclusive, HolderStatus, RetryQuiet,
         RetrySerial, Holding, HoldPCs
<1>2. TypeOK /\ TypeOK' /\ SafetyInv /\ [Next]_vars => SafetyInv'
  BY StepSafe
<1>. QED
  BY <1>1, <1>2, TypeCorrect, PTL DEF Spec

\* A task is processed by two workers at once only after a start under way, an
\* overlap of retries or a late timeout has disturbed it.
THEOREM ClaimsAreExclusive == Spec => []ClaimExclusive
<1>1. SafetyInv => ClaimExclusive
  BY DEF SafetyInv
<1>. QED
  BY <1>1, SafetyCorrect, PTL

----------------------------------------------------------------------------
(* Cancelling. *)

\* A step that changes the row of a cancelled task is a step of a worker that
\* holds the task, or the write of a retry request for it.
LEMMA CancelledRowKept ==
  ASSUME TypeOK, [Next]_vars, NEW t \in Tasks, status[t] = "cancelled", Unclaimed(t)
  PROVE  status'[t] = "cancelled"
<1>. USE DEF TypeOK, Unclaimed, Holds, HoldPCs
<1>1. ASSUME NEW w \in Workers, WorkerStep(w) PROVE status'[t] = "cancelled"
  <2>. USE DEF Write, WriteFailed
  <2>1. CASE SelectOldest(w) \/ CheckNotCancelled(w) \/ CheckCancelled(w) \/ GroupDone(w)
             \/ CleanupDone(w) \/ AnnounceDone(w)
    BY <2>1 DEF SelectOldest, CheckNotCancelled, CheckCancelled, GroupDone, CleanupDone,
                AnnounceDone
  <2>2. CASE Claim(w)
    BY <2>2 DEF Claim
  <2>3. CASE Begin(w) \/ PausePlanning(w) \/ ResumePlanned(w) \/ CompleteTask(w)
    BY <2>3 DEF Begin, PausePlanning, ResumePlanned, CompleteTask
  <2>4. CASE FailTask(w) \/ TimeoutTask(w)
    BY <2>4 DEF FailTask, TimeoutTask
  <2>. QED
    BY <1>1, <2>1, <2>2, <2>3, <2>4 DEF WorkerStep
<1>2. ASSUME NEW w \in Workers, ProcessStep(w) PROVE status'[t] = "cancelled"
  BY <1>2 DEF ProcessStep, StartWorker, StartUnrecovered, Interrupt, PollError, Recovered
<1>3. ASSUME NEW c \in Clients, ApiStep(c) PROVE status'[t] = "cancelled"
  BY <1>3 DEF ApiStep, CancelWrite, RetryWrite, CancelRead, RetryRead, Write, Retrying
<1>4. ASSUME NEW u \in Tasks, CreateTask(u) PROVE status'[t] = "cancelled"
  BY <1>4 DEF CreateTask, Write
<1>5. CASE UNCHANGED vars
  BY <1>5 DEF vars
<1>. QED
  BY <1>1, <1>2, <1>3, <1>4, <1>5 DEF Next

\* A task cancelled before it is claimed stays cancelled.
THEOREM CancelledBeforeClaim == Spec => CancelBeforeClaimSticks
<1>1. TypeOK /\ [Next]_vars
        => [\A t \in Tasks : status[t] = "cancelled" /\ Unclaimed(t)
                             => status'[t] = "cancelled"]_vars
  BY CancelledRowKept
<1>. QED
  BY <1>1, TypeCorrect, PTL DEF Spec, CancelBeforeClaimSticks

----------------------------------------------------------------------------
(* TaskQueue implements WorkQueue. *)

OwnerIsHolder ==
  \A t \in Tasks :
    /\ \A w \in Workers : t \notin disturbed /\ Holds(w, t) => Owner(t) = w
    /\ Owner(t) # NoTask => t \notin disturbed /\ \E w \in Workers : Holds(w, t) /\ Owner(t) = w

Pending == {t \in Tasks \ disturbed : status[t] = "pending"}
Owners  == [t \in Tasks |-> Owner(t)]

SameHolders == \A w \in Workers, t \in Tasks : Holds(w, t)' <=> Holds(w, t)

\* A held, undisturbed task has one holder, so Owner picks it.
LEMMA OwnerUnique ==
  ASSUME SafetyInv PROVE OwnerIsHolder
<1>1. ASSUME NEW t \in Tasks, NEW w \in Workers, t \notin disturbed, Holds(w, t)
      PROVE  Owner(t) = w
  BY <1>1 DEF SafetyInv, ClaimExclusive, Holds, Holding, Held, Owner
<1>2. ASSUME NEW t \in Tasks, Owner(t) # NoTask
      PROVE  t \notin disturbed /\ \E w \in Workers : Holds(w, t) /\ Owner(t) = w
  BY <1>2 DEF Owner, Held
<1>. QED
  BY <1>1, <1>2 DEF OwnerIsHolder

LEMMA OwnerUniqueNext ==
  ASSUME SafetyInv' PROVE OwnerIsHolder'
<1>1. ASSUME NEW t \in Tasks, NEW w \in Workers, t \notin disturbed', Holds(w, t)'
      PROVE  Owner(t)' = w
  BY <1>1 DEF SafetyInv, ClaimExclusive, Holds, Holding, Held, Owner
<1>2. ASSUME NEW t \in Tasks, Owner(t)' # NoTask
      PROVE  t \notin disturbed' /\ \E w \in Workers : Holds(w, t)' /\ Owner(t)' = w
  BY <1>2 DEF Owner, Held
<1>. QED
  BY <1>1, <1>2 DEF OwnerIsHolder

\* A step that changes no hold changes the owners of the tasks it disturbs only.
LEMMA OwnersKept ==
  ASSUME OwnerIsHolder, OwnerIsHolder', SameHolders, NEW D \in SUBSET Tasks,
         disturbed' = disturbed \cup D
  PROVE  Owners' = [t \in Tasks |-> IF t \in D THEN NoTask ELSE Owner(t)]
<1>1. ASSUME NEW t \in Tasks PROVE Owner(t)' = IF t \in D THEN NoTask ELSE Owner(t)
  <2>1. CASE t \in D
    BY <2>1 DEF OwnerIsHolder
  <2>2. CASE t \notin D /\ t \in disturbed
    BY <2>2 DEF OwnerIsHolder
  <2>3. CASE t \notin D /\ t \notin disturbed
    BY <2>3, NoTaskIsNone DEF OwnerIsHolder, SameHolders
  <2>. QED
    BY <2>1, <2>2, <2>3
<1>. QED
  BY <1>1 DEF Owners

\* A step that keeps the queue, the holders and the disturbed tasks is a
\* stutter of WorkQueue.
LEMMA KeepIsStutter ==
  ASSUME OwnerIsHolder, OwnerIsHolder', Pending' = Pending, SameHolders,
         disturbed' = disturbed
  PROVE  UNCHANGED Queue!qvars
<1>1. Owners' = Owners
  BY OwnersKept, {} \in SUBSET Tasks, disturbed' = disturbed \cup {} DEF Owners
<1>. QED
  BY <1>1 DEF Queue!qvars, Pending, Owners

\* A step that adds tasks nobody holds to the queue and disturbs others is an
\* Enqueue.
LEMMA AddIsEnqueue ==
  ASSUME OwnerIsHolder, OwnerIsHolder', SameHolders,
         NEW S \in SUBSET Tasks, NEW D \in SUBSET Tasks,
         \A t \in S : ~ Held(t) /\ t \notin disturbed \cup D,
         Pending' = (Pending \cup S) \ D, disturbed' = disturbed \cup D
  PROVE  Queue!Next
<1>1. Owners' = [t \in Tasks |-> IF t \in D THEN NoTask ELSE Owner(t)]
  BY OwnersKept
<1>2. \A t \in S : Owner(t) = NoTask
  BY DEF OwnerIsHolder, Held
<1>3. Queue!Enqueue(S, D)
  BY <1>1, <1>2 DEF Queue!Enqueue, Pending, Owners
<1>. QED
  BY <1>3 DEF Queue!Next

\* A step that takes a task back from the queue is a Withdraw.
LEMMA TakeIsWithdraw ==
  ASSUME OwnerIsHolder, OwnerIsHolder', SameHolders, NEW u \in Tasks,
         Pending' = Pending \ {u}, disturbed' = disturbed
  PROVE  Queue!Next
<1>1. Owners' = Owners
  BY OwnersKept, {} \in SUBSET Tasks, disturbed' = disturbed \cup {} DEF Owners
<1>2. Queue!Withdraw(u)
  BY <1>1 DEF Queue!Withdraw, Pending, Owners
<1>. QED
  BY <1>2 DEF Queue!Next

\* A step that only makes one worker drop its task, with no row entering or
\* leaving the queue, is a Release, or a stutter when the task is disturbed.
LEMMA DropIsRelease ==
  ASSUME TypeOK, OwnerIsHolder, OwnerIsHolder', NEW w \in Workers, Holding(w),
         ~ Holding(w)', Pending' = Pending, disturbed' = disturbed,
         \A v \in Workers, t \in Tasks : v # w => (Holds(v, t)' <=> Holds(v, t))
  PROVE  Queue!Next \/ UNCHANGED Queue!qvars
<1>1. PICK u \in Tasks : u = cur[w] /\ Holds(w, u)
  BY ZenonT(30) DEF TypeOK, Holding, Holds, HoldPCs
<1>2. ASSUME NEW t \in Tasks, t # u PROVE Owner(t)' = Owner(t)
  <2>1. \A v \in Workers : Holds(v, t)' <=> Holds(v, t)
    BY <1>1, <1>2 DEF Holds, Holding
  <2>. QED
    BY <2>1, NoTaskIsNone DEF OwnerIsHolder
<1>3. CASE u \in disturbed
  <2>1. Owner(u)' = Owner(u)
    BY <1>3 DEF OwnerIsHolder
  <2>2. Owners' = Owners
    BY <1>2, <2>1 DEF Owners
  <2>. QED
    BY <2>2 DEF Queue!qvars, Pending, Owners
<1>4. CASE u \notin disturbed
  <2>1. Owner(u) = w /\ w # NoTask
    BY <1>1, <1>4, NoTaskIsNone DEF OwnerIsHolder
  <2>2. \A v \in Workers : ~ Holds(v, u)'
    <3>. SUFFICES ASSUME NEW v \in Workers, Holds(v, u)' PROVE FALSE
      OBVIOUS
    <3>1. CASE v = w
      BY <3>1 DEF Holds, Holding
    <3>2. CASE v # w
      BY <1>1, <1>4, <2>1, <3>2 DEF OwnerIsHolder
    <3>. QED
      BY <3>1, <3>2
  <2>3. Owner(u)' = NoTask
    BY <2>2 DEF OwnerIsHolder
  <2>4. Queue!Release(u)
    BY <1>1, <1>2, <2>1, <2>3 DEF Queue!Release, Pending
  <2>. QED
    BY <1>1, <2>4 DEF Queue!Next
<1>. QED
  BY <1>3, <1>4

\* The claim of a pending row is an Acquire, or a stutter when the task is
\* disturbed: nobody holds an undisturbed pending task.
LEMMA ClaimIsAcquire ==
  ASSUME TypeOK, SafetyInv, OwnerIsHolder, OwnerIsHolder', NEW w \in Workers,
         Claim(w), status[cur[w]] = "pending"
  PROVE  Queue!Next \/ UNCHANGED Queue!qvars
<1>. USE DEF Holds, HoldPCs
<1>1. PICK u \in Tasks : u = cur[w]
  BY ZenonT(40) DEF TypeOK, Claim
<1>2. /\ pc[w] = "selected"
      /\ status' = [status EXCEPT ![u] = "claimed"]
      /\ pc' = [pc EXCEPT ![w] = "claimed"]
      /\ UNCHANGED <<cur, disturbed>>
  BY <1>1 DEF Claim, Write, Goto
<1>3. Holds(w, u)' /\ \A v \in Workers, t \in Tasks : t # u => (Holds(v, t)' <=> Holds(v, t))
  BY <1>1, <1>2 DEF TypeOK
<1>4. ASSUME NEW t \in Tasks, t # u PROVE Owner(t)' = Owner(t)
  <2>1. \A v \in Workers : Holds(v, t)' <=> Holds(v, t)
    BY <1>3, <1>4
  <2>. QED
    BY <1>2, <2>1, NoTaskIsNone DEF OwnerIsHolder
<1>5. CASE u \in disturbed
  <2>1. Owner(u)' = Owner(u)
    BY <1>2, <1>5 DEF OwnerIsHolder
  <2>2. Owners' = Owners
    BY <1>4, <2>1 DEF Owners
  <2>3. Pending' = Pending
    BY <1>2, <1>5 DEF TypeOK, Pending
  <2>. QED
    BY <1>2, <2>2, <2>3 DEF Queue!qvars, Pending, Owners
<1>6. CASE u \notin disturbed
  <2>1. \A v \in Workers : ~ Holds(v, u)
    BY <1>1, <1>6 DEF SafetyInv, HolderStatus, Holding
  <2>2. \A t \in Tasks : Owner(t) # w
    BY <1>2, NoTaskIsNone DEF OwnerIsHolder
  <2>3. Owner(u) = NoTask
    BY <2>1 DEF OwnerIsHolder
  <2>4. Owner(u)' = w
    BY <1>2, <1>3, <1>6 DEF OwnerIsHolder
  <2>5. Pending' = Pending \ {u} /\ u \in Pending
    BY <1>1, <1>2, <1>6 DEF TypeOK, Pending
  <2>6. Queue!Acquire(w, u)
    BY <1>2, <1>4, <2>2, <2>3, <2>4, <2>5 DEF Queue!Acquire, Pending
  <2>. QED
    BY <2>6 DEF Queue!Next
<1>. QED
  BY <1>5, <1>6

\* The task timeout: a Release at a holder; at a cleanup, whoever holds the
\* task by then disturbs it, and a task nobody has taken yet is taken back.
LEMMA TimeoutRefines ==
  ASSUME TypeOK, SafetyInv, OwnerIsHolder, OwnerIsHolder', NEW w \in Workers, TimeoutTask(w)
  PROVE  Queue!Next \/ UNCHANGED Queue!qvars
<1>. USE DEF TypeOK, Holds, Holding, HoldPCs, Goto, Release, TimeoutTask, Disturb
<1>1. PICK u \in Tasks : u = cur[w]
  BY ZenonT(40)
<1>2. \A v \in Workers, t \in Tasks : v # w => (Holds(v, t)' <=> Holds(v, t))
  OBVIOUS
<1>3. status'[u] # "pending" /\ \A t \in Tasks : t # u => status'[t] = status[t]
  BY <1>1 DEF WriteFailed, Write
<1>4. CASE Holding(w)
  <2>1. disturbed' = disturbed
    BY <1>1, <1>4 DEF SafetyInv, ClaimExclusive
  <2>2. u \notin disturbed => status[u] # "pending"
    BY <1>1, <1>4 DEF SafetyInv, HolderStatus
  <2>3. Pending' = Pending
    BY <1>1, <1>3, <2>1, <2>2 DEF Pending
  <2>. QED
    BY <1>2, <1>4, <2>1, <2>3, DropIsRelease
<1>5. CASE pc[w] = "cleanup"
  <2>. DEFINE D == {t \in {u} : \E v \in Workers \ {w} : Holds(v, t)}
  <2>1. SameHolders
    BY <1>2, <1>5 DEF SameHolders
  <2>2. disturbed' = disturbed \cup D /\ D \in SUBSET Tasks
    BY <1>1
  <2>3. Pending' = Pending \ {u}
    <3>1. \A t \in D : t = u
      OBVIOUS
    <3>. QED
      BY <1>3, <2>2, <3>1 DEF Pending
  <2>4. CASE D = {}
    BY <2>1, <2>2, <2>3, <2>4, TakeIsWithdraw
  <2>5. CASE D # {}
    <3>1. D = {u}
      BY <2>5
    <3>2. Pending' = (Pending \cup {}) \ D
      BY <2>3, <3>1
    <3>3. {} \in SUBSET Tasks /\ \A t \in {} : ~ Held(t) /\ t \notin disturbed \cup D
      OBVIOUS
    <3>. HIDE DEF D
    <3>. QED
      BY <2>1, <2>2, <3>2, <3>3, AddIsEnqueue
  <2>. QED
    BY <2>4, <2>5
<1>. QED
  BY <1>4, <1>5

\* Every step of a worker is a step of WorkQueue or a stutter.
LEMMA WorkerStepRefines ==
  ASSUME TypeOK, SafetyInv, OwnerIsHolder, OwnerIsHolder', NEW w \in Workers, WorkerStep(w)
  PROVE  Queue!Next \/ UNCHANGED Queue!qvars
<1>. USE DEF TypeOK, Holds, Holding, HoldPCs, Goto, Release
<1>1. CASE SelectOldest(w) \/ CheckNotCancelled(w) \/ GroupDone(w) \/ CleanupDone(w)
  <2>1. UNCHANGED <<status, disturbed>>
    BY <1>1 DEF SelectOldest, CheckNotCancelled, GroupDone, CleanupDone
  <2>2. SameHolders
    BY <1>1 DEF SelectOldest, CheckNotCancelled, GroupDone, CleanupDone, SameHolders
  <2>. QED
    BY <2>1, <2>2, KeepIsStutter DEF Pending
<1>2. CASE Claim(w)
  <2>1. CASE status[cur[w]] # "pending"
    <3>1. SameHolders
      BY <1>2, <2>1 DEF Claim, SameHolders
    <3>. QED
      BY <1>2, <2>1, <3>1, KeepIsStutter DEF Claim, Pending
  <2>. QED
    BY <1>2, <2>1, ClaimIsAcquire
<1>3. CASE Begin(w) \/ PausePlanning(w) \/ ResumePlanned(w) \/ CompleteTask(w)
  <2>1. Holding(w) /\ cur[w] \in Tasks /\ disturbed' = disturbed
    BY <1>3 DEF Begin, PausePlanning, ResumePlanned, CompleteTask
  <2>2. cur[w] \notin disturbed => status[cur[w]] # "pending"
    BY <2>1 DEF SafetyInv, HolderStatus
  <2>3. Pending' = Pending
    <3>1. status'[cur[w]] # "pending" /\ \A t \in Tasks : t # cur[w] => status'[t] = status[t]
      BY <1>3, <2>1 DEF Begin, PausePlanning, ResumePlanned, CompleteTask, Write
    <3>. QED
      BY <2>1, <2>2, <3>1 DEF Pending
  <2>4. SameHolders
    BY <1>3 DEF Begin, PausePlanning, ResumePlanned, CompleteTask, SameHolders
  <2>. QED
    BY <2>1, <2>3, <2>4, KeepIsStutter
<1>4. CASE CheckCancelled(w) \/ FailTask(w) \/ AnnounceDone(w)
  <2>. USE <1>4 DEF CheckCancelled, FailTask, AnnounceDone
  <2>1. Holding(w) /\ ~ Holding(w)' /\ cur[w] \in Tasks /\ disturbed' = disturbed
    OBVIOUS
  <2>2. cur[w] \notin disturbed => status[cur[w]] # "pending"
    BY <2>1 DEF SafetyInv, HolderStatus
  <2>3. Pending' = Pending
    BY <2>1, <2>2 DEF Pending, Write, WriteFailed
  <2>4. \A v \in Workers, t \in Tasks : v # w => (Holds(v, t)' <=> Holds(v, t))
    OBVIOUS
  <2>. QED
    BY <2>1, <2>3, <2>4, DropIsRelease
<1>. QED
  BY <1>1, <1>2, <1>3, <1>4, TimeoutRefines DEF WorkerStep

\* A start enqueues what it recovers and disturbs what another worker holds of
\* it; an interrupt and a poll error release.
LEMMA ProcessStepRefines ==
  ASSUME TypeOK, SafetyInv, OwnerIsHolder, OwnerIsHolder', NEW w \in Workers, ProcessStep(w)
  PROVE  Queue!Next \/ UNCHANGED Queue!qvars
<1>. USE DEF TypeOK, Holds, Holding, HoldPCs, Goto, Release
<1>1. CASE StartWorker(w)
  <2>. DEFINE D == {t \in Tasks : Held(t) /\ status[t] \in {"running", "claimed"}}
              S == {t \in Tasks \ (disturbed \cup D) : status[t] \in {"running", "claimed"}}
  <2>1. SameHolders
    BY <1>1 DEF StartWorker, SameHolders
  <2>2. disturbed' = disturbed \cup D
    BY <1>1 DEF StartWorker, Disturb
  <2>3. \A t \in Tasks : status'[t] = "pending" <=> status[t] \in {"pending", "running", "claimed"}
    BY <1>1 DEF StartWorker, Recovered
  <2>4. Pending' = (Pending \cup S) \ D
    BY <2>2, <2>3 DEF Pending
  <2>5. \A t \in S : ~ Held(t) /\ t \notin disturbed \cup D
    OBVIOUS
  <2>6. S \in SUBSET Tasks /\ D \in SUBSET Tasks
    OBVIOUS
  <2>. HIDE DEF S, D
  <2>. QED
    BY <2>1, <2>2, <2>4, <2>5, <2>6, AddIsEnqueue
<1>2. CASE StartUnrecovered(w)
  <2>1. SameHolders
    BY <1>2 DEF StartUnrecovered, SameHolders
  <2>. QED
    BY <1>2, <2>1, KeepIsStutter DEF StartUnrecovered, Pending
<1>3. CASE Interrupt(w) \/ PollError(w)
  <2>. USE <1>3 DEF Interrupt, PollError
  <2>1. Pending' = Pending /\ disturbed' = disturbed
    BY DEF Pending
  <2>2. ~ Holding(w)' /\ \A v \in Workers, t \in Tasks : v # w => (Holds(v, t)' <=> Holds(v, t))
    OBVIOUS
  <2>3. CASE Holding(w)
    BY <2>1, <2>2, <2>3, DropIsRelease
  <2>4. CASE ~ Holding(w)
    <3>1. SameHolders
      BY <2>2, <2>4 DEF SameHolders
    <3>. QED
      BY <2>1, <3>1, KeepIsStutter
  <2>. QED
    BY <2>3, <2>4
<1>. QED
  BY <1>1, <1>2, <1>3 DEF ProcessStep

\* A retry enqueues, a cancel withdraws, a second retry disturbs.
LEMMA ApiStepRefines ==
  ASSUME TypeOK, SafetyInv, OwnerIsHolder, OwnerIsHolder', NEW c \in Clients, ApiStep(c)
  PROVE  Queue!Next \/ UNCHANGED Queue!qvars
<1>. USE DEF TypeOK, Idle
<1>1. UNCHANGED <<pc, cur>>
  BY DEF ApiStep, CancelWrite, RetryWrite, CancelRead, RetryRead
<1>2. SameHolders
  BY <1>1 DEF Holds, SameHolders
<1>3. CASE CancelWrite(c)
  <2>1. PICK u \in Tasks : u = api[c].task /\ status' = [status EXCEPT ![u] = "cancelled"]
    BY <1>3 DEF CancelWrite, Write
  <2>2. Pending' = Pending \ {u} /\ disturbed' = disturbed
    BY <1>3, <2>1 DEF CancelWrite, Pending
  <2>. QED
    BY <1>2, <2>2, TakeIsWithdraw
<1>4. CASE RetryWrite(c)
  <2>1. PICK u \in Tasks : u = api[c].task /\ status' = [status EXCEPT ![u] = "pending"]
    BY <1>4 DEF RetryWrite, Write
  <2>2. disturbed' = disturbed
    BY <1>4 DEF RetryWrite
  <2>3. CASE u \in disturbed
    <3>1. Pending' = Pending
      BY <2>1, <2>2, <2>3 DEF Pending
    <3>. QED
      BY <1>2, <2>2, <3>1, KeepIsStutter
  <2>4. CASE u \notin disturbed
    <3>. DEFINE S == {u} D == {t \in Tasks : FALSE}
    <3>1. Pending' = (Pending \cup S) \ D /\ disturbed' = disturbed \cup D
      BY <2>1, <2>2, <2>4 DEF Pending
    <3>2. \A t \in S : ~ Held(t) /\ t \notin disturbed \cup D
      BY <1>4, <2>1, <2>4 DEF RetryWrite, SafetyInv, RetryQuiet
    <3>3. S \in SUBSET Tasks /\ D \in SUBSET Tasks
      BY <2>1
    <3>. HIDE DEF S, D
    <3>. QED
      BY <1>2, <3>1, <3>2, <3>3, AddIsEnqueue
  <2>. QED
    BY <2>3, <2>4
<1>5. ASSUME NEW t \in Tasks, CancelRead(c, t)
      PROVE  UNCHANGED Queue!qvars
  BY <1>2, <1>5, KeepIsStutter DEF CancelRead, Pending
<1>6. ASSUME NEW t \in Tasks, RetryRead(c, t)
      PROVE  Queue!Next
  <2>. DEFINE D == {u \in {t} : \E d \in Clients : Retrying(d, u)}
  <2>1. disturbed' = disturbed \cup D /\ status' = status /\ status[t] = "failed"
    BY <1>6 DEF RetryRead, Disturb
  <2>2. Pending' = (Pending \cup {}) \ D
    BY <2>1 DEF Pending
  <2>3. {} \in SUBSET Tasks /\ D \in SUBSET Tasks
        /\ \A u \in {} : ~ Held(u) /\ u \notin disturbed \cup D
    OBVIOUS
  <2>. HIDE DEF D
  <2>. QED
    BY <1>2, <2>1, <2>2, <2>3, AddIsEnqueue
<1>. QED
  BY <1>3, <1>4, <1>5, <1>6 DEF ApiStep

\* Every step of the task queue is a step of WorkQueue or a stutter.
LEMMA StepRefines ==
  ASSUME TypeOK, SafetyInv, SafetyInv', [Next]_vars
  PROVE  [Queue!Next]_(Queue!qvars)
<1>1. OwnerIsHolder /\ OwnerIsHolder'
  BY OwnerUnique, OwnerUniqueNext
<1>2. ASSUME NEW u \in Tasks, CreateTask(u) PROVE Queue!Next
  <2>. DEFINE S == {u} \ disturbed
  <2>1. Pending' = (Pending \cup S) \ {} /\ disturbed' = disturbed \cup {}
    BY <1>2 DEF CreateTask, Write, TypeOK, Pending
  <2>2. SameHolders
    BY <1>2 DEF CreateTask, Holds, SameHolders
  <2>3. \A t \in S : ~ Held(t) /\ t \notin disturbed \cup {}
    BY <1>2 DEF CreateTask, SafetyInv, HolderStatus, Held, Holds, Holding
  <2>4. S \in SUBSET Tasks /\ {} \in SUBSET Tasks
    OBVIOUS
  <2>. HIDE DEF S
  <2>. QED
    BY <1>1, <2>1, <2>2, <2>3, <2>4, AddIsEnqueue
<1>3. CASE UNCHANGED vars
  BY <1>1, <1>3, KeepIsStutter DEF vars, Pending, Holds, SameHolders
<1>. QED
  BY <1>1, <1>2, <1>3, WorkerStepRefines, ProcessStepRefines, ApiStepRefines DEF Next

\* The task queue implements WorkQueue in every behaviour: an undisturbed task
\* is handed only to a worker that owns nothing, only while it is queued, and
\* is not queued again before that worker has let it go.
THEOREM QueueRefinement == Spec => QueueSpec
<1>1. Init => Queue!Init
  BY DEF Init, Queue!Init, Owner, Held, Holds, HoldPCs
<1>2. TypeOK /\ SafetyInv /\ SafetyInv' /\ [Next]_vars => [Queue!Next]_(Queue!qvars)
  BY StepRefines
<1>. QED
  BY <1>1, <1>2, TypeCorrect, SafetyCorrect, PTL DEF Spec, QueueSpec, Queue!Spec

=============================================================================
