----------------------------- MODULE WorkQueue -----------------------------
(***************************************************************************)
(* What the task queue of the platform promises, with the database rows,   *)
(* the claim protocol and the API calls hidden: a task is either queued,   *)
(* owned by exactly one worker, or neither.  Only a queued task that has   *)
(* no owner is handed out, and a task with an owner is never queued again  *)
(* before its owner has let it go.  A task that two parties have worked on *)
(* at once (disturbed) is lost to the promise, and no other task with it.  *)
(* TaskQueue is shown to implement this.                                   *)
(***************************************************************************)
CONSTANTS Tasks, Workers, NoOwner

VARIABLES queued,   \* the tasks waiting for a worker
          owner,    \* the worker that is processing a task, or NoOwner
          disturbed \* the tasks the promise no longer speaks of

qvars == <<queued, owner, disturbed>>

Init == /\ queued = {}
        /\ owner = [t \in Tasks |-> NoOwner]
        /\ disturbed = {}

\* New, retried and recovered tasks, S, join the queue; owned ones that are
\* put back under their owner, or retried twice, are lost to it with D.
Enqueue(S, D) ==
  /\ \A t \in S : owner[t] = NoOwner /\ t \notin disturbed \cup D
  /\ queued' = (queued \cup S) \ D
  /\ owner' = [t \in Tasks |-> IF t \in D THEN NoOwner ELSE owner[t]]
  /\ disturbed' = disturbed \cup D

\* A queued task is taken back (it was cancelled).
Withdraw(t) == /\ queued' = queued \ {t}
               /\ UNCHANGED <<owner, disturbed>>

\* A worker that owns nothing gets a queued task.
Acquire(w, t) == /\ t \in queued
                 /\ owner[t] = NoOwner
                 /\ \A u \in Tasks : owner[u] # w
                 /\ queued' = queued \ {t}
                 /\ owner' = [owner EXCEPT ![t] = w]
                 /\ UNCHANGED disturbed

\* The owner is done with the task, or died.
Release(t) == /\ owner[t] # NoOwner
              /\ owner' = [owner EXCEPT ![t] = NoOwner]
              /\ UNCHANGED <<queued, disturbed>>

Next == \/ \E S, D \in SUBSET Tasks : Enqueue(S, D)
        \/ \E t \in Tasks : \/ Withdraw(t)
                            \/ Release(t)
                            \/ \E w \in Workers : Acquire(w, t)

Spec == Init /\ [][Next]_qvars
=============================================================================
