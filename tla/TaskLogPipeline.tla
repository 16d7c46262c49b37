--------------------------- MODULE TaskLogPipeline ---------------------------
(***************************************************************************)
(* The log of a task's events (services/task_log_pipeline.py): coroutines  *)
(* number their events and put operations on a bounded queue, which a      *)
(* consumer writes to the database in batches (services/task_log_service   *)
(* .py).  The pipeline is started with the process, stopped when it shuts  *)
(* down, and started again by whoever emits an event then, for example a   *)
(* stage coroutine that outlives its run.                                  *)
(*                                                                         *)
(* An emitter stands for a coroutine that logs one event after another:    *)
(* emit_create puts a row in status running, emit_update closes it.  An    *)
(* event created in its final status is a row that is never updated.       *)
(* Priority "low" is not used by any caller.                               *)
(***************************************************************************)
EXTENDS Integers, Sequences, FiniteSets

CONSTANTS Emitters, Tasks, TaskOf,  \* who emits, and events of which task
          Rows,                     \* <<e, k>> is the k-th row that e writes
          QueueSize, BatchSize,     \* of the queue and of one transaction
          MaxFailures, MaxCrashes   \* bounds of the model

ASSUME TaskOfEmitters == TaskOf \in [Emitters -> Tasks]
ASSUME RowsAreNumbered == Rows \subseteq Emitters \X (Nat \ {0})
ASSUME SizesArePositive == {QueueSize, BatchSize} \subseteq Nat \ {0}
ASSUME NobodyEmits == "nobody" \notin Emitters
ASSUME BoundsAreNat == {MaxFailures, MaxCrashes} \subseteq Nat

VARIABLES running,   \* _running
          worker,    \* _worker_task: a consumer or none
          stop,      \* stop(): no, the consumer it awaits, or done
          consumer,  \* the coroutines in _run: off, get or flush
          batch,     \* what each of them holds
          queue,
          cache,     \* _sequence_cache; Unread for a task not in it
          lock,      \* _sequence_lock: its holder or Nobody
          em,        \* where each emitter is
          seq,       \* event_seq of the payload of each row, 0 before
          log,       \* task_stage_logs: the status of each row, or none
          astray,    \* rows with an operation that was never put on the queue, was
                     \* lost, or was written while another one of the row was
          failures, crashes

vars == <<running, worker, stop, consumer, batch, queue, cache, lock, em, seq, log,
          astray, failures, crashes>>

Consumers == {"first", "second"}
Unread == -1
Nobody == "nobody"
Op == [op : {"create", "update"}, id : Rows]
Fresh == [pc |-> "idle", row |-> 1, max |-> 0]
PCs == {"idle", "seq", "max", "putCreate", "open", "putUpdate"}

TypeOK ==
  /\ running \in BOOLEAN
  /\ worker \in Consumers \cup {"none"}
  /\ stop \in Consumers \cup {"no", "done"} /\ (stop = "no" => worker # "none")
  /\ consumer \in [Consumers -> {"off", "get", "flush"}]
  /\ batch \in [Consumers -> Seq(Op)] /\ \A c \in Consumers : Len(batch[c]) <= BatchSize
  /\ queue \in Seq(Op) /\ Len(queue) <= QueueSize
  /\ cache \in [Tasks -> Nat \cup {Unread}]
  /\ lock \in Emitters \cup {Nobody}
  /\ em \in [Emitters -> [pc : PCs, row : Nat, max : Nat]]
  /\ \A e \in Emitters : em[e].pc # "idle" => <<e, em[e].row>> \in Rows
  /\ seq \in [Rows -> Nat]
  /\ log \in [Rows -> {"none", "running", "closed"}]
  /\ astray \subseteq Rows
  /\ failures \in 0 .. MaxFailures /\ crashes \in 0 .. MaxCrashes

Init ==
  /\ running = TRUE /\ worker = "first" /\ stop = "no"
  /\ consumer = [c \in Consumers |-> IF c = "first" THEN "get" ELSE "off"]
  /\ batch = [c \in Consumers |-> <<>>] /\ queue = <<>>
  /\ cache = [t \in Tasks |-> Unread] /\ lock = Nobody
  /\ em = [e \in Emitters |-> Fresh]
  /\ seq = [id \in Rows |-> 0] /\ log = [id \in Rows |-> "none"]
  /\ astray = {} /\ failures = 0 /\ crashes = 0

-----------------------------------------------------------------------------
(* Emitting.                                                               *)

Row(e) == <<e, em[e].row>>
Goto(e, pc) == em' = [em EXCEPT ![e] = [@ EXCEPT !.pc = pc]]
NextRow(e) == [Fresh EXCEPT !.row = em[e].row + 1]
Store == <<seq, log, astray, failures, crashes>>

\* start() creates a consumer when none is meant to run, even if the one that
\* stop() awaits has not ended.
EnsureStarted ==
  IF running THEN UNCHANGED <<running, worker, consumer>>
  ELSE /\ running' = TRUE
       /\ \E c \in Consumers :
            /\ c # stop /\ consumer[c] = "off"
            /\ consumer' = [consumer EXCEPT ![c] = "get"]
            /\ worker' = c

EmitCreate(e) ==
  /\ em[e].pc = "idle" /\ Row(e) \in Rows
  /\ EnsureStarted
  /\ Goto(e, "seq")
  /\ UNCHANGED <<stop, batch, queue, cache, lock, Store>>

Logged(t) == {id \in Rows : TaskOf[id[1]] = t /\ log[id] # "none"}

\* Mutant: the lock is not held while the highest number is read.
ReadMaxUnlocked(e) ==
  /\ em[e].pc = "seq" /\ cache[TaskOf[e]] = Unread
  /\ \E m \in {0} \cup {seq[id] : id \in Logged(TaskOf[e])} :
       /\ \A id \in Logged(TaskOf[e]) : seq[id] <= m
       /\ em' = [em EXCEPT ![e] = [@ EXCEPT !.pc = "max", !.max = m]]
  /\ UNCHANGED <<running, worker, stop, consumer, batch, queue, cache, lock, Store>>

\* Mutant: the numbers start at 1 in every process.
ReadNoMax(e) ==
  /\ em[e].pc = "seq" /\ lock = Nobody /\ cache[TaskOf[e]] = Unread
  /\ lock' = e
  /\ em' = [em EXCEPT ![e] = [@ EXCEPT !.pc = "max", !.max = 0]]
  /\ UNCHANGED <<running, worker, stop, consumer, batch, queue, cache, Store>>

\* The highest number in the database, read while the lock is held.
ReadMax(e) ==
  /\ em[e].pc = "seq" /\ lock = Nobody /\ cache[TaskOf[e]] = Unread
  /\ lock' = e
  /\ \E m \in {0} \cup {seq[id] : id \in Logged(TaskOf[e])} :
       /\ \A id \in Logged(TaskOf[e]) : seq[id] <= m
       /\ em' = [em EXCEPT ![e] = [@ EXCEPT !.pc = "max", !.max = m]]
  /\ UNCHANGED <<running, worker, stop, consumer, batch, queue, cache, Store>>

Reserve(e, last) ==
  /\ cache' = [cache EXCEPT ![TaskOf[e]] = last + 1]
  /\ seq' = [seq EXCEPT ![Row(e)] = last + 1]
  /\ lock' = Nobody
  /\ Goto(e, "putCreate")
  /\ UNCHANGED <<running, worker, stop, consumer, batch, queue, log, astray, failures, crashes>>

ReserveFirst(e) == em[e].pc = "max" /\ Reserve(e, em[e].max)
ReserveNext(e) ==
  /\ em[e].pc = "seq" /\ lock = Nobody /\ cache[TaskOf[e]] # Unread
  /\ Reserve(e, cache[TaskOf[e]])

\* With its operation on the queue a call of emit_create or emit_update is over.
Pending(e) == [op |-> IF em[e].pc = "putCreate" THEN "create" ELSE "update", id |-> Row(e)]
Emitted(e) == em' = [em EXCEPT ![e] = IF em[e].pc = "putCreate" THEN [@ EXCEPT !.pc = "open"]
                                                                ELSE NextRow(e)]
Putting(e) == em[e].pc \in {"putCreate", "putUpdate"}

\* Mutant: a full queue is no reason to wait.
EnqueueAnyway(e) ==
  /\ Putting(e)
  /\ queue' = Append(queue, Pending(e))
  /\ Emitted(e)
  /\ UNCHANGED <<running, worker, stop, consumer, batch, cache, lock, Store>>

\* Mutant: an operation that finds the queue full goes past it to the database.
EnqueueOrBypass(e) ==
  /\ Putting(e)
  /\ IF Len(queue) < QueueSize
     THEN queue' = Append(queue, Pending(e)) /\ UNCHANGED log
     ELSE /\ log' = [log EXCEPT ![Row(e)] = IF Pending(e).op = "create" THEN "running"
                                            ELSE IF @ = "none" THEN "none" ELSE "closed"]
          /\ UNCHANGED queue
  /\ Emitted(e)
  /\ UNCHANGED <<running, worker, stop, consumer, batch, cache, lock, seq, astray, failures, crashes>>

Enqueue(e) ==
  /\ Putting(e) /\ Len(queue) < QueueSize
  /\ queue' = Append(queue, Pending(e))
  /\ Emitted(e)
  /\ UNCHANGED <<running, worker, stop, consumer, batch, cache, lock, Store>>

EmitUpdate(e) ==
  /\ em[e].pc = "open"
  /\ EnsureStarted
  /\ Goto(e, "putUpdate")
  /\ UNCHANGED <<stop, batch, queue, cache, lock, Store>>

\* The coroutine is cancelled at an await; its next event is another row.
Cancel(e) ==
  /\ em[e].pc # "idle"
  /\ em' = [em EXCEPT ![e] = NextRow(e)]
  /\ lock' = IF lock = e THEN Nobody ELSE lock
  /\ astray' = astray \cup {Row(e)}
  /\ UNCHANGED <<running, worker, stop, consumer, batch, queue, cache, seq, log, failures, crashes>>

-----------------------------------------------------------------------------
(* The consumer.                                                           *)

IdsIn(s) == {s[i].id : i \in DOMAIN s}
Smaller(a, b) == IF a < b THEN a ELSE b

Take(c) ==
  /\ consumer[c] = "get" /\ queue # <<>>
  /\ LET n == Smaller(BatchSize, Len(queue))
     IN /\ batch' = [batch EXCEPT ![c] = SubSeq(queue, 1, n)]
        /\ queue' = SubSeq(queue, n + 1, Len(queue))
  /\ consumer' = [consumer EXCEPT ![c] = "flush"]
  /\ UNCHANGED <<running, worker, stop, cache, lock, em, Store>>

\* update_log changes nothing when there is no row of that id.
Creates(b, id) == \E i \in DOMAIN b : b[i] = [op |-> "create", id |-> id]
Closes(b, id) ==
  \E i \in DOMAIN b :
    /\ b[i] = [op |-> "update", id |-> id]
    /\ \/ log[id] # "none"
       \/ \E j \in DOMAIN b : j < i /\ b[j] = [op |-> "create", id |-> id]

\* Back to the head of the loop: go on while running or not empty.
NextBatch(c) ==
  /\ consumer' = [consumer EXCEPT ![c] = IF running \/ queue # <<>> THEN "get" ELSE "off"]
  /\ batch' = [batch EXCEPT ![c] = <<>>]

Flush(c) ==
  /\ consumer[c] = "flush"
  /\ log' = [id \in Rows |-> IF Closes(batch[c], id) THEN "closed"
                            ELSE IF Creates(batch[c], id) THEN "running" ELSE log[id]]
  /\ astray' = astray \cup UNION {IdsIn(batch[c]) \cap IdsIn(batch[o]) : o \in Consumers \ {c}}
  /\ NextBatch(c)
  /\ UNCHANGED <<running, worker, stop, queue, cache, lock, em, seq, failures, crashes>>

\* Mutant: the error of a failed transaction ends the consumer.
FlushFailsForGood(c) ==
  /\ consumer[c] = "flush" /\ failures < MaxFailures
  /\ failures' = failures + 1
  /\ astray' = astray \cup IdsIn(batch[c])
  /\ consumer' = [consumer EXCEPT ![c] = "off"]
  /\ batch' = [batch EXCEPT ![c] = <<>>]
  /\ UNCHANGED <<running, worker, stop, queue, cache, lock, em, seq, log, crashes>>

\* The transaction fails, and with it the whole batch is gone.
FlushFails(c) ==
  /\ consumer[c] = "flush" /\ failures < MaxFailures
  /\ failures' = failures + 1
  /\ astray' = astray \cup IdsIn(batch[c])
  /\ NextBatch(c)
  /\ UNCHANGED <<running, worker, stop, queue, cache, lock, em, seq, log, crashes>>

\* The wait for the queue times out after the pipeline was stopped.
Quit(c) ==
  /\ consumer[c] = "get" /\ queue = <<>> /\ ~running
  /\ consumer' = [consumer EXCEPT ![c] = "off"]
  /\ UNCHANGED <<running, worker, stop, batch, queue, cache, lock, em, Store>>

Stop ==
  /\ stop = "no"
  /\ running' = FALSE /\ stop' = worker
  /\ UNCHANGED <<worker, consumer, batch, queue, cache, lock, em, Store>>

StopReturns ==
  /\ stop \in Consumers /\ consumer[stop] = "off"
  /\ stop' = "done" /\ worker' = "none"
  /\ UNCHANGED <<running, consumer, batch, queue, cache, lock, em, Store>>

\* The process ends, shut down or not, and another one is started.
CrashAndRestart ==
  /\ crashes < MaxCrashes
  /\ crashes' = crashes + 1
  /\ running' = TRUE /\ worker' = "first" /\ stop' = "no"
  /\ consumer' = [c \in Consumers |-> IF c = "first" THEN "get" ELSE "off"]
  /\ batch' = [c \in Consumers |-> <<>>] /\ queue' = <<>>
  /\ cache' = [t \in Tasks |-> Unread] /\ lock' = Nobody
  /\ em' = [e \in Emitters |-> IF em[e].pc = "idle" THEN em[e] ELSE NextRow(e)]
  /\ astray' = astray \cup IdsIn(queue) \cup (UNION {IdsIn(batch[c]) : c \in Consumers})
                     \cup {Row(e) : e \in {f \in Emitters : em[f].pc # "idle"}}
  /\ UNCHANGED <<seq, log, failures>>

-----------------------------------------------------------------------------
EmitterStep(e) == ReadMax(e) \/ ReserveFirst(e) \/ ReserveNext(e) \/ Enqueue(e)
ConsumerStep(c) == Take(c) \/ Flush(c) \/ FlushFails(c) \/ Quit(c)

Next == \/ \E e \in Emitters : EmitCreate(e) \/ EmitUpdate(e) \/ EmitterStep(e) \/ Cancel(e)
        \/ \E c \in Consumers : ConsumerStep(c)
        \/ Stop \/ StopReturns \/ CrashAndRestart

\* The event loop runs whatever can go on; when events are emitted, coroutines
\* cancelled or the process stopped is up to others.
Spec == /\ Init /\ [][Next]_vars
        /\ \A e \in Emitters : WF_vars(EmitterStep(e))
        /\ \A c \in Consumers : WF_vars(ConsumerStep(c))

-----------------------------------------------------------------------------
\* No two rows of a task have the same number: list_logs orders by it, and the
\* numbers are given out again after a crash, when the queue was lost.
SeqUnique ==
  \A i, j \in Rows : (i # j /\ TaskOf[i[1]] = TaskOf[j[1]] /\ log[i] # "none" /\ log[j] # "none")
                      => seq[i] # seq[j]

\* The rows of one coroutine are numbered in the order in which it wrote them.
SeqFollowsEmission ==
  \A i, j \in Rows : (i[1] = j[1] /\ i[2] < j[2] /\ log[i] # "none" /\ log[j] # "none")
                      => seq[i] < seq[j]

\* Once its update has gone through the queue a row is not running any more,
\* unless a transaction failed, the process died, or a second consumer wrote a
\* part of the row meanwhile: a full queue does not reorder or lose operations.
Waiting(id) == id \in IdsIn(queue) \/ \E c \in Consumers : id \in IdsIn(batch[c])
InHand(id) == em[id[1]].pc # "idle" /\ Row(id[1]) = id
RowsClosed ==
  \A id \in Rows : (log[id] = "running" /\ id \notin astray) => Waiting(id) \/ InHand(id)

\* While the process is not shut down, everything put on the queue gets written
\* or is lost in a failed transaction, and nobody waits for room for ever.
Drained == <>[](stop = "no" => /\ queue = <<>> /\ \A c \in Consumers : batch[c] = <<>>
                               /\ \A e \in Emitters : ~Putting(e))

=============================================================================
