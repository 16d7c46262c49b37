------------------------ MODULE TaskLogPipelineProofs ------------------------
(***************************************************************************)
(* The numbers of the log rows: no two rows of a task ever have the same   *)
(* one, and those of one coroutine follow the order in which it wrote      *)
(* them, for any number of coroutines, tasks and rows and any sizes of     *)
(* queue and batch, across crashes and failed transactions.                *)
(*                                                                         *)
(* A row is alive while it is in the log or may still get there.  SeqInv   *)
(* says that the cached number of a task bounds those of its living rows,  *)
(* and that without a cached number only rows in the log are alive, so     *)
(* that the number read from the database is a bound, too.                 *)
(*                                                                         *)
(* And what becomes of a row: RowInv follows its creation and its update   *)
(* through queue and batches, in which they never pass each other.         *)
(***************************************************************************)
EXTENDS TaskLogPipeline, TLAPS

CreateOf(id) == [op |-> "create", id |-> id]
InQueue(id) == \E i \in DOMAIN queue : queue[i] = CreateOf(id)
InBatch(id) == \E c \in Consumers : \E i \in DOMAIN batch[c] : batch[c][i] = CreateOf(id)
AboutToPut(id) == em[id[1]].pc = "putCreate" /\ em[id[1]].row = id[2]
Alive(id) == log[id] # "none" \/ InQueue(id) \/ InBatch(id) \/ AboutToPut(id)
Ahead(id) == \/ id[2] > em[id[1]].row
             \/ id[2] = em[id[1]].row /\ em[id[1]].pc \in {"idle", "seq", "max"}
TaskOfRow(id) == TaskOf[id[1]]

UnreadQuiet == \A id \in Rows : cache[TaskOfRow(id)] = Unread /\ Alive(id) => log[id] # "none"
Numbered == \A id \in Rows : cache[TaskOfRow(id)] # Unread /\ Alive(id)
                               => seq[id] <= cache[TaskOfRow(id)]
MaxRead == \A e \in Emitters : em[e].pc = "max" =>
             /\ lock = e /\ cache[TaskOf[e]] = Unread
             /\ \A id \in Rows : TaskOfRow(id) = TaskOf[e] /\ log[id] # "none" => seq[id] <= em[e].max
NotYet == \A id \in Rows : Ahead(id) => ~Alive(id)
AliveUnique == \A i, j \in Rows : i # j /\ TaskOfRow(i) = TaskOfRow(j) /\ Alive(i) /\ Alive(j)
                                    => seq[i] # seq[j]
AliveOrdered == \A i, j \in Rows : i[1] = j[1] /\ i[2] < j[2] /\ Alive(i) /\ Alive(j)
                                     => seq[i] < seq[j]
SeqInv == UnreadQuiet /\ Numbered /\ MaxRead /\ NotYet /\ AliveUnique /\ AliveOrdered

-----------------------------------------------------------------------------
(* What Append and SubSeq keep, for the queue and the batches.             *)

LEMMA AppendElements ==
  ASSUME NEW q \in Seq(Op), NEW o \in Op
  PROVE  /\ Append(q, o) \in Seq(Op) /\ Len(Append(q, o)) = Len(q) + 1
         /\ \A i \in DOMAIN Append(q, o) : Append(q, o)[i] = o \/ \E j \in DOMAIN q : q[j] = Append(q, o)[i]
OBVIOUS

LEMMA SubSeqElements ==
  ASSUME NEW q \in Seq(Op), NEW m \in 1 .. Len(q) + 1, NEW n \in 0 .. Len(q), m <= n + 1
  PROVE  /\ SubSeq(q, m, n) \in Seq(Op) /\ Len(SubSeq(q, m, n)) = n - m + 1
         /\ \A i \in DOMAIN SubSeq(q, m, n) : \E j \in DOMAIN q : q[j] = SubSeq(q, m, n)[i]
<1>1. \A i \in 1 .. n - m + 1 : q[i + m - 1] \in Op /\ i + m - 1 \in DOMAIN q
  OBVIOUS
<1>2. SubSeq(q, m, n) = [i \in 1 .. n - m + 1 |-> q[i + m - 1]]
  OBVIOUS
<1> QED BY <1>1, <1>2

LEMMA IdsInRows == ASSUME NEW q \in Seq(Op) PROVE IdsIn(q) \subseteq Rows
<1>1. \A i \in DOMAIN q : q[i] \in Op
  OBVIOUS
<1> QED BY <1>1 DEF IdsIn, Op

LEMMA EmptySeq == <<>> \in Seq(Op) /\ Len(<<>>) = 0
OBVIOUS

-----------------------------------------------------------------------------
(* Type correctness.                                                       *)

LEMMA TypeInit == Init => TypeOK
BY SizesArePositive, BoundsAreNat DEF Init, TypeOK, Consumers, Fresh, PCs, Unread, Nobody

LEMMA TypeEnsureStarted == ASSUME TypeOK, EnsureStarted
  PROVE running' \in BOOLEAN /\ worker' \in Consumers \cup {"none"}
        /\ (stop = "no" => worker' # "none")
        /\ consumer' \in [Consumers -> {"off", "get", "flush"}]
<1>1. CASE running
  BY <1>1 DEF TypeOK, EnsureStarted
<1>2. CASE ~running
  <2>1. PICK c \in Consumers : consumer' = [consumer EXCEPT ![c] = "get"] /\ worker' = c
    BY <1>2 DEF EnsureStarted
  <2>2. running' = TRUE
    BY <1>2 DEF EnsureStarted
  <2>3. consumer' \in [Consumers -> {"off", "get", "flush"}]
    BY <2>1 DEF TypeOK
  <2>4. worker' # "none"
    BY <2>1 DEF Consumers
  <2> QED BY <2>1, <2>2, <2>3, <2>4
<1> QED BY <1>1, <1>2

LEMMA TypeStep == TypeOK /\ [Next]_vars => TypeOK'
<1> SUFFICES ASSUME TypeOK, [Next]_vars PROVE TypeOK'
  OBVIOUS
<1> USE DEF Store
<1> DEFINE EmType == /\ em \in [Emitters -> [pc : PCs, row : Nat, max : Nat]]
                     /\ \A e \in Emitters : em[e].pc # "idle" => <<e, em[e].row>> \in Rows
<1>1. ASSUME NEW e \in Emitters, EmitCreate(e) PROVE TypeOK'
  <2>1. EmType'
    BY <1>1 DEF TypeOK, EmitCreate, Goto, PCs, Row
  <2> QED BY <1>1, <2>1, TypeEnsureStarted DEF TypeOK, EmitCreate
<1>2. ASSUME NEW e \in Emitters, EmitUpdate(e) PROVE TypeOK'
  <2>1. EmType'
    BY <1>2 DEF TypeOK, EmitUpdate, Goto, PCs, Row
  <2> QED BY <1>2, <2>1, TypeEnsureStarted DEF TypeOK, EmitUpdate
<1>3. ASSUME NEW e \in Emitters, ReadMax(e) PROVE TypeOK'
  <2>1. \A m \in {0} \cup {seq[id] : id \in Logged(TaskOf[e])} : m \in Nat
    BY DEF TypeOK, Logged
  <2>2. EmType'
    <3>1. PICK m \in Nat : em' = [em EXCEPT ![e] = [@ EXCEPT !.pc = "max", !.max = m]]
      BY <1>3, <2>1 DEF ReadMax
    <3>2. [em[e] EXCEPT !.pc = "max", !.max = m] \in [pc : PCs, row : Nat, max : Nat]
      BY ZenonT(40) DEF TypeOK, PCs
    <3>3. em[e].pc = "seq"
      BY <1>3 DEF ReadMax
    <3> QED BY <3>1, <3>2, <3>3 DEF TypeOK
  <2> QED BY <1>3, <2>2 DEF TypeOK, ReadMax
<1>4. ASSUME NEW e \in Emitters, ReserveFirst(e) \/ ReserveNext(e) PROVE TypeOK'
  <2>1. PICK last \in Nat : Reserve(e, last)
    BY <1>4, TaskOfEmitters DEF TypeOK, ReserveFirst, ReserveNext, Unread
  <2>2. EmType'
    <3>1. em[e].pc # "idle" /\ em' = [em EXCEPT ![e].pc = "putCreate"]
      BY <1>4, <2>1 DEF Reserve, Goto, ReserveFirst, ReserveNext
    <3> QED BY <3>1, ZenonT(40) DEF TypeOK, PCs
  <2>3. seq' \in [Rows -> Nat] /\ cache' \in [Tasks -> Nat \cup {Unread}]
    <3>1. last + 1 \in Nat
      OBVIOUS
    <3> QED BY <2>1, <3>1, TaskOfEmitters DEF TypeOK, Reserve
  <2> QED BY <2>1, <2>2, <2>3 DEF TypeOK, Reserve, Nobody
<1>5. ASSUME NEW e \in Emitters, Enqueue(e) PROVE TypeOK'
  <2>1. em[e].row \in Nat /\ Row(e) \in Rows
    BY <1>5 DEF TypeOK, Enqueue, Row, Putting
  <2>2. Pending(e) \in Op
    BY <2>1 DEF Pending, Op
  <2>3. queue' \in Seq(Op) /\ Len(queue') <= QueueSize
    BY <1>5, <2>2, AppendElements, SizesArePositive DEF TypeOK, Enqueue
  <2>4. EmType'
    <3>1. em' \in [Emitters -> [pc : PCs, row : Nat, max : Nat]]
      <4>1. NextRow(e) \in [pc : PCs, row : Nat, max : Nat]
        BY <2>1 DEF NextRow, Fresh, PCs
      <4>2. [em[e] EXCEPT !.pc = "open"] \in [pc : PCs, row : Nat, max : Nat]
        BY DEF TypeOK, PCs
      <4> QED BY <1>5, <4>1, <4>2 DEF TypeOK, Enqueue, Emitted
    <3>2. \A f \in Emitters : em'[f].pc # "idle" => em'[f].row = em[f].row /\ em[f].pc # "idle"
      BY <1>5, <2>1 DEF TypeOK, Enqueue, Emitted, Putting, NextRow, Fresh
    <3> QED BY <3>1, <3>2 DEF TypeOK
  <2> QED BY <1>5, <2>3, <2>4 DEF TypeOK, Enqueue
<1>6. ASSUME NEW e \in Emitters, Cancel(e) PROVE TypeOK'
  <2>1. Row(e) \in Rows /\ em[e].row + 1 \in Nat
    BY <1>6 DEF TypeOK, Cancel, Row
  <2>2. EmType'
    BY <1>6, <2>1 DEF TypeOK, Cancel, NextRow, Fresh, PCs
  <2> QED BY <1>6, <2>1, <2>2 DEF TypeOK, Cancel, Nobody
<1>7. ASSUME NEW c \in Consumers, Take(c) PROVE TypeOK'
  <2> DEFINE n == Smaller(BatchSize, Len(queue))
  <2>1. n \in 1 .. Len(queue) /\ n <= BatchSize
    BY <1>7, SizesArePositive DEF TypeOK, Take, Smaller
  <2> HIDE DEF n
  <2>a. queue \in Seq(Op) /\ Len(queue) \in Nat
    BY DEF TypeOK
  <2>b. n \in 0 .. Len(queue) /\ 1 \in 1 .. Len(queue) + 1 /\ n + 1 \in 1 .. Len(queue) + 1
        /\ Len(queue) \in 0 .. Len(queue) /\ n + 1 <= Len(queue) + 1 /\ 1 <= n + 1
    BY <2>a, <2>1
  <2>2. /\ SubSeq(queue, 1, n) \in Seq(Op) /\ Len(SubSeq(queue, 1, n)) = n - 1 + 1
        /\ SubSeq(queue, n + 1, Len(queue)) \in Seq(Op)
        /\ Len(SubSeq(queue, n + 1, Len(queue))) = Len(queue) - (n + 1) + 1
    BY <2>a, <2>b, SubSeqElements
  <2>3. queue' \in Seq(Op) /\ Len(queue') <= QueueSize
    BY <1>7, <2>1, <2>2, SizesArePositive, SMTT(30) DEF TypeOK, Take, n
  <2>4. batch' \in [Consumers -> Seq(Op)] /\ \A k \in Consumers : Len(batch'[k]) <= BatchSize
    BY <1>7, <2>1, <2>2 DEF TypeOK, Take, n
  <2> QED BY <1>7, <2>3, <2>4 DEF TypeOK, Take
<1>8. ASSUME NEW c \in Consumers, Flush(c) \/ FlushFails(c) PROVE TypeOK'
  <2>1. \A k \in Consumers : IdsIn(batch[k]) \subseteq Rows
    BY IdsInRows DEF TypeOK
  <2>2. astray' \subseteq Rows
    BY <1>8, <2>1 DEF TypeOK, Flush, FlushFails
  <2>3. batch' \in [Consumers -> Seq(Op)] /\ \A k \in Consumers : Len(batch'[k]) <= BatchSize
    <3>1. 0 <= BatchSize
      BY SizesArePositive
    <3>2. batch' = [batch EXCEPT ![c] = <<>>]
      BY <1>8 DEF Flush, FlushFails, NextBatch
    <3> QED BY <3>1, <3>2, EmptySeq DEF TypeOK
  <2>4. consumer' \in [Consumers -> {"off", "get", "flush"}]
    BY <1>8 DEF TypeOK, Flush, FlushFails, NextBatch
  <2>5. failures' \in 0 .. MaxFailures
    BY <1>8, BoundsAreNat DEF TypeOK, Flush, FlushFails
  <2>6. log' \in [Rows -> {"none", "running", "closed"}]
    BY <1>8 DEF TypeOK, Flush, FlushFails
  <2> QED BY <1>8, <2>2, <2>3, <2>4, <2>5, <2>6 DEF TypeOK, Flush, FlushFails
<1>9. ASSUME NEW c \in Consumers, Quit(c) PROVE TypeOK'
  <2>1. consumer' \in [Consumers -> {"off", "get", "flush"}]
    BY <1>9 DEF TypeOK, Quit
  <2> QED BY <1>9, <2>1 DEF TypeOK, Quit
<1>10. ASSUME Stop \/ StopReturns PROVE TypeOK'
  BY <1>10 DEF TypeOK, Stop, StopReturns, Consumers
<1>11. ASSUME CrashAndRestart PROVE TypeOK'
  <2>1. /\ \A k \in Consumers : IdsIn(batch[k]) \subseteq Rows
        /\ IdsIn(queue) \subseteq Rows
    BY IdsInRows DEF TypeOK
  <2>2. astray' \subseteq Rows
    <3>1. \A e \in {f \in Emitters : em[f].pc # "idle"} : Row(e) \in Rows
      BY DEF TypeOK, Row
    <3> DEFINE InBatches == UNION {IdsIn(batch[c]) : c \in Consumers}
               InHands == {Row(e) : e \in {f \in Emitters : em[f].pc # "idle"}}
    <3>2. InHands \subseteq Rows
      BY <3>1
    <3>3. InBatches \subseteq Rows
      BY <2>1, Zenon
    <3>4. astray' = ((astray \cup IdsIn(queue)) \cup InBatches) \cup InHands
      BY <1>11 DEF CrashAndRestart
    <3>5. astray \subseteq Rows
      BY DEF TypeOK
    <3> HIDE DEF InBatches, InHands, EmType
    <3> QED BY <2>1, <3>2, <3>3, <3>4, <3>5
  <2>3. EmType'
    <3>1. \A e \in Emitters : em[e].row \in Nat /\ em[e] \in [pc : PCs, row : Nat, max : Nat]
      BY DEF TypeOK
    <3>2. \A e \in Emitters : NextRow(e) \in [pc : PCs, row : Nat, max : Nat] /\ NextRow(e).pc = "idle"
      BY <3>1 DEF NextRow, Fresh, PCs
    <3>3. em' = [e \in Emitters |-> IF em[e].pc = "idle" THEN em[e] ELSE NextRow(e)]
      BY <1>11 DEF CrashAndRestart
    <3> QED BY <3>1, <3>2, <3>3
  <2>4. queue' = <<>> /\ queue' \in Seq(Op) /\ Len(queue') = 0
        /\ batch' \in [Consumers -> Seq(Op)] /\ \A k \in Consumers : Len(batch'[k]) = 0
    BY <1>11, EmptySeq DEF CrashAndRestart
  <2> QED BY <1>11, <2>2, <2>3, <2>4, SizesArePositive, BoundsAreNat
          DEF TypeOK, CrashAndRestart, Unread, Nobody, Consumers
<1>12. ASSUME UNCHANGED vars PROVE TypeOK'
  BY <1>12 DEF TypeOK, vars
<1> QED
  BY <1>1, <1>2, <1>3, <1>4, <1>5, <1>6, <1>7, <1>8, <1>9, <1>10, <1>11, <1>12
  DEF Next, EmitterStep, ConsumerStep

\* Every reachable state of the log pipeline is well typed; in particular the
\* queue never holds more than its size and a batch never more than its own.
THEOREM TypeCorrect == Spec => []TypeOK
BY TypeInit, TypeStep, PTL DEF Spec

-----------------------------------------------------------------------------
(* The numbers.                                                            *)

LEMMA SeqInit == Init => SeqInv
<1> SUFFICES ASSUME Init PROVE SeqInv
  OBVIOUS
<1>1. \A id \in Rows : ~InQueue(id) /\ ~InBatch(id)
  BY DEF Init, InQueue, InBatch
<1>2. \A id \in Rows : ~Alive(id)
  BY <1>1, RowsAreNumbered DEF Init, Alive, AboutToPut, Fresh
<1>3. MaxRead
  BY DEF Init, MaxRead, Fresh
<1> QED BY <1>2, <1>3 DEF SeqInv, UnreadQuiet, Numbered, NotYet, AliveUnique, AliveOrdered

\* A step that gives out no number and brings no row to life keeps SeqInv.
LEMMA Narrowing ==
  ASSUME SeqInv, UNCHANGED <<seq, cache>>,
         \A id \in Rows : Alive(id)' => Alive(id),
         \A id \in Rows : log[id] # "none" => log'[id] # "none",
         \A id \in Rows : Ahead(id)' => Ahead(id),
         \A e \in Emitters : em'[e].pc = "max" => em'[e] = em[e] /\ lock' = lock
  PROVE  SeqInv'
<1>1. UnreadQuiet' /\ Numbered' /\ NotYet' /\ AliveUnique' /\ AliveOrdered'
  BY DEF SeqInv, UnreadQuiet, Numbered, NotYet, AliveUnique, AliveOrdered, TaskOfRow
<1>2. MaxRead'
  <2> SUFFICES ASSUME NEW e \in Emitters, em'[e].pc = "max"
               PROVE  /\ lock' = e /\ cache'[TaskOf[e]] = Unread
                      /\ \A id \in Rows : TaskOfRow(id) = TaskOf[e] /\ log'[id] # "none" => seq'[id] <= em'[e].max
    BY DEF MaxRead, TaskOfRow
  <2>1. em'[e] = em[e] /\ lock' = e /\ cache[TaskOf[e]] = Unread
        /\ \A id \in Rows : TaskOfRow(id) = TaskOf[e] /\ log[id] # "none" => seq[id] <= em[e].max
    BY DEF SeqInv, MaxRead
  <2>2. \A id \in Rows : TaskOfRow(id) = TaskOf[e] /\ log'[id] # "none" => log[id] # "none"
    BY <2>1 DEF Alive, SeqInv, UnreadQuiet
  <2> QED BY <2>1, <2>2
<1> QED BY <1>1, <1>2 DEF SeqInv

\* Steps that leave the queue, the batches and the log as they are.
LEMMA EmittersOnly ==
  ASSUME SeqInv, UNCHANGED <<seq, cache, queue, batch, log>>,
         \A id \in Rows : AboutToPut(id)' => AboutToPut(id),
         \A id \in Rows : Ahead(id)' => Ahead(id),
         \A e \in Emitters : em'[e].pc = "max" => em'[e] = em[e] /\ lock' = lock
  PROVE  SeqInv'
<1>1. \A id \in Rows : Alive(id)' => Alive(id)
  BY DEF Alive, InQueue, InBatch
<1> QED BY <1>1, Narrowing

LEMMA SeqEnqueue == ASSUME TypeOK, SeqInv, NEW e \in Emitters, Enqueue(e) PROVE SeqInv'
<1>1. PICK row \in Nat : row = em[e].row /\ Row(e) = <<e, row>> /\ Row(e) \in Rows
  BY DEF TypeOK, Enqueue, Putting, Row
<1>2. Pending(e) \in Op
  BY <1>1 DEF Pending, Op
<1>3. queue' = Append(queue, Pending(e)) /\ UNCHANGED <<seq, cache, batch, log, lock>>
  BY DEF Enqueue, Store
<1>4. \A id \in Rows : InQueue(id)' => InQueue(id) \/ Pending(e) = CreateOf(id)
  BY <1>2, <1>3, AppendElements DEF InQueue, CreateOf, TypeOK
<1>5. \A id \in Rows : Pending(e) = CreateOf(id) => AboutToPut(id)
  BY <1>1 DEF Pending, CreateOf, AboutToPut
<1>6. \A id \in Rows : InBatch(id)' => InBatch(id)
  BY <1>3 DEF InBatch
<1>7. \A f \in Emitters : (em'[f].pc # "max" /\ em'[f].pc # "putCreate") \/ em'[f] = em[f]
  BY DEF TypeOK, Enqueue, Emitted, NextRow, Fresh
<1>8. \A id \in Rows : Alive(id)' => Alive(id)
  BY <1>3, <1>4, <1>5, <1>6, <1>7, RowsAreNumbered DEF Alive, AboutToPut
<1>9. \A id \in Rows : Ahead(id)' => Ahead(id)
  <2> SUFFICES ASSUME NEW id \in Rows, Ahead(id)' PROVE Ahead(id)
    OBVIOUS
  <2>1. id[1] \in Emitters /\ id[2] \in Nat
    BY RowsAreNumbered
  <2>2. CASE id[1] # e
    BY <2>1, <2>2 DEF TypeOK, Enqueue, Emitted, Ahead
  <2>3. CASE id[1] = e /\ em[e].pc = "putCreate"
    BY <2>1, <2>3 DEF TypeOK, Enqueue, Emitted, Ahead
  <2>4. CASE id[1] = e /\ em[e].pc # "putCreate"
    BY <1>1, <2>1, <2>4 DEF TypeOK, Enqueue, Emitted, Ahead, NextRow, Fresh
  <2> QED BY <2>2, <2>3, <2>4
<1> QED BY <1>3, <1>7, <1>8, <1>9, Narrowing

LEMMA SeqTake == ASSUME TypeOK, SeqInv, NEW c \in Consumers, Take(c) PROVE SeqInv'
<1> DEFINE n == Smaller(BatchSize, Len(queue))
<1>1. n \in 0 .. Len(queue) /\ n + 1 \in 1 .. Len(queue) + 1 /\ Len(queue) \in 0 .. Len(queue)
      /\ 1 \in 1 .. Len(queue) + 1 /\ 1 <= n + 1 /\ n + 1 <= Len(queue) + 1 /\ queue \in Seq(Op)
  BY SizesArePositive DEF TypeOK, Smaller
<1> HIDE DEF n
<1>2. /\ \A i \in DOMAIN SubSeq(queue, 1, n) : \E j \in DOMAIN queue : queue[j] = SubSeq(queue, 1, n)[i]
      /\ \A i \in DOMAIN SubSeq(queue, n + 1, Len(queue)) :
           \E j \in DOMAIN queue : queue[j] = SubSeq(queue, n + 1, Len(queue))[i]
  BY <1>1, SubSeqElements
<1>3. batch' = [batch EXCEPT ![c] = SubSeq(queue, 1, n)] /\ queue' = SubSeq(queue, n + 1, Len(queue))
      /\ UNCHANGED <<seq, cache, log, em, lock>>
  BY DEF Take, n, Store
<1>4. \A id \in Rows : InQueue(id)' => InQueue(id)
  BY <1>2, <1>3 DEF InQueue
<1>5. \A id \in Rows : InBatch(id)' => InBatch(id) \/ InQueue(id)
  BY <1>2, <1>3 DEF InBatch, InQueue, TypeOK
<1>6. \A id \in Rows : Alive(id)' => Alive(id)
  BY <1>3, <1>4, <1>5 DEF Alive, AboutToPut
<1> QED BY <1>3, <1>6, Narrowing DEF Ahead

LEMMA SeqFlush == ASSUME TypeOK, SeqInv, NEW c \in Consumers, Flush(c) \/ FlushFails(c) PROVE SeqInv'
<1>1. UNCHANGED <<seq, cache, queue, em, lock>>
  BY DEF Flush, FlushFails
<1>2. \A id \in Rows : Creates(batch[c], id) => InBatch(id)
  BY DEF Creates, InBatch, CreateOf
<1>3. \A id \in Rows : Closes(batch[c], id) => log[id] # "none" \/ InBatch(id)
  BY DEF Closes, InBatch, CreateOf
<1>4. \A id \in Rows : /\ log'[id] # "none" => log[id] # "none" \/ InBatch(id)
                       /\ log[id] # "none" => log'[id] # "none"
  BY <1>2, <1>3 DEF Flush, FlushFails, TypeOK
<1>5. \A id \in Rows : InBatch(id)' => InBatch(id)
  <2>1. batch' = [batch EXCEPT ![c] = <<>>]
    BY DEF Flush, FlushFails, NextBatch
  <2> QED BY <2>1 DEF InBatch, TypeOK
<1>6. \A id \in Rows : Alive(id)' => Alive(id)
  BY <1>1, <1>4, <1>5 DEF Alive, AboutToPut, InQueue
<1> QED BY <1>1, <1>4, <1>6, Narrowing DEF Ahead

LEMMA SeqReadMax == ASSUME TypeOK, SeqInv, NEW e \in Emitters, ReadMax(e) PROVE SeqInv'
<1>1. PICK m : /\ \A id \in Logged(TaskOf[e]) : seq[id] <= m
               /\ em' = [em EXCEPT ![e] = [@ EXCEPT !.pc = "max", !.max = m]]
  BY DEF ReadMax
<1>2. em[e].pc = "seq" /\ lock = Nobody /\ lock' = e /\ cache[TaskOf[e]] = Unread
      /\ UNCHANGED <<seq, cache, queue, batch, log>>
  BY DEF ReadMax, Store
<1>3. \A id \in Rows : (Alive(id)' <=> Alive(id)) /\ (Ahead(id)' <=> Ahead(id))
  BY <1>1, <1>2, RowsAreNumbered DEF TypeOK, Alive, InQueue, InBatch, AboutToPut, Ahead
<1>4. MaxRead'
  <2>1. \A f \in Emitters : em'[f].pc = "max" => f = e
    BY <1>1, <1>2, NobodyEmits DEF TypeOK, SeqInv, MaxRead, Nobody
  <2>2. em'[e].max = m
    BY <1>1 DEF TypeOK
  <2> QED BY <1>1, <1>2, <2>1, <2>2 DEF MaxRead, Logged, TaskOfRow
<1> QED BY <1>2, <1>3, <1>4 DEF SeqInv, UnreadQuiet, Numbered, NotYet, AliveUnique, AliveOrdered, TaskOfRow

\* A new number is higher than those of all living rows of the task.
LEMMA SeqReserve ==
  ASSUME TypeOK, SeqInv, NEW e \in Emitters, ReserveFirst(e) \/ ReserveNext(e) PROVE SeqInv'
<1>1. PICK last \in Nat :
        /\ Reserve(e, last) /\ em[e].pc \in {"seq", "max"}
        /\ \A id \in Rows : TaskOfRow(id) = TaskOf[e] /\ Alive(id) => seq[id] <= last
  <2>1. CASE ReserveFirst(e)
    <3>1. Reserve(e, em[e].max) /\ em[e].pc = "max" /\ em[e].max \in Nat
      BY <2>1 DEF ReserveFirst, TypeOK
    <3>2. \A id \in Rows : TaskOfRow(id) = TaskOf[e] /\ Alive(id) => log[id] # "none"
      BY <3>1 DEF SeqInv, MaxRead, UnreadQuiet
    <3>3. \A id \in Rows : TaskOfRow(id) = TaskOf[e] /\ Alive(id) => seq[id] <= em[e].max
      BY <3>1, <3>2 DEF SeqInv, MaxRead
    <3> QED BY <3>1, <3>3
  <2>2. CASE ReserveNext(e)
    <3>1. Reserve(e, cache[TaskOf[e]]) /\ em[e].pc = "seq" /\ cache[TaskOf[e]] # Unread
      BY <2>2 DEF ReserveNext
    <3>2. cache[TaskOf[e]] \in Nat
      BY <3>1, TaskOfEmitters DEF TypeOK
    <3>3. \A id \in Rows : TaskOfRow(id) = TaskOf[e] /\ Alive(id) => seq[id] <= cache[TaskOf[e]]
      BY <3>1 DEF SeqInv, Numbered
    <3> QED BY <3>1, <3>2, <3>3
  <2> QED BY <2>1, <2>2
<1>2. PICK row \in Nat : row = em[e].row /\ Row(e) = <<e, row>> /\ Row(e) \in Rows
  BY <1>1 DEF TypeOK, Row
<1>3. /\ em' = [em EXCEPT ![e] = [@ EXCEPT !.pc = "putCreate"]]
      /\ seq' = [seq EXCEPT ![Row(e)] = last + 1]
      /\ cache' = [cache EXCEPT ![TaskOf[e]] = last + 1]
      /\ lock' = Nobody /\ UNCHANGED <<queue, batch, log>>
  BY <1>1 DEF Reserve, Goto
<1>4. ~Alive(Row(e))
  BY <1>1, <1>2 DEF SeqInv, NotYet, Ahead
<1>5. \A id \in Rows : Alive(id)' <=> (Alive(id) \/ id = Row(e))
  <2>1. \A id \in Rows : AboutToPut(id)' <=> (AboutToPut(id) \/ id = Row(e))
    BY <1>1, <1>2, <1>3, RowsAreNumbered, SMTT(30) DEF TypeOK, AboutToPut
  <2> QED BY <1>3, <2>1 DEF Alive, InQueue, InBatch
<1>6. \A id \in Rows : /\ id # Row(e) => seq'[id] = seq[id]
                       /\ seq'[Row(e)] = last + 1
  BY <1>2, <1>3 DEF TypeOK
<1>7. \A id \in Rows : id # Row(e) /\ Alive(id)' => Alive(id) /\ seq'[id] = seq[id]
  BY <1>5, <1>6
<1>8. \A id \in Rows : seq[id] \in Nat /\ TaskOfRow(id) \in Tasks /\ id[1] \in Emitters /\ id[2] \in Nat
                       /\ id = <<id[1], id[2]>>
  BY RowsAreNumbered, TaskOfEmitters, SMTT(30) DEF TypeOK, TaskOfRow
<1>9. /\ cache'[TaskOf[e]] = last + 1 /\ last + 1 # Unread
      /\ \A t \in Tasks : t # TaskOf[e] => cache'[t] = cache[t]
  <2>1. TaskOf[e] \in Tasks
    BY TaskOfEmitters
  <2>2. \A t \in Tasks : cache'[t] = IF t = TaskOf[e] THEN last + 1 ELSE cache[t]
    BY <1>3 DEF TypeOK
  <2>3. last + 1 # Unread
    BY DEF Unread
  <2> QED BY <2>1, <2>2, <2>3
<1>10. TaskOfRow(Row(e)) = TaskOf[e]
  BY <1>2 DEF TaskOfRow
<1>11. UnreadQuiet'
  BY <1>3, <1>7, <1>8, <1>9, <1>10 DEF SeqInv, UnreadQuiet, TaskOfRow
<1>12. Numbered'
  BY <1>1, <1>6, <1>7, <1>8, <1>9, <1>10 DEF SeqInv, Numbered, TaskOfRow
<1>13. MaxRead'
  <2>1. \A f \in Emitters : em'[f].pc # "max"
    BY <1>1, <1>3, NobodyEmits DEF TypeOK, SeqInv, MaxRead, ReserveFirst, ReserveNext, Nobody
  <2> QED BY <2>1 DEF MaxRead
<1>14. NotYet'
  <2> SUFFICES ASSUME NEW id \in Rows, Ahead(id)' PROVE ~Alive(id)'
    BY DEF NotYet
  <2>1. Ahead(id) /\ id # Row(e)
    BY <1>1, <1>2, <1>3, <1>8 DEF TypeOK, Ahead
  <2> QED BY <1>7, <2>1 DEF SeqInv, NotYet
<1>15. AliveUnique'
  <2> SUFFICES ASSUME NEW i \in Rows, NEW j \in Rows, i # j, TaskOfRow(i) = TaskOfRow(j),
                      Alive(i)', Alive(j)'
               PROVE  seq'[i] # seq'[j]
    BY DEF AliveUnique, TaskOfRow
  <2>1. CASE i # Row(e) /\ j # Row(e)
    BY <1>7, <2>1 DEF SeqInv, AliveUnique
  <2>2. CASE i = Row(e)
    BY <1>1, <1>6, <1>7, <1>8, <1>10, <2>2
  <2>3. CASE j = Row(e)
    BY <1>1, <1>6, <1>7, <1>8, <1>10, <2>3
  <2> QED BY <2>1, <2>2, <2>3
<1>16. AliveOrdered'
  <2> SUFFICES ASSUME NEW i \in Rows, NEW j \in Rows, i[1] = j[1], i[2] < j[2], Alive(i)', Alive(j)'
               PROVE  seq'[i] < seq'[j]
    BY DEF AliveOrdered
  <2>1. i # j /\ TaskOfRow(i) = TaskOfRow(j)
    BY <1>8 DEF TaskOfRow
  <2>2. CASE i # Row(e) /\ j # Row(e)
    BY <1>7, <2>2 DEF SeqInv, AliveOrdered
  <2>3. CASE j = Row(e)
    BY <1>1, <1>6, <1>7, <1>8, <1>10, <2>1, <2>3
  <2>4. CASE i = Row(e)
    <3>1. Ahead(j) /\ Alive(j)
      BY <1>2, <1>7, <1>8, <2>1, <2>4 DEF Ahead
    <3> QED BY <3>1 DEF SeqInv, NotYet
  <2> QED BY <2>2, <2>3, <2>4
<1> QED BY <1>11, <1>12, <1>13, <1>14, <1>15, <1>16 DEF SeqInv

LEMMA SeqStep == TypeOK /\ SeqInv /\ [Next]_vars => SeqInv'
<1> SUFFICES ASSUME TypeOK, SeqInv, [Next]_vars PROVE SeqInv'
  OBVIOUS
<1> USE RowsAreNumbered
<1>1. ASSUME NEW e \in Emitters, EmitCreate(e) \/ EmitUpdate(e) PROVE SeqInv'
  <2>1. UNCHANGED <<seq, cache, queue, batch, log, lock>>
    BY <1>1 DEF EmitCreate, EmitUpdate, Store
  <2>2. PICK pc \in {"seq", "putUpdate"} :
          /\ em' = [em EXCEPT ![e] = [@ EXCEPT !.pc = pc]]
          /\ pc = "seq" => em[e].pc = "idle"
    BY <1>1 DEF EmitCreate, EmitUpdate, Goto
  <2> QED BY <2>1, <2>2, EmittersOnly DEF TypeOK, AboutToPut, Ahead
<1>2. ASSUME NEW e \in Emitters, Cancel(e) PROVE SeqInv'
  <2>1. UNCHANGED <<seq, cache, queue, batch, log>> /\ em[e].pc # "idle"
        /\ em' = [em EXCEPT ![e] = NextRow(e)] /\ (lock # e => lock' = lock)
    BY <1>2 DEF Cancel
  <2>2. \A f \in Emitters : em'[f].pc = "max" => f # e /\ em'[f] = em[f]
    BY <2>1 DEF TypeOK, NextRow, Fresh
  <2>3. \A f \in Emitters : em'[f].pc = "max" => lock' = lock
    BY <2>1, <2>2 DEF SeqInv, MaxRead
  <2>4. \A id \in Rows : AboutToPut(id)' => AboutToPut(id)
    BY <2>1 DEF TypeOK, AboutToPut, NextRow, Fresh
  <2>5. \A id \in Rows : Ahead(id)' => Ahead(id)
    <3>1. em[e].row \in Nat
      BY DEF TypeOK
    <3> QED BY <2>1, <3>1 DEF TypeOK, Ahead, NextRow, Fresh
  <2> QED BY <2>1, <2>2, <2>3, <2>4, <2>5, EmittersOnly
<1>3. ASSUME NEW e \in Emitters, EmitterStep(e) PROVE SeqInv'
  BY <1>3, SeqReadMax, SeqReserve, SeqEnqueue DEF EmitterStep
<1>4. ASSUME NEW c \in Consumers, Quit(c) PROVE SeqInv'
  BY <1>4, EmittersOnly DEF Quit, Store, AboutToPut, Ahead
<1>5. ASSUME NEW c \in Consumers, ConsumerStep(c) PROVE SeqInv'
  BY <1>4, <1>5, SeqTake, SeqFlush DEF ConsumerStep
<1>6. ASSUME Stop \/ StopReturns \/ UNCHANGED vars PROVE SeqInv'
  BY <1>6, EmittersOnly DEF Stop, StopReturns, vars, Store, AboutToPut, Ahead
<1>7. ASSUME CrashAndRestart PROVE SeqInv'
  <2>1. /\ queue' = <<>> /\ batch' = [c \in Consumers |-> <<>>] /\ UNCHANGED <<seq, log>>
        /\ cache' = [t \in Tasks |-> Unread]
        /\ em' = [e \in Emitters |-> IF em[e].pc = "idle" THEN em[e] ELSE NextRow(e)]
    BY <1>7 DEF CrashAndRestart
  <2>2. \A e \in Emitters : em'[e].pc = "idle"
    BY <2>1 DEF NextRow, Fresh
  <2>3. \A id \in Rows : Alive(id)' <=> log[id] # "none"
    BY <2>1, <2>2 DEF Alive, InQueue, InBatch, AboutToPut
  <2>4. \A id \in Rows : Ahead(id)' => Ahead(id)
    <3>1. \A e \in Emitters : em[e].row \in Nat
      BY DEF TypeOK
    <3> QED BY <2>1, <3>1 DEF Ahead, NextRow, Fresh
  <2>5. \A id \in Rows : Alive(id)' => Alive(id)
    BY <2>3 DEF Alive
  <2>6. UnreadQuiet' /\ Numbered'
    BY <2>1, <2>3, TaskOfEmitters DEF UnreadQuiet, Numbered, TaskOfRow
  <2>7. MaxRead'
    BY <2>2 DEF MaxRead
  <2>8. NotYet' /\ AliveUnique' /\ AliveOrdered'
    BY <2>1, <2>4, <2>5 DEF SeqInv, NotYet, AliveUnique, AliveOrdered, TaskOfRow
  <2> QED BY <2>6, <2>7, <2>8 DEF SeqInv
<1> QED BY <1>1, <1>2, <1>3, <1>5, <1>6, <1>7 DEF Next

\* The inductive invariant of the numbers holds in every reachable state.
THEOREM NumbersCorrect == Spec => []SeqInv
<1>1. TypeOK /\ SeqInv /\ [Next]_vars => (TypeOK /\ SeqInv)'
  BY TypeStep, SeqStep
<1> QED BY TypeInit, SeqInit, <1>1, PTL DEF Spec

\* No two rows of a task in the log have the same number, whatever is lost.
THEOREM NumbersUnique == Spec => []SeqUnique
<1>1. SeqInv => SeqUnique
  BY DEF SeqInv, AliveUnique, Alive, SeqUnique, TaskOfRow
<1> QED BY <1>1, NumbersCorrect, PTL

\* The numbers of the rows of a coroutine follow the order of its calls.
THEOREM NumbersFollowEmission == Spec => []SeqFollowsEmission
<1>1. SeqInv => SeqFollowsEmission
  BY DEF SeqInv, AliveOrdered, Alive, SeqFollowsEmission
<1> QED BY <1>1, NumbersCorrect, PTL

-----------------------------------------------------------------------------
(* The rows.  The operations of a row are in the queue and the batches in  *)
(* the order in which they were put there, its creation once; with its     *)
(* update on the way a row is there already or its creation is ahead.      *)

UpdateOf(id) == [op |-> "update", id |-> id]
Has(s, o) == \E i \in DOMAIN s : s[i] = o
Once(s, o) == \A i, j \in DOMAIN s : s[i] = o /\ s[j] = o => i = j
InOrder(s, o, p) == \E i, j \in DOMAIN s : i < j /\ s[i] = o /\ s[j] = p
OnTheWay(o) == Has(queue, o) \/ \E c \in Consumers : Has(batch[c], o)

\* Where the coroutine is with a row.
Early(id) == Ahead(id) \/ AboutToPut(id)
Opened(id) == em[id[1]].row = id[2] /\ em[id[1]].pc \in {"open", "putUpdate"}
Past(id) == em[id[1]].row > id[2]

Emptied == \A c \in Consumers : consumer[c] # "flush" => batch[c] = <<>>
NotPut == \A id \in Rows : Early(id) => log[id] = "none" /\ ~OnTheWay(CreateOf(id))
                                        /\ ~OnTheWay(UpdateOf(id))
NotClosed == \A id \in Rows : Opened(id) => ~OnTheWay(UpdateOf(id))
CreatedOnce ==
  \A id \in Rows :
    /\ log[id] # "none" => ~OnTheWay(CreateOf(id))
    /\ Once(queue, CreateOf(id))
    /\ \A c \in Consumers : Has(batch[c], CreateOf(id)) =>
         ~Has(queue, CreateOf(id)) /\ \A d \in Consumers \ {c} : ~Has(batch[d], CreateOf(id))
Comes == \A id \in Rows \ astray : Opened(id) => log[id] # "none" \/ OnTheWay(CreateOf(id))
Closing(id) ==
  \/ log[id] = "closed"
  \/ /\ Has(queue, UpdateOf(id))
     /\ \/ log[id] # "none" \/ InOrder(queue, CreateOf(id), UpdateOf(id))
        \/ \E c \in Consumers : Has(batch[c], CreateOf(id))
  \/ \E c \in Consumers :
       /\ Has(batch[c], UpdateOf(id))
       /\ \/ log[id] # "none" \/ InOrder(batch[c], CreateOf(id), UpdateOf(id))
          \/ \E d \in Consumers \ {c} : Has(batch[d], CreateOf(id))
Closed == \A id \in Rows \ astray : Past(id) => Closing(id)
RowInv == Emptied /\ NotPut /\ NotClosed /\ CreatedOnce /\ Comes /\ Closed

LEMMA AppendHas ==
  ASSUME NEW q \in Seq(Op), NEW o \in Op
  PROVE  LET s == Append(q, o) IN
         /\ \A p : Has(s, p) <=> Has(q, p) \/ p = o
         /\ \A p : Once(q, p) /\ (Has(q, p) => p # o) => Once(s, p)
         /\ \A p, r : InOrder(q, p, r) => InOrder(s, p, r)
         /\ \A p : Has(q, p) => InOrder(s, p, o)
<1>. DEFINE s == Append(q, o)
<1>1. /\ DOMAIN q = 1 .. Len(q) /\ DOMAIN s = 1 .. Len(q) + 1 /\ Len(q) \in Nat
      /\ s[Len(q) + 1] = o /\ \A i \in DOMAIN q : s[i] = q[i]
  OBVIOUS
<1>. HIDE DEF s
<1>2. \A p : Has(s, p) <=> Has(q, p) \/ p = o
  BY <1>1 DEF Has
<1>3. \A p : Once(q, p) /\ (Has(q, p) => p # o) => Once(s, p)
  BY <1>1 DEF Once, Has
<1>4. \A p, r : InOrder(q, p, r) => InOrder(s, p, r)
  BY <1>1 DEF InOrder
<1>5. \A p : Has(q, p) => InOrder(s, p, o)
  BY <1>1 DEF InOrder, Has
<1>. QED
  BY <1>2, <1>3, <1>4, <1>5 DEF s

\* A batch is taken from the front.
LEMMA SplitHas ==
  ASSUME NEW q \in Seq(Op), NEW n \in 0 .. Len(q)
  PROVE  LET s == SubSeq(q, 1, n)
             t == SubSeq(q, n + 1, Len(q))
         IN /\ \A p : Has(q, p) <=> Has(s, p) \/ Has(t, p)
            /\ \A p : Once(q, p) => Once(t, p) /\ ~(Has(s, p) /\ Has(t, p))
            /\ \A p, r : InOrder(q, p, r) =>
                 InOrder(s, p, r) \/ InOrder(t, p, r) \/ (Has(s, p) /\ Has(t, r))
<1>. DEFINE s == SubSeq(q, 1, n)
            t == SubSeq(q, n + 1, Len(q))
<1>1. /\ DOMAIN q = 1 .. Len(q) /\ Len(q) \in Nat /\ n \in Nat /\ n =< Len(q)
      /\ DOMAIN s = 1 .. n /\ \A i \in 1 .. n : s[i] = q[i]
  OBVIOUS
<1>2. DOMAIN t = 1 .. Len(q) - n /\ \A i \in 1 .. Len(q) - n : t[i] = q[i + n]
  BY <1>1
<1>. HIDE DEF s, t
<1>3. \A i \in DOMAIN q : i \in DOMAIN s \/ (i - n \in DOMAIN t /\ t[i - n] = q[i])
  BY <1>1, <1>2
<1>4. \A p : Has(q, p) <=> Has(s, p) \/ Has(t, p)
  <2>1. ASSUME NEW p, Has(q, p)
        PROVE  Has(s, p) \/ Has(t, p)
    BY <1>1, <1>3, <2>1 DEF Has
  <2>2. ASSUME NEW p, Has(s, p) \/ Has(t, p)
        PROVE  Has(q, p)
    <3>1. \A i \in DOMAIN s : i \in DOMAIN q
      BY <1>1
    <3>2. \A i \in DOMAIN t : i + n \in DOMAIN q
      BY <1>1, <1>2
    <3>. QED
      BY <1>1, <1>2, <2>2, <3>1, <3>2 DEF Has
  <2>. QED
    BY <2>1, <2>2
<1>5. ASSUME NEW p, Once(q, p)
      PROVE  Once(t, p) /\ ~(Has(s, p) /\ Has(t, p))
  <2>1. \A i \in DOMAIN t : i + n \in DOMAIN q /\ i \in Nat /\ i + n > n
    BY <1>1, <1>2
  <2>2. Once(t, p)
    <3>. SUFFICES ASSUME NEW i \in DOMAIN t, NEW j \in DOMAIN t, t[i] = p, t[j] = p
                  PROVE  i = j
      BY DEF Once
    <3>1. i + n = j + n
      BY <1>2, <1>5, <2>1 DEF Once
    <3>. QED
      BY <1>1, <2>1, <3>1
  <2>3. ASSUME NEW i \in DOMAIN s, NEW j \in DOMAIN t, s[i] = p, t[j] = p
        PROVE  FALSE
    <3>1. i \in DOMAIN q /\ q[i] = p /\ i =< n /\ q[j + n] = p
      BY <1>1, <1>2, <2>3
    <3>2. i = j + n
      BY <1>5, <2>1, <3>1 DEF Once
    <3>. QED
      BY <1>1, <2>1, <3>1, <3>2
  <2>. QED
    BY <2>2, <2>3 DEF Has
<1>6. ASSUME NEW p, NEW r, InOrder(q, p, r)
      PROVE  InOrder(s, p, r) \/ InOrder(t, p, r) \/ (Has(s, p) /\ Has(t, r))
  <2>1. PICK i \in DOMAIN q, j \in DOMAIN q : i < j /\ q[i] = p /\ q[j] = r
    BY <1>6 DEF InOrder
  <2>2. i \in Nat /\ j \in Nat
    BY <1>1
  <2>3. CASE j =< n
    <3>1. i \in DOMAIN s /\ j \in DOMAIN s
      BY <1>1, <2>1, <2>2, <2>3
    <3>. QED
      BY <1>1, <2>1, <3>1 DEF InOrder
  <2>4. CASE i > n
    <3>1. i - n \in DOMAIN t /\ j - n \in DOMAIN t /\ i - n < j - n
      BY <1>1, <1>2, <2>1, <2>2, <2>4
    <3>2. t[i - n] = p /\ t[j - n] = r
      BY <1>1, <1>2, <2>1, <2>2, <3>1
    <3>. QED
      BY <3>1, <3>2 DEF InOrder
  <2>5. CASE i =< n /\ j > n
    <3>1. i \in DOMAIN s /\ j - n \in DOMAIN t
      BY <1>1, <1>2, <2>1, <2>2, <2>5
    <3>2. s[i] = p /\ t[j - n] = r
      BY <1>1, <1>2, <2>1, <2>2, <3>1
    <3>. QED
      BY <3>1, <3>2 DEF Has
  <2>. QED
    BY <1>1, <2>2, <2>3, <2>4, <2>5
<1>. QED
  BY <1>4, <1>5, <1>6 DEF s, t

\* Steps that move no operation, and leave a row behind only to call it astray.
LEMMA RowQuiet ==
  ASSUME RowInv, UNCHANGED <<queue, batch, log>>, astray \subseteq astray', Emptied',
         \A id \in Rows : /\ Early(id)' => Early(id)
                          /\ Opened(id)' => Opened(id)
                          /\ Past(id)' => Past(id) \/ id \in astray'
  PROVE  RowInv'
<1>1. \A o : OnTheWay(o)' <=> OnTheWay(o)
  BY DEF OnTheWay
<1>2. \A id : Closing(id) => Closing(id)'
  BY DEF Closing
<1>3. NotPut' /\ NotClosed'
  BY <1>1 DEF RowInv, NotPut, NotClosed
<1>4. CreatedOnce'
  BY <1>1 DEF RowInv, CreatedOnce
<1>5. Comes'
  BY <1>1 DEF RowInv, Comes
<1>6. Closed'
  BY <1>2 DEF RowInv, Closed
<1>. QED
  BY <1>3, <1>4, <1>5, <1>6 DEF RowInv

LEMMA RowInit == TypeOK /\ Init => RowInv
<1>. SUFFICES ASSUME Init
              PROVE  RowInv
  OBVIOUS
<1>1. /\ queue = <<>> /\ \A c \in Consumers : batch[c] = <<>>
      /\ \A id \in Rows : log[id] = "none" /\ id[1] \in Emitters /\ id[2] \in Nat \ {0}
      /\ \A e \in Emitters : em[e].pc = "idle" /\ em[e].row = 1
  BY RowsAreNumbered DEF Init, Fresh
<1>2. \A o : ~OnTheWay(o)
  BY <1>1 DEF OnTheWay, Has
<1>3. \A o : Once(queue, o)
  BY <1>1 DEF Once
<1>4. \A id \in Rows : ~Opened(id) /\ ~Past(id)
  BY <1>1 DEF Opened, Past
<1>5. CreatedOnce
  BY <1>1, <1>2, <1>3 DEF CreatedOnce, OnTheWay
<1>. QED
  BY <1>1, <1>2, <1>4, <1>5 DEF RowInv, Emptied, NotPut, NotClosed, Comes, Closed

\* What a step of one emitter means for the rows of all: those of the others stay
\* where they are.
LEMMA RowOfOne ==
  ASSUME TypeOK, NEW e \in Emitters, NEW x, em' = [em EXCEPT ![e] = x], NEW id \in Rows
  PROVE  /\ em'[e] = x
         /\ id[1] # e => /\ Early(id)' <=> Early(id)
                         /\ Opened(id)' <=> Opened(id)
                         /\ Past(id)' <=> Past(id)
         /\ id[1] \in Emitters /\ id[2] \in Nat /\ id = <<id[1], id[2]>>
         /\ em[e].row \in Nat
BY RowsAreNumbered DEF TypeOK, Early, Ahead, AboutToPut, Opened, Past

\* A coroutine goes on with its row.
LEMMA RowGoesOn ==
  ASSUME TypeOK, RowInv, NEW e \in Emitters, NEW x, em' = [em EXCEPT ![e] = x],
         x.row = em[e].row,
         x.pc \in {"idle", "seq", "max", "putCreate"} =>
             em[e].pc \in {"idle", "seq", "max", "putCreate"},
         x.pc \in {"open", "putUpdate"} => em[e].pc \in {"open", "putUpdate"},
         UNCHANGED <<queue, batch, log, astray>>, Emptied'
  PROVE  RowInv'
<1>1. ASSUME NEW id \in Rows
      PROVE  /\ Early(id)' => Early(id)
             /\ Opened(id)' => Opened(id)
             /\ Past(id)' => Past(id)
  <2>1. CASE id[1] # e
    BY <2>1, RowOfOne
  <2>2. CASE id[1] = e
    <3>1. em'[e] = x /\ em[e].row \in Nat /\ id[2] \in Nat
      BY RowOfOne
    <3>. QED
      BY <2>2, <3>1 DEF Early, Ahead, AboutToPut, Opened, Past
  <2>. QED
    BY <2>1, <2>2
<1>. QED
  BY <1>1, RowQuiet

\* The consumers that are not in a transaction hold nothing.
LEMMA EmptiedStays ==
  ASSUME TypeOK, RowInv, UNCHANGED batch, EnsureStarted \/ UNCHANGED consumer
  PROVE  Emptied'
<1>1. CASE UNCHANGED consumer
  BY <1>1 DEF RowInv, Emptied
<1>2. CASE EnsureStarted /\ ~running
  <2>1. PICK c \in Consumers : consumer[c] = "off" /\ consumer' = [consumer EXCEPT ![c] = "get"]
    BY <1>2 DEF EnsureStarted
  <2>2. \A d \in Consumers : consumer'[d] = consumer[d] \/ d = c
    BY <2>1 DEF TypeOK
  <2>. QED
    BY <2>1, <2>2 DEF RowInv, Emptied
<1>. QED
  BY <1>1, <1>2 DEF EnsureStarted

LEMMA RowEmits ==
  ASSUME TypeOK, RowInv, NEW e \in Emitters,
         EmitCreate(e) \/ EmitUpdate(e) \/ ReadMax(e) \/ ReserveFirst(e) \/ ReserveNext(e)
  PROVE  RowInv'
<1>1. Emptied'
  BY EmptiedStays DEF EmitCreate, EmitUpdate, ReadMax, ReserveFirst, ReserveNext, Reserve
<1>2. UNCHANGED <<queue, batch, log, astray>>
  BY DEF EmitCreate, EmitUpdate, ReadMax, ReserveFirst, ReserveNext, Reserve, Store
<1>3. PICK pc \in {"seq", "max", "putCreate", "putUpdate"}, m \in {em[e].max} \cup Nat :
        /\ em' = [em EXCEPT ![e] = [em[e] EXCEPT !.pc = pc, !.max = m]]
        /\ IF pc = "putUpdate" THEN em[e].pc = "open" ELSE em[e].pc \in {"idle", "seq", "max"}
  <2>1. CASE ReadMax(e)
    <3>1. PICK m \in {0} \cup {seq[id] : id \in Logged(TaskOf[e])} :
             em' = [em EXCEPT ![e] = [em[e] EXCEPT !.pc = "max", !.max = m]]
      BY <2>1 DEF ReadMax
    <3>2. m \in Nat
      BY DEF TypeOK, Logged
    <3>. QED
      BY <2>1, <3>1, <3>2 DEF ReadMax
  <2>2. ASSUME NEW pc, Goto(e, pc)
        PROVE  em' = [em EXCEPT ![e] = [em[e] EXCEPT !.pc = pc, !.max = em[e].max]]
    <3>1. em[e] \in [pc : PCs, row : Nat, max : Nat]
      BY DEF TypeOK
    <3>2. [em[e] EXCEPT !.pc = pc] = [em[e] EXCEPT !.pc = pc, !.max = em[e].max]
      BY <3>1
    <3>. QED
      BY <2>2, <3>2 DEF Goto
  <2>3. \/ Goto(e, "seq") /\ em[e].pc = "idle"
        \/ Goto(e, "putUpdate") /\ em[e].pc = "open"
        \/ Goto(e, "putCreate") /\ em[e].pc \in {"seq", "max"}
        \/ ReadMax(e)
    BY DEF EmitCreate, EmitUpdate, ReserveFirst, ReserveNext, Reserve
  <2>. QED
    BY <2>1, <2>2, <2>3
<1>. DEFINE x == [em[e] EXCEPT !.pc = pc, !.max = m]
<1>4. x.row = em[e].row /\ x.pc = pc
  BY DEF TypeOK
<1>. HIDE DEF x
<1>. QED
  BY <1>1, <1>2, <1>3, <1>4, RowGoesOn DEF x

\* A coroutine that is cancelled leaves its row.
LEMMA RowCancel ==
  ASSUME TypeOK, RowInv, NEW e \in Emitters, Cancel(e)
  PROVE  RowInv'
<1>1. /\ em' = [em EXCEPT ![e] = NextRow(e)] /\ astray' = astray \cup {Row(e)}
      /\ UNCHANGED <<queue, batch, log, consumer>>
  BY DEF Cancel
<1>2. NextRow(e).row = em[e].row + 1 /\ NextRow(e).pc = "idle"
  BY DEF NextRow, Fresh
<1>. HIDE DEF NextRow
<1>3. Emptied'
  BY <1>1, EmptiedStays
<1>4. ASSUME NEW id \in Rows
      PROVE  /\ Early(id)' => Early(id)
             /\ Opened(id)' => Opened(id)
             /\ Past(id)' => Past(id) \/ id \in astray'
  <2>1. CASE id[1] # e
    BY <1>1, <2>1, RowOfOne
  <2>2. CASE id[1] = e
    <3>1. em'[e] = NextRow(e) /\ em[e].row \in Nat /\ id[2] \in Nat /\ id = <<id[1], id[2]>>
      BY <1>1, RowOfOne
    <3>2. Past(id)' => Past(id) \/ id = Row(e)
      BY <1>2, <2>2, <3>1 DEF Past, Row
    <3>. QED
      BY <1>1, <1>2, <2>2, <3>1, <3>2 DEF Early, Ahead, AboutToPut, Opened
  <2>. QED
    BY <2>1, <2>2
<1>. QED
  BY <1>1, <1>3, <1>4, RowQuiet

LEMMA Kinds == \A i, j : /\ CreateOf(i) # UpdateOf(j)
                         /\ CreateOf(i) = CreateOf(j) => i = j
                         /\ UpdateOf(i) = UpdateOf(j) => i = j
<1>. SUFFICES ASSUME NEW i, NEW j
              PROVE  /\ CreateOf(i) # UpdateOf(j)
                     /\ CreateOf(i) = CreateOf(j) => i = j
                     /\ UpdateOf(i) = UpdateOf(j) => i = j
  OBVIOUS
<1>1. /\ CreateOf(i).op = "create" /\ CreateOf(i).id = i /\ CreateOf(j).id = j
      /\ UpdateOf(j).op = "update" /\ UpdateOf(i).id = i /\ UpdateOf(j).id = j
  BY DEF CreateOf, UpdateOf
<1>. QED
  BY <1>1

LEMMA RowEnqueue ==
  ASSUME TypeOK, RowInv, NEW e \in Emitters, Enqueue(e)
  PROVE  RowInv'
<1>1. /\ Putting(e) /\ queue' = Append(queue, Pending(e)) /\ Emitted(e)
      /\ UNCHANGED <<consumer, batch, log, astray>>
  BY DEF Enqueue, Store
<1>2. /\ em[e].row \in Nat /\ Row(e) \in Rows /\ Row(e) = <<e, em[e].row>>
      /\ Row(e)[1] = e /\ Row(e)[2] = em[e].row
  BY <1>1 DEF TypeOK, Putting, Row
<1>3. Pending(e) \in Op /\ queue \in Seq(Op)
  BY <1>2 DEF TypeOK, Pending, Op
<1>4. /\ \A p : Has(queue', p) <=> Has(queue, p) \/ p = Pending(e)
      /\ \A p : Once(queue, p) /\ (Has(queue, p) => p # Pending(e)) => Once(queue', p)
      /\ \A p, r : InOrder(queue, p, r) => InOrder(queue', p, r)
      /\ \A p : Has(queue, p) => InOrder(queue', p, Pending(e))
  BY <1>1, <1>3, AppendHas
<1>5. Emptied'
  BY <1>1, EmptiedStays
<1>6. \A o : OnTheWay(o)' <=> OnTheWay(o) \/ o = Pending(e)
  BY <1>1, <1>4 DEF OnTheWay
<1>7. \A id : Closing(id) => Closing(id)'
  BY <1>1, <1>4 DEF Closing
<1>8. CASE em[e].pc = "putCreate"
  <2>. DEFINE x == [em[e] EXCEPT !.pc = "open"]
  <2>1. Pending(e) = CreateOf(Row(e)) /\ em' = [em EXCEPT ![e] = x]
    BY <1>1, <1>8 DEF Pending, CreateOf, Emitted
  <2>2. x.pc = "open" /\ x.row = em[e].row
    BY DEF TypeOK
  <2>. HIDE DEF x
  <2>3. AboutToPut(Row(e)) /\ Early(Row(e))
    BY <1>2, <1>8 DEF Early, AboutToPut
  <2>4. log[Row(e)] = "none" /\ ~OnTheWay(CreateOf(Row(e))) /\ ~OnTheWay(UpdateOf(Row(e)))
    BY <1>2, <2>3 DEF RowInv, NotPut
  <2>5. ASSUME NEW id \in Rows
        PROVE  /\ Early(id)' => Early(id) /\ id # Row(e)
               /\ Opened(id)' => Opened(id) \/ id = Row(e)
               /\ Past(id)' => Past(id)
    <3>1. CASE id[1] # e
      <4>1. id # Row(e)
        BY <1>2, <3>1
      <4>. QED
        BY <2>1, <3>1, <4>1, RowOfOne
    <3>2. CASE id[1] = e
      <4>1. em'[e] = x /\ id[2] \in Nat /\ id = <<id[1], id[2]>>
        BY <2>1, RowOfOne
      <4>. QED
        BY <1>2, <1>8, <2>2, <3>2, <4>1 DEF Early, Ahead, AboutToPut, Opened, Past
    <3>. QED
      BY <3>1, <3>2
  <2>6. NotPut'
    BY <1>1, <1>6, <2>1, <2>5, Kinds DEF RowInv, NotPut
  <2>7. NotClosed'
    BY <1>6, <2>1, <2>4, <2>5, Kinds DEF RowInv, NotClosed
  <2>8. CreatedOnce'
    <3>. SUFFICES ASSUME NEW id \in Rows
                  PROVE  /\ log[id] # "none" => ~OnTheWay(CreateOf(id))'
                         /\ Once(queue', CreateOf(id))
                         /\ \A c \in Consumers : Has(batch[c], CreateOf(id)) =>
                              /\ ~Has(queue', CreateOf(id))
                              /\ \A d \in Consumers \ {c} : ~Has(batch[d], CreateOf(id))
      BY <1>1 DEF CreatedOnce
    <3>1. CASE id = Row(e)
      BY <1>4, <2>1, <2>4, <3>1 DEF RowInv, CreatedOnce, OnTheWay
    <3>2. CASE id # Row(e)
      <4>1. CreateOf(id) # Pending(e)
        BY <2>1, <3>2, Kinds
      <4>. QED
        BY <1>4, <1>6, <4>1 DEF RowInv, CreatedOnce
    <3>. QED
      BY <3>1, <3>2
  <2>9. Comes'
    BY <1>1, <1>6, <2>1, <2>5 DEF RowInv, Comes
  <2>10. Closed'
    BY <1>1, <1>7, <2>5 DEF RowInv, Closed
  <2>. QED
    BY <1>5, <2>6, <2>7, <2>8, <2>9, <2>10 DEF RowInv
<1>9. CASE em[e].pc = "putUpdate"
  <2>1. Pending(e) = UpdateOf(Row(e)) /\ em' = [em EXCEPT ![e] = NextRow(e)]
    BY <1>1, <1>9 DEF Pending, UpdateOf, Emitted
  <2>2. NextRow(e).pc = "idle" /\ NextRow(e).row = em[e].row + 1
    BY DEF NextRow, Fresh
  <2>. HIDE DEF NextRow
  <2>3. Opened(Row(e))
    BY <1>2, <1>9 DEF Opened
  <2>4. ASSUME NEW id \in Rows
        PROVE  /\ Early(id)' => Early(id) /\ id # Row(e)
               /\ Opened(id)' => Opened(id) /\ id # Row(e)
               /\ Past(id)' => Past(id) \/ id = Row(e)
    <3>1. CASE id[1] # e
      <4>1. id # Row(e)
        BY <1>2, <3>1
      <4>. QED
        BY <2>1, <3>1, <4>1, RowOfOne
    <3>2. CASE id[1] = e
      <4>1. em'[e] = NextRow(e) /\ id[2] \in Nat /\ id = <<id[1], id[2]>>
        BY <2>1, RowOfOne
      <4>. QED
        BY <1>2, <1>9, <2>2, <3>2, <4>1 DEF Early, Ahead, AboutToPut, Opened, Past
    <3>. QED
      BY <3>1, <3>2
  <2>5. NotPut'
    BY <1>1, <1>6, <2>1, <2>4, Kinds DEF RowInv, NotPut
  <2>6. NotClosed'
    BY <1>6, <2>1, <2>4, Kinds DEF RowInv, NotClosed
  <2>7. CreatedOnce'
    <3>1. \A id : CreateOf(id) # Pending(e)
      BY <2>1, Kinds
    <3>. QED
      BY <1>1, <1>4, <1>6, <3>1 DEF RowInv, CreatedOnce
  <2>8. Comes'
    BY <1>1, <1>6, <2>4 DEF RowInv, Comes
  <2>9. ASSUME NEW id \in Rows \ astray, id = Row(e)
        PROVE  Closing(id)'
    <3>1. log[id] # "none" \/ OnTheWay(CreateOf(id))
      BY <2>3, <2>9 DEF RowInv, Comes
    <3>2. Has(queue', UpdateOf(id)) /\ (Has(queue, CreateOf(id)) => InOrder(queue', CreateOf(id), UpdateOf(id)))
      BY <1>4, <2>1, <2>9
    <3>. QED
      BY <1>1, <3>1, <3>2 DEF OnTheWay, Closing
  <2>10. Closed'
    BY <1>1, <1>7, <2>4, <2>9 DEF RowInv, Closed
  <2>. QED
    BY <1>5, <2>5, <2>6, <2>7, <2>8, <2>10 DEF RowInv
<1>. QED
  BY <1>1, <1>8, <1>9 DEF Putting

\* The order on the queue goes on in the batch that is taken from it.
LEMMA RowTake ==
  ASSUME TypeOK, RowInv, NEW c \in Consumers, Take(c)
  PROVE  RowInv'
<1>. DEFINE n == Smaller(BatchSize, Len(queue))
            s == SubSeq(queue, 1, n)
            t == SubSeq(queue, n + 1, Len(queue))
<1>1. /\ consumer[c] = "get" /\ batch' = [batch EXCEPT ![c] = s] /\ queue' = t
      /\ consumer' = [consumer EXCEPT ![c] = "flush"]
      /\ UNCHANGED <<em, log, astray>>
  BY DEF Take, Store
<1>2. n \in 0 .. Len(queue) /\ queue \in Seq(Op)
  BY SizesArePositive DEF TypeOK, Smaller
<1>. HIDE DEF n
<1>3. /\ \A p : Has(queue, p) <=> Has(s, p) \/ Has(t, p)
      /\ \A p : Once(queue, p) => Once(t, p) /\ ~(Has(s, p) /\ Has(t, p))
      /\ \A p, r : InOrder(queue, p, r) =>
           InOrder(s, p, r) \/ InOrder(t, p, r) \/ (Has(s, p) /\ Has(t, r))
  BY <1>2, SplitHas
<1>. HIDE DEF s, t
<1>4. /\ batch[c] = <<>> /\ \A p : ~Has(batch[c], p)
      /\ batch'[c] = s /\ \A d \in Consumers : d # c => batch'[d] = batch[d]
      /\ consumer'[c] = "flush" /\ \A d \in Consumers : d # c => consumer'[d] = consumer[d]
  BY <1>1 DEF RowInv, Emptied, TypeOK, Has, InOrder
<1>5. Emptied'
  BY <1>4 DEF RowInv, Emptied
<1>6. \A o : OnTheWay(o)' <=> OnTheWay(o)
  BY <1>1, <1>3, <1>4 DEF OnTheWay
<1>7. \A id : /\ Early(id)' <=> Early(id)
              /\ Opened(id)' <=> Opened(id)
              /\ Past(id)' <=> Past(id)
  BY <1>1 DEF Early, Ahead, AboutToPut, Opened, Past
<1>8. NotPut' /\ NotClosed' /\ Comes'
  BY <1>1, <1>6, <1>7 DEF RowInv, NotPut, NotClosed, Comes
<1>9. CreatedOnce'
  <2>. SUFFICES ASSUME NEW id \in Rows
                PROVE  /\ log[id] # "none" => ~OnTheWay(CreateOf(id))'
                       /\ Once(queue', CreateOf(id))
                       /\ \A k \in Consumers : Has(batch'[k], CreateOf(id)) =>
                            /\ ~Has(queue', CreateOf(id))
                            /\ \A d \in Consumers \ {k} : ~Has(batch'[d], CreateOf(id))
    BY <1>1 DEF CreatedOnce
  <2>1. /\ log[id] # "none" => ~OnTheWay(CreateOf(id))
        /\ Once(queue, CreateOf(id))
        /\ \A k \in Consumers : Has(batch[k], CreateOf(id)) =>
             /\ ~Has(queue, CreateOf(id))
             /\ \A d \in Consumers \ {k} : ~Has(batch[d], CreateOf(id))
    BY DEF RowInv, CreatedOnce
  <2>. QED
    BY <1>1, <1>3, <1>4, <1>6, <2>1
<1>10. ASSUME NEW id \in Rows, Closing(id)
       PROVE  Closing(id)'
  <2>1. CASE log[id] = "closed"
    BY <1>1, <2>1 DEF Closing
  <2>2. CASE Has(queue, UpdateOf(id)) /\ log[id] # "none"
    BY <1>1, <1>3, <1>4, <2>2 DEF Closing
  <2>3. CASE Has(queue, UpdateOf(id)) /\ InOrder(queue, CreateOf(id), UpdateOf(id))
    <3>1. \/ InOrder(s, CreateOf(id), UpdateOf(id)) \/ InOrder(t, CreateOf(id), UpdateOf(id))
          \/ Has(s, CreateOf(id)) /\ Has(t, UpdateOf(id))
      BY <1>3, <2>3
    <3>2. /\ InOrder(s, CreateOf(id), UpdateOf(id)) => Has(s, UpdateOf(id))
          /\ InOrder(t, CreateOf(id), UpdateOf(id)) => Has(t, UpdateOf(id))
      BY DEF InOrder, Has
    <3>. QED
      BY <1>1, <1>4, <3>1, <3>2 DEF Closing
  <2>4. ASSUME Has(queue, UpdateOf(id)), NEW d \in Consumers, Has(batch[d], CreateOf(id))
        PROVE  Closing(id)'
    <3>1. d # c /\ batch'[d] = batch[d]
      BY <1>4, <2>4
    <3>. QED
      BY <1>1, <1>3, <1>4, <2>4, <3>1 DEF Closing
  <2>5. ASSUME NEW k \in Consumers, Has(batch[k], UpdateOf(id)),
               \/ log[id] # "none" \/ InOrder(batch[k], CreateOf(id), UpdateOf(id))
               \/ \E d \in Consumers \ {k} : Has(batch[d], CreateOf(id))
        PROVE  Closing(id)'
    <3>1. k # c /\ batch'[k] = batch[k]
      BY <1>4, <2>5
    <3>2. \A d \in Consumers : Has(batch[d], CreateOf(id)) => batch'[d] = batch[d]
      BY <1>4
    <3>. QED
      BY <1>1, <2>5, <3>1, <3>2 DEF Closing
  <2>. QED
    BY <1>10, <2>1, <2>2, <2>3, <2>4, <2>5 DEF Closing
<1>11. Closed'
  BY <1>1, <1>7, <1>10 DEF RowInv, Closed
<1>. QED
  BY <1>5, <1>8, <1>9, <1>11 DEF RowInv

\* A batch is written, or lost.
LEMMA RowFlush ==
  ASSUME TypeOK, RowInv, NEW c \in Consumers, Flush(c) \/ FlushFails(c)
  PROVE  RowInv'
<1>1. /\ consumer[c] = "flush" /\ NextBatch(c) /\ UNCHANGED <<queue, em>>
      /\ batch' = [batch EXCEPT ![c] = <<>>]
      /\ astray \subseteq astray'
  BY DEF Flush, FlushFails, NextBatch
<1>2. /\ batch'[c] = <<>> /\ \A d \in Consumers : d # c => batch'[d] = batch[d]
      /\ \A d \in Consumers : d # c => consumer'[d] = consumer[d]
      /\ \A p : ~Has(batch'[c], p)
  BY <1>1 DEF TypeOK, NextBatch, Has
<1>3. Emptied'
  BY <1>2 DEF RowInv, Emptied
<1>4. \A o : OnTheWay(o)' => OnTheWay(o)
  BY <1>1, <1>2 DEF OnTheWay
<1>5. \A id : /\ Early(id)' <=> Early(id)
              /\ Opened(id)' <=> Opened(id)
              /\ Past(id)' <=> Past(id)
  BY <1>1 DEF Early, Ahead, AboutToPut, Opened, Past
<1>6. \A o : Has(batch[c], o) => OnTheWay(o)
  BY DEF OnTheWay
<1>7. ASSUME NEW id \in Rows
      PROVE  /\ Creates(batch[c], id) <=> Has(batch[c], CreateOf(id))
             /\ Closes(batch[c], id) <=>
                  \/ log[id] # "none" /\ Has(batch[c], UpdateOf(id))
                  \/ InOrder(batch[c], CreateOf(id), UpdateOf(id))
             /\ InOrder(batch[c], CreateOf(id), UpdateOf(id)) =>
                  Has(batch[c], CreateOf(id)) /\ Has(batch[c], UpdateOf(id))
  BY DEF Creates, Closes, Has, InOrder, CreateOf, UpdateOf
<1>8. ASSUME NEW id \in Rows
      PROVE  /\ log[id] # "none" => log'[id] # "none"
             /\ log'[id] # "none" => log[id] # "none" \/ Has(batch[c], CreateOf(id))
             /\ log[id] = "closed" => log'[id] = "closed"
  <2>1. log[id] # "none" => ~Has(batch[c], CreateOf(id))
    BY <1>6 DEF RowInv, CreatedOnce
  <2>. QED
    BY <1>7, <2>1 DEF Flush, FlushFails, TypeOK
<1>9. NotPut' /\ NotClosed'
  BY <1>4, <1>5, <1>6, <1>8 DEF RowInv, NotPut, NotClosed
<1>10. CreatedOnce'
  <2>. SUFFICES ASSUME NEW id \in Rows
                PROVE  /\ log'[id] # "none" => ~OnTheWay(CreateOf(id))'
                       /\ Once(queue', CreateOf(id))
                       /\ \A k \in Consumers : Has(batch'[k], CreateOf(id)) =>
                            /\ ~Has(queue', CreateOf(id))
                            /\ \A d \in Consumers \ {k} : ~Has(batch'[d], CreateOf(id))
    BY DEF CreatedOnce
  <2>1. /\ log[id] # "none" => ~OnTheWay(CreateOf(id))
        /\ Once(queue, CreateOf(id))
        /\ \A k \in Consumers : Has(batch[k], CreateOf(id)) =>
             /\ ~Has(queue, CreateOf(id))
             /\ \A d \in Consumers \ {k} : ~Has(batch[d], CreateOf(id))
    BY DEF RowInv, CreatedOnce
  <2>2. Has(batch[c], CreateOf(id)) => ~OnTheWay(CreateOf(id))'
    BY <1>1, <1>2, <2>1 DEF OnTheWay
  <2>. QED
    BY <1>1, <1>2, <1>4, <1>8, <2>1, <2>2
<1>11. ASSUME NEW id \in Rows \ astray', NEW o \in {CreateOf(id), UpdateOf(id)}, Has(batch[c], o)
       PROVE  /\ Flush(c)
              /\ \A d \in Consumers \ {c} : \A p \in {CreateOf(id), UpdateOf(id)} : ~Has(batch[d], p)
  <2>1. \A d \in Consumers, p \in {CreateOf(id), UpdateOf(id)} : Has(batch[d], p) => id \in IdsIn(batch[d])
    BY DEF Has, IdsIn, CreateOf, UpdateOf
  <2>2. id \in IdsIn(batch[c])
    BY <1>11, <2>1
  <2>3. Flush(c)
    BY <1>11, <2>2 DEF FlushFails
  <2>4. \A d \in Consumers \ {c} : id \notin IdsIn(batch[d])
    BY <1>11, <2>2, <2>3 DEF Flush
  <2>. QED
    BY <2>1, <2>3, <2>4
<1>12. Comes'
  <2>. SUFFICES ASSUME NEW id \in Rows \ astray', Opened(id)'
                PROVE  log'[id] # "none" \/ OnTheWay(CreateOf(id))'
    BY DEF Comes
  <2>1. log[id] # "none" \/ OnTheWay(CreateOf(id))
    BY <1>1, <1>5 DEF RowInv, Comes
  <2>2. CASE Has(batch[c], CreateOf(id))
    <3>1. Flush(c) /\ Creates(batch[c], id)
      BY <1>7, <1>11, <2>2
    <3>. QED
      BY <3>1 DEF Flush
  <2>3. CASE ~Has(batch[c], CreateOf(id)) /\ OnTheWay(CreateOf(id))
    BY <1>1, <1>2, <2>3 DEF OnTheWay
  <2>. QED
    BY <1>8, <2>1, <2>2, <2>3
<1>13. ASSUME NEW id \in Rows \ astray', Closing(id)
       PROVE  Closing(id)'
  <2>1. CASE log[id] = "closed"
    BY <1>8, <2>1 DEF Closing
  <2>2. CASE Has(queue, UpdateOf(id)) /\ (log[id] # "none" \/ InOrder(queue, CreateOf(id), UpdateOf(id)))
    BY <1>1, <1>8, <2>2 DEF Closing
  <2>3. ASSUME Has(queue, UpdateOf(id)), NEW d \in Consumers, Has(batch[d], CreateOf(id))
        PROVE  Closing(id)'
    <3>1. CASE d = c
      <4>1. Flush(c) /\ Creates(batch[c], id)
        BY <1>7, <1>11, <2>3, <3>1
      <4>2. log'[id] # "none"
        BY <4>1 DEF Flush
      <4>. QED
        BY <1>1, <2>3, <4>2 DEF Closing
    <3>2. CASE d # c
      BY <1>1, <1>2, <2>3, <3>2 DEF Closing
    <3>. QED
      BY <3>1, <3>2
  <2>4. ASSUME NEW k \in Consumers, Has(batch[k], UpdateOf(id)),
               \/ log[id] # "none" \/ InOrder(batch[k], CreateOf(id), UpdateOf(id))
               \/ \E d \in Consumers \ {k} : Has(batch[d], CreateOf(id))
        PROVE  Closing(id)'
    <3>1. CASE k = c
      <4>1. Flush(c) /\ \A d \in Consumers \ {c} : ~Has(batch[d], CreateOf(id))
        BY <1>11, <2>4, <3>1
      <4>2. Closes(batch[c], id)
        BY <1>7, <2>4, <3>1, <4>1
      <4>. QED
        BY <4>1, <4>2 DEF Flush, Closing
    <3>2. CASE k # c
      <4>1. ~Has(batch[c], CreateOf(id))
        BY <1>11, <2>4, <3>2
      <4>. QED
        BY <1>2, <1>8, <2>4, <3>2, <4>1 DEF Closing
    <3>. QED
      BY <3>1, <3>2
  <2>. QED
    BY <1>13, <2>1, <2>2, <2>3, <2>4 DEF Closing
<1>14. Closed'
  BY <1>1, <1>5, <1>13 DEF RowInv, Closed
<1>. QED
  BY <1>3, <1>9, <1>10, <1>12, <1>14 DEF RowInv

\* What was on its way when the process died is astray.
LEMMA RowCrash ==
  ASSUME TypeOK, RowInv, CrashAndRestart
  PROVE  RowInv'
<1>1. /\ queue' = <<>> /\ batch' = [c \in Consumers |-> <<>>] /\ UNCHANGED log
      /\ em' = [e \in Emitters |-> IF em[e].pc = "idle" THEN em[e] ELSE NextRow(e)]
      /\ astray' = astray \cup IdsIn(queue) \cup (UNION {IdsIn(batch[c]) : c \in Consumers})
                          \cup {Row(e) : e \in {f \in Emitters : em[f].pc # "idle"}}
  BY DEF CrashAndRestart
<1>2. \A o : ~OnTheWay(o)' /\ Once(queue', o)
  BY <1>1 DEF OnTheWay, Has, Once
<1>3. ASSUME NEW id \in Rows
      PROVE  /\ Early(id)' => Early(id)
             /\ Past(id)' => Past(id) \/ id \in astray'
             /\ ~Opened(id)'
  <2>1. /\ id[1] \in Emitters /\ id[2] \in Nat /\ id = <<id[1], id[2]>> /\ em[id[1]].row \in Nat
    BY RowsAreNumbered DEF TypeOK
  <2>2. CASE em[id[1]].pc = "idle"
    <3>1. em'[id[1]] = em[id[1]]
      BY <1>1, <2>1, <2>2
    <3>. QED
      BY <2>2, <3>1 DEF Early, Ahead, AboutToPut, Opened, Past
  <2>3. CASE em[id[1]].pc # "idle"
    <3>1. em'[id[1]].pc = "idle" /\ em'[id[1]].row = em[id[1]].row + 1
      BY <1>1, <2>1, <2>3 DEF NextRow, Fresh
    <3>2. id[2] = em[id[1]].row => id = Row(id[1]) /\ id \in astray'
      BY <1>1, <2>1, <2>3 DEF Row
    <3>. QED
      BY <2>1, <3>1, <3>2 DEF Early, Ahead, AboutToPut, Opened, Past
  <2>. QED
    BY <2>2, <2>3
<1>4. ASSUME NEW id \in Rows \ astray', Closing(id)
      PROVE  log[id] = "closed"
  <2>1. \A s : Has(s, UpdateOf(id)) => id \in IdsIn(s)
    BY DEF Has, IdsIn, UpdateOf
  <2>. QED
    BY <1>1, <1>4, <2>1 DEF Closing
<1>5. Emptied'
  BY <1>1 DEF Emptied
<1>6. NotPut' /\ NotClosed' /\ Comes'
  BY <1>1, <1>2, <1>3 DEF RowInv, NotPut, NotClosed, Comes
<1>7. CreatedOnce'
  BY <1>2 DEF CreatedOnce, OnTheWay
<1>8. astray \subseteq astray'
  BY <1>1
<1>9. Closed'
  <2>1. ASSUME NEW id \in Rows \ astray', Past(id)'
        PROVE  log'[id] = "closed"
    BY <1>1, <1>3, <1>4, <1>8, <2>1 DEF RowInv, Closed
  <2>. QED
    BY <2>1 DEF Closed, Closing
<1>. QED
  BY <1>5, <1>6, <1>7, <1>9 DEF RowInv

LEMMA RowStep == TypeOK /\ RowInv /\ [Next]_vars => RowInv'
<1>. SUFFICES ASSUME TypeOK, RowInv, [Next]_vars
              PROVE  RowInv'
  OBVIOUS
<1>1. ASSUME NEW e \in Emitters, EmitCreate(e) \/ EmitUpdate(e) \/ EmitterStep(e) \/ Cancel(e)
      PROVE  RowInv'
  BY <1>1, RowEmits, RowEnqueue, RowCancel DEF EmitterStep
<1>2. CASE Stop \/ StopReturns \/ UNCHANGED vars \/ \E c \in Consumers : Quit(c)
  <2>1. UNCHANGED <<queue, batch, log, astray, em>>
    BY <1>2 DEF Stop, StopReturns, vars, Quit, Store
  <2>2. Emptied'
    <3>1. \A d \in Consumers : consumer'[d] = consumer[d] \/ consumer[d] = "get"
      BY <1>2 DEF Stop, StopReturns, vars, Quit, TypeOK
    <3>. QED
      BY <2>1, <3>1 DEF RowInv, Emptied
  <2>3. \A id : /\ Early(id)' <=> Early(id)
                /\ Opened(id)' <=> Opened(id)
                /\ Past(id)' <=> Past(id)
    BY <2>1 DEF Early, Ahead, AboutToPut, Opened, Past
  <2>. QED
    BY <2>1, <2>2, <2>3, RowQuiet
<1>3. ASSUME NEW c \in Consumers, ConsumerStep(c)
      PROVE  RowInv'
  BY <1>2, <1>3, RowTake, RowFlush DEF ConsumerStep
<1>. QED
  BY <1>1, <1>2, <1>3, RowCrash DEF Next

\* A row that is not in the hands of its coroutine and has nothing on its way is
\* not left running, unless it is astray: the queue and the batches hand the
\* operations of a row on in their order, so that an update always finds its row
\* (_enqueue, _run and _flush_batch, also when a stop and a new start leave two
\* consumers behind).
THEOREM RowsGetClosed == Spec => []RowsClosed
<1>1. TypeOK /\ RowInv /\ [Next]_vars => (TypeOK /\ RowInv)'
  BY TypeStep, RowStep
<1>2. TypeOK /\ RowInv => RowsClosed
  <2>. SUFFICES ASSUME TypeOK, RowInv, NEW id \in Rows, log[id] = "running", id \notin astray,
                       ~InHand(id)
                PROVE  Waiting(id)
    BY DEF RowsClosed
  <2>1. id[1] \in Emitters /\ id[2] \in Nat /\ id = <<id[1], id[2]>> /\ em[id[1]].row \in Nat
    BY RowsAreNumbered DEF TypeOK
  <2>2. ~Early(id)
    BY DEF RowInv, NotPut
  <2>3. em[id[1]].row = id[2] => em[id[1]].pc = "idle"
    BY <2>1 DEF InHand, Row
  <2>4. Past(id)
    BY <2>1, <2>2, <2>3 DEF Past, Early, Ahead
  <2>5. Closing(id)
    BY <2>4 DEF RowInv, Closed
  <2>6. \A s : Has(s, UpdateOf(id)) => id \in IdsIn(s)
    BY DEF Has, IdsIn, UpdateOf
  <2>. QED
    BY <2>5, <2>6 DEF Closing, Waiting
<1>3. Init => TypeOK /\ RowInv
  BY TypeInit, RowInit
<1>. QED
  BY <1>1, <1>2, <1>3, PTL DEF Spec
=============================================================================
