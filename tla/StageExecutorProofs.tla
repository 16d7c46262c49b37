------------------------- MODULE StageExecutorProofs -------------------------
(***************************************************************************)
(* What holds of stage executions for any number of stages of a role, any  *)
(* limits on attempts, restarts and iterations, and any number of crashes: *)
(* types, the log rows, the agent row, the answers and the tokens.         *)
(*                                                                         *)
(* Local says what one execution knows of its counters, its answer and its *)
(* log rows; AgentHeld that somebody who is still under way will give the  *)
(* agent back; Tokens that every completion is booked, about to be, or     *)
(* lost.  Most steps (Quiet) change one execution and nothing in the       *)
(* database, so that the three follow from the shape of the step.          *)
(***************************************************************************)
EXTENDS StageExecutor, FiniteSetTheorems, WellFoundedInduction, TLAPS

InProcess == InTry \cup {"finalize", "extend", "restart", "judge", "improve"}
WithAnswer == {"extend", "restart", "judge", "improve", "commit", "book", "release", "done"}

Counters(e) ==
  /\ e.pc = "backoff" => e.attempt <= MaxRetries
  /\ e.force = "wanted" => e.restarts = 0

\* o and l are the open and the logged rows of the execution.
RowsFit(e, o, l) ==
  /\ e.pc \in InProcess => ~e.boxed
  /\ e.pc \in {"sandbox", "stream"} => e.boxed
  /\ e.pc \notin InTry \cup {"finalize", "restart", "stream"} => o = {}
  /\ e.pc = "restart" => o \subseteq {RestartRow}
  /\ (e.pc \notin {"idle", "cut"} /\ ~e.boxed) => l = o
  /\ (e.pc \notin {"idle", "cancelled"} /\ e.boxed)
       => \A r \in l : r[1] = "chat" \/ r \in o

Local(e, o, l) ==
  /\ Counters(e)
  /\ e.pc \in WithAnswer => e.answered
  /\ RowsFit(e, o, l)

AllLocal == \A s \in Stages : Local(ex[s], open[s], logged[s])

\* An execution that will not give the agent back.
Without == {"idle", "done", "failed"}
AgentHeld == (crashes = 0 /\ agent = "running") => \E s \in Stages : ex[s].pc \notin Without

Tokens == BookedOnce /\ \A s \in Stages : ex[s].pc = "book" => used[s] = 1

ExecInv == TypeOK /\ AllLocal /\ AgentHeld /\ Tokens

-----------------------------------------------------------------------------
(* The shape of a step of one execution.                                   *)

Changes(s, e, o, l) ==
  /\ ex' = [ex EXCEPT ![s] = e]
  /\ open' = [open EXCEPT ![s] = o]
  /\ logged' = [logged EXCEPT ![s] = l]

\* Where a quiet step may lead.
Underway == PCs \ {"idle", "claim", "book", "release", "done", "failed"}
Quiet(s) ==
  /\ UNCHANGED <<Database, Counts>>
  /\ \E e \in Execution, o, l \in SUBSET Rows :
       /\ e.pc \in Underway /\ ex[s].pc # "book"
       /\ Changes(s, e, o, l) /\ Local(e, o, l)

LEMMA ChangesKeepLocal ==
  ASSUME TypeOK, AllLocal, NEW s \in Stages, NEW e \in Execution,
         NEW o \in SUBSET Rows, NEW l \in SUBSET Rows, Local(e, o, l), Changes(s, e, o, l)
  PROVE  /\ ex' \in [Stages -> Execution] /\ ex'[s] = e
         /\ open' \in [Stages -> SUBSET Rows] /\ logged' \in [Stages -> SUBSET Rows]
         /\ \A t \in Stages \ {s} : ex'[t] = ex[t]
         /\ AllLocal'
<1>1. /\ ex' \in [Stages -> Execution] /\ ex'[s] = e
      /\ open' \in [Stages -> SUBSET Rows] /\ open'[s] = o
      /\ logged' \in [Stages -> SUBSET Rows] /\ logged'[s] = l
  BY DEF TypeOK, Changes
<1>2. \A t \in Stages \ {s} : ex'[t] = ex[t] /\ open'[t] = open[t] /\ logged'[t] = logged[t]
  BY DEF TypeOK, Changes
<1>3. ASSUME NEW t \in Stages PROVE Local(ex'[t], open'[t], logged'[t])
  BY <1>1, <1>2 DEF AllLocal
<1>4. AllLocal'
  BY <1>3 DEF AllLocal, Local, Counters, RowsFit
<1> QED BY <1>1, <1>2, <1>4

\* A step of s that neither completes the stage nor ends a completion.
LEMMA TokensKept ==
  ASSUME Tokens, NEW s \in Stages, UNCHANGED <<used, booked, history>>,
         \A t \in Stages \ {s} : ex'[t] = ex[t], ex[s].pc # "book", ex'[s].pc # "book"
  PROVE  Tokens'
<1>1. \A t \in Stages : ex'[t].pc = "book" <=> ex[t].pc = "book"
  OBVIOUS
<1>2. Booking' = Booking /\ Recorded' = Recorded
  BY <1>1 DEF Booking, Recorded
<1>3. BookedOnce'
  BY <1>2 DEF Tokens, BookedOnce, history
<1> QED BY <1>1, <1>3 DEF Tokens

LEMMA StagesHaveSize ==
  /\ IsFiniteSet(Booking) /\ Cardinality(Booking) \in Nat
  /\ IsFiniteSet(Recorded) /\ Cardinality(Recorded) \in Nat
<1>1. Booking \subseteq Stages /\ Recorded \subseteq Stages
  BY DEF Booking, Recorded
<1>2. IsFiniteSet(Booking) /\ IsFiniteSet(Recorded)
  BY <1>1, StagesAreFinite, FS_Subset
<1> QED BY <1>2, FS_CardinalityType

\* A completion that is over, one way or the other.
LEMMA BookingEnds ==
  ASSUME NEW s \in Stages, \A t \in Stages \ {s} : ex'[t] = ex[t],
         ex[s].pc = "book", ex'[s].pc # "book"
  PROVE  Cardinality(Booking') = Cardinality(Booking) - 1
<1>1. Booking' = Booking \ {s} /\ s \in Booking
  BY DEF Booking
<1> QED BY <1>1, StagesHaveSize, FS_RemoveElement

LEMMA QuietKeeps ==
  ASSUME ExecInv, NEW s \in Stages, Quiet(s)
  PROVE  ExecInv'
<1>1. PICK e \in Execution, o \in SUBSET Rows, l \in SUBSET Rows :
        /\ e.pc \in Underway /\ ex[s].pc # "book"
        /\ Changes(s, e, o, l) /\ Local(e, o, l)
  BY DEF Quiet
<1>2. /\ ex' \in [Stages -> Execution] /\ ex'[s] = e
      /\ open' \in [Stages -> SUBSET Rows] /\ logged' \in [Stages -> SUBSET Rows]
      /\ \A t \in Stages \ {s} : ex'[t] = ex[t]
      /\ AllLocal'
  BY <1>1, ChangesKeepLocal DEF ExecInv
<1>3. TypeOK'
  BY <1>2 DEF ExecInv, TypeOK, Quiet, Database, Counts, history
<1>4. AgentHeld'
  <2>1. ex'[s].pc \notin Without
    BY <1>1, <1>2 DEF Underway, Without
  <2> QED BY <2>1 DEF AgentHeld
<1>5. Tokens'
  <2>1. ex[s].pc # "book" /\ ex'[s].pc # "book"
    BY <1>1, <1>2 DEF Underway
  <2>2. UNCHANGED <<used, booked, history>>
    BY DEF Quiet, Database, Counts
  <2> QED BY <1>2, <2>1, <2>2, TokensKept DEF ExecInv
<1> QED BY <1>2, <1>3, <1>4, <1>5 DEF ExecInv

-----------------------------------------------------------------------------
(* Which steps are quiet.                                                  *)

LEMMA QuietIntro ==
  ASSUME TypeOK, NEW s \in Stages, UNCHANGED <<Database, Counts>>,
         NEW e \in Execution, NEW o \in SUBSET Rows, NEW l \in SUBSET Rows,
         e.pc \in Underway, ex[s].pc # "book",
         Changes(s, e, o, l), Local(e, o, l)
  PROVE  Quiet(s)
BY DEF Quiet

LEMMA RowsKept ==
  ASSUME TypeOK, NEW s \in Stages, UNCHANGED Log
  PROVE  open' = [open EXCEPT ![s] = open[s]] /\ logged' = [logged EXCEPT ![s] = logged[s]]
BY DEF TypeOK, Log

LEMMA ExKept ==
  ASSUME TypeOK, NEW s \in Stages, UNCHANGED ex
  PROVE  ex' = [ex EXCEPT ![s] = ex[s]]
BY DEF TypeOK

LEMMA OneExecution ==
  ASSUME ExecInv, NEW s \in Stages
  PROVE  /\ ex[s] \in Execution /\ open[s] \in SUBSET Rows /\ logged[s] \in SUBSET Rows
         /\ Local(ex[s], open[s], logged[s])
BY DEF ExecInv, TypeOK, AllLocal

\* A row that is opened or closed.
LEMMA RowTypes ==
  ASSUME TypeOK, NEW s \in Stages,
         ex[s].attempt <= MaxRetries + 1
  PROVE  /\ MainChat(s) \in Rows /\ MainChat(s)[1] = "chat"
         /\ \A k \in {"turn", "tool"} : Call(s, k) \in Rows /\ Call(s, k)[1] = k
<1>1. ex[s].attempt \in 0 .. MaxRetries + 1
  BY BoundsAreNat DEF TypeOK, Execution
<1> QED BY <1>1 DEF MainChat, Call, Rows

LEMMA Bounds == MaxRetries \in Nat /\ MaxContinuations \in Nat
BY BoundsAreNat

LEMMA RestartRowType == RestartRow \in Rows /\ RestartRow[1] = "chat"
BY BoundsAreNat DEF RestartRow, Rows

\* The local variables an execution takes from x when it goes on to q.
Carried(s, x, q) ==
  [x EXCEPT !.pc = q, !.boxed = ex[s].boxed, !.answered = ex[s].answered]

LEMMA CarriedFields ==
  ASSUME NEW s \in Stages, ex[s] \in Execution, NEW x \in Execution, NEW q \in PCs
  PROVE  /\ Carried(s, x, q) \in Execution /\ Carried(s, x, q).pc = q
         /\ Carried(s, x, q).boxed = ex[s].boxed /\ Carried(s, x, q).answered = ex[s].answered
         /\ Carried(s, x, q).attempt = x.attempt /\ Carried(s, x, q).restarts = x.restarts
         /\ Carried(s, x, q).force = x.force
BY DEF Carried, Execution

LEMMA FreshType ==
  /\ Fresh \in Execution /\ Fresh.pc = "claim" /\ ~Fresh.boxed
  /\ Fresh.attempt = 1 /\ Fresh.restarts = 0
BY Bounds DEF Fresh, Execution, PCs

LEMMA FreshTypes ==
  ASSUME NEW s \in Stages, ex[s] \in Execution
  PROVE  \A x \in {Fresh, ForEvaluator(s)} : x \in Execution /\ x.attempt = 1 /\ x.restarts = 0
<1>1. Fresh \in Execution /\ Fresh.attempt = 1 /\ Fresh.restarts = 0
  BY FreshType
<1>2. /\ ForEvaluator(s) \in Execution
      /\ ForEvaluator(s).attempt = 1 /\ ForEvaluator(s).restarts = 0
  BY <1>1 DEF ForEvaluator, Execution
<1> QED BY <1>1, <1>2

\* What an execution goes on with when its attempts are over.
LEMMA AfterwardsGoes ==
  ASSUME NEW s \in Stages, ex[s] \in Execution, Afterwards(s)
  PROVE  \E x \in Execution : x.attempt = 1 /\ x.restarts = 0 /\ GoWith(s, x, AfterAttempts(s))
<1>1. CASE AfterAttempts(s) = "extend"
  <2>1. PICK t \in BOOLEAN, f \in {"unused", "wanted"} : GoWith(s, Answer(s, t, f), "extend")
    BY <1>1 DEF Afterwards
  <2> DEFINE e == ForEvaluator(s)
  <2>2. e \in Execution /\ e.attempt = 1 /\ e.restarts = 0
    BY FreshTypes
  <2>3. Answer(s, t, f) = [e EXCEPT !.truncated = t, !.force = f]
    BY DEF Answer
  <2>4. /\ Answer(s, t, f) \in Execution
        /\ Answer(s, t, f).attempt = 1 /\ Answer(s, t, f).restarts = 0
    <3>1. f \in {"unused", "wanted", "used"}
      OBVIOUS
    <3> HIDE DEF e
    <3> QED BY <2>2, <2>3, <3>1, ZenonT(40) DEF Execution
  <2> QED BY <1>1, <2>1, <2>4
<1>2. CASE AfterAttempts(s) # "extend"
  BY <1>2, FreshTypes DEF Afterwards
<1> QED BY <1>1, <1>2

\* The attempts are over.
OverWith(s, got, raised) ==
  [ForEvaluator(s) EXCEPT !.answered = got, !.raised = raised, !.pc = "finalize"]

LEMMA OverFields ==
  ASSUME NEW s \in Stages, ex[s] \in Execution, NEW got \in BOOLEAN,
         NEW raised \in {"no", "error", "cancelled"}
  PROVE  /\ OverWith(s, got, raised) \in Execution /\ OverWith(s, got, raised).pc = "finalize"
         /\ ~OverWith(s, got, raised).boxed /\ OverWith(s, got, raised).force = "unused"
<1>1. /\ ForEvaluator(s) \in Execution /\ ~ForEvaluator(s).boxed
      /\ ForEvaluator(s).force = "unused"
  BY FreshType DEF ForEvaluator, Fresh, Execution
<1> QED BY <1>1 DEF OverWith, Execution, PCs

LEMMA SendChatQuiet == ASSUME ExecInv, NEW s \in Stages, SendChat(s) PROVE Quiet(s)
<1> DEFINE e == [ex[s] EXCEPT !.pc = "chat"]
<1> DEFINE o == open[s] \cup {MainChat(s)}
<1> DEFINE l == logged[s] \cup {MainChat(s)}
<1>1. /\ ex[s] \in Execution /\ open[s] \in SUBSET Rows /\ logged[s] \in SUBSET Rows
      /\ Local(ex[s], open[s], logged[s])
  BY OneExecution
<1>2. ex[s].pc = "send" /\ ex[s].attempt <= MaxRetries + 1
  BY <1>1, Bounds DEF SendChat, At, Local, Counters, Execution, InTry
<1>3. e \in Execution /\ e.pc = "chat"
  BY <1>1, <1>2 DEF Execution, PCs, InTry
<1>4. o \in SUBSET Rows /\ l \in SUBSET Rows
  BY <1>1, <1>2, RowTypes DEF ExecInv
<1>5. Changes(s, e, o, l) /\ UNCHANGED <<Database, Counts>>
  BY RowsKept, ExKept DEF ExecInv, Changes, SendChat, Open, Go, Become
<1>6. Counters(e) /\ RowsFit(e, o, l)
  BY <1>1, <1>2, Bounds DEF Local, Counters, RowsFit, InTry, InProcess, Execution
<1>7. Local(e, o, l)
  BY <1>1, <1>2, <1>6 DEF Local, WithAnswer, InTry
<1> QED BY <1>2, <1>3, <1>4, <1>5, <1>7, QuietIntro DEF ExecInv, Underway, PCs, InTry

LEMMA RetryQuiet == ASSUME ExecInv, NEW s \in Stages, Retry(s) PROVE Quiet(s)
<1> DEFINE e == [ex[s] EXCEPT !.attempt = @ + 1, !.pc = "send"]
<1> DEFINE o == open[s]
<1> DEFINE l == logged[s]
<1>1. /\ ex[s] \in Execution /\ open[s] \in SUBSET Rows /\ logged[s] \in SUBSET Rows
      /\ Local(ex[s], open[s], logged[s])
  BY OneExecution
<1>2. /\ ex[s].pc = "backoff" /\ ex[s].attempt <= MaxRetries
      /\ ex[s].attempt + 1 \in 1 .. MaxRetries + 1
  BY <1>1, Bounds DEF Retry, At, Local, Counters, Execution, InTry
<1>3. e \in Execution /\ e.pc = "send"
  BY <1>1, <1>2 DEF Execution, PCs, InTry
<1>4. o \in SUBSET Rows /\ l \in SUBSET Rows
  BY <1>1, <1>2
<1>5. Changes(s, e, o, l) /\ UNCHANGED <<Database, Counts>>
  BY RowsKept, ExKept DEF ExecInv, Changes, Retry, Become
<1>6. Counters(e) /\ RowsFit(e, o, l)
  BY <1>1, <1>2, Bounds DEF Local, Counters, RowsFit, InTry, InProcess, Execution
<1>7. Local(e, o, l)
  BY <1>1, <1>2, <1>6 DEF Local, WithAnswer, InTry
<1> QED BY <1>2, <1>3, <1>4, <1>5, <1>7, QuietIntro DEF ExecInv, Underway, PCs, InTry

LEMMA RestartQuiet == ASSUME ExecInv, NEW s \in Stages, Restart(s) PROVE Quiet(s)
<1> DEFINE e == [ex[s] EXCEPT !.restarts = @ + 1, !.pc = "restart",
                               !.force = IF @ = "wanted" THEN "used" ELSE @]
<1> DEFINE o == open[s] \cup {RestartRow}
<1> DEFINE l == logged[s] \cup {RestartRow}
<1>1. /\ ex[s] \in Execution /\ open[s] \in SUBSET Rows /\ logged[s] \in SUBSET Rows
      /\ Local(ex[s], open[s], logged[s])
  BY OneExecution
<1>2. ex[s].pc = "extend" /\ ex[s].restarts + 1 \in 0 .. MaxContinuations + 1
  BY <1>1, Bounds DEF Restart, At, Local, Counters, Execution, InTry, MoreRestarts
<1>3. e \in Execution /\ e.pc = "restart"
  BY <1>1, <1>2 DEF Execution, PCs, InTry
<1>4. o \in SUBSET Rows /\ l \in SUBSET Rows
  BY <1>1, <1>2, RestartRowType
<1>5. Changes(s, e, o, l) /\ UNCHANGED <<Database, Counts>>
  BY RowsKept, ExKept DEF ExecInv, Changes, Restart, Open, Become
<1>6. Counters(e) /\ RowsFit(e, o, l)
  BY <1>1, <1>2, Bounds DEF Local, Counters, RowsFit, InTry, InProcess, Execution
<1>7. Local(e, o, l)
  BY <1>1, <1>2, <1>6 DEF Local, WithAnswer, InTry
<1> QED BY <1>2, <1>3, <1>4, <1>5, <1>7, QuietIntro DEF ExecInv, Underway, PCs, InTry

LEMMA OverQuiet ==
  ASSUME ExecInv, NEW s \in Stages, NEW got \in BOOLEAN,
         NEW raised \in {"no", "error", "cancelled"},
         NEW closed, Over(s, got, raised), Close(s, closed), UNCHANGED <<Database, Counts>>,
         ex[s].pc \in InTry
  PROVE  Quiet(s)
<1> DEFINE e == OverWith(s, got, raised)
<1> DEFINE o == open[s] \ closed
<1> DEFINE l == logged[s] \ (closed \cap open[s])
<1>1. /\ ex[s] \in Execution /\ open[s] \in SUBSET Rows /\ logged[s] \in SUBSET Rows
      /\ Local(ex[s], open[s], logged[s])
  BY OneExecution
<1>2. e \in Execution /\ e.pc = "finalize" /\ ~e.boxed /\ e.force = "unused"
  BY <1>1, OverFields
<1>3. o \in SUBSET Rows /\ l \in SUBSET Rows
  BY <1>1
<1>4. Changes(s, e, o, l)
  BY DEF Changes, Over, OverWith, Become, Close
<1> HIDE DEF e
<1>5. Counters(e) /\ RowsFit(e, o, l)
  BY <1>1, <1>2 DEF Local, Counters, RowsFit, InTry, InProcess
<1>6. Local(e, o, l)
  BY <1>2, <1>5 DEF Local, WithAnswer
<1> QED BY <1>2, <1>3, <1>4, <1>6, QuietIntro DEF ExecInv, Underway, PCs, InTry

LEMMA ChatAnswersQuiet == ASSUME ExecInv, NEW s \in Stages, ChatAnswers(s) PROVE Quiet(s)
<1>1. Over(s, TRUE, "no") /\ ex[s].pc = "chat" /\ Close(s, {MainChat(s)})
  BY DEF ChatAnswers, At
<1> QED BY <1>1, OverQuiet DEF ChatAnswers, InTry

LEMMA ChatFailsQuiet == ASSUME ExecInv, NEW s \in Stages, ChatFails(s) PROVE Quiet(s)
<1>1. CASE LastAttempt(s)
  <2>1. Over(s, FALSE, "error") /\ ex[s].pc = "chat" /\ Close(s, {MainChat(s)})
    BY <1>1 DEF ChatFails, At
  <2> QED BY <2>1, OverQuiet DEF ChatFails, InTry
<1>2. CASE ~LastAttempt(s)
  <2> DEFINE e == [ex[s] EXCEPT !.pc = "backoff"]
  <2> DEFINE o == open[s] \ {MainChat(s)}
  <2> DEFINE l == logged[s] \ ({MainChat(s)} \cap open[s])
  <2>1. /\ ex[s] \in Execution /\ open[s] \in SUBSET Rows /\ logged[s] \in SUBSET Rows
        /\ Local(ex[s], open[s], logged[s])
    BY OneExecution
  <2>2. ex[s].pc = "chat" /\ ex[s].attempt <= MaxRetries
    BY <1>2, <2>1, Bounds DEF ChatFails, At, Execution, LastAttempt
  <2>3. e \in Execution /\ e.pc = "backoff"
    BY <2>1, <2>2 DEF Execution, PCs, InTry
  <2>4. o \in SUBSET Rows /\ l \in SUBSET Rows
    BY <2>1
  <2>5. Changes(s, e, o, l) /\ UNCHANGED <<Database, Counts>>
    BY <1>2, RowsKept DEF ExecInv, Changes, ChatFails, Close, Go, Become
  <2>6. Counters(e) /\ RowsFit(e, o, l)
    BY <2>1, <2>2, Bounds DEF Local, Counters, RowsFit, InTry, InProcess, Execution
  <2>7. Local(e, o, l)
    BY <2>1, <2>2, <2>6 DEF Local, WithAnswer, InTry
  <2> QED BY <2>2, <2>3, <2>4, <2>5, <2>7, QuietIntro DEF ExecInv, Underway, PCs, InTry
<1> QED BY <1>1, <1>2

LEMMA FallBackToTextQuiet == ASSUME ExecInv, NEW s \in Stages, FallBackToText(s) PROVE Quiet(s)
<1>1. CASE LastAttempt(s)
  <2>1. Over(s, FALSE, "no") /\ ex[s].pc = "chat" /\ Close(s, {MainChat(s)})
    BY <1>1 DEF FallBackToText, At
  <2> QED BY <2>1, OverQuiet DEF FallBackToText, InTry
<1>2. CASE ~LastAttempt(s)
  <2> DEFINE e == [ex[s] EXCEPT !.runner = "text", !.attempt = @ + 1, !.pc = "send"]
  <2> DEFINE o == open[s] \ {MainChat(s)}
  <2> DEFINE l == logged[s] \ ({MainChat(s)} \cap open[s])
  <2>1. /\ ex[s] \in Execution /\ open[s] \in SUBSET Rows /\ logged[s] \in SUBSET Rows
        /\ Local(ex[s], open[s], logged[s])
    BY OneExecution
  <2>2. ex[s].pc = "chat" /\ ex[s].attempt + 1 \in 1 .. MaxRetries + 1
    BY <1>2, <2>1, Bounds DEF FallBackToText, At, Execution, LastAttempt
  <2>3. e \in Execution /\ e.pc = "send"
    BY <2>1, <2>2 DEF Execution, PCs, InTry
  <2>4. o \in SUBSET Rows /\ l \in SUBSET Rows
    BY <2>1
  <2>5. Changes(s, e, o, l) /\ UNCHANGED <<Database, Counts>>
    BY <1>2, RowsKept DEF ExecInv, Changes, FallBackToText, Close, Become
  <2>6. Counters(e) /\ RowsFit(e, o, l)
    BY <2>1, <2>2, Bounds DEF Local, Counters, RowsFit, InTry, InProcess, Execution
  <2>7. Local(e, o, l)
    BY <2>1, <2>2, <2>6 DEF Local, WithAnswer, InTry
  <2> QED BY <2>2, <2>3, <2>4, <2>5, <2>7, QuietIntro DEF ExecInv, Underway, PCs, InTry
<1> QED BY <1>1, <1>2

LEMMA FinalizeUnfinishedQuiet ==
  ASSUME ExecInv, NEW s \in Stages, FinalizeUnfinished(s)
  PROVE  Quiet(s)
<1>0. PICK x \in Execution :
        x.attempt = 1 /\ x.restarts = 0 /\ GoWith(s, x, AfterAttempts(s))
  BY OneExecution, AfterwardsGoes DEF FinalizeUnfinished
<1> DEFINE e == Carried(s, x, AfterAttempts(s))
<1> DEFINE o == {}
<1> DEFINE l == logged[s] \ open[s]
<1>1. /\ ex[s] \in Execution /\ open[s] \in SUBSET Rows /\ logged[s] \in SUBSET Rows
      /\ Local(ex[s], open[s], logged[s])
  BY OneExecution
<1>2. ex[s].pc = "finalize"
  BY DEF FinalizeUnfinished, At
<1>3. /\ e \in Execution /\ e.attempt = 1 /\ e.restarts = 0
      /\ e.boxed = ex[s].boxed /\ e.answered = ex[s].answered
      /\ e.pc \in {"cancelled", "fail", "extend"} /\ (e.pc = "extend" => ex[s].answered)
  <2>1. /\ AfterAttempts(s) \in {"cancelled", "fail", "extend"}
        /\ AfterAttempts(s) = "extend" => ex[s].answered
    BY DEF AfterAttempts
  <2>2. AfterAttempts(s) \in PCs
    BY <2>1 DEF PCs, Ends
  <2> QED BY <1>0, <1>1, <2>1, <2>2, CarriedFields
<1>4. o \in SUBSET Rows /\ l \in SUBSET Rows
  BY <1>1
<1>5. Changes(s, e, o, l) /\ UNCHANGED <<Database, Counts>>
  <2>1. open[s] \ open[s] = {} /\ logged[s] \ (open[s] \cap open[s]) = l
    OBVIOUS
  <2> QED BY <1>0, <2>1 DEF Changes, FinalizeUnfinished, Close, GoWith, Become, Carried
<1> HIDE DEF e
<1>6. Counters(e) /\ RowsFit(e, o, l)
  BY <1>1, <1>2, <1>3, Bounds DEF Local, Counters, RowsFit, InTry, InProcess
<1>7. Local(e, o, l)
  BY <1>1, <1>2, <1>3, <1>6 DEF Local, WithAnswer, InTry
<1> QED BY <1>2, <1>3, <1>4, <1>5, <1>7, QuietIntro DEF ExecInv, Underway, PCs, InTry, Ends

LEMMA RestartReturnsQuiet == ASSUME ExecInv, NEW s \in Stages, RestartReturns(s) PROVE Quiet(s)
<1>0. PICK t \in BOOLEAN : ex' = [ex EXCEPT ![s] = [ex[s] EXCEPT !.truncated = t, !.pc = "extend"]]
  BY OneExecution, ZenonT(40) DEF RestartReturns, Become, Execution
<1> DEFINE e == [ex[s] EXCEPT !.truncated = t, !.pc = "extend"]
<1> DEFINE o == open[s] \ {RestartRow}
<1> DEFINE l == logged[s] \ ({RestartRow} \cap open[s])
<1>1. /\ ex[s] \in Execution /\ open[s] \in SUBSET Rows /\ logged[s] \in SUBSET Rows
      /\ Local(ex[s], open[s], logged[s])
  BY OneExecution
<1>2. ex[s].pc = "restart"
  BY DEF RestartReturns, At
<1>3. e \in Execution /\ e.pc = "extend"
  BY <1>1, <1>2 DEF Execution, PCs, InTry
<1>4. o \in SUBSET Rows /\ l \in SUBSET Rows
  BY <1>1, <1>2
<1>5. Changes(s, e, o, l) /\ UNCHANGED <<Database, Counts>>
  BY RowsKept, ExKept, <1>0 DEF ExecInv, Changes, RestartReturns, Close
<1>6. Counters(e) /\ RowsFit(e, o, l)
  BY <1>1, <1>2, Bounds DEF Local, Counters, RowsFit, InTry, InProcess, Execution
<1>7. Local(e, o, l)
  BY <1>1, <1>2, <1>6 DEF Local, WithAnswer, InTry
<1> QED BY <1>2, <1>3, <1>4, <1>5, <1>7, QuietIntro DEF ExecInv, Underway, PCs, InTry

LEMMA NoRestartQuiet == ASSUME ExecInv, NEW s \in Stages, NoRestart(s) PROVE Quiet(s)
<1> DEFINE next == IF ex[s].evaluator = "none" THEN "commit" ELSE "judge"
<1> DEFINE e == Carried(s, ForEvaluator(s), next)
<1> DEFINE o == open[s]
<1> DEFINE l == logged[s]
<1>1. /\ ex[s] \in Execution /\ open[s] \in SUBSET Rows /\ logged[s] \in SUBSET Rows
      /\ Local(ex[s], open[s], logged[s])
  BY OneExecution
<1>2. ex[s].pc = "extend"
  BY DEF NoRestart, At
<1>3. /\ e \in Execution /\ e.attempt = 1 /\ e.restarts = 0
      /\ e.boxed = ex[s].boxed /\ e.answered = ex[s].answered
      /\ e.pc \in {"commit", "judge"}
  <2>1. next \in {"commit", "judge"} /\ next \in PCs
    BY DEF PCs
  <2> HIDE DEF next
  <2> QED BY <1>1, <2>1, FreshTypes, CarriedFields
<1>4. o \in SUBSET Rows /\ l \in SUBSET Rows
  BY <1>1
<1>5. Changes(s, e, o, l) /\ UNCHANGED <<Database, Counts>>
  BY RowsKept DEF ExecInv, Changes, NoRestart, GoWith, Become, Carried
<1> HIDE DEF e
<1>6. Counters(e) /\ RowsFit(e, o, l)
  BY <1>1, <1>2, <1>3, Bounds DEF Local, Counters, RowsFit, InTry, InProcess
<1>7. Local(e, o, l)
  BY <1>1, <1>2, <1>3, <1>6 DEF Local, WithAnswer, InTry
<1> QED BY <1>2, <1>3, <1>4, <1>5, <1>7, QuietIntro DEF ExecInv, Underway, PCs, InTry

LEMMA AssessSelfQuiet == ASSUME ExecInv, NEW s \in Stages, AssessSelf(s) PROVE Quiet(s)
<1>0. PICK q \in {"commit", "improve"} : ex' = [ex EXCEPT ![s] = [ex[s] EXCEPT !.pc = q]]
  BY DEF AssessSelf, Go, Become
<1> DEFINE e == [ex[s] EXCEPT !.pc = q]
<1> DEFINE o == open[s]
<1> DEFINE l == logged[s]
<1>1. /\ ex[s] \in Execution /\ open[s] \in SUBSET Rows /\ logged[s] \in SUBSET Rows
      /\ Local(ex[s], open[s], logged[s])
  BY OneExecution
<1>2. ex[s].pc = "judge"
  BY DEF AssessSelf, At
<1>3. e \in Execution /\ e.pc \in {"commit", "improve"}
  BY <1>1, <1>2 DEF Execution, PCs, InTry
<1>4. o \in SUBSET Rows /\ l \in SUBSET Rows
  BY <1>1, <1>2
<1>5. Changes(s, e, o, l) /\ UNCHANGED <<Database, Counts>>
  BY RowsKept, ExKept, <1>0 DEF ExecInv, Changes, AssessSelf
<1>6. Counters(e) /\ RowsFit(e, o, l)
  BY <1>1, <1>2, Bounds DEF Local, Counters, RowsFit, InTry, InProcess, Execution
<1>7. Local(e, o, l)
  BY <1>1, <1>2, <1>6 DEF Local, WithAnswer, InTry
<1> QED BY <1>2, <1>3, <1>4, <1>5, <1>7, QuietIntro DEF ExecInv, Underway, PCs, InTry

LEMMA RunVerificationQuiet == ASSUME ExecInv, NEW s \in Stages, RunVerification(s) PROVE Quiet(s)
<1>0. PICK q \in {"commit", "improve"} : ex' = [ex EXCEPT ![s] = [ex[s] EXCEPT !.pc = q]]
  BY DEF RunVerification, Go, Become
<1> DEFINE e == [ex[s] EXCEPT !.pc = q]
<1> DEFINE o == open[s]
<1> DEFINE l == logged[s]
<1>1. /\ ex[s] \in Execution /\ open[s] \in SUBSET Rows /\ logged[s] \in SUBSET Rows
      /\ Local(ex[s], open[s], logged[s])
  BY OneExecution
<1>2. ex[s].pc = "judge"
  BY DEF RunVerification, At
<1>3. e \in Execution /\ e.pc \in {"commit", "improve"}
  BY <1>1, <1>2 DEF Execution, PCs, InTry
<1>4. o \in SUBSET Rows /\ l \in SUBSET Rows
  BY <1>1, <1>2
<1>5. Changes(s, e, o, l) /\ UNCHANGED <<Database, Counts>>
  BY RowsKept, ExKept, <1>0 DEF ExecInv, Changes, RunVerification
<1>6. Counters(e) /\ RowsFit(e, o, l)
  BY <1>1, <1>2, Bounds DEF Local, Counters, RowsFit, InTry, InProcess, Execution
<1>7. Local(e, o, l)
  BY <1>1, <1>2, <1>6 DEF Local, WithAnswer, InTry
<1> QED BY <1>2, <1>3, <1>4, <1>5, <1>7, QuietIntro DEF ExecInv, Underway, PCs, InTry

LEMMA ImproveQuiet == ASSUME ExecInv, NEW s \in Stages, Improve(s) PROVE Quiet(s)
<1>1. /\ ex[s] \in Execution /\ open[s] \in SUBSET Rows /\ logged[s] \in SUBSET Rows
      /\ Local(ex[s], open[s], logged[s])
  BY OneExecution
<1>2. ex[s].pc = "improve"
  BY DEF Improve, At
<1>3. PICK e \in Execution :
        /\ ex' = [ex EXCEPT ![s] = e] /\ e.pc \in {"commit", "judge"}
        /\ e.attempt = ex[s].attempt /\ e.restarts = ex[s].restarts /\ e.force = ex[s].force
        /\ e.boxed = ex[s].boxed /\ e.answered = ex[s].answered
  <2>1. CASE Go(s, "commit")
    <3> DEFINE f == [ex[s] EXCEPT !.pc = "commit"]
    <3>1. f \in Execution
      BY <1>1 DEF Execution, PCs
    <3>2. /\ ex' = [ex EXCEPT ![s] = f] /\ f.pc = "commit"
          /\ f.attempt = ex[s].attempt /\ f.restarts = ex[s].restarts
          /\ f.force = ex[s].force /\ f.boxed = ex[s].boxed /\ f.answered = ex[s].answered
      BY <2>1, <1>1 DEF Go, Become, Execution
    <3> QED BY <2>1, <3>1, <3>2
  <2>2. CASE Become(s, [ex[s] EXCEPT !.iter = @ + 1, !.pc = "judge"])
    <3> DEFINE f == [ex[s] EXCEPT !.iter = @ + 1, !.pc = "judge"]
    <3>1. ex[s].iter + 1 \in Nat \ {0}
      BY <1>1 DEF Execution
    <3>2. f \in Execution
      BY <1>1, <3>1 DEF Execution, PCs
    <3>3. /\ ex' = [ex EXCEPT ![s] = f] /\ f.pc = "judge"
          /\ f.attempt = ex[s].attempt /\ f.restarts = ex[s].restarts
          /\ f.force = ex[s].force /\ f.boxed = ex[s].boxed /\ f.answered = ex[s].answered
      BY <2>2, <1>1 DEF Become, Execution
    <3> QED BY <3>2, <3>3
  <2> QED BY <2>1, <2>2 DEF Improve
<1> DEFINE o == open[s]
<1> DEFINE l == logged[s]
<1>4. o \in SUBSET Rows /\ l \in SUBSET Rows
  BY <1>1
<1>5. Changes(s, e, o, l) /\ UNCHANGED <<Database, Counts>>
  BY RowsKept, <1>3 DEF ExecInv, Changes, Improve
<1>6. Counters(e) /\ RowsFit(e, o, l)
  BY <1>1, <1>2, <1>3, Bounds DEF Local, Counters, RowsFit, InTry, InProcess
<1>7. Local(e, o, l)
  BY <1>1, <1>2, <1>3, <1>6 DEF Local, WithAnswer, InTry
<1> QED BY <1>2, <1>3, <1>4, <1>5, <1>7, QuietIntro DEF ExecInv, Underway, PCs, InTry

LEMMA EventStartsQuiet ==
  ASSUME ExecInv, NEW s \in Stages, NEW k \in {"turn", "tool"}, EventStarts(s, k)
  PROVE  Quiet(s)
<1> DEFINE e == ex[s]
<1> DEFINE o == open[s] \cup {Call(s, k)}
<1> DEFINE l == logged[s] \cup {Call(s, k)}
<1>1. /\ ex[s] \in Execution /\ open[s] \in SUBSET Rows /\ logged[s] \in SUBSET Rows
      /\ Local(ex[s], open[s], logged[s])
  BY OneExecution
<1>2. ex[s].pc \in InTry \cup {"stream"} /\ ex[s].attempt <= MaxRetries + 1
  BY <1>1, Bounds DEF EventStarts, Local, Counters, Execution, InTry, Hears, HearsRunner,
                      HearsStream
<1>3. e \in Execution /\ e.pc \in Underway /\ e.pc = ex[s].pc
  BY <1>1, <1>2 DEF Execution, PCs, InTry, Underway
<1>4. o \in SUBSET Rows /\ l \in SUBSET Rows
  BY <1>1, <1>2, RowTypes DEF ExecInv
<1>5. Changes(s, e, o, l) /\ UNCHANGED <<Database, Counts>>
  BY RowsKept, ExKept DEF ExecInv, Changes, EventStarts, Open
<1>6. Counters(e) /\ RowsFit(e, o, l)
  BY <1>1, <1>2, Bounds, RowTypes DEF Local, Counters, RowsFit, InTry, InProcess, Execution, ExecInv
<1>7. Local(e, o, l)
  BY <1>1, <1>2, <1>6 DEF Local, WithAnswer, InTry, Underway
<1> QED BY <1>2, <1>3, <1>4, <1>5, <1>7, QuietIntro DEF ExecInv, Underway, PCs, InTry

LEMMA TurnEndsQuiet == ASSUME ExecInv, NEW s \in Stages, TurnEnds(s) PROVE Quiet(s)
<1> DEFINE e == ex[s]
<1> DEFINE o == open[s] \ {Call(s, "turn")}
<1> DEFINE l == logged[s] \ ({Call(s, "turn")} \cap open[s])
<1>1. /\ ex[s] \in Execution /\ open[s] \in SUBSET Rows /\ logged[s] \in SUBSET Rows
      /\ Local(ex[s], open[s], logged[s])
  BY OneExecution
<1>2. ex[s].pc \in InTry \cup {"stream"}
  BY DEF TurnEnds, InTry, Hears, HearsRunner, HearsStream
<1>3. e \in Execution /\ e.pc \in Underway /\ e.pc = ex[s].pc
  BY <1>1, <1>2 DEF Execution, PCs, InTry, Underway
<1>4. o \in SUBSET Rows /\ l \in SUBSET Rows
  BY <1>1, <1>2
<1>5. Changes(s, e, o, l) /\ UNCHANGED <<Database, Counts>>
  BY RowsKept, ExKept DEF ExecInv, Changes, TurnEnds, Close
<1>6. Counters(e) /\ RowsFit(e, o, l)
  BY <1>1, <1>2, Bounds DEF Local, Counters, RowsFit, InTry, InProcess, Execution
<1>7. Local(e, o, l)
  BY <1>1, <1>2, <1>6 DEF Local, WithAnswer, InTry, Underway
<1> QED BY <1>2, <1>3, <1>4, <1>5, <1>7, QuietIntro DEF ExecInv, Underway, PCs, InTry

LEMMA ToolEndsQuiet == ASSUME ExecInv, NEW s \in Stages, ToolEnds(s) PROVE Quiet(s)
<1> DEFINE e == ex[s]
<1> DEFINE o == open[s] \ {Call(s, "tool")}
<1> DEFINE l == logged[s] \ ({Call(s, "tool")} \cap open[s])
<1>1. /\ ex[s] \in Execution /\ open[s] \in SUBSET Rows /\ logged[s] \in SUBSET Rows
      /\ Local(ex[s], open[s], logged[s])
  BY OneExecution
<1>2. ex[s].pc \in InTry \cup {"stream"}
  BY DEF ToolEnds, InTry, Hears, HearsRunner, HearsStream
<1>3. e \in Execution /\ e.pc \in Underway /\ e.pc = ex[s].pc
  BY <1>1, <1>2 DEF Execution, PCs, InTry, Underway
<1>4. o \in SUBSET Rows /\ l \in SUBSET Rows
  BY <1>1, <1>2
<1>5. Changes(s, e, o, l) /\ UNCHANGED <<Database, Counts>>
  BY RowsKept, ExKept DEF ExecInv, Changes, ToolEnds, Close
<1>6. Counters(e) /\ RowsFit(e, o, l)
  BY <1>1, <1>2, Bounds DEF Local, Counters, RowsFit, InTry, InProcess, Execution
<1>7. Local(e, o, l)
  BY <1>1, <1>2, <1>6 DEF Local, WithAnswer, InTry, Underway
<1> QED BY <1>2, <1>3, <1>4, <1>5, <1>7, QuietIntro DEF ExecInv, Underway, PCs, InTry

LEMMA SendToSandboxQuiet == ASSUME ExecInv, NEW s \in Stages, SendToSandbox(s) PROVE Quiet(s)
<1> DEFINE e == [ex[s] EXCEPT !.pc = "stream"]
<1> DEFINE o == open[s]
<1> DEFINE l == logged[s] \cup {MainChat(s)}
<1>1. /\ ex[s] \in Execution /\ open[s] \in SUBSET Rows /\ logged[s] \in SUBSET Rows
      /\ Local(ex[s], open[s], logged[s])
  BY OneExecution
<1>2. ex[s].pc = "sandbox" /\ ex[s].attempt <= MaxRetries + 1
  BY <1>1, Bounds DEF SendToSandbox, At, Local, Counters, Execution, InTry
<1>3. e \in Execution /\ e.pc = "stream"
  BY <1>1, <1>2 DEF Execution, PCs, InTry
<1>4. o \in SUBSET Rows /\ l \in SUBSET Rows
  BY <1>1, <1>2, RowTypes DEF ExecInv
<1>5. Changes(s, e, o, l) /\ UNCHANGED <<Database, Counts>>
  BY RowsKept, ExKept DEF ExecInv, Changes, TypeOK, SendToSandbox, Go, Become
<1>6. Counters(e) /\ RowsFit(e, o, l)
  BY <1>1, <1>2, Bounds, RowTypes DEF Local, Counters, RowsFit, InTry, InProcess, Execution, ExecInv
<1>7. Local(e, o, l)
  BY <1>1, <1>2, <1>6 DEF Local, WithAnswer, InTry
<1> QED BY <1>2, <1>3, <1>4, <1>5, <1>7, QuietIntro DEF ExecInv, Underway, PCs, InTry

LEMMA SandboxReturnsQuiet == ASSUME ExecInv, NEW s \in Stages, SandboxReturns(s) PROVE Quiet(s)
<1>1. /\ ex[s] \in Execution /\ open[s] \in SUBSET Rows /\ logged[s] \in SUBSET Rows
      /\ Local(ex[s], open[s], logged[s])
  BY OneExecution
<1>2. ex[s].pc = "stream"
  BY DEF SandboxReturns, At
<1>3. PICK e \in Execution :
        /\ ex' = [ex EXCEPT ![s] = e] /\ e.pc \in {"commit", "fail"}
        /\ e.attempt = ex[s].attempt /\ e.restarts = ex[s].restarts
        /\ e.force = ex[s].force /\ e.boxed = ex[s].boxed /\ (e.pc = "commit" => e.answered)
  <2>1. CASE Become(s, [ex[s] EXCEPT !.answered = TRUE, !.pc = "commit"])
    <3> DEFINE f == [ex[s] EXCEPT !.answered = TRUE, !.pc = "commit"]
    <3>1. f \in Execution
      BY <1>1 DEF Execution, PCs
    <3>2. /\ ex' = [ex EXCEPT ![s] = f] /\ f.pc = "commit"
          /\ f.attempt = ex[s].attempt /\ f.restarts = ex[s].restarts
          /\ f.force = ex[s].force /\ f.boxed = ex[s].boxed /\ f.answered
      BY <2>1, <1>1 DEF Go, Become, Execution
    <3> QED BY <2>1, <3>1, <3>2
  <2>2. CASE Become(s, [ex[s] EXCEPT !.raised = "error", !.pc = "fail"])
    <3> DEFINE f == [ex[s] EXCEPT !.raised = "error", !.pc = "fail"]
    <3>1. f \in Execution
      BY <1>1 DEF Execution, PCs
    <3>2. /\ ex' = [ex EXCEPT ![s] = f] /\ f.pc = "fail"
          /\ f.attempt = ex[s].attempt /\ f.restarts = ex[s].restarts
          /\ f.force = ex[s].force /\ f.boxed = ex[s].boxed
      BY <2>2, <1>1 DEF Go, Become, Execution
    <3> QED BY <2>2, <3>1, <3>2
  <2> QED BY <2>1, <2>2 DEF SandboxReturns
<1> DEFINE o == {}
<1> DEFINE l == logged[s] \ open[s]
<1>4. o \in SUBSET Rows /\ l \in SUBSET Rows
  BY <1>1
<1>5. Changes(s, e, o, l) /\ UNCHANGED <<Database, Counts>>
  <2>1. open[s] \ open[s] = {} /\ logged[s] \ (open[s] \cap open[s]) = l
    OBVIOUS
  <2> QED BY <1>3, <2>1 DEF Changes, SandboxReturns, Close
<1>6. Counters(e) /\ RowsFit(e, o, l)
  BY <1>1, <1>2, <1>3, Bounds DEF Local, Counters, RowsFit, InTry, InProcess
<1>7. Local(e, o, l)
  BY <1>1, <1>2, <1>3, <1>6 DEF Local, WithAnswer, InTry
<1> QED BY <1>2, <1>3, <1>4, <1>5, <1>7, QuietIntro DEF ExecInv, Underway, PCs, InTry

LEMMA CancelAttemptQuiet == ASSUME ExecInv, NEW s \in Stages, CancelAttempt(s) PROVE Quiet(s)
<1> DEFINE closed == IF At(s, "chat") THEN {MainChat(s)} ELSE {}
<1>1. Over(s, FALSE, "cancelled") /\ Close(s, closed) /\ ex[s].pc \in InTry
  BY DEF CancelAttempt
<1> HIDE DEF closed
<1> QED BY <1>1, OverQuiet DEF CancelAttempt

LEMMA CancelFinalizeQuiet ==
  ASSUME ExecInv, NEW s \in Stages, CancelFinalize(s)
  PROVE  Quiet(s)
<1> DEFINE e == Carried(s, Fresh, "cut")
<1> DEFINE o == {}
<1>1. /\ ex[s] \in Execution /\ open[s] \in SUBSET Rows /\ logged[s] \in SUBSET Rows
      /\ Local(ex[s], open[s], logged[s])
  BY OneExecution
<1>2. ex[s].pc = "finalize"
  BY DEF CancelFinalize, At
<1>3. PICK closed \in SUBSET open[s] : logged' = [logged EXCEPT ![s] = @ \ closed]
  BY DEF CancelFinalize
<1> DEFINE l == logged[s] \ closed
<1>4. /\ e \in Execution /\ e.attempt = 1 /\ e.restarts = 0 /\ e.pc = "cut"
      /\ e.boxed = ex[s].boxed /\ e.answered = ex[s].answered
  <2>1. "cut" \in PCs
    BY DEF PCs, Ends
  <2> QED BY <1>1, <2>1, FreshTypes, CarriedFields
<1>5. o \in SUBSET Rows /\ l \in SUBSET Rows
  BY <1>1
<1>6. Changes(s, e, o, l) /\ UNCHANGED <<Database, Counts>>
  BY <1>3 DEF CancelFinalize, GoWith, Become, Carried, Changes
<1> HIDE DEF e
<1>7. Counters(e) /\ RowsFit(e, o, l)
  BY <1>1, <1>2, <1>4, Bounds DEF Local, Counters, RowsFit, InTry, InProcess
<1>8. Local(e, o, l)
  BY <1>4, <1>7 DEF Local, WithAnswer
<1> QED BY <1>2, <1>4, <1>5, <1>6, <1>8, QuietIntro DEF ExecInv, Underway, PCs, Ends

\* Any other cancellation ends the execution at once, and a booking with it.
LEMMA CancelRestKeeps == ASSUME ExecInv, NEW s \in Stages, CancelRest(s) PROVE ExecInv'
<1> DEFINE e == Carried(s, Fresh, "cancelled")
<1> DEFINE o == {}
<1> DEFINE l == IF At(s, "restart") THEN logged[s] \ {RestartRow} ELSE logged[s]
<1>1. /\ ex[s] \in Execution /\ open[s] \in SUBSET Rows /\ logged[s] \in SUBSET Rows
      /\ Local(ex[s], open[s], logged[s])
  BY OneExecution
<1>2. ex[s].pc \notin InTry \cup Ends \cup {"idle", "finalize"}
  BY DEF CancelRest
<1>3. /\ e \in Execution /\ e.attempt = 1 /\ e.restarts = 0 /\ e.pc = "cancelled"
      /\ e.boxed = ex[s].boxed /\ e.answered = ex[s].answered
  <2>1. "cancelled" \in PCs
    BY DEF PCs, Ends
  <2> QED BY <1>1, <2>1, FreshTypes, CarriedFields
<1>4. o \in SUBSET Rows /\ l \in SUBSET Rows
  BY <1>1
<1>5. Changes(s, e, o, l)
  BY DEF CancelRest, GoWith, Become, Carried, Changes
<1> HIDE DEF e
<1>6. Counters(e) /\ RowsFit(e, o, l)
  <2>1. Counters(e)
    BY <1>3, Bounds DEF Counters, InTry
  <2>2. (~e.boxed) => l = {}
    <3> SUFFICES ASSUME ~e.boxed PROVE l = {}
      OBVIOUS
    <3>1. logged[s] = open[s] /\ ex[s].pc # "stream"
      BY <1>1, <1>2, <1>3 DEF Local, RowsFit, Ends
    <3> QED BY <1>1, <1>2, <3>1 DEF At, Local, RowsFit, InTry, Ends
  <2> QED BY <1>3, <2>1, <2>2 DEF RowsFit, InTry, InProcess
<1>7. Local(e, o, l)
  BY <1>3, <1>6 DEF Local, WithAnswer
<1>8. /\ ex' \in [Stages -> Execution] /\ ex'[s] = e
      /\ open' \in [Stages -> SUBSET Rows] /\ logged' \in [Stages -> SUBSET Rows]
      /\ \A t \in Stages \ {s} : ex'[t] = ex[t]
      /\ AllLocal'
  BY <1>3, <1>4, <1>5, <1>7, ChangesKeepLocal DEF ExecInv
<1>9. TypeOK'
  BY <1>8 DEF ExecInv, TypeOK, CancelRest, Database
<1>10. AgentHeld'
  BY <1>3, <1>8 DEF AgentHeld, Without
<1>11. Tokens'
  <2>1. UNCHANGED <<used, booked, redone>>
    BY DEF CancelRest, Database
  <2>2. CASE ex[s].pc = "book"
    <3>1. lost' = lost + 1
      BY <2>2 DEF CancelRest, At
    <3>2. Cardinality(Booking') = Cardinality(Booking) - 1
      BY <1>3, <1>8, <2>2, BookingEnds
    <3>3. Recorded' = Recorded
      BY <2>1 DEF Recorded
    <3>4. BookedOnce'
      BY <2>1, <3>1, <3>2, <3>3, StagesHaveSize DEF ExecInv, TypeOK, Tokens, BookedOnce
    <3> QED BY <1>3, <1>8, <2>1, <3>4 DEF ExecInv, Tokens
  <2>3. CASE ex[s].pc # "book"
    <3>1. lost' = lost
      BY <2>3 DEF CancelRest, At, ExecInv, TypeOK
    <3> QED BY <1>3, <1>8, <2>1, <2>3, <3>1, TokensKept DEF ExecInv, history
  <2> QED BY <2>2, <2>3
<1> QED BY <1>8, <1>9, <1>10, <1>11 DEF ExecInv

-----------------------------------------------------------------------------
(* The other steps: those that change the database or the count of         *)
(* crashes.                                                                *)

LEMMA StartStageKeeps == ASSUME ExecInv, NEW s \in Stages, StartStage(s) PROVE ExecInv'
<1>1. ex[s].pc # "book"
  BY DEF StartStage, Ends
<1>2. PICK e \in Execution :
        /\ ex' = [ex EXCEPT ![s] = e] /\ e.pc = "claim"
        /\ e.attempt = 1 /\ e.restarts = 0
  <2>1. CASE Become(s, [Fresh EXCEPT !.boxed = TRUE])
    <3> DEFINE f == [Fresh EXCEPT !.boxed = TRUE]
    <3>1. f \in Execution /\ f.pc = "claim" /\ f.attempt = 1 /\ f.restarts = 0
      BY FreshType DEF Execution, PCs
    <3> QED BY <2>1, <3>1 DEF Become
  <2>2. CASE \E v \in Evaluators[s] : Become(s, [Fresh EXCEPT !.evaluator = v])
    <3>1. PICK v \in Evaluators[s] : Become(s, [Fresh EXCEPT !.evaluator = v])
      BY <2>2
    <3> DEFINE f == [Fresh EXCEPT !.evaluator = v]
    <3>2. v \in {"none", "self", "objective"}
      BY EvaluatorKinds
    <3>3. f \in Execution /\ f.pc = "claim" /\ f.attempt = 1 /\ f.restarts = 0
      BY <3>2, FreshType DEF Execution, PCs
    <3> QED BY <3>1, <3>3 DEF Become
  <2> QED BY <2>1, <2>2 DEF StartStage
<1>3. Changes(s, e, {}, {}) /\ Local(e, {}, {})
  <2>1. Changes(s, e, {}, {})
    BY <1>2 DEF StartStage, Changes
  <2>2. Counters(e) /\ RowsFit(e, {}, {})
    BY <1>2, Bounds DEF Counters, RowsFit, InTry, InProcess
  <2> QED BY <1>2, <2>1, <2>2 DEF Local, WithAnswer
<1>4. /\ ex' \in [Stages -> Execution] /\ ex'[s] = e
      /\ open' \in [Stages -> SUBSET Rows] /\ logged' \in [Stages -> SUBSET Rows]
      /\ \A t \in Stages \ {s} : ex'[t] = ex[t]
      /\ AllLocal'
  BY <1>3, ChangesKeepLocal DEF ExecInv
<1>5. TypeOK'
  <2>1. starts' \in 0 .. MaxStarts
    BY BoundsAreNat DEF ExecInv, TypeOK, StartStage
  <2> QED BY <1>4, <2>1 DEF ExecInv, TypeOK, StartStage, history
<1>6. AgentHeld'
  BY <1>2, <1>4 DEF AgentHeld, Without
<1>7. Tokens'
  BY <1>1, <1>2, <1>4, TokensKept DEF ExecInv, StartStage
<1> QED BY <1>4, <1>5, <1>6, <1>7 DEF ExecInv

LEMMA ClaimAgentKeeps == ASSUME ExecInv, NEW s \in Stages, ClaimAgent(s) PROVE ExecInv'
<1>1. /\ ex[s] \in Execution /\ open[s] \in SUBSET Rows /\ logged[s] \in SUBSET Rows
      /\ Local(ex[s], open[s], logged[s])
  BY OneExecution
<1>2. ex[s].pc = "claim"
  BY DEF ClaimAgent, At
<1>3. PICK next \in {"sandbox", "send", "fail"} :
        /\ Go(s, next) /\ (next = "sandbox" => ex[s].boxed) /\ (next = "send" => ~ex[s].boxed)
  BY DEF ClaimAgent
<1> DEFINE e == [ex[s] EXCEPT !.pc = next]
<1>4. /\ e \in Execution /\ e.pc = next
      /\ e.restarts = ex[s].restarts /\ e.force = ex[s].force
      /\ e.boxed = ex[s].boxed
  BY <1>1 DEF Execution, PCs, InTry
<1>5. Changes(s, e, open[s], logged[s])
  BY <1>3, RowsKept DEF ExecInv, ClaimAgent, Go, Become, Changes, Log
<1> HIDE DEF e
<1>6. Local(e, open[s], logged[s])
  <2>1. Counters(e)
    BY <1>1, <1>4 DEF Local, Counters, InTry
  <2>2. RowsFit(e, open[s], logged[s])
    BY <1>1, <1>2, <1>3, <1>4 DEF Local, RowsFit, InTry, InProcess
  <2> QED BY <1>4, <2>1, <2>2 DEF Local, WithAnswer
<1>7. /\ ex' \in [Stages -> Execution] /\ ex'[s] = e
      /\ open' \in [Stages -> SUBSET Rows] /\ logged' \in [Stages -> SUBSET Rows]
      /\ \A t \in Stages \ {s} : ex'[t] = ex[t]
      /\ AllLocal'
  BY <1>1, <1>4, <1>5, <1>6, ChangesKeepLocal DEF ExecInv
<1>8. TypeOK'
  <2>1. agent' \in {"idle", "running"}
    BY DEF ExecInv, TypeOK, ClaimAgent
  <2> QED BY <1>7, <2>1 DEF ExecInv, TypeOK, ClaimAgent, Counts, history
<1>9. AgentHeld'
  BY <1>4, <1>7 DEF AgentHeld, Without
<1>10. Tokens'
  BY <1>2, <1>4, <1>7, TokensKept DEF ExecInv, ClaimAgent, Counts
<1> QED BY <1>7, <1>8, <1>9, <1>10 DEF ExecInv

LEMMA MarkStageFailedKeeps == ASSUME ExecInv, NEW s \in Stages, MarkStageFailed(s) PROVE ExecInv'
<1> DEFINE e == Carried(s, Fresh, "failAgent")
<1>1. /\ ex[s] \in Execution /\ open[s] \in SUBSET Rows /\ logged[s] \in SUBSET Rows
      /\ Local(ex[s], open[s], logged[s])
  BY OneExecution
<1>2. ex[s].pc = "fail"
  BY DEF MarkStageFailed, At
<1>3. /\ e \in Execution /\ e.pc = "failAgent" /\ e.attempt = 1 /\ e.restarts = 0
      /\ e.boxed = ex[s].boxed
  <2>1. "failAgent" \in PCs
    BY DEF PCs
  <2> QED BY <1>1, <2>1, FreshTypes, CarriedFields
<1>4. Changes(s, e, open[s], logged[s])
  BY RowsKept DEF ExecInv, MarkStageFailed, GoWith, Become, Changes, Log, Carried
<1> HIDE DEF e
<1>5. Local(e, open[s], logged[s])
  <2>1. Counters(e)
    BY <1>3, Bounds DEF Counters, InTry
  <2>2. RowsFit(e, open[s], logged[s])
    BY <1>1, <1>2, <1>3 DEF Local, RowsFit, InTry, InProcess
  <2> QED BY <1>3, <2>1, <2>2 DEF Local, WithAnswer
<1>6. /\ ex' \in [Stages -> Execution] /\ ex'[s] = e
      /\ open' \in [Stages -> SUBSET Rows] /\ logged' \in [Stages -> SUBSET Rows]
      /\ \A t \in Stages \ {s} : ex'[t] = ex[t]
      /\ AllLocal'
  BY <1>1, <1>3, <1>4, <1>5, ChangesKeepLocal DEF ExecInv
<1>7. TypeOK'
  BY <1>6 DEF ExecInv, TypeOK, MarkStageFailed, Counts, history
<1>8. AgentHeld'
  BY <1>3, <1>6 DEF AgentHeld, Without
<1>9. Tokens'
  BY <1>2, <1>3, <1>6, TokensKept DEF ExecInv, MarkStageFailed, Counts
<1> QED BY <1>6, <1>7, <1>8, <1>9 DEF ExecInv

\* The commit of a success: its tokens are recorded, perhaps over those of an
\* earlier execution, and not booked yet.
LEMMA CompletesKeeps ==
  ASSUME ExecInv, NEW s \in Stages, At(s, "commit"), Completes(s)
  PROVE  ExecInv'
<1> DEFINE e == Carried(s, Fresh, "book")
<1>1. /\ ex[s] \in Execution /\ open[s] \in SUBSET Rows /\ logged[s] \in SUBSET Rows
      /\ Local(ex[s], open[s], logged[s])
  BY OneExecution
<1>2. ex[s].pc = "commit" /\ ex[s].answered
  BY <1>1 DEF At, Local, WithAnswer
<1>3. /\ e \in Execution /\ e.pc = "book" /\ e.attempt = 1 /\ e.restarts = 0
      /\ e.boxed = ex[s].boxed /\ e.answered = ex[s].answered
  <2>1. "book" \in PCs
    BY DEF PCs
  <2> QED BY <1>1, <2>1, FreshTypes, CarriedFields
<1>4. Changes(s, e, open[s], logged[s])
  BY RowsKept DEF ExecInv, Completes, GoWith, Become, Changes, Log, Carried
<1> HIDE DEF e
<1>5. Local(e, open[s], logged[s])
  <2>1. Counters(e)
    BY <1>3, Bounds DEF Counters, InTry
  <2>2. RowsFit(e, open[s], logged[s])
    BY <1>1, <1>2, <1>3 DEF Local, RowsFit, InTry, InProcess
  <2> QED BY <1>2, <1>3, <2>1, <2>2 DEF Local
<1>6. /\ ex' \in [Stages -> Execution] /\ ex'[s] = e
      /\ open' \in [Stages -> SUBSET Rows] /\ logged' \in [Stages -> SUBSET Rows]
      /\ \A t \in Stages \ {s} : ex'[t] = ex[t]
      /\ AllLocal'
  BY <1>1, <1>3, <1>4, <1>5, ChangesKeepLocal DEF ExecInv
<1>7. TypeOK'
  <2>1. row' \in [Stages -> {"pending", "running", "completed", "failed"}]
    BY DEF ExecInv, TypeOK, Completes
  <2>2. used' \in [Stages -> 0 .. 1]
    BY DEF ExecInv, TypeOK, Completes
  <2>3. redone' \in Nat
    BY DEF ExecInv, TypeOK, Completes
  <2> QED BY <1>6, <2>1, <2>2, <2>3 DEF ExecInv, TypeOK, Completes
<1>8. AgentHeld'
  BY <1>3, <1>6 DEF AgentHeld, Without
<1>9. Tokens'
  <2>1. /\ used'[s] = 1 /\ redone' = redone + used[s] /\ used[s] \in {0, 1}
        /\ UNCHANGED <<booked, lost>> /\ \A t \in Stages \ {s} : used'[t] = used[t]
    BY DEF ExecInv, TypeOK, Completes
  <2>2. Cardinality(Booking') = Cardinality(Booking) + 1
    <3>1. Booking' = Booking \cup {s} /\ s \notin Booking
      BY <1>2, <1>3, <1>6 DEF Booking
    <3> QED BY <3>1, StagesHaveSize, FS_AddElement
  <2>3. Cardinality(Recorded') = Cardinality(Recorded) + (1 - used[s])
    <3>1. Recorded' = Recorded \cup {s} /\ (s \in Recorded <=> used[s] = 1)
      BY <2>1 DEF Recorded
    <3>2. Cardinality(Recorded') = IF s \in Recorded THEN Cardinality(Recorded)
                                   ELSE Cardinality(Recorded) + 1
      BY <3>1, StagesHaveSize, FS_AddElement
    <3> QED BY <2>1, <3>1, <3>2, StagesHaveSize
  <2>4. BookedOnce'
    BY <2>1, <2>2, <2>3, StagesHaveSize DEF ExecInv, TypeOK, Tokens, BookedOnce
  <2>5. \A t \in Stages : ex'[t].pc = "book" => used'[t] = 1
    BY <1>6, <2>1 DEF ExecInv, Tokens
  <2> QED BY <2>4, <2>5 DEF Tokens
<1> QED BY <1>6, <1>7, <1>8, <1>9 DEF ExecInv

LEMMA BookTokensKeeps == ASSUME ExecInv, NEW s \in Stages, BookTokens(s) PROVE ExecInv'
<1> DEFINE e == [ex[s] EXCEPT !.pc = "release"]
<1>1. /\ ex[s] \in Execution /\ open[s] \in SUBSET Rows /\ logged[s] \in SUBSET Rows
      /\ Local(ex[s], open[s], logged[s])
  BY OneExecution
<1>2. ex[s].pc = "book" /\ used[s] = 1
  BY DEF BookTokens, At, ExecInv, Tokens
<1>3. /\ e \in Execution /\ e.pc = "release" /\ e.boxed = ex[s].boxed
      /\ e.answered = ex[s].answered /\ e.force = ex[s].force
      /\ e.restarts = ex[s].restarts
  BY <1>1 DEF Execution, PCs
<1>4. Changes(s, e, open[s], logged[s])
  BY RowsKept DEF ExecInv, BookTokens, Go, Become, Changes, Log
<1> HIDE DEF e
<1>5. Local(e, open[s], logged[s])
  <2>1. Counters(e)
    BY <1>1, <1>3 DEF Local, Counters, InTry
  <2>2. RowsFit(e, open[s], logged[s])
    BY <1>1, <1>2, <1>3 DEF Local, RowsFit, InTry, InProcess
  <2> QED BY <1>1, <1>2, <1>3, <2>1, <2>2 DEF Local, WithAnswer
<1>6. /\ ex' \in [Stages -> Execution] /\ ex'[s] = e
      /\ open' \in [Stages -> SUBSET Rows] /\ logged' \in [Stages -> SUBSET Rows]
      /\ \A t \in Stages \ {s} : ex'[t] = ex[t]
      /\ AllLocal'
  BY <1>1, <1>3, <1>4, <1>5, ChangesKeepLocal DEF ExecInv
<1>7. TypeOK'
  BY <1>2, <1>6 DEF ExecInv, TypeOK, BookTokens, Counts, history
<1>8. AgentHeld'
  BY <1>3, <1>6 DEF AgentHeld, Without
<1>9. Tokens'
  <2>1. used' = used /\ booked' = booked + 1 /\ UNCHANGED history /\ Recorded' = Recorded
    BY <1>2 DEF BookTokens, Recorded, Counts
  <2>2. Cardinality(Booking') = Cardinality(Booking) - 1
    BY <1>2, <1>3, <1>6, BookingEnds
  <2>3. BookedOnce'
    BY <2>1, <2>2, StagesHaveSize DEF ExecInv, TypeOK, Tokens, BookedOnce, history
  <2>4. \A t \in Stages : ex'[t].pc = "book" => used'[t] = 1
    BY <1>3, <1>6, <2>1 DEF ExecInv, Tokens
  <2> QED BY <2>3, <2>4 DEF Tokens
<1> QED BY <1>6, <1>7, <1>8, <1>9 DEF ExecInv

LEMMA ReleaseAgentKeeps == ASSUME ExecInv, NEW s \in Stages, ReleaseAgent(s) PROVE ExecInv'
<1> DEFINE next == IF At(s, "release") THEN "done" ELSE "failed"
<1> DEFINE e == [ex[s] EXCEPT !.pc = next]
<1>1. /\ ex[s] \in Execution /\ open[s] \in SUBSET Rows /\ logged[s] \in SUBSET Rows
      /\ Local(ex[s], open[s], logged[s])
  BY OneExecution
<1>2. /\ ex[s].pc \in {"release", "failAgent"}
      /\ ex[s].pc = "release" => next = "done"
      /\ ex[s].pc = "failAgent" => next = "failed"
  BY DEF ReleaseAgent, At
<1> HIDE DEF next
<1>3. /\ e \in Execution /\ e.pc = next /\ e.boxed = ex[s].boxed
      /\ e.answered = ex[s].answered /\ e.force = ex[s].force
      /\ e.restarts = ex[s].restarts
  BY <1>1, <1>2 DEF Execution, PCs, Ends
<1>4. Changes(s, e, open[s], logged[s])
  BY RowsKept DEF ExecInv, ReleaseAgent, Go, Become, Changes, Log, next
<1> HIDE DEF e
<1>5. Local(e, open[s], logged[s])
  <2>1. Counters(e)
    BY <1>1, <1>2, <1>3 DEF Local, Counters, InTry
  <2>2. RowsFit(e, open[s], logged[s])
    BY <1>1, <1>2, <1>3 DEF Local, RowsFit, InTry, InProcess
  <2> QED BY <1>1, <1>2, <1>3, <2>1, <2>2 DEF Local, WithAnswer
<1>6. /\ ex' \in [Stages -> Execution] /\ ex'[s] = e
      /\ open' \in [Stages -> SUBSET Rows] /\ logged' \in [Stages -> SUBSET Rows]
      /\ \A t \in Stages \ {s} : ex'[t] = ex[t]
      /\ AllLocal'
  BY <1>1, <1>3, <1>4, <1>5, ChangesKeepLocal DEF ExecInv
<1>7. TypeOK'
  BY <1>6 DEF ExecInv, TypeOK, ReleaseAgent, Counts, history
<1>8. AgentHeld'
  BY DEF AgentHeld, ReleaseAgent
<1>9. Tokens'
  BY <1>2, <1>3, <1>6, TokensKept DEF ExecInv, ReleaseAgent, Counts
<1> QED BY <1>6, <1>7, <1>8, <1>9 DEF ExecInv

\* Executions that are over stay; the others may start again.
LEMMA CrashKeeps == ASSUME ExecInv, CrashAndRestart PROVE ExecInv'
<1> DEFINE again == [Fresh EXCEPT !.pc = "idle"]
<1>1. /\ again \in Execution /\ ~again.boxed /\ again.attempt = 1
      /\ again.restarts = 0 /\ again.pc = "idle"
  BY FreshType DEF Execution, PCs
<1>2. ex' = [t \in Stages |-> IF ex[t].pc \in Ends THEN ex[t] ELSE again]
  BY DEF CrashAndRestart
<1> HIDE DEF again
<1>3. TypeOK'
  <2>1. ex' \in [Stages -> Execution]
    BY <1>1, <1>2 DEF ExecInv, TypeOK
  <2>2. crashes' \in 0 .. MaxCrashes
    BY BoundsAreNat DEF ExecInv, TypeOK, CrashAndRestart
  <2>3. open' \in [Stages -> SUBSET Rows]
    BY DEF CrashAndRestart
  <2>4. lost' \in Nat
    BY StagesHaveSize DEF ExecInv, TypeOK, CrashAndRestart
  <2> QED BY <2>1, <2>2, <2>3, <2>4 DEF ExecInv, TypeOK, CrashAndRestart, Database
<1>4. AllLocal'
  <2> SUFFICES ASSUME NEW t \in Stages PROVE Local(ex'[t], {}, logged[t])
    <3>1. logged' = logged /\ \A t \in Stages : open'[t] = {}
      BY DEF CrashAndRestart
    <3> QED BY <3>1 DEF AllLocal, Local, Counters, RowsFit
  <2>1. CASE ex[t].pc \in Ends
    <3>1. ex'[t] = ex[t] /\ Local(ex[t], open[t], logged[t])
      BY <1>2, <2>1, OneExecution
    <3>2. open[t] = {}
      BY <2>1, <3>1 DEF Local, RowsFit, InTry, Ends
    <3> QED BY <3>1, <3>2
  <2>2. CASE ex[t].pc \notin Ends
    <3>1. ex'[t] = again
      BY <1>2, <2>2
    <3>2. Counters(again) /\ RowsFit(again, {}, logged[t])
      BY <1>1, Bounds DEF Counters, RowsFit, InTry, InProcess
    <3> QED BY <1>1, <3>1, <3>2 DEF Local, WithAnswer
  <2> QED BY <2>1, <2>2
<1>5. AgentHeld'
  <2>1. crashes' # 0
    BY DEF ExecInv, TypeOK, CrashAndRestart
  <2> QED BY <2>1 DEF AgentHeld
<1>6. Tokens'
  <2>1. \A t \in Stages : ex'[t].pc # "book"
    BY <1>1, <1>2 DEF Ends
  <2>2. Cardinality(Booking') = 0
    <3>1. Booking' = {}
      BY <2>1 DEF Booking
    <3> QED BY <3>1, FS_EmptySet
  <2>3. /\ UNCHANGED <<used, booked, redone>> /\ lost' = lost + Cardinality(Booking)
        /\ Recorded' = Recorded
    BY DEF CrashAndRestart, Database, Recorded
  <2>4. BookedOnce'
    BY <2>2, <2>3, StagesHaveSize DEF ExecInv, TypeOK, Tokens, BookedOnce
  <2> QED BY <2>1, <2>4 DEF Tokens
<1> QED BY <1>3, <1>4, <1>5, <1>6 DEF ExecInv

-----------------------------------------------------------------------------
LEMMA ExecInit == Init => ExecInv
<1> SUFFICES ASSUME Init PROVE ExecInv
  OBVIOUS
<1> DEFINE e == [Fresh EXCEPT !.pc = "idle"]
<1>1. e \in Execution /\ e.pc = "idle" /\ e.attempt = 1 /\ e.restarts = 0
  BY FreshType DEF Execution, PCs
<1>2. \A s \in Stages : /\ ex[s] = e /\ open[s] = {} /\ logged[s] = {}
                        /\ row[s] = "pending" /\ used[s] = 0
  BY DEF Init
<1> HIDE DEF e
<1>3. TypeOK
  <2>1. ex \in [Stages -> Execution]
    BY <1>1 DEF Init, e
  <2> QED BY <2>1, BoundsAreNat DEF Init, TypeOK
<1>4. AllLocal
  <2>1. Local(e, {}, {})
    <3>1. Counters(e) /\ RowsFit(e, {}, {})
      BY <1>1, Bounds DEF Counters, RowsFit, InTry, InProcess
    <3> QED BY <1>1, <3>1 DEF Local, WithAnswer
  <2> QED BY <1>2, <2>1 DEF AllLocal
<1>5. AgentHeld
  BY DEF Init, AgentHeld
<1>6. Tokens
  <2>1. Booking = {} /\ Recorded = {}
    BY <1>1, <1>2 DEF Booking, Recorded
  <2>2. BookedOnce
    BY <2>1, FS_EmptySet DEF Init, BookedOnce
  <2> QED BY <1>1, <1>2, <2>2 DEF Tokens
<1> QED BY <1>3, <1>4, <1>5, <1>6 DEF ExecInv

LEMMA ExecStep == ExecInv /\ [Next]_vars => ExecInv'
<1> SUFFICES ASSUME ExecInv, [Next]_vars PROVE ExecInv'
  OBVIOUS
<1>1. CASE UNCHANGED vars
  BY <1>1 DEF vars, ExecInv, TypeOK, AllLocal, Local, Counters, RowsFit, AgentHeld, Tokens,
              BookedOnce, Booking, Recorded, history
<1>2. CASE CrashAndRestart
  BY <1>2, CrashKeeps
<1>3. ASSUME NEW s \in Stages, StartStage(s) PROVE ExecInv'
  BY <1>3, StartStageKeeps
<1>4. ASSUME NEW s \in Stages, Event(s) \/ Cancel(s) PROVE ExecInv'
  <2>1. CancelRest(s) \/ Quiet(s)
    BY <1>4, TurnEndsQuiet, ToolEndsQuiet, EventStartsQuiet, CancelAttemptQuiet, CancelFinalizeQuiet
       DEF Event, Cancel
  <2> QED BY <2>1, QuietKeeps, CancelRestKeeps
<1>5. ASSUME NEW s \in Stages, Proceed(s) PROVE ExecInv'
  <2>1. CASE ClaimAgent(s)
    BY <2>1, ClaimAgentKeeps
  <2>2. CASE Attempt(s)
    <3>1. Quiet(s)
      BY <2>2, SendChatQuiet, ChatAnswersQuiet, ChatFailsQuiet, FallBackToTextQuiet, RetryQuiet
         DEF Attempt
    <3> QED BY <3>1, QuietKeeps
  <2>3. CASE FinalizeUnfinished(s)
    BY <2>3, FinalizeUnfinishedQuiet, QuietKeeps
  <2>4. CASE Extend(s)
    <3>1. Quiet(s)
      BY <2>4, RestartQuiet, RestartReturnsQuiet, NoRestartQuiet, AssessSelfQuiet,
         RunVerificationQuiet, ImproveQuiet DEF Extend
    <3> QED BY <3>1, QuietKeeps
  <2>5. CASE Sandbox(s)
    <3>1. Quiet(s)
      BY <2>5, SendToSandboxQuiet, SandboxReturnsQuiet DEF Sandbox
    <3> QED BY <3>1, QuietKeeps
  <2>6. CASE Conclude(s)
    BY <2>6, CompletesKeeps, BookTokensKeeps, ReleaseAgentKeeps, MarkStageFailedKeeps
       DEF Conclude, CommitStage, CommitSandboxed
  <2> QED BY <1>5, <2>1, <2>2, <2>3, <2>4, <2>5, <2>6 DEF Proceed
<1> QED BY <1>1, <1>2, <1>3, <1>4, <1>5 DEF Next

LEMMA ExecInvAlways == Spec => []ExecInv
<1>1. Init => ExecInv
  BY ExecInit
<1>2. ExecInv /\ [Next]_vars => ExecInv'
  BY ExecStep
<1> QED BY <1>1, <1>2, PTL DEF Spec

\* However many stages run, the fields of an execution keep to their limits:
\* it makes at most MaxRetries + 1 attempts, and at most one restart more than
\* MaxContinuations, the forced one.
THEOREM TypeCorrect == Spec => []TypeOK
<1>1. ExecInv => TypeOK
  BY DEF ExecInv
<1> QED BY <1>1, ExecInvAlways, PTL

\* execute_stage leaves no chat, turn or tool call running in the log, however
\* its attempts, its fallback runner, its restarts or its cancellation went and
\* whatever calls of other stages it heard on a shared runner; the one way out
\* is a cancellation while the finally clause itself is closing the rows.
THEOREM RowsAreClosed == Spec => []NoOpenRows
<1>1. ExecInv => NoOpenRows
  <2> SUFFICES ASSUME ExecInv, NEW s \in Stages, ex[s].pc \in Ends \ {"cut"},
                      ~ex[s].boxed
               PROVE  logged[s] = {}
    BY DEF NoOpenRows
  <2>1. Local(ex[s], open[s], logged[s])
    BY OneExecution
  <2>2. logged[s] = open[s] /\ open[s] = {}
    BY <2>1 DEF Local, RowsFit, Ends, InTry
  <2> QED BY <2>2
<1> QED BY <1>1, ExecInvAlways, PTL

\* execute_stage_sandboxed closes the turns and tool calls of its stream; what
\* may stay running is the row of the request, which nobody closes.
THEOREM StreamIsClosed == Spec => []StreamRowsClosed
<1>1. ExecInv => StreamRowsClosed
  <2> SUFFICES ASSUME ExecInv, NEW s \in Stages, ex[s].pc \in {"done", "failed"}, ex[s].boxed
               PROVE  \A r \in logged[s] : r[1] = "chat"
    BY DEF StreamRowsClosed
  <2>1. Local(ex[s], open[s], logged[s])
    BY OneExecution
  <2>2. open[s] = {} /\ \A r \in logged[s] : r[1] = "chat" \/ r \in open[s]
    BY <2>1 DEF Local, RowsFit, InTry
  <2> QED BY <2>2
<1> QED BY <1>1, ExecInvAlways, PTL

\* A stage completes only on an answer of its runner, with any number of
\* attempts and on any path through the fallback and the evaluators.
THEOREM CompletionHasAnswer == Spec => []CompletedOnAnswer
<1>1. ExecInv => CompletedOnAnswer
  BY DEF ExecInv, AllLocal, Local, WithAnswer, CompletedOnAnswer
<1> QED BY <1>1, ExecInvAlways, PTL

\* Without a crash, the last of the executions that share an agent row leaves
\* it idle, whichever of them wrote it last and however it ended.
THEOREM AgentIsReturned == Spec => []AgentIdleAtRest
<1>1. ExecInv => AgentIdleAtRest
  <2> SUFFICES ASSUME ExecInv, crashes = 0, AtRest, agent # "idle" PROVE FALSE
    BY DEF AgentIdleAtRest
  <2>1. agent = "running"
    BY DEF ExecInv, TypeOK
  <2> QED BY <2>1 DEF ExecInv, AgentHeld, AtRest, Without
<1> QED BY <1>1, ExecInvAlways, PTL

\* Every completion of a stage, the first as well as each repeated one, adds its
\* tokens to the count of the task exactly once or, interrupted between the two
\* commits, never: however many executions, cancellations and crashes there are,
\* the count is what the stages record, plus what repeated executions overwrote,
\* less what is still to be booked or was lost.
THEOREM TokensAreBookedOnce == Spec => []BookedOnce
<1>1. ExecInv => BookedOnce
  BY DEF ExecInv, Tokens
<1> QED BY <1>1, ExecInvAlways, PTL

-----------------------------------------------------------------------------
(* The refinement of StageLedger.                                          *)

\* A stage that is being worked on is marked running.
WorkIsMarked == \A s \in Stages : ex[s].pc \in Working => row[s] = "running"

LedgerStep == Ledger!Next \/ UNCHANGED Ledger!ledgerVars

\* What the ledger sees of a step of one execution.
LEMMA OthersDoTheSame ==
  ASSUME NEW s \in Stages, \A t \in Stages \ {s} : ex'[t] = ex[t]
  PROVE  [t \in Stages |-> Doing(t)]' = [[t \in Stages |-> Doing(t)] EXCEPT ![s] = Doing(s)']
<1>1. \A t \in Stages \ {s} : Doing(t)' = Doing(t)
  BY DEF Doing
<1>. QED
  BY <1>1

\* A step in the middle of an execution, or one that interrupts it.
LEMMA UnseenStep ==
  ASSUME WorkIsMarked, NEW s \in Stages, UNCHANGED <<row, booked>>,
         \A t \in Stages \ {s} : ex'[t] = ex[t], ex'[s].pc # "book",
         ex'[s].pc \in Working => ex[s].pc \in Working
  PROVE  LedgerStep /\ WorkIsMarked'
<1>1. WorkIsMarked'
  BY DEF WorkIsMarked
<1>2. CASE ex'[s].pc \in Working
  <2>1. Doing(s)' = Doing(s)
    BY <1>2 DEF Doing
  <2>2. \A t \in Stages : Doing(t)' = Doing(t)
    BY <2>1 DEF Doing
  <2>. QED
    BY <1>1, <2>2 DEF LedgerStep, Ledger!ledgerVars
<1>3. CASE ex'[s].pc \notin Working
  <2>1. \A t \in Stages : Doing(t)' = IF t \in {s} THEN "nothing" ELSE Doing(t)
    BY <1>3 DEF Doing
  <2>2. Ledger!Interrupt({s})
    BY <2>1 DEF Ledger!Interrupt
  <2>. QED
    BY <1>1, <2>2 DEF LedgerStep, Ledger!Next
<1>. QED
  BY <1>2, <1>3

LEMMA QuietUnseen ==
  ASSUME ExecInv, WorkIsMarked, NEW s \in Stages, Quiet(s),
         ex'[s].pc \in Working => ex[s].pc \in Working
  PROVE  LedgerStep /\ WorkIsMarked'
<1>1. PICK e \in Execution, o \in SUBSET Rows, l \in SUBSET Rows :
        /\ e.pc \in Underway /\ Changes(s, e, o, l) /\ Local(e, o, l)
  BY DEF Quiet
<1>2. ex'[s] = e /\ \A t \in Stages \ {s} : ex'[t] = ex[t]
  BY <1>1, ChangesKeepLocal DEF ExecInv
<1>3. ex'[s].pc # "book"
  BY <1>1, <1>2 DEF Underway
<1>4. UNCHANGED <<row, booked>>
  BY DEF Quiet, Database
<1>. QED
  BY <1>2, <1>3, <1>4, UnseenStep

LEMMA AttemptUnseen ==
  ASSUME ExecInv, WorkIsMarked, NEW s \in Stages, Attempt(s) \/ FinalizeUnfinished(s)
  PROVE  LedgerStep /\ WorkIsMarked'
<1>1. ex[s].pc \in Working
  BY DEF Attempt, SendChat, ChatAnswers, ChatFails, FallBackToText, Retry, FinalizeUnfinished,
         At, Working, InTry
<1>. QED
  BY <1>1, SendChatQuiet, ChatAnswersQuiet, ChatFailsQuiet, FallBackToTextQuiet, RetryQuiet,
     FinalizeUnfinishedQuiet, QuietUnseen DEF Attempt

LEMMA ExtendUnseen ==
  ASSUME ExecInv, WorkIsMarked, NEW s \in Stages, Extend(s) \/ Sandbox(s)
  PROVE  LedgerStep /\ WorkIsMarked'
<1>1. ex[s].pc \in Working
  BY DEF Extend, Restart, RestartReturns, NoRestart, AssessSelf, RunVerification, Improve,
         Sandbox, SendToSandbox, SandboxReturns, At, Working
<1>. QED
  BY <1>1, RestartQuiet, RestartReturnsQuiet, NoRestartQuiet, AssessSelfQuiet, RunVerificationQuiet,
     ImproveQuiet, SendToSandboxQuiet, SandboxReturnsQuiet, QuietUnseen DEF Extend, Sandbox

\* An event leaves the execution where it is, a cancelled attempt still closes its
\* rows, and any other cancelled execution is over.
LEMMA EventUnseen ==
  ASSUME ExecInv, WorkIsMarked, NEW s \in Stages, Event(s)
  PROVE  LedgerStep /\ WorkIsMarked'
<1>1. ex' = ex
  BY DEF Event, EventStarts, TurnEnds, ToolEnds
<1>. QED
  BY <1>1, EventStartsQuiet, TurnEndsQuiet, ToolEndsQuiet, QuietUnseen DEF Event

LEMMA FreshGoes ==
  ASSUME ExecInv, NEW s \in Stages, NEW pc, GoWith(s, Fresh, pc)
  PROVE  ex'[s].pc = pc /\ \A t \in Stages \ {s} : ex'[t] = ex[t]
<1>1. ex' = [ex EXCEPT ![s] = Carried(s, Fresh, pc)]
  BY DEF GoWith, Become, Carried
<1>2. Carried(s, Fresh, pc).pc = pc
  BY FreshType DEF Carried, Execution
<1>. QED
  BY <1>1, <1>2 DEF ExecInv, TypeOK

LEMMA CancelUnseen ==
  ASSUME ExecInv, WorkIsMarked, NEW s \in Stages, Cancel(s)
  PROVE  LedgerStep /\ WorkIsMarked'
<1>1. ex'[s].pc \in Working => ex[s].pc \in Working
  <2>1. CASE CancelAttempt(s)
    BY <2>1 DEF CancelAttempt, Working
  <2>2. CASE CancelRest(s)
    <3>1. ex'[s].pc = "cancelled"
      BY <2>2, FreshGoes DEF CancelRest
    <3>. QED
      BY <3>1 DEF Working, InTry
  <2>3. CASE CancelFinalize(s)
    BY <2>3 DEF CancelFinalize, At, Working
  <2>. QED
    BY <2>1, <2>2, <2>3 DEF Cancel
<1>2. CASE CancelRest(s)
  <2>1. ex'[s].pc = "cancelled" /\ \A t \in Stages \ {s} : ex'[t] = ex[t]
    BY <1>2, FreshGoes DEF CancelRest
  <2>2. UNCHANGED <<row, booked>>
    BY <1>2 DEF CancelRest, Database
  <2>. QED
    BY <1>1, <2>1, <2>2, UnseenStep
<1>. QED
  BY <1>1, <1>2, CancelAttemptQuiet, CancelFinalizeQuiet, QuietUnseen DEF Cancel

\* The steps the ledger sees.
LEMMA StartIsSeen ==
  ASSUME ExecInv, WorkIsMarked, NEW s \in Stages, StartStage(s)
  PROVE  LedgerStep /\ WorkIsMarked'
<1>1. PICK e \in Execution : Become(s, e) /\ e.pc = "claim"
  <2>1. [Fresh EXCEPT !.boxed = TRUE] \in Execution /\ [Fresh EXCEPT !.boxed = TRUE].pc = "claim"
    BY FreshType DEF Execution
  <2>2. \A v \in Evaluators[s] : /\ [Fresh EXCEPT !.evaluator = v] \in Execution
                                 /\ [Fresh EXCEPT !.evaluator = v].pc = "claim"
    BY FreshType, EvaluatorKinds DEF Execution
  <2>. QED
    BY <2>1, <2>2 DEF StartStage
<1>2. ex'[s].pc = "claim" /\ \A t \in Stages \ {s} : ex'[t] = ex[t]
  BY <1>1 DEF Become, ExecInv, TypeOK
<1>3. /\ Doing(s) = "nothing" /\ Doing(s)' = "work"
      /\ row' = [row EXCEPT ![s] = "running"] /\ UNCHANGED booked
  BY <1>2 DEF StartStage, Doing, Working, InTry, Ends
<1>4. Ledger!Begin(s)
  BY <1>2, <1>3, OthersDoTheSame DEF Ledger!Begin, Ledger!Turn, Ledger!Mark
<1>5. WorkIsMarked'
  BY <1>2, <1>3 DEF WorkIsMarked, ExecInv, TypeOK
<1>. QED
  BY <1>4, <1>5 DEF LedgerStep, Ledger!Next

LEMMA ClaimUnseen ==
  ASSUME ExecInv, WorkIsMarked, NEW s \in Stages, ClaimAgent(s)
  PROVE  LedgerStep /\ WorkIsMarked'
<1>1. /\ ex[s].pc = "claim" /\ ex'[s].pc \in {"sandbox", "send", "fail"}
      /\ \A t \in Stages \ {s} : ex'[t] = ex[t]
      /\ UNCHANGED <<row, booked>>
  BY DEF ClaimAgent, At, Go, Become, ExecInv, TypeOK, Execution
<1>. QED
  BY <1>1, UnseenStep DEF Working

LEMMA CompletionIsSeen ==
  ASSUME ExecInv, WorkIsMarked, NEW s \in Stages, ex[s].pc = "commit", Completes(s)
  PROVE  LedgerStep /\ WorkIsMarked'
<1>1. ex'[s].pc = "book" /\ \A t \in Stages \ {s} : ex'[t] = ex[t]
  BY FreshGoes DEF Completes
<1>2. /\ Doing(s) = "work" /\ Doing(s)' = "booking" /\ row[s] = "running"
      /\ row' = [row EXCEPT ![s] = "completed"] /\ UNCHANGED booked
  BY <1>1 DEF Completes, Doing, Working, InTry, WorkIsMarked
<1>3. Ledger!Complete(s)
  BY <1>1, <1>2, OthersDoTheSame DEF Ledger!Complete, Ledger!Turn, Ledger!Mark
<1>4. WorkIsMarked'
  BY <1>1, <1>2 DEF WorkIsMarked, Working, InTry, ExecInv, TypeOK
<1>. QED
  BY <1>3, <1>4 DEF LedgerStep, Ledger!Next

LEMMA BookingIsSeen ==
  ASSUME ExecInv, WorkIsMarked, NEW s \in Stages, BookTokens(s)
  PROVE  LedgerStep /\ WorkIsMarked'
<1>1. /\ ex[s].pc = "book" /\ ex'[s].pc = "release"
      /\ \A t \in Stages \ {s} : ex'[t] = ex[t]
  BY DEF BookTokens, At, Go, Become, ExecInv, TypeOK, Execution
<1>2. used[s] = 1
  BY <1>1 DEF ExecInv, Tokens
<1>3. /\ Doing(s) = "booking" /\ Doing(s)' = "nothing" /\ booked' = booked + 1
      /\ UNCHANGED row
  BY <1>1, <1>2 DEF BookTokens, Doing, Working, InTry
<1>4. Ledger!Book(s)
  BY <1>1, <1>3, OthersDoTheSame DEF Ledger!Book, Ledger!Turn
<1>5. WorkIsMarked'
  BY <1>1, <1>3 DEF WorkIsMarked, Working, InTry
<1>. QED
  BY <1>4, <1>5 DEF LedgerStep, Ledger!Next

LEMMA ReleaseUnseen ==
  ASSUME ExecInv, WorkIsMarked, NEW s \in Stages, ReleaseAgent(s)
  PROVE  LedgerStep /\ WorkIsMarked'
<1>1. /\ ex'[s].pc \in {"done", "failed"} /\ \A t \in Stages \ {s} : ex'[t] = ex[t]
      /\ UNCHANGED <<row, booked>>
  BY DEF ReleaseAgent, At, Go, Become, ExecInv, TypeOK, Execution
<1>. QED
  BY <1>1, UnseenStep DEF Working, InTry

LEMMA FailureIsSeen ==
  ASSUME ExecInv, WorkIsMarked, NEW s \in Stages, MarkStageFailed(s)
  PROVE  LedgerStep /\ WorkIsMarked'
<1>1. ex'[s].pc = "failAgent" /\ \A t \in Stages \ {s} : ex'[t] = ex[t]
  BY FreshGoes DEF MarkStageFailed
<1>2. /\ Doing(s) = "work" /\ Doing(s)' = "nothing" /\ row[s] = "running"
      /\ row' = [row EXCEPT ![s] = "failed"] /\ UNCHANGED booked
  BY <1>1 DEF MarkStageFailed, At, Doing, Working, InTry, WorkIsMarked
<1>3. Ledger!Fail(s)
  BY <1>1, <1>2, OthersDoTheSame DEF Ledger!Fail, Ledger!Turn, Ledger!Mark
<1>4. WorkIsMarked'
  BY <1>1, <1>2 DEF WorkIsMarked, Working, InTry, ExecInv, TypeOK
<1>. QED
  BY <1>3, <1>4 DEF LedgerStep, Ledger!Next

LEMMA CrashIsSeen ==
  ASSUME ExecInv, CrashAndRestart
  PROVE  LedgerStep /\ WorkIsMarked'
<1>1. \A s \in Stages : ex'[s].pc \in {"idle"} \cup Ends
  BY FreshType DEF CrashAndRestart, Fresh
<1>2. \A s \in Stages : Doing(s)' = "nothing" /\ ex'[s].pc \notin Working'
  BY <1>1 DEF Doing, Working, InTry, Ends
<1>3. UNCHANGED <<row, booked>>
  BY DEF CrashAndRestart, Database
<1>4. Ledger!Interrupt(Stages)
  BY <1>2, <1>3 DEF Ledger!Interrupt
<1>. QED
  BY <1>2, <1>4 DEF LedgerStep, Ledger!Next, WorkIsMarked

LEMMA LedgerStepTaken ==
  ASSUME ExecInv, WorkIsMarked, [Next]_vars
  PROVE  LedgerStep /\ WorkIsMarked'
<1>1. ASSUME NEW s \in Stages, Proceed(s) PROVE LedgerStep /\ WorkIsMarked'
  <2>1. CASE Conclude(s)
    BY <2>1, CompletionIsSeen, BookingIsSeen, ReleaseUnseen, FailureIsSeen
       DEF Conclude, CommitStage, CommitSandboxed, At
  <2>. QED
    BY <1>1, <2>1, ClaimUnseen, AttemptUnseen, ExtendUnseen DEF Proceed
<1>2. CASE UNCHANGED vars
  BY <1>2 DEF vars, LedgerStep, Ledger!ledgerVars, Doing, WorkIsMarked
<1>. QED
  BY <1>1, <1>2, StartIsSeen, EventUnseen, CancelUnseen, CrashIsSeen DEF Next

\* Executions of stages implement StageLedger, however many of them run side by
\* side and whatever fails: every step inside one, an interruption included, is a
\* step of the ledger or none.
THEOREM LedgerRefinement == Spec => LedgerSpec
<1>1. Init => Ledger!Init /\ WorkIsMarked
  <2>. SUFFICES ASSUME Init PROVE Ledger!Init /\ WorkIsMarked
    OBVIOUS
  <2>1. \A s \in Stages : ex[s].pc = "idle"
    BY FreshType DEF Init, Execution
  <2>2. \A s \in Stages : Doing(s) = "nothing" /\ ex[s].pc \notin Working
    BY <2>1 DEF Doing, Working, InTry
  <2>. QED
    BY <2>2 DEF Init, Ledger!Init, WorkIsMarked
<1>2. ExecInv /\ WorkIsMarked /\ [Next]_vars => [Ledger!Next]_(Ledger!ledgerVars) /\ WorkIsMarked'
  BY LedgerStepTaken DEF LedgerStep
<1>. QED
  BY <1>1, <1>2, ExecInvAlways, PTL DEF Spec, LedgerSpec, Ledger!Spec

-----------------------------------------------------------------------------
(* Executions descend: the step of the argument for their termination that *)
(* needs no fairness.                                                      *)

\* How far an execution has got: the phase, then what its loop has left to do,
\* then where it is in the body of the loop.
Phase(pc) ==
  CASE pc = "claim" -> 6
    [] pc \in InTry \cup {"sandbox", "stream"} -> 5
    [] pc = "finalize" -> 4
    [] pc \in {"extend", "restart"} -> 3
    [] pc \in {"judge", "improve"} -> 2
    [] pc \in {"commit", "book", "release", "fail", "failAgent"} -> 1
    [] OTHER -> 0

Turns(e) ==
  CASE e.pc \in InTry -> MaxRetries + 1 - e.attempt
    [] e.pc \in {"extend", "restart"} -> MaxContinuations + 1 - e.restarts
    [] e.pc \in {"judge", "improve"} /\ e.iter < MaxIterations -> MaxIterations - e.iter
    [] OTHER -> 0

Place(pc) ==
  CASE pc \in {"send", "commit"} -> 2
    [] pc \in {"chat", "sandbox", "restart", "judge", "book", "fail"} -> 1
    [] OTHER -> 0

Height(e) == <<Phase(e.pc), <<Turns(e), Place(e.pc)>>>>
Heights == Nat \X (Nat \X Nat)
Less == OpToRel(<, Nat)
Below == LexPairOrdering(Less, LexPairOrdering(Less, Less, Nat, Nat), Nat, Nat \X Nat)

Lower(e, f) ==
  \/ Phase(e.pc) < Phase(f.pc)
  \/ /\ Phase(e.pc) = Phase(f.pc)
     /\ \/ Turns(e) < Turns(f)
        \/ Turns(e) = Turns(f) /\ Place(e.pc) < Place(f.pc)

\* Nothing descends for ever.
LEMMA HeightsAreWellFounded == IsWellFoundedOn(Below, Heights)
  BY NatLessThanWellFounded, WFLexPairOrdering DEF Below, Heights, Less

LEMMA HeightType ==
  ASSUME NEW e \in Execution
  PROVE  /\ Phase(e.pc) \in Nat /\ Turns(e) \in Nat /\ Place(e.pc) \in Nat
         /\ Height(e) \in Heights
<1>1. Phase(e.pc) \in Nat /\ Place(e.pc) \in Nat
  BY DEF Phase, Place
<1>2. Turns(e) \in Nat
  BY BoundsAreNat DEF Turns, Execution
<1>. QED
  BY <1>1, <1>2 DEF Height, Heights

LEMMA LowerIsBelow ==
  ASSUME NEW e \in Execution, NEW f \in Execution, Lower(e, f)
  PROVE  <<Height(e), Height(f)>> \in Below
<1>. DEFINE a == Phase(e.pc)  b == Turns(e)  c == Place(e.pc)
            i == Phase(f.pc)  j == Turns(f)  k == Place(f.pc)
            Inner == LexPairOrdering(Less, Less, Nat, Nat)
<1>1. /\ a \in Nat /\ b \in Nat /\ c \in Nat /\ i \in Nat /\ j \in Nat /\ k \in Nat
      /\ a < i \/ (a = i /\ (b < j \/ (b = j /\ c < k)))
  BY HeightType DEF Lower
<1>. HIDE DEF a, b, c, i, j, k
<1>2. \A m, n \in Nat : m < n => <<m, n>> \in Less
  BY DEF Less, OpToRel
<1>3. b < j \/ (b = j /\ c < k) => <<<<b, c>>, <<j, k>>>> \in Inner
  BY <1>1, <1>2 DEF LexPairOrdering
<1>. HIDE DEF Inner
<1>4. <<<<a, <<b, c>>>>, <<i, <<j, k>>>>>> \in LexPairOrdering(Less, Inner, Nat, Nat \X Nat)
  BY <1>1, <1>2, <1>3 DEF LexPairOrdering
<1>. QED
  BY <1>4 DEF Below, Inner, Height, a, b, c, i, j, k

\* The attempts: each of them is a round.
LEMMA OverEnds ==
  ASSUME TypeOK, NEW s \in Stages, NEW got \in BOOLEAN, NEW raised \in {"no", "error", "cancelled"},
         Over(s, got, raised)
  PROVE  ex'[s].pc = "finalize"
<1>1. ex' = [ex EXCEPT ![s] = OverWith(s, got, raised)]
  BY DEF Over, OverWith, Become
<1>. QED
  BY <1>1, OverFields DEF TypeOK

LEMMA AttemptDescends ==
  ASSUME TypeOK, TypeOK', NEW s \in Stages, Attempt(s)
  PROVE  Lower(ex'[s], ex[s])
<1>. DEFINE e == ex[s]
            f == ex'[s]
<1>0. /\ e \in Execution /\ f \in Execution /\ MaxRetries \in Nat
      /\ e.attempt \in 1 .. MaxRetries + 1 /\ f.attempt \in 1 .. MaxRetries + 1
  BY Bounds DEF TypeOK, Execution
<1>1. CASE SendChat(s)
  <2>1. e.pc = "send" /\ f.pc = "chat" /\ f.attempt = e.attempt
    BY <1>1 DEF SendChat, At, Go, Become, TypeOK, Execution
  <2>. QED
    BY <1>0, <2>1 DEF Lower, Phase, Turns, Place, InTry
<1>2. CASE ChatAnswers(s)
  <2>1. e.pc = "chat" /\ f.pc = "finalize"
    BY <1>2, OverEnds DEF ChatAnswers, At
  <2>. QED
    BY <2>1 DEF Lower, Phase, InTry
<1>3. CASE ChatFails(s)
  <2>1. CASE LastAttempt(s)
    <3>1. e.pc = "chat" /\ f.pc = "finalize"
      BY <1>3, <2>1, OverEnds DEF ChatFails, At
    <3>. QED
      BY <3>1 DEF Lower, Phase, InTry
  <2>2. CASE ~LastAttempt(s)
    <3>1. e.pc = "chat" /\ f.pc = "backoff" /\ f.attempt = e.attempt
      BY <1>3, <2>2 DEF ChatFails, At, Go, Become, TypeOK, Execution
    <3>. QED
      BY <1>0, <3>1 DEF Lower, Phase, Turns, Place, InTry
  <2>. QED
    BY <2>1, <2>2
<1>4. CASE FallBackToText(s)
  <2>1. CASE LastAttempt(s)
    <3>1. e.pc = "chat" /\ f.pc = "finalize"
      BY <1>4, <2>1, OverEnds DEF FallBackToText, At
    <3>. QED
      BY <3>1 DEF Lower, Phase, InTry
  <2>2. CASE ~LastAttempt(s)
    <3>1. e.pc = "chat" /\ f.pc = "send" /\ f.attempt = e.attempt + 1
      <4>1. f = [e EXCEPT !.runner = "text", !.attempt = @ + 1, !.pc = "send"]
        BY <1>4, <2>2 DEF FallBackToText, Become, TypeOK
      <4>. QED
        BY <1>0, <1>4, <4>1 DEF FallBackToText, At, Execution
    <3>. QED
      BY <1>0, <3>1 DEF Lower, Phase, Turns, InTry
  <2>. QED
    BY <2>1, <2>2
<1>5. CASE Retry(s)
  <2>1. e.pc = "backoff" /\ f.pc = "send" /\ f.attempt = e.attempt + 1
    BY <1>5 DEF Retry, At, Become, TypeOK, Execution
  <2>. QED
    BY <1>0, <2>1 DEF Lower, Phase, Turns, InTry
<1>. QED
  BY <1>1, <1>2, <1>3, <1>4, <1>5 DEF Attempt

\* The finally clause, and the sandbox.
LEMMA CarriedMoves ==
  ASSUME TypeOK, NEW s \in Stages, NEW e \in Execution, NEW pc, GoWith(s, e, pc)
  PROVE  ex'[s].pc = pc
<1>1. ex' = [ex EXCEPT ![s] = Carried(s, e, pc)]
  BY DEF GoWith, Become, Carried
<1>2. Carried(s, e, pc).pc = pc
  BY DEF Carried, Execution
<1>. QED
  BY <1>1, <1>2 DEF TypeOK

LEMMA MiddleDescends ==
  ASSUME TypeOK, NEW s \in Stages,
         ClaimAgent(s) \/ FinalizeUnfinished(s) \/ Sandbox(s)
  PROVE  Lower(ex'[s], ex[s])
<1>1. CASE ClaimAgent(s)
  <2>1. ex[s].pc = "claim" /\ ex'[s].pc \in {"sandbox", "send", "fail"}
    BY <1>1 DEF ClaimAgent, At, Go, Become, TypeOK, Execution
  <2>. QED
    BY <2>1 DEF Lower, Phase, InTry
<1>2. CASE FinalizeUnfinished(s)
  <2>1. PICK x \in Execution : GoWith(s, x, AfterAttempts(s))
    BY <1>2, AfterwardsGoes DEF FinalizeUnfinished, TypeOK
  <2>2. ex[s].pc = "finalize" /\ ex'[s].pc \in {"cancelled", "fail", "extend"}
    BY <1>2, <2>1, CarriedMoves DEF FinalizeUnfinished, At, AfterAttempts
  <2>. QED
    BY <2>2 DEF Lower, Phase, InTry
<1>3. CASE SendToSandbox(s)
  <2>1. ex[s].pc = "sandbox" /\ ex'[s].pc = "stream"
    BY <1>3 DEF SendToSandbox, At, Go, Become, TypeOK, Execution
  <2>. QED
    BY <2>1 DEF Lower, Phase, Turns, Place, InTry
<1>4. CASE SandboxReturns(s)
  <2>1. \/ Become(s, [ex[s] EXCEPT !.answered = TRUE, !.pc = "commit"])
        \/ Become(s, [ex[s] EXCEPT !.raised = "error", !.pc = "fail"])
    BY <1>4 DEF SandboxReturns
  <2>2. ex'[s].pc \in {"commit", "fail"}
    <3>1. \A e : Become(s, e) => ex'[s] = e
      BY DEF Become, TypeOK
    <3>2. ex[s] \in Execution
      BY DEF TypeOK
    <3>3. /\ [ex[s] EXCEPT !.answered = TRUE, !.pc = "commit"].pc = "commit"
          /\ [ex[s] EXCEPT !.raised = "error", !.pc = "fail"].pc = "fail"
      BY <3>2 DEF Execution
    <3>. QED
      BY <2>1, <3>1, <3>3
  <2>3. ex[s].pc = "stream"
    BY <1>4 DEF SandboxReturns, At
  <2>. QED
    BY <2>2, <2>3 DEF Lower, Phase, InTry
<1>. QED
  BY <1>1, <1>2, <1>3, <1>4 DEF Sandbox

\* The restarts and the iterations of an evaluator: each of them is a round.
LEMMA ExtendDescends ==
  ASSUME TypeOK, NEW s \in Stages, Extend(s)
  PROVE  Lower(ex'[s], ex[s])
<1>. DEFINE e == ex[s]
            f == ex'[s]
<1>0. /\ e \in Execution /\ e.restarts \in 0 .. MaxContinuations + 1 /\ MaxContinuations \in Nat
      /\ e.iter \in Nat /\ MaxIterations \in Nat
  BY Bounds, BoundsAreNat DEF TypeOK, Execution
<1>1. CASE Restart(s)
  <2>1. e.pc = "extend" /\ f.pc = "restart" /\ f.restarts = e.restarts + 1
    BY <1>1 DEF Restart, At, Become, TypeOK, Execution
  <2>. QED
    BY <1>0, <2>1 DEF Lower, Phase, Turns, InTry
<1>2. CASE RestartReturns(s)
  <2>1. e.pc = "restart" /\ f.pc = "extend" /\ f.restarts = e.restarts
    BY <1>2 DEF RestartReturns, At, Become, TypeOK, Execution
  <2>. QED
    BY <1>0, <2>1 DEF Lower, Phase, Turns, Place, InTry
<1>3. CASE NoRestart(s)
  <2>1. ForEvaluator(s) \in Execution
    BY FreshTypes DEF TypeOK
  <2>2. e.pc = "extend" /\ f.pc \in {"commit", "judge"}
    BY <1>3, <2>1, CarriedMoves DEF NoRestart, At
  <2>. QED
    BY <2>2 DEF Lower, Phase, InTry
<1>4. CASE AssessSelf(s) \/ RunVerification(s)
  <2>1. e.pc = "judge" /\ f.pc \in {"commit", "improve"} /\ f.iter = e.iter
    BY <1>4 DEF AssessSelf, RunVerification, At, Go, Become, TypeOK, Execution
  <2>. QED
    BY <1>0, <2>1 DEF Lower, Phase, Turns, Place, InTry
<1>5. CASE Improve(s)
  <2>1. e.pc = "improve"
    BY <1>5 DEF Improve, At
  <2>2. CASE Go(s, "commit")
    <3>1. f.pc = "commit"
      BY <2>2 DEF Go, Become, TypeOK, Execution
    <3>. QED
      BY <2>1, <3>1 DEF Lower, Phase, InTry
  <2>3. CASE ~ LastIteration(s) /\ Become(s, [ex[s] EXCEPT !.iter = @ + 1, !.pc = "judge"])
    <3>1. f.pc = "judge" /\ f.iter = e.iter + 1
      BY <2>3 DEF Become, TypeOK, Execution
    <3>2. e.iter < MaxIterations
      BY <1>0, <2>3 DEF LastIteration
    <3>. QED
      BY <1>0, <2>1, <3>1, <3>2 DEF Lower, Phase, Turns, InTry
  <2>. QED
    BY <1>5, <2>2, <2>3 DEF Improve
<1>. QED
  BY <1>1, <1>2, <1>3, <1>4, <1>5 DEF Extend

\* The commits.
LEMMA ConcludeDescends ==
  ASSUME TypeOK, NEW s \in Stages, Conclude(s)
  PROVE  Lower(ex'[s], ex[s])
<1>1. CASE CommitStage(s) \/ CommitSandboxed(s)
  <2>1. ex[s].pc = "commit" /\ ex'[s].pc = "book"
    BY <1>1, FreshType, CarriedMoves DEF CommitStage, CommitSandboxed, Completes, At
  <2>. QED
    BY <2>1 DEF Lower, Phase, Turns, Place, InTry
<1>2. CASE BookTokens(s)
  <2>1. ex[s].pc = "book" /\ ex'[s].pc = "release"
    BY <1>2 DEF BookTokens, At, Go, Become, TypeOK, Execution
  <2>. QED
    BY <2>1 DEF Lower, Phase, Turns, Place, InTry
<1>3. CASE ReleaseAgent(s)
  <2>1. ex[s].pc \in {"release", "failAgent"} /\ ex'[s].pc \in {"done", "failed"}
    BY <1>3 DEF ReleaseAgent, At, Go, Become, TypeOK, Execution
  <2>. QED
    BY <2>1 DEF Lower, Phase, InTry
<1>4. CASE MarkStageFailed(s)
  <2>1. ex[s].pc = "fail" /\ ex'[s].pc = "failAgent"
    BY <1>4, FreshType, CarriedMoves DEF MarkStageFailed, At
  <2>. QED
    BY <2>1 DEF Lower, Phase, Turns, Place, InTry
<1>. QED
  BY <1>1, <1>2, <1>3, <1>4 DEF Conclude

LEMMA ProceedDescends ==
  ASSUME TypeOK, TypeOK', NEW s \in Stages, Proceed(s)
  PROVE  Lower(ex'[s], ex[s])
  BY AttemptDescends, MiddleDescends, ExtendDescends, ConcludeDescends DEF Proceed

\* What happens to an execution from outside never takes it back.
SameHeight(e, f) == Phase(e.pc) = Phase(f.pc) /\ Turns(e) = Turns(f) /\ Place(e.pc) = Place(f.pc)

LEMMA EventStays ==
  ASSUME TypeOK, NEW s \in Stages, Event(s)
  PROVE  SameHeight(ex'[s], ex[s])
BY DEF SameHeight, Event, EventStarts, TurnEnds, ToolEnds

LEMMA CancelDescends ==
  ASSUME TypeOK, NEW s \in Stages, Cancel(s)
  PROVE  Lower(ex'[s], ex[s])
<1>1. CASE CancelAttempt(s)
  <2>1. ex[s].pc \in InTry /\ ex'[s].pc = "finalize"
    BY <1>1, OverEnds DEF CancelAttempt
  <2>. QED
    BY <2>1 DEF Lower, Phase, InTry
<1>2. CASE CancelRest(s)
  <2>1. ex'[s].pc = "cancelled" /\ ex[s].pc \in PCs
        /\ ex[s].pc \notin InTry \cup Ends \cup {"idle", "finalize"}
    BY <1>2, FreshType, CarriedMoves DEF CancelRest, TypeOK, Execution
  <2>. QED
    BY <2>1 DEF Lower, Phase, PCs, InTry, Ends
<1>3. CASE CancelFinalize(s)
  <2>1. ex'[s].pc = "cut" /\ ex[s].pc = "finalize"
    BY <1>3, FreshType, CarriedMoves DEF CancelFinalize, At
  <2>. QED
    BY <2>1 DEF Lower, Phase, InTry
<1>. QED
  BY <1>1, <1>2, <1>3 DEF Cancel

LEMMA CrashDescends ==
  ASSUME TypeOK, NEW s \in Stages, CrashAndRestart
  PROVE  Lower(ex'[s], ex[s]) \/ SameHeight(ex'[s], ex[s])
<1>1. CASE ex[s].pc \in Ends
  BY <1>1 DEF CrashAndRestart, SameHeight
<1>2. CASE ex[s].pc \notin Ends
  <2>1. ex'[s].pc = "idle" /\ ex[s].pc \in PCs
    BY <1>2, FreshType DEF CrashAndRestart, TypeOK, Execution
  <2>. QED
    BY <1>2, <2>1 DEF Lower, SameHeight, Phase, Turns, Place, PCs, InTry, Ends
<1>. QED
  BY <1>1, <1>2

\* A step that an execution takes by itself brings it nearer to its end; nothing but
\* the start of the stage takes it back.
Descends ==
  \A s \in Stages :
    /\ Proceed(s) \/ Cancel(s) => <<Height(ex[s])', Height(ex[s])>> \in Below
    /\ StartStage(s) \/ Height(ex[s])' = Height(ex[s])
         \/ <<Height(ex[s])', Height(ex[s])>> \in Below

\* Attempts, fallbacks, restarts, iterations, events of other stages with the same
\* runner and crashes add up, in any order and for any limits, to a finite number of
\* steps of an execution: all of them descend, and nothing descends for ever.
THEOREM ExecutionsDescend == Spec => IsWellFoundedOn(Below, Heights) /\ [][Descends]_vars
<1>1. TypeOK /\ TypeOK' /\ [Next]_vars => [Descends]_vars
  <2>. SUFFICES ASSUME TypeOK, TypeOK', Next, NEW s \in Stages
                PROVE  /\ Proceed(s) \/ Cancel(s) => <<Height(ex[s])', Height(ex[s])>> \in Below
                       /\ StartStage(s) \/ Height(ex[s])' = Height(ex[s])
                            \/ <<Height(ex[s])', Height(ex[s])>> \in Below
    BY DEF Descends
  <2>1. ex[s] \in Execution /\ ex'[s] \in Execution
    BY DEF TypeOK
  <2>2. /\ Lower(ex'[s], ex[s]) => <<Height(ex[s])', Height(ex[s])>> \in Below
        /\ SameHeight(ex'[s], ex[s]) => Height(ex[s])' = Height(ex[s])
    <3>1. Height(ex[s])' = Height(ex'[s])
      BY DEF Height, Turns
    <3>2. Lower(ex'[s], ex[s]) => <<Height(ex'[s]), Height(ex[s])>> \in Below
      BY <2>1, LowerIsBelow
    <3>3. SameHeight(ex'[s], ex[s]) => Height(ex'[s]) = Height(ex[s])
      BY DEF SameHeight, Height
    <3>. QED
      BY <3>1, <3>2, <3>3
  <2>3. Proceed(s) \/ Cancel(s) => Lower(ex'[s], ex[s])
    BY ProceedDescends, CancelDescends
  <2>4. StartStage(s) \/ Lower(ex'[s], ex[s]) \/ SameHeight(ex'[s], ex[s])
    <3>1. CASE CrashAndRestart
      BY <3>1, CrashDescends
    <3>2. ASSUME NEW o \in Stages \ {s}, StartStage(o) \/ Proceed(o) \/ Event(o) \/ Cancel(o)
          PROVE  SameHeight(ex'[s], ex[s])
      <4>1. ex'[s] = ex[s]
        BY <3>2 DEF StartStage, Proceed, ClaimAgent, Attempt, SendChat, ChatAnswers, ChatFails,
             FallBackToText, Retry, FinalizeUnfinished, Extend, Restart, RestartReturns, NoRestart,
             AssessSelf, RunVerification, Improve, Sandbox, SendToSandbox, SandboxReturns, Conclude,
             CommitStage, CommitSandboxed, Completes, BookTokens, ReleaseAgent, MarkStageFailed,
             Event, TurnEnds, ToolEnds, EventStarts, Cancel, CancelAttempt, CancelRest, Afterwards,
             CancelFinalize, Over, Become, Go, GoWith, TypeOK
      <4>. QED
        BY <4>1 DEF SameHeight
    <3>. QED
      BY <2>3, <3>1, <3>2, EventStays DEF Next
  <2>. QED
    BY <2>2, <2>3, <2>4
<1>. QED
  BY <1>1, TypeCorrect, HeightsAreWellFounded, PTL DEF Spec

=============================================================================
