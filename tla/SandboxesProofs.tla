-------------------------- MODULE SandboxesProofs --------------------------
(***************************************************************************)
(* Proofs about Sandboxes and AgentServer, for any number of tasks, stages, *)
(* roles, boxes and permits, and any number of failures.                   *)
(***************************************************************************)
EXTENDS Sandboxes, FiniteSetTheorems, TLAPS

----------------------------------------------------------------------------
(* Types.                                                                  *)

Some(S) == S \cup {None}
Runs == [at : {"none", "setup", "created", "stages", "ending", "cleanup"},
         info : Some(Boxes), todo : SUBSET Keys, removing : Some(Boxes)]
Makers == [at : {"idle", "acquire", "start", "health", "remove"}, box : Some(Boxes)]
Jobs == [at : {"idle", "create", "use"}, task : Some(Tasks), role : Some(Roles),
         box : Some(Boxes), left : BOOLEAN]

\* The types but for the number of permits, which the balance bounds.
Typed ==
    /\ warm \in [Boxes -> SUBSET WarmUps] /\ req \in [Stages -> Requests]
    /\ backend \in {"docker", "boxlite"} /\ permits \in Nat /\ faults \in 0..MaxFaults
    /\ slots \in [Tasks -> [Keys -> Some(Boxes)]] /\ cache \in [Tasks -> [Roles -> Some(Boxes)]]
    /\ live \in [Boxes -> Some(Tasks)] /\ run \in [Tasks -> Runs]
    /\ mk \in [Callers -> Makers] /\ job \in [Stages -> Jobs]

LEMMA Parts == TypeOK <=> Typed /\ permits =< MaxConcurrent
<1>1. MaxConcurrent \in Nat
  BY SandboxConstants
<1>2. permits \in 0..MaxConcurrent <=> permits \in Nat /\ permits =< MaxConcurrent
  BY <1>1
<1>. QED
  BY <1>2 DEF TypeOK, ServerTypeOK, Typed, Runs, Makers, Jobs, Some

\* Tasks are not stages, and no task or box is None.
LEMMA Distinct ==
    /\ Tasks \cap Stages = {} /\ None \notin Tasks /\ None \notin Boxes
    /\ Tasks \subseteq Callers /\ Stages \subseteq Callers
    /\ \A c \in Callers : c \in Tasks \/ c \in Stages
    /\ "default" \in Keys /\ Roles \subseteq Keys /\ "default" \notin Roles
    /\ \A k \in Keys : k = "default" \/ k \in Roles
  BY SandboxConstants DEF Callers, Keys

----------------------------------------------------------------------------
(* The server inside a container.  A chat is left without a reader only by *)
(* the handler that finds its client gone before the stream is open; that  *)
(* needs that a client is noted as early exactly when it leaves then, and  *)
(* that every other way to the end of the handler ends the chat.           *)

Read(r) ==
    /\ r.at \in {"check", "wait", "run", "prepare"} /\ r.client # "waiting" => r.early
    /\ r.at = "end" => r.client # "waiting"
    /\ r.final => r.chat = "over"
    /\ r.at = "end" /\ r.chat = "run" => r.early

Readers == \A s \in Stages : Read(req[s])

\* One request is replaced.
LEMMA OneRequest ==
  ASSUME req \in [Stages -> Requests], Readers, NEW s \in Stages, NEW r \in Requests,
         req' = [req EXCEPT ![s] = r], Read(r)
  PROVE  req' \in [Stages -> Requests] /\ Readers'
<1>1. req'[s] = r /\ \A u \in Stages : u # s => req'[u] = req[u]
  OBVIOUS
<1>2. req' \in [Stages -> Requests]
  OBVIOUS
<1>. QED
  BY <1>1, <1>2 DEF Readers

\* The steps of the server keep its types and its readers.
LEMMA ServerKeeps ==
  ASSUME warm \in [Boxes -> SUBSET WarmUps], req \in [Stages -> Requests], Readers, ServerStep
  PROVE  warm' \in [Boxes -> SUBSET WarmUps] /\ req' \in [Stages -> Requests] /\ Readers'
<1>1. PICK s \in Stages :
        \/ \E k \in WarmUps : Skip(s, k) \/ Enter(s, k) \/ Wake(s, k) \/ Warm(s, k)
        \/ NoRunner(s) \/ StartChat(s) \/ Prepare(s) \/ ChatEnds(s)
        \/ Deliver(s) \/ HangUp(s) \/ Forget(s)
  BY DEF ServerStep
<1>. DEFINE q == req[s]
            Fine(r) ==
              /\ r \in Requests
              /\ r.at \in {"check", "wait", "run", "prepare"} /\ r.client # "waiting" => r.early
              /\ r.at = "end" => r.client # "waiting"
              /\ r.final => r.chat = "over"
              /\ r.at = "end" /\ r.chat = "run" => r.early
<1>2. Fine(q)
  BY DEF Readers, Read
<1>3. ASSUME NEW r, req' = [req EXCEPT ![s] = r], Fine(r)
      PROVE  req' \in [Stages -> Requests] /\ Readers'
  BY <1>3, OneRequest DEF Read
<1>4. ASSUME NEW k \in WarmUps, Skip(s, k) \/ Enter(s, k) \/ Wake(s, k) \/ Warm(s, k)
      PROVE  req' \in [Stages -> Requests] /\ Readers'
  <2>1. q.at \in {"check", "wait", "run"}
    BY <1>4 DEF Skip, Enter, Wake, Warm, In
  <2>2. \/ WarmUpPassed(s, k)
        \/ \E pc \in {"run", "wait"} : Moves(s, pc)
    BY <1>4 DEF Skip, Enter, Wake, Warm
  <2>3. CASE WarmUpPassed(s, k)
    <3>. DEFINE at == IF k = Preflight THEN "check" ELSE "prepare"
                r == [q EXCEPT !.at = at, !.in = Prewarm]
    <3>1. at \in {"check", "prepare"}
      OBVIOUS
    <3>2. req' = [req EXCEPT ![s] = r]
      BY <2>3 DEF WarmUpPassed
    <3>. HIDE DEF at
    <3>3. Fine(r)
      BY <1>2, <2>1, <3>1 DEF Requests, WarmUps
    <3>. QED
      BY <1>3, <3>2, <3>3
  <2>4. ASSUME NEW pc \in {"run", "wait"}, Moves(s, pc)
        PROVE  req' \in [Stages -> Requests] /\ Readers'
    <3>. DEFINE r == [q EXCEPT !.at = pc]
    <3>1. req' = [req EXCEPT ![s] = r]
      BY <2>4 DEF Moves
    <3>2. Fine(r)
      BY <1>2, <2>1 DEF Requests
    <3>. QED
      BY <1>3, <3>1, <3>2
  <2>. QED
    BY <2>2, <2>3, <2>4
<1>5. ASSUME NoRunner(s)
     PROVE  req' \in [Stages -> Requests] /\ Readers'
  <2>. DEFINE r == [q EXCEPT !.at = "end", !.client = Answered(s)]
  <2>1. req' = [req EXCEPT ![s] = r] /\ q.at = "prepare" /\ q.chat = "none"
    BY <1>5 DEF NoRunner
  <2>2. Answered(s) \in {"none", "answered", "gone"}
    BY <1>2 DEF Answered, Requests
  <2>3. Fine(r)
    BY <1>2, <2>1, <2>2 DEF Requests
  <2>. QED
    BY <1>3, <2>1, <2>3
<1>6. ASSUME StartChat(s)
     PROVE  req' \in [Stages -> Requests] /\ Readers'
  <2>. DEFINE r == [q EXCEPT !.chat = "run"]
  <2>1. req' = [req EXCEPT ![s] = r] /\ q.at = "prepare" /\ q.chat = "none"
    BY <1>6 DEF StartChat
  <2>2. Fine(r)
    BY <1>2, <2>1 DEF Requests
  <2>. QED
    BY <1>3, <2>1, <2>2
<1>7. ASSUME Prepare(s)
     PROVE  req' \in [Stages -> Requests] /\ Readers'
  <2>. DEFINE at == IF q.client = "waiting" THEN "stream" ELSE "end"
              r == [q EXCEPT !.at = at]
  <2>1. req' = [req EXCEPT ![s] = r] /\ q.at = "prepare"
    BY <1>7 DEF Prepare, Moves
  <2>2. Fine(r)
    BY <1>2, <2>1 DEF Requests
  <2>. QED
    BY <1>3, <2>1, <2>2
<1>8. ASSUME ChatEnds(s)
     PROVE  req' \in [Stages -> Requests] /\ Readers'
  <2>. DEFINE r == [q EXCEPT !.chat = "over", !.final = TRUE]
  <2>1. req' = [req EXCEPT ![s] = r]
    BY <1>8 DEF ChatEnds
  <2>2. Fine(r)
    BY <1>2 DEF Requests
  <2>. QED
    BY <1>3, <2>1, <2>2
<1>9. ASSUME Deliver(s)
     PROVE  req' \in [Stages -> Requests] /\ Readers'
  <2>. DEFINE r == [q EXCEPT !.at = "end", !.client = "answered"]
  <2>1. req' = [req EXCEPT ![s] = r] /\ q.final
    BY <1>9 DEF Deliver
  <2>2. Fine(r)
    BY <1>2, <2>1 DEF Requests
  <2>. QED
    BY <1>3, <2>1, <2>2
<1>10. ASSUME HangUp(s)
      PROVE  req' \in [Stages -> Requests] /\ Readers'
  <2>. DEFINE r == [q EXCEPT !.at = "end", !.chat = "over"]
  <2>1. req' = [req EXCEPT ![s] = r] /\ q.client # "waiting"
    BY <1>10 DEF HangUp
  <2>2. Fine(r)
    BY <1>2, <2>1 DEF Requests
  <2>. QED
    BY <1>3, <2>1, <2>2
<1>11. ASSUME Forget(s)
      PROVE  req' \in [Stages -> Requests] /\ Readers'
  <2>1. req' = [req EXCEPT ![s] = NoRequest]
    BY <1>11 DEF Forget
  <2>2. Fine(NoRequest)
    BY DEF NoRequest, Requests, WarmUps
  <2>. HIDE DEF Fine
  <2>. QED
    BY <1>3, <2>1, <2>2
<1>12. warm' \in [Boxes -> SUBSET WarmUps]
  <2>1. ASSUME NEW k \in WarmUps, Warm(s, k)
        PROVE  warm' \in [Boxes -> SUBSET WarmUps]
    <3>1. PICK D \in {{k}} \cup (IF k = Prewarm THEN {{}} ELSE {}) :
            warm' = [warm EXCEPT ![req[s].box] = @ \cup D]
      BY <2>1 DEF Warm
    <3>2. D \subseteq WarmUps
      OBVIOUS
    <3>. QED
      BY <3>1, <3>2
  <2>2. CASE UNCHANGED warm
    BY <2>2
  <2>. QED
    BY <1>1, <2>1, <2>2
       DEF Skip, Enter, Wake, NoRunner, StartChat, Prepare, ChatEnds, Deliver, HangUp, Forget
<1>. QED
  BY <1>1, <1>4, <1>5, <1>6, <1>7, <1>8, <1>9, <1>10, <1>11, <1>12

\* The client leaves, the box goes, the stage posts a new request.
LEMMA LeftIsRead ==
  ASSUME NEW r \in Requests, Read(r)
  PROVE  Left(r) \in Requests /\ Read(Left(r))
  BY ZenonT(40) DEF Left, Requests, Read

LEMMA CutIsRead ==
  ASSUME NEW r \in Requests, Read(r), NEW B
  PROVE  Cut(r, B) \in Requests /\ Read(Cut(r, B))
<1>1. NoRequest \in Requests /\ Read(NoRequest)
  BY DEF NoRequest, Requests, WarmUps, Read
<1>. QED
  BY <1>1 DEF Cut

LEMMA PostIsRead ==
  ASSUME req \in [Stages -> Requests], Readers, NEW s \in Stages, NEW box \in Some(Boxes)
  PROVE  /\ Use(s, box) \in [Stages -> Requests]
         /\ \A u \in Stages : Read(Use(s, box)[u])
<1>. DEFINE r == [NoRequest EXCEPT !.box = box, !.at = "check", !.client = "waiting"]
<1>1. r \in Requests /\ r.at = "check" /\ r.client = "waiting" /\ r.final = FALSE
  BY DEF NoRequest, Requests, WarmUps, Some
<1>2. Read(r)
  BY <1>1 DEF Read
<1>3. Use(s, box) = [req EXCEPT ![s] = r] \/ Use(s, box) = req
  BY DEF Use, Post
<1>. HIDE DEF r
<1>. QED
  BY <1>1, <1>2, <1>3 DEF Readers

----------------------------------------------------------------------------
(* Who is where: a stage creates only while its job does, a task only while *)
(* its run is set up; jobs that were not left belong to a run in its stages. *)

Phases ==
    /\ \A s \in Stages : job[s].at # "idle" =>
         /\ job[s].task \in Tasks /\ job[s].role \in Roles
         /\ ~job[s].left => run[job[s].task].at = "stages"
    /\ \A s \in Stages : mk[s].at # "idle" => job[s].at = "create"
    /\ \A t \in Tasks : mk[t].at # "idle" => run[t].at = "setup"
    /\ \A c \in Callers : mk[c].box = None <=> mk[c].at \in {"idle", "acquire", "start"}
    /\ \A t \in Tasks : run[t].removing = None <=> run[t].at # "cleanup"

\* Boxes in the table, being created and being removed are alive and of the
\* task that holds them,
Owned ==
    /\ \A t \in Tasks, k \in Keys : slots[t][k] # None => live[slots[t][k]] = t
    /\ \A c \in Callers : mk[c].box # None => live[mk[c].box] = CallerTask(c)
    /\ \A t \in Tasks : run[t].removing # None => live[run[t].removing] = t

\* and no box is held twice.
Apart ==
    /\ \A t \in Tasks : \A j, k \in Keys : slots[t][j] # None /\ slots[t][j] = slots[t][k] => j = k
    /\ \A c, d \in Callers : mk[c].box # None /\ mk[c].box = mk[d].box => c = d
    /\ \A c \in Callers, t \in Tasks, k \in Keys : mk[c].box # None => mk[c].box # slots[t][k]
    /\ \A c \in Callers, t \in Tasks : mk[c].box # None => mk[c].box # run[t].removing
    /\ \A t \in Tasks, k \in Keys : run[t].removing # None => run[t].removing # slots[t][k]

\* With Docker a task has one live container at most, in its one place.
OneEach ==
    Docker =>
        /\ \A b, d \in Boxes : live[b] # None /\ live[b] = live[d] => b = d
        /\ \A t \in Tasks : "default" \notin run[t].todo /\ \A r \in Roles : slots[t][r] = None

RoleKey(r) == IF Docker THEN "default" ELSE r

\* What the cache, a run and a working stage know is in the table.
InTable ==
    Docker \/ faults = 0 =>
        /\ \A t \in Tasks, r \in Roles : cache[t][r] # None => cache[t][r] = slots[t][RoleKey(r)]
        /\ \A t \in Tasks : run[t].at \in {"created", "stages"} /\ run[t].info # None
                              => run[t].info = slots[t]["default"]
        /\ \A s \in Stages : job[s].at = "use" /\ ~job[s].left =>
             /\ job[s].box # None
             /\ \/ job[s].box = slots[job[s].task]["default"]
                \/ job[s].box = slots[job[s].task][RoleKey(job[s].role)]
        /\ \A t \in Tasks, r \in Roles :
             ~Docker /\ r \in run[t].todo => cache[t][r] = None /\ slots[t][r] # None

\* Every live box is held by somebody, unless something was not cleaned up after.
Known ==
    faults = 0 =>
        \A b \in Boxes : live[b] # None =>
            \/ \E t \in Tasks, k \in Keys : slots[t][k] = b
            \/ \E t \in Tasks : run[t].removing = b
            \/ \E c \in Callers : mk[c].box = b

Taken == Cardinality(Registered) + Cardinality(Making) + Cardinality(Removing)

\* Permits may get lost, but none is ever given back twice.
Balance ==
    /\ permits + Taken =< MaxConcurrent
    /\ faults = 0 => permits + Taken = MaxConcurrent

SandboxInv == Readers /\ Phases /\ Owned /\ Apart /\ OneEach /\ InTable /\ Known /\ Balance

\* What the end of a create says of everybody.
LEMMA WentOn ==
  ASSUME Typed, Readers, Phases, NEW c \in Callers, NEW box \in Some(Boxes), mk[c].at # "idle",
         GoesOn(c, box), UNCHANGED <<backend, warm>>, faults' \in 0..MaxFaults, faults' >= faults
  PROVE  /\ mk' \in [Callers -> Makers] /\ mk'[c].at = "idle" /\ mk'[c].box = None
         /\ \A d \in Callers : d # c => mk'[d] = mk[d]
         /\ run' \in [Tasks -> Runs]
         /\ \A t \in Tasks : /\ run'[t].removing = run[t].removing /\ run'[t].todo = run[t].todo
                             /\ run[t].at = "stages" <=> run'[t].at = "stages"
                             /\ run[t].at = "cleanup" <=> run'[t].at = "cleanup"
                             /\ t # c => run'[t] = run[t]
                             /\ t = c => run'[t].info = box /\ run[t].at = "setup"
         /\ job' \in [Stages -> Jobs]
         /\ \A s \in Stages : /\ s # c => job'[s] = job[s]
                              /\ s = c => job[s].at = "create"
                              /\ s = c /\ box = None => job'[s].at = "idle"
                              /\ s = c /\ box # None =>
                                   /\ job'[s].at = "use" /\ job'[s].box = box
                                   /\ job'[s].task = job[s].task /\ job'[s].role = job[s].role
                                   /\ job'[s].left = job[s].left
         /\ cache' \in [Tasks -> [Roles -> Some(Boxes)]]
         /\ \A t \in Tasks, r \in Roles :
              \/ cache'[t][r] = cache[t][r]
              \/ c \in Stages /\ box # None /\ t = job[c].task /\ r = job[c].role /\ cache'[t][r] = box
         /\ req' \in [Stages -> Requests] /\ Readers'
         /\ Phases'
         /\ \A d \in Callers : d # c => CallerTask(d)' = CallerTask(d)
<1>1. mk' = [mk EXCEPT ![c] = NotMaking]
  BY DEF GoesOn
<1>2. NotMaking \in Makers /\ NotMaking.at = "idle" /\ NotMaking.box = None
  BY DEF NotMaking, Makers, Some
<1>3. mk' \in [Callers -> Makers] /\ mk'[c] = NotMaking /\ \A d \in Callers : d # c => mk'[d] = mk[d]
  <2>. HIDE DEF NotMaking
  <2>. QED
    BY <1>1, <1>2 DEF Typed
<1>4. CASE c \in Tasks
  <2>1. c \notin Stages /\ run[c].at = "setup"
    BY <1>4, Distinct DEF Phases
  <2>2. run' = [run EXCEPT ![c].at = "created", ![c].info = box] /\ UNCHANGED <<cache, job, req>>
    BY <1>4 DEF GoesOn, RunGoesOn
  <2>3. run' \in [Tasks -> Runs]
    BY <1>4, <2>2, ZenonT(40) DEF Typed, Runs
  <2>4. /\ \A t \in Tasks : t # c => run'[t] = run[t]
        /\ run'[c].at = "created" /\ run'[c].info = box
        /\ run'[c].removing = run[c].removing /\ run'[c].todo = run[c].todo
    BY <1>4, <2>2 DEF Typed, Runs
  <2>5. Readers'
    BY <2>2 DEF Readers
  <2>6. \A d \in Callers : d # c => CallerTask(d)' = CallerTask(d)
    BY <2>2 DEF CallerTask
  <2>7. Phases'
    <3>1. \A t \in Tasks : /\ run[t].at = "stages" => run'[t].at = "stages"
                           /\ run[t].at = "cleanup" <=> run'[t].at = "cleanup"
                           /\ run'[t].removing = run[t].removing
                           /\ mk'[t].at # "idle" => run'[t] = run[t] /\ mk'[t] = mk[t]
      BY <1>2, <1>3, <2>1, <2>4, Distinct
    <3>3. \A s \in Stages : job'[s] = job[s] /\ (mk'[s].at # "idle" => mk'[s] = mk[s])
      BY <1>2, <1>3, <2>2, Distinct
    <3>4. (\A s \in Stages : job[s].at # "idle" =>
            /\ job[s].task \in Tasks /\ job[s].role \in Roles
            /\ ~job[s].left => run[job[s].task].at = "stages")'
      BY <3>1, <3>3 DEF Phases
    <3>5. (\A d \in Callers : mk[d].box = None <=> mk[d].at \in {"idle", "acquire", "start"})'
      BY <1>2, <1>3 DEF Phases
    <3>6. (\A t \in Tasks : run[t].removing = None <=> run[t].at # "cleanup")'
      BY <3>1 DEF Phases
    <3>7. (\A s \in Stages : mk[s].at # "idle" => job[s].at = "create")'
      BY <3>3 DEF Phases
    <3>8. (\A t \in Tasks : mk[t].at # "idle" => run[t].at = "setup")'
      BY <3>1 DEF Phases
    <3>. QED
      BY <3>4, <3>5, <3>6, <3>7, <3>8 DEF Phases
  <2>. QED
    BY <1>2, <1>3, <2>1, <2>2, <2>3, <2>4, <2>5, <2>6, <2>7 DEF Typed
<1>5. CASE c \in Stages
  <2>1. c \notin Tasks /\ job[c].at = "create" /\ job[c].task \in Tasks /\ job[c].role \in Roles
    BY <1>5, Distinct DEF Phases
  <2>2. run' = run
    BY <2>1 DEF GoesOn, StageGoesOn
  <2>3. NoJob \in Jobs /\ NoJob.at = "idle"
    BY DEF NoJob, Jobs, Some
  <2>4. CASE box = None
    <3>1. job' = [job EXCEPT ![c] = NoJob] /\ UNCHANGED <<cache, req>>
      BY <2>1, <2>4 DEF GoesOn, StageGoesOn
    <3>2. job' \in [Stages -> Jobs] /\ job'[c].at = "idle" /\ \A s \in Stages : s # c => job'[s] = job[s]
      <4>. HIDE DEF NoJob
      <4>. QED
        BY <1>5, <2>3, <3>1 DEF Typed
    <3>3. Readers'
      BY <3>1 DEF Readers
    <3>4. \A d \in Callers : d # c => CallerTask(d)' = CallerTask(d)
      BY <3>2, Distinct DEF CallerTask
    <3>5. Phases'
      BY <1>2, <1>3, <2>2, <3>2, Distinct DEF Phases
    <3>6. /\ run' \in [Tasks -> Runs] /\ cache' \in [Tasks -> [Roles -> Some(Boxes)]]
          /\ req' \in [Stages -> Requests]
      BY <2>2, <3>1 DEF Typed
    <3>7. \A s \in Stages : /\ s # c => job'[s] = job[s]
                            /\ s = c => job[s].at = "create" /\ job'[s].at = "idle"
      BY <2>1, <3>2
    <3>8. \A t \in Tasks : run'[t] = run[t] /\ t # c
      BY <2>1, <2>2
    <3>9. \A t \in Tasks, r \in Roles : cache'[t][r] = cache[t][r]
      BY <3>1
    <3>. QED
      BY <1>2, <1>3, <2>4, <3>2, <3>3, <3>4, <3>5, <3>6, <3>7, <3>8, <3>9
  <2>5. CASE box # None
    <3>1. /\ cache' = [cache EXCEPT ![job[c].task][job[c].role] = box]
          /\ job' = [job EXCEPT ![c].at = "use", ![c].box = box]
          /\ req' = Use(c, box)
      BY <2>1, <2>5 DEF GoesOn, StageGoesOn
    <3>2. job' \in [Stages -> Jobs]
      BY <1>5, <3>1, ZenonT(40) DEF Typed, Jobs
    <3>3. /\ \A s \in Stages : s # c => job'[s] = job[s]
          /\ job'[c].at = "use" /\ job'[c].box = box
          /\ job'[c].task = job[c].task /\ job'[c].role = job[c].role /\ job'[c].left = job[c].left
      BY <1>5, <3>1 DEF Typed, Jobs
    <3>4. cache' \in [Tasks -> [Roles -> Some(Boxes)]]
      BY <2>1, <3>1 DEF Typed
    <3>5. \A t \in Tasks, r \in Roles :
            \/ cache'[t][r] = cache[t][r]
            \/ t = job[c].task /\ r = job[c].role /\ cache'[t][r] = box
      BY <2>1, <3>1 DEF Typed
    <3>6. req' \in [Stages -> Requests] /\ Readers'
      BY <1>5, <3>1, PostIsRead DEF Typed, Readers
    <3>7. \A d \in Callers : d # c => CallerTask(d)' = CallerTask(d)
      BY <3>3, Distinct DEF CallerTask
    <3>8. Phases'
      BY <1>2, <1>3, <2>1, <2>2, <3>3, Distinct DEF Phases
    <3>9. run' \in [Tasks -> Runs]
      BY <2>2 DEF Typed
    <3>. QED
      BY <1>2, <1>3, <1>5, <2>1, <2>2, <2>5, <3>2, <3>3, <3>4, <3>5, <3>6, <3>7, <3>8, <3>9
  <2>. QED
    BY <2>4, <2>5
<1>. QED
  BY <1>4, <1>5, Distinct

----------------------------------------------------------------------------
(* What a step leaves standing.                                            *)

\* Nobody gets a box, the table stays as it is, and only boxes in G go that
\* nobody holds any more.
LEMMA Standing ==
  ASSUME Typed, Owned, Apart, OneEach, UNCHANGED <<slots, backend>>, NEW G,
         \A b \in Boxes : live[b] # None /\ b \notin G => live'[b] = live[b],
         \/ \A b \in Boxes : live'[b] \in {None, live[b]}
         \/ Docker => \A b, d \in Boxes : live'[b] # None /\ live'[b] = live'[d] => b = d,
         \A t \in Tasks, k \in Keys : slots[t][k] \notin G,
         \A c \in Callers : mk'[c].box # None =>
             /\ mk'[c].box = mk[c].box /\ mk'[c].box \notin G
             /\ CallerTask(c)' = CallerTask(c) /\ CallerTask(c) # None,
         \A t \in Tasks : /\ run'[t].removing # None =>
                               run'[t].removing = run[t].removing /\ run'[t].removing \notin G
                          /\ run'[t].todo \subseteq run[t].todo
  PROVE  Owned' /\ Apart' /\ OneEach'
<1>1. /\ \A t \in Tasks, k \in Keys : slots[t][k] # None => slots[t][k] \in Boxes
      /\ \A c \in Callers : mk[c].box # None => mk[c].box \in Boxes
      /\ \A t \in Tasks : run[t].removing # None => run[t].removing \in Boxes
  BY DEF Typed, Some, Makers, Runs
<1>2. Owned'
  <2>1. (\A t \in Tasks, k \in Keys : slots[t][k] # None => live[slots[t][k]] = t)'
    BY <1>1, Distinct DEF Owned
  <2>2. (\A c \in Callers : mk[c].box # None => live[mk[c].box] = CallerTask(c))'
    BY <1>1 DEF Owned
  <2>3. (\A t \in Tasks : run[t].removing # None => live[run[t].removing] = t)'
    BY <1>1, Distinct DEF Owned
  <2>. QED
    BY <2>1, <2>2, <2>3 DEF Owned
<1>3. Apart'
  BY DEF Apart
<1>4. OneEach'
  BY DEF OneEach, Docker
<1>. QED
  BY <1>2, <1>3, <1>4

LEMMA StillKnown ==
  ASSUME Known, UNCHANGED <<slots, live>>,
         faults' = 0 =>
           /\ faults = 0
           /\ \A c \in Callers : mk'[c].box = mk[c].box
           /\ \A t \in Tasks : run'[t].removing = run[t].removing
  PROVE  Known'
  BY DEF Known

LEMMA StillInTable ==
  ASSUME InTable, UNCHANGED <<slots, backend>>, faults' = 0 => faults = 0,
         \A t \in Tasks, r \in Roles : cache'[t][r] \in {None, cache[t][r]},
         \A t \in Tasks : /\ run'[t].at \in {"created", "stages"} /\ run'[t].info # None =>
                               run[t].at \in {"created", "stages"} /\ run'[t].info = run[t].info
                          /\ run'[t].todo \subseteq run[t].todo,
         \A s \in Stages : job'[s].at = "use" /\ ~job'[s].left =>
             /\ job[s].at = "use" /\ ~job[s].left /\ job'[s].box = job[s].box
             /\ job'[s].task = job[s].task /\ job'[s].role = job[s].role
  PROVE  InTable'
<1>1. SUFFICES ASSUME Docker' \/ faults' = 0
               PROVE  InTable'
  BY DEF InTable
<1>2. Docker \/ faults = 0
  BY <1>1 DEF Docker
<1>. QED
  BY <1>2 DEF InTable, Docker, RoleKey

\* The sets that are counted are finite.
LEMMA Counted ==
  /\ IsFiniteSet(Registered) /\ IsFiniteSet(Making) /\ IsFiniteSet(Removing)
  /\ Cardinality(Registered) \in Nat /\ Cardinality(Making) \in Nat /\ Cardinality(Removing) \in Nat
<1>1. IsFiniteSet(Tasks) /\ IsFiniteSet(Keys) /\ IsFiniteSet(Callers)
  <2>1. IsFiniteSet({"default"})
    BY FS_Singleton
  <2>. QED
    BY <2>1, SandboxConstants, FS_Union DEF Keys, Callers
<1>2. IsFiniteSet(Making) /\ IsFiniteSet(Removing)
  BY <1>1, FS_Subset DEF Making, Removing
<1>3. IsFiniteSet(Registered)
  <2>. DEFINE P == Tasks \X Keys
              R == {slots[t][k] : t \in Tasks, k \in Keys}
              f == [p \in P |-> slots[p[1]][p[2]]]
  <2>1. IsFiniteSet(P)
    BY <1>1, FS_Product
  <2>2. f \in Surjection(P, R)
    <3>1. f \in [P -> R]
      OBVIOUS
    <3>2. ASSUME NEW x \in R
          PROVE  \E p \in P : f[p] = x
      <4>1. PICK t \in Tasks, k \in Keys : x = slots[t][k]
        OBVIOUS
      <4>2. <<t, k>> \in P /\ f[<<t, k>>] = slots[t][k]
        OBVIOUS
      <4>. QED
        BY <4>1, <4>2
    <3>. HIDE DEF P, R, f
    <3>. QED
      BY <3>1, <3>2 DEF Surjection
  <2>3. IsFiniteSet(R)
    <3>. HIDE DEF P, R, f
    <3>. QED
      BY <2>1, <2>2, FS_Surjection
  <2>4. Registered \in SUBSET R
    BY DEF Registered
  <2>. QED
    BY <2>3, <2>4, FS_Subset
<1>. QED
  BY <1>2, <1>3, FS_CardinalityType

\* The three sets stay as they are, or lose members and faults count it.
LEMMA BalanceStands ==
  ASSUME Balance, permits \in Nat, permits' =< permits, permits' \in Nat,
         faults' = 0 => faults = 0 /\ permits' = permits,
         Registered' = Registered, Removing' \subseteq Removing, Making' \subseteq Making,
         faults' = 0 => Removing' = Removing /\ Making' = Making
  PROVE  Balance'
<1>1. /\ Cardinality(Making') =< Cardinality(Making) /\ Cardinality(Removing') =< Cardinality(Removing)
      /\ Cardinality(Making') \in Nat /\ Cardinality(Removing') \in Nat
      /\ Making' = Making => Cardinality(Making') = Cardinality(Making)
      /\ Removing' = Removing => Cardinality(Removing') = Cardinality(Removing)
  BY Counted, FS_Subset, FS_CardinalityType
<1>2. Cardinality(Registered') = Cardinality(Registered)
  OBVIOUS
<1>3. MaxConcurrent \in Nat
  BY SandboxConstants
<1>. QED
  BY <1>1, <1>2, <1>3, Counted DEF Balance, Taken

\* A permit goes to somebody who makes a box, or comes back from there.
LEMMA BalanceMoves ==
  ASSUME Balance, permits \in Nat, permits' \in Nat, faults' = 0 => faults = 0,
         Registered' = Registered, Removing' = Removing, NEW c,
         \/ c \notin Making /\ Making' = Making \cup {c} /\ permits' = permits - 1
         \/ c \in Making /\ Making' = Making \ {c} /\ permits' = permits + 1
  PROVE  Balance'
<1>1. Cardinality(Registered') = Cardinality(Registered) /\ Cardinality(Removing') = Cardinality(Removing)
  OBVIOUS
<1>2. /\ c \notin Making => Cardinality(Making \cup {c}) = Cardinality(Making) + 1
      /\ c \in Making => Cardinality(Making \ {c}) = Cardinality(Making) - 1
  BY Counted, FS_AddElement, FS_RemoveElement
<1>3. permits' + Cardinality(Making') = permits + Cardinality(Making)
  BY <1>2, Counted
<1>4. Cardinality(Making') \in Nat
  BY <1>2, Counted, FS_AddElement, FS_RemoveElement, FS_CardinalityType
<1>5. MaxConcurrent \in Nat
  BY SandboxConstants
<1>. QED
  BY <1>1, <1>3, <1>4, <1>5, Counted DEF Balance, Taken

----------------------------------------------------------------------------
(* backend.create.                                                         *)

\* A caller that creates has a task.
LEMMA CallerHasTask ==
  ASSUME Typed, Phases, NEW c \in Callers, mk[c].at # "idle"
  PROVE  CallerTask(c) \in Tasks /\ Key(c) \in Keys /\ (c \in Stages => job[c].role \in Roles)
  BY Distinct DEF CallerTask, Key, Phases

\* The step of a caller that keeps the box it has.
LEMMA CreateGoesOn ==
  ASSUME Typed, SandboxInv, NEW c \in Callers, Acquire(c) \/ Unhealthy(c)
  PROVE  Typed' /\ SandboxInv'
<1>1. /\ UNCHANGED <<backend, slots, cache, live, run, job, faults, warm, req>>
      /\ \/ mk[c].at = "acquire" /\ mk' = [mk EXCEPT ![c].at = "start"] /\ permits > 0 /\ permits' = permits - 1
         \/ /\ mk[c].at = "health" /\ mk' = [mk EXCEPT ![c].at = "remove"]
            /\ permits' = IF Docker THEN permits + 1 ELSE permits
  BY DEF Acquire, Unhealthy, serverVars
<1>2. mk' \in [Callers -> Makers]
  BY <1>1, ZenonT(40) DEF Typed, Makers
<1>3. /\ \A d \in Callers : d # c => mk'[d] = mk[d]
      /\ mk'[c].box = mk[c].box
      /\ mk[c].at = "acquire" => mk'[c].at = "start"
      /\ mk[c].at = "health" => mk'[c].at = "remove"
  BY <1>1 DEF Typed, Makers
<1>4. Typed'
  BY <1>1, <1>2 DEF Typed
<1>5. Readers'
  BY <1>1 DEF SandboxInv, Readers
<1>6. Phases'
  BY <1>1, <1>3, Distinct DEF SandboxInv, Phases
<1>7. \A d \in Callers : /\ mk'[d].box = mk[d].box /\ CallerTask(d)' = CallerTask(d)
                         /\ mk[d].box # None => CallerTask(d) \in Tasks
  <2>1. \A d \in Callers : mk[d].box # None => CallerTask(d) \in Tasks
    BY CallerHasTask DEF SandboxInv, Phases
  <2>. QED
    BY <1>1, <1>3, <2>1 DEF CallerTask
<1>8. Owned' /\ Apart' /\ OneEach'
  <2>. DEFINE G == {}
  <2>1. \A x : x \notin G
    OBVIOUS
  <2>. HIDE DEF G
  <2>. QED
    BY <1>1, <1>7, <2>1, Standing, Distinct DEF SandboxInv
<1>9. InTable'
  BY <1>1, StillInTable DEF SandboxInv
<1>10. Known'
  BY <1>1, <1>7, StillKnown DEF SandboxInv
<1>11. Balance'
  <2>1. Registered' = Registered /\ Removing' = Removing
    BY <1>1 DEF Registered, Removing
  <2>2. CASE mk[c].at = "acquire"
    <3>1. c \notin Making /\ Making' = Making \cup {c}
      BY <1>1, <1>3, <2>2 DEF Making, Docker
    <3>. QED
      BY <1>1, <1>4, <2>1, <2>2, <3>1, BalanceMoves DEF SandboxInv, Typed
  <2>3. CASE mk[c].at = "health" /\ Docker
    <3>1. c \in Making /\ Making' = Making \ {c}
      BY <1>1, <1>3, <2>3 DEF Making, Docker
    <3>. QED
      BY <1>1, <1>4, <2>1, <2>3, <3>1, BalanceMoves DEF SandboxInv, Typed
  <2>4. CASE mk[c].at = "health" /\ ~ Docker
    <3>1. Making' = Making
      BY <1>1, <1>3, <2>4 DEF Making, Docker
    <3>. QED
      BY <1>1, <1>4, <2>1, <2>4, <3>1, BalanceStands DEF SandboxInv, Typed
  <2>. QED
    BY <1>1, <2>2, <2>3, <2>4
<1>. QED
  BY <1>4, <1>5, <1>6, <1>8, <1>9, <1>10, <1>11 DEF SandboxInv

\* Whoever holds a box holds a live one.
LEMMA HeldIsLive ==
  ASSUME Typed, Phases, Owned
  PROVE  /\ \A t \in Tasks, k \in Keys : slots[t][k] # None =>
              slots[t][k] \in Boxes /\ live[slots[t][k]] = t /\ t # None
         /\ \A c \in Callers : mk[c].box # None =>
              mk[c].box \in Boxes /\ live[mk[c].box] = CallerTask(c) /\ CallerTask(c) \in Tasks
         /\ \A t \in Tasks : run[t].removing # None =>
              run[t].removing \in Boxes /\ live[run[t].removing] = t /\ t # None
<1>1. /\ \A t \in Tasks, k \in Keys : slots[t][k] # None => slots[t][k] \in Boxes
      /\ \A c \in Callers : mk[c].box # None => mk[c].box \in Boxes
      /\ \A t \in Tasks : run[t].removing # None => run[t].removing \in Boxes
  BY DEF Typed, Some, Makers, Runs
<1>2. \A c \in Callers : mk[c].box # None => CallerTask(c) \in Tasks
  BY CallerHasTask DEF Phases
<1>. QED
  BY <1>1, <1>2, Distinct DEF Owned

\* A container or a machine starts.
LEMMA CreateBoots ==
  ASSUME Typed, SandboxInv, NEW c \in Callers, NEW b \in Boxes, Boot(c, b)
  PROVE  Typed' /\ SandboxInv'
<1>. DEFINE u == CallerTask(c)
<1>1. /\ UNCHANGED <<backend, permits, slots, cache, run, job, faults, warm, req>>
      /\ mk[c].at = "start" /\ live[b] = None /\ ~NameTaken(u)
      /\ live' = [live EXCEPT ![b] = u]
      /\ mk' = [mk EXCEPT ![c] = [at |-> "health", box |-> b]]
  BY DEF Boot, serverVars
<1>2. u \in Tasks
  BY <1>1, CallerHasTask DEF SandboxInv
<1>3. [at |-> "health", box |-> b] \in Makers
  BY DEF Makers, Some
<1>. HIDE DEF u
<1>4. /\ live' \in [Boxes -> Some(Tasks)] /\ live'[b] = u
      /\ \A x \in Boxes : x # b => live'[x] = live[x]
  BY <1>1, <1>2 DEF Typed, Some
<1>5. /\ mk' \in [Callers -> Makers] /\ mk'[c].at = "health" /\ mk'[c].box = b
      /\ \A d \in Callers : d # c => mk'[d] = mk[d]
  BY <1>1, <1>3 DEF Typed
<1>6. Typed'
  BY <1>1, <1>4, <1>5 DEF Typed
<1>7. Readers'
  BY <1>1 DEF SandboxInv, Readers
<1>8. Phases'
  BY <1>1, <1>5, Distinct DEF SandboxInv, Phases
<1>9. \A d \in Callers : CallerTask(d)' = CallerTask(d)
  BY <1>1 DEF CallerTask
<1>10. /\ \A t \in Tasks, k \in Keys : slots[t][k] # None =>
            slots[t][k] \in Boxes /\ live[slots[t][k]] = t /\ t # None /\ slots[t][k] # b
       /\ \A d \in Callers : mk[d].box # None =>
            /\ mk[d].box \in Boxes /\ live[mk[d].box] = CallerTask(d) /\ CallerTask(d) \in Tasks
            /\ mk[d].box # b
       /\ \A t \in Tasks : run[t].removing # None =>
            run[t].removing \in Boxes /\ live[run[t].removing] = t /\ t # None /\ run[t].removing # b
  BY <1>1, HeldIsLive, Distinct DEF SandboxInv
<1>11. Owned'
  <2>1. (\A t \in Tasks, k \in Keys : slots[t][k] # None => live[slots[t][k]] = t)'
    BY <1>1, <1>4, <1>10
  <2>2. (\A d \in Callers : mk[d].box # None => live[mk[d].box] = CallerTask(d))'
    BY <1>4, <1>5, <1>9, <1>10 DEF u
  <2>3. (\A t \in Tasks : run[t].removing # None => live[run[t].removing] = t)'
    BY <1>1, <1>4, <1>10
  <2>. QED
    BY <2>1, <2>2, <2>3 DEF Owned
<1>12. Apart'
  <2>1. b # None
    BY Distinct
  <2>. QED
    BY <1>1, <1>5, <1>10, <2>1 DEF SandboxInv, Apart
<1>13. OneEach'
  BY <1>1, <1>2, <1>4, Distinct DEF SandboxInv, OneEach, Docker, NameTaken
<1>14. InTable'
  <2>1. \A t \in Tasks, r \in Roles : cache'[t][r] \in {None, cache[t][r]}
    BY <1>1
  <2>. QED
    BY <1>1, <2>1, StillInTable DEF SandboxInv
<1>15. Known'
  <2>1. \A x \in Boxes : live'[x] # None => x = b \/ live[x] # None
    BY <1>4
  <2>2. \A d \in Callers : mk[d].box # None => mk'[d].box = mk[d].box
    BY <1>1, <1>5 DEF SandboxInv, Phases
  <2>. QED
    BY <1>1, <1>5, <2>1, <2>2, Distinct DEF SandboxInv, Known
<1>16. Balance'
  <2>1. Registered' = Registered /\ Removing' = Removing /\ Making' = Making
    BY <1>1, <1>5 DEF Registered, Removing, Making, Docker
  <2>. QED
    BY <1>1, <1>6, <2>1, BalanceStands DEF SandboxInv, Typed
<1>. QED
  BY <1>6, <1>7, <1>8, <1>11, <1>12, <1>13, <1>14, <1>15, <1>16 DEF SandboxInv

\* The task and the stages know what a create without a result leaves them.
LEMMA NothingMade ==
  ASSUME Typed, SandboxInv, NEW c \in Callers, mk[c].at # "idle", GoesOn(c, None),
         UNCHANGED <<backend, slots, warm>>, faults' \in 0..MaxFaults, faults' >= faults, NEW G,
         \A b \in Boxes : live[b] # None /\ b \notin G => live'[b] = live[b],
         \/ \A b \in Boxes : live'[b] \in {None, live[b]}
         \/ Docker => \A b, d \in Boxes : live'[b] # None /\ live'[b] = live'[d] => b = d,
         G \subseteq {mk[c].box} \ {None}
  PROVE  Readers' /\ Phases' /\ Owned' /\ Apart' /\ OneEach' /\ InTable'
<1>1. None \in Some(Boxes)
  BY DEF Some
<1>2. /\ mk'[c].box = None /\ \A d \in Callers : d # c => mk'[d] = mk[d]
      /\ \A t \in Tasks : /\ run'[t].removing = run[t].removing /\ run'[t].todo = run[t].todo
                          /\ run[t].at = "cleanup" <=> run'[t].at = "cleanup"
                          /\ t # c => run'[t] = run[t]
                          /\ t = c => run'[t].info = None
      /\ \A s \in Stages : /\ s # c => job'[s] = job[s]
                           /\ s = c => job'[s].at = "idle"
      /\ \A t \in Tasks, r \in Roles : cache'[t][r] = cache[t][r]
      /\ Readers' /\ Phases'
      /\ \A d \in Callers : d # c => CallerTask(d)' = CallerTask(d)
  BY <1>1, WentOn DEF SandboxInv
<1>3. Owned' /\ Apart' /\ OneEach'
  <2>1. \A t \in Tasks, k \in Keys : slots[t][k] \notin G
    BY DEF SandboxInv, Apart
  <2>2. \A t \in Tasks : /\ run'[t].removing # None =>
                               run'[t].removing = run[t].removing /\ run'[t].removing \notin G
                         /\ run'[t].todo \subseteq run[t].todo
    BY <1>2 DEF SandboxInv, Apart
  <2>3. \A d \in Callers : mk'[d].box # None =>
             /\ mk'[d].box = mk[d].box /\ mk'[d].box \notin G
             /\ CallerTask(d)' = CallerTask(d) /\ CallerTask(d) # None
    <3>. SUFFICES ASSUME NEW d \in Callers, mk'[d].box # None
                  PROVE  /\ mk'[d].box = mk[d].box /\ mk'[d].box \notin G
                         /\ CallerTask(d)' = CallerTask(d) /\ CallerTask(d) # None
      OBVIOUS
    <3>1. d # c /\ mk'[d] = mk[d]
      BY <1>2
    <3>2. CallerTask(d) \in Tasks
      BY <3>1, HeldIsLive DEF SandboxInv
    <3>. QED
      BY <1>2, <3>1, <3>2, Distinct DEF SandboxInv, Apart
  <2>. QED
    BY <2>1, <2>2, <2>3, Standing DEF SandboxInv
<1>4. InTable'
  <2>1. \A t \in Tasks : /\ run'[t].at \in {"created", "stages"} /\ run'[t].info # None =>
                              run[t].at \in {"created", "stages"} /\ run'[t].info = run[t].info
                         /\ run'[t].todo \subseteq run[t].todo
    BY <1>2
  <2>2. \A s \in Stages : job'[s].at = "use" /\ ~job'[s].left =>
             /\ job[s].at = "use" /\ ~job[s].left /\ job'[s].box = job[s].box
             /\ job'[s].task = job[s].task /\ job'[s].role = job[s].role
    BY <1>2
  <2>3. faults' = 0 => faults = 0
    BY DEF Typed
  <2>4. \A t \in Tasks, r \in Roles : cache'[t][r] \in {None, cache[t][r]}
    BY <1>2
  <2>. QED
    BY <2>1, <2>2, <2>3, <2>4, StillInTable DEF SandboxInv
<1>. QED
  BY <1>2, <1>3, <1>4

\* A create that ends without a box: it fails, raises, loses a container to a
\* timeout, or has removed a box that did not answer.
LEMMA CreateGivesUp ==
  ASSUME Typed, SandboxInv, NEW c \in Callers,
         \/ CreateFails(c) \/ CreateRaises(c) \/ UnhealthyRemoved(c)
         \/ \E b \in Boxes : CreateLosesBox(c, b)
  PROVE  Typed' /\ SandboxInv'
<1>. DEFINE u == CallerTask(c)
            G == {mk[c].box} \ {None}
            Gone == mk[c].at = "remove" /\ live' = [live EXCEPT ![mk[c].box] = None]
            Lost == \E b \in Boxes : live[b] = None /\ ~NameTaken(u) /\ live' = [live EXCEPT ![b] = u]
<1>1. /\ mk[c].at # "idle" /\ GoesOn(c, None) /\ UNCHANGED <<backend, slots, warm>>
      /\ faults' = faults \/ Fault
      /\ \/ live' = live /\ (mk[c].at \in {"acquire", "start"} \/ Fault)
         \/ Gone
         \/ Lost /\ Fault
      /\ \/ c \in Making /\ permits' = permits + 1
         \/ permits' = permits /\ (c \notin Making \/ Fault)
  BY DEF CreateFails, CreateRaises, UnhealthyRemoved, CreateLosesBox, Making
<1>2. faults' \in 0..MaxFaults /\ faults' >= faults /\ (Fault => faults' > 0)
  BY <1>1, SandboxConstants DEF Typed, Fault
<1>3. /\ u \in Tasks
      /\ \A t \in Tasks, k \in Keys : slots[t][k] # None =>
           slots[t][k] \in Boxes /\ live[slots[t][k]] = t
      /\ \A d \in Callers : mk[d].box # None => mk[d].box \in Boxes
      /\ mk[c].at = "remove" => mk[c].box \in Boxes
  BY <1>1, CallerHasTask, HeldIsLive DEF SandboxInv, Phases
<1>. HIDE DEF u
<1>4. /\ live' \in [Boxes -> Some(Tasks)]
      /\ \A b \in Boxes : live[b] # None /\ b \notin G => live'[b] = live[b]
      /\ \/ \A b \in Boxes : live'[b] \in {None, live[b]}
         \/ Docker => \A b, d \in Boxes : live'[b] # None /\ live'[b] = live'[d] => b = d
  <2>1. CASE live' = live
    BY <2>1 DEF Typed
  <2>2. CASE Gone
    BY <1>3, <2>2, Distinct DEF Typed, Some
  <2>3. CASE Lost
    BY <1>3, <2>3, Distinct DEF Typed, Some, SandboxInv, OneEach, NameTaken
  <2>. QED
    BY <1>1, <2>1, <2>2, <2>3
<1>5. Readers' /\ Phases' /\ Owned' /\ Apart' /\ OneEach' /\ InTable'
  <2>. HIDE DEF G
  <2>1. G \subseteq {mk[c].box} \ {None}
    BY DEF G
  <2>. QED
    BY <1>1, <1>2, <1>4, <2>1, NothingMade
<1>6. /\ mk' \in [Callers -> Makers] /\ mk'[c].at = "idle" /\ mk'[c].box = None
      /\ \A d \in Callers : d # c => mk'[d] = mk[d]
      /\ run' \in [Tasks -> Runs] /\ job' \in [Stages -> Jobs]
      /\ \A t \in Tasks : run'[t].removing = run[t].removing
      /\ cache' \in [Tasks -> [Roles -> Some(Boxes)]] /\ req' \in [Stages -> Requests]
  <2>1. None \in Some(Boxes)
    BY DEF Some
  <2>. QED
    BY <1>1, <1>2, <2>1, WentOn DEF SandboxInv
<1>7. Typed'
  BY <1>1, <1>2, <1>4, <1>6 DEF Typed
<1>8. Known'
  <2>1. SUFFICES ASSUME faults' = 0
                 PROVE  Known'
    BY DEF Known
  <2>2. faults = 0 /\ ~Fault
    BY <1>2, <2>1 DEF Typed
  <2>3. CASE live' = live /\ mk[c].at \in {"acquire", "start"}
    BY <1>1, <1>6, <2>2, <2>3, SMTT(30) DEF SandboxInv, Known, Phases
  <2>4. CASE Gone
    <3>1. \A b \in Boxes : live'[b] # None => live[b] # None /\ b # mk[c].box
      BY <1>3, <2>4 DEF Typed
    <3>. QED
      BY <1>1, <1>6, <2>2, <3>1 DEF SandboxInv, Known
  <2>. QED
    BY <1>1, <2>2, <2>3, <2>4
<1>9. Balance'
  <2>1. Registered' = Registered /\ Removing' = Removing /\ Making' = Making \ {c}
    BY <1>1, <1>6 DEF Registered, Removing, Making, Docker
  <2>2. faults' = 0 => faults = 0
    BY <1>2 DEF Typed
  <2>3. CASE c \in Making /\ permits' = permits + 1
    BY <1>7, <2>1, <2>2, <2>3, BalanceMoves DEF SandboxInv, Typed
  <2>4. CASE permits' = permits /\ (c \notin Making \/ Fault)
    <3>1. permits' =< permits /\ (faults' = 0 => Making' = Making)
      BY <1>2, <2>1, <2>4 DEF Typed
    <3>. QED
      BY <1>7, <2>1, <2>2, <2>4, <3>1, BalanceStands DEF SandboxInv, Typed
  <2>. QED
    BY <1>1, <2>3, <2>4
<1>. QED
  BY <1>5, <1>7, <1>8, <1>9 DEF SandboxInv

\* The box enters the table.
LEMMA CreateReady ==
  ASSUME Typed, SandboxInv, NEW c \in Callers, Ready(c)
  PROVE  Typed' /\ SandboxInv'
<1>. DEFINE u == CallerTask(c)
            i == Key(c)
            box == mk[c].box
<1>1. /\ mk[c].at = "health" /\ GoesOn(c, box) /\ UNCHANGED <<backend, permits, live, warm>>
      /\ slots' = [slots EXCEPT ![u][i] = box]
      /\ faults' = IF slots[u][i] # None /\ faults < MaxFaults THEN faults + 1 ELSE faults
  BY DEF Ready
<1>2. /\ u \in Tasks /\ i \in Keys /\ box \in Boxes /\ box # None /\ live[box] = u
      /\ c \in Stages => u = job[c].task /\ i = RoleKey(job[c].role)
      /\ c \in Tasks => u = c /\ i = "default"
      /\ Docker => i = "default"
  BY <1>1, CallerHasTask, HeldIsLive, Distinct DEF SandboxInv, Phases, CallerTask, Key, RoleKey
<1>3. /\ faults' \in 0..MaxFaults /\ faults' >= faults
      /\ faults' = 0 => faults = 0 /\ slots[u][i] = None
  BY <1>1, SandboxConstants DEF Typed
<1>4. Docker \/ faults' = 0 => slots[u][i] = None
  <2>1. slots[u][i] # None => slots[u][i] \in Boxes /\ live[slots[u][i]] = u /\ slots[u][i] # box
    BY <1>2, HeldIsLive DEF SandboxInv, Apart
  <2>2. u # None
    BY <1>2, Distinct
  <2>. QED
    BY <1>2, <1>3, <2>1, <2>2 DEF SandboxInv, OneEach
<1>. HIDE DEF u, i, box
<1>5. /\ slots' \in [Tasks -> [Keys -> Some(Boxes)]] /\ slots'[u][i] = box
      /\ \A t \in Tasks, k \in Keys :
           \/ slots'[t][k] = slots[t][k] /\ (t # u \/ k # i)
           \/ slots'[t][k] = box /\ t = u /\ k = i
  BY <1>1, <1>2 DEF Typed, Some
<1>6. /\ mk' \in [Callers -> Makers] /\ mk'[c].at = "idle" /\ mk'[c].box = None
      /\ \A d \in Callers : d # c => mk'[d] = mk[d]
      /\ run' \in [Tasks -> Runs]
      /\ \A t \in Tasks : /\ run'[t].removing = run[t].removing /\ run'[t].todo = run[t].todo
                          /\ run[t].at = "stages" <=> run'[t].at = "stages"
                          /\ run[t].at = "cleanup" <=> run'[t].at = "cleanup"
                          /\ t # c => run'[t] = run[t]
                          /\ t = c => run'[t].info = box /\ run[t].at = "setup"
      /\ job' \in [Stages -> Jobs]
      /\ \A s \in Stages : /\ s # c => job'[s] = job[s]
                           /\ s = c => /\ job[s].at = "create"
                                       /\ job'[s].at = "use" /\ job'[s].box = box
                                       /\ job'[s].task = job[s].task /\ job'[s].role = job[s].role
      /\ cache' \in [Tasks -> [Roles -> Some(Boxes)]]
      /\ \A t \in Tasks, r \in Roles :
           \/ cache'[t][r] = cache[t][r]
           \/ c \in Stages /\ t = job[c].task /\ r = job[c].role /\ cache'[t][r] = box
      /\ req' \in [Stages -> Requests] /\ Readers' /\ Phases'
      /\ \A d \in Callers : d # c => CallerTask(d)' = CallerTask(d)
  <2>1. box \in Some(Boxes)
    BY <1>2 DEF Some
  <2>. QED
    BY <1>1, <1>2, <1>3, <2>1, WentOn DEF SandboxInv
<1>7. Typed'
  BY <1>1, <1>3, <1>5, <1>6 DEF Typed
<1>8. \A d \in Callers : d # c /\ mk[d].box # None => mk[d].box # box
  BY <1>2 DEF SandboxInv, Apart, box
<1>9. /\ \A t \in Tasks, k \in Keys : slots[t][k] # box
      /\ \A t \in Tasks : run[t].removing # box
  BY <1>2 DEF SandboxInv, Apart, box
<1>10. Owned'
  <2>1. (\A t \in Tasks, k \in Keys : slots[t][k] # None => live[slots[t][k]] = t)'
    BY <1>1, <1>2, <1>5 DEF SandboxInv, Owned
  <2>2. (\A d \in Callers : mk[d].box # None => live[mk[d].box] = CallerTask(d))'
    BY <1>1, <1>6 DEF SandboxInv, Owned
  <2>3. (\A t \in Tasks : run[t].removing # None => live[run[t].removing] = t)'
    BY <1>1, <1>6 DEF SandboxInv, Owned
  <2>. QED
    BY <2>1, <2>2, <2>3 DEF Owned
<1>11. Apart'
  <2>1. (\A t \in Tasks : \A j, k \in Keys : slots[t][j] # None /\ slots[t][j] = slots[t][k] => j = k)'
    BY <1>5, <1>9 DEF SandboxInv, Apart
  <2>2. (\A d, e \in Callers : mk[d].box # None /\ mk[d].box = mk[e].box => d = e)'
    BY <1>6 DEF SandboxInv, Apart
  <2>3. (\A d \in Callers, t \in Tasks, k \in Keys : mk[d].box # None => mk[d].box # slots[t][k])'
    <3>1. SUFFICES ASSUME NEW d \in Callers, NEW t \in Tasks, NEW k \in Keys, mk'[d].box # None
                   PROVE  mk'[d].box # slots'[t][k]
      OBVIOUS
    <3>2. d # c /\ mk'[d] = mk[d]
      BY <1>6, <3>1
    <3>3. mk[d].box # slots[t][k] /\ mk[d].box # box
      BY <1>8, <3>1, <3>2 DEF SandboxInv, Apart
    <3>. QED
      BY <1>5, <3>2, <3>3
  <2>4. (\A d \in Callers, t \in Tasks : mk[d].box # None => mk[d].box # run[t].removing)'
    BY <1>6 DEF SandboxInv, Apart
  <2>5. (\A t \in Tasks, k \in Keys : run[t].removing # None => run[t].removing # slots[t][k])'
    <3>1. SUFFICES ASSUME NEW t \in Tasks, NEW k \in Keys, run'[t].removing # None
                   PROVE  run'[t].removing # slots'[t][k]
      OBVIOUS
    <3>2. run[t].removing # slots[t][k] /\ run[t].removing # box
      BY <1>6, <1>9, <3>1 DEF SandboxInv, Apart
    <3>. QED
      BY <1>5, <1>6, <3>2
  <2>. QED
    BY <2>1, <2>2, <2>3, <2>4, <2>5 DEF Apart
<1>12. OneEach'
  BY <1>1, <1>2, <1>5, <1>6, Distinct DEF SandboxInv, OneEach, Docker
<1>13. InTable'
  <2>1. SUFFICES ASSUME Docker \/ faults' = 0
                 PROVE  InTable'
    BY <1>1 DEF InTable, Docker
  <2>2. slots[u][i] = None /\ (Docker \/ faults = 0)
    BY <1>3, <1>4, <2>1
  <2>3. \A t \in Tasks, k \in Keys : slots[t][k] # None => slots'[t][k] = slots[t][k]
    BY <1>5, <2>2
  <2>4. \A r \in Roles : RoleKey(r) \in Keys /\ RoleKey(r)' = RoleKey(r)
    BY <1>1, Distinct DEF RoleKey, Docker
  <2>5. (\A t \in Tasks, r \in Roles : cache[t][r] # None => cache[t][r] = slots[t][RoleKey(r)])'
    <3>1. SUFFICES ASSUME NEW t \in Tasks, NEW r \in Roles, cache'[t][r] # None
                   PROVE  cache'[t][r] = slots'[t][RoleKey(r)]
      BY <2>4
    <3>2. CASE cache'[t][r] = cache[t][r]
      <4>1. cache[t][r] = slots[t][RoleKey(r)]
        BY <2>2, <3>1, <3>2 DEF SandboxInv, InTable
      <4>. QED
        BY <2>3, <2>4, <3>1, <3>2, <4>1
    <3>3. CASE c \in Stages /\ t = job[c].task /\ r = job[c].role /\ cache'[t][r] = box
      BY <1>2, <1>5, <3>3
    <3>. QED
      BY <1>6, <3>2, <3>3
  <2>6. (\A t \in Tasks : run[t].at \in {"created", "stages"} /\ run[t].info # None
                            => run[t].info = slots[t]["default"])'
    <3>1. SUFFICES ASSUME NEW t \in Tasks, run'[t].at \in {"created", "stages"}, run'[t].info # None
                   PROVE  run'[t].info = slots'[t]["default"]
      OBVIOUS
    <3>2. CASE t = c
      BY <1>2, <1>5, <1>6, <3>2
    <3>3. CASE t # c
      <4>1. run[t].info # None /\ run[t].info = slots[t]["default"]
        BY <1>6, <2>2, <3>1, <3>3 DEF SandboxInv, InTable
      <4>. QED
        BY <1>6, <2>3, <3>3, <4>1, Distinct
    <3>. QED
      BY <3>2, <3>3
  <2>7. ASSUME NEW s \in Stages, job'[s].at = "use", ~job'[s].left
        PROVE  (/\ job[s].box # None
                /\ \/ job[s].box = slots[job[s].task]["default"]
                   \/ job[s].box = slots[job[s].task][RoleKey(job[s].role)])'
    <3>1. CASE s = c
      <4>1. /\ job'[s].box = box /\ job'[s].task = u
            /\ job'[s].role = job[c].role /\ job[c].role \in Roles
        BY <1>2, <1>6, <3>1 DEF SandboxInv, Phases
      <4>2. slots'[u][RoleKey(job[c].role)] = box
        BY <1>2, <1>5, <3>1
      <4>. QED
        BY <1>1, <1>2, <4>1, <4>2 DEF RoleKey, Docker
    <3>2. CASE s # c
      <4>1. job'[s] = job[s] /\ job[s].task \in Tasks /\ job[s].role \in Roles
        BY <1>6, <2>7, <3>2 DEF SandboxInv, Phases
      <4>. QED
        <5>1. /\ job[s].box # None
              /\ \/ job[s].box = slots[job[s].task]["default"]
                 \/ job[s].box = slots[job[s].task][RoleKey(job[s].role)]
          BY <2>2, <2>7, <4>1 DEF SandboxInv, InTable
        <5>. QED
          BY <1>1, <2>3, <4>1, <5>1, Distinct DEF RoleKey, Docker
    <3>. QED
      BY <3>1, <3>2
  <2>8. (\A t \in Tasks, r \in Roles :
          ~Docker /\ r \in run[t].todo => cache[t][r] = None /\ slots[t][r] # None)'
    <3>1. SUFFICES ASSUME NEW t \in Tasks, ~Docker, NEW r \in Roles, r \in run[t].todo
                   PROVE  cache'[t][r] = None /\ slots'[t][r] # None
      BY <1>1, <1>6 DEF Docker
    <3>2. cache[t][r] = None /\ slots[t][r] # None /\ r \in Keys
      BY <2>2, <3>1 DEF SandboxInv, InTable, Keys
    <3>3. c \in Stages => t # job[c].task \/ r # job[c].role
      BY <1>2, <2>2, <3>1, <3>2 DEF RoleKey
    <3>. QED
      BY <1>6, <2>3, <3>2, <3>3
  <2>. QED
    BY <2>5, <2>6, <2>7, <2>8 DEF InTable
<1>14. Known'
  <2>1. SUFFICES ASSUME faults' = 0, NEW b \in Boxes, live[b] # None
                 PROVE  \/ \E t \in Tasks, k \in Keys : slots'[t][k] = b
                        \/ \E t \in Tasks : run'[t].removing = b
                        \/ \E d \in Callers : mk'[d].box = b
    BY <1>1 DEF Known
  <2>2. CASE b = box
    BY <1>2, <1>5, <2>2
  <2>3. CASE b # box
    <3>1. \/ \E t \in Tasks, k \in Keys : slots[t][k] = b
          \/ \E t \in Tasks : run[t].removing = b
          \/ \E d \in Callers : mk[d].box = b
      BY <1>3, <2>1 DEF SandboxInv, Known
    <3>2. slots[u][i] # b
      BY <1>3, <2>1, Distinct
    <3>3. ASSUME NEW t \in Tasks, NEW k \in Keys, slots[t][k] = b
          PROVE  slots'[t][k] = b
      BY <1>5, <3>2, <3>3
    <3>4. ASSUME NEW d \in Callers, mk[d].box = b
          PROVE  mk'[d].box = b
      BY <1>6, <2>3, <3>4 DEF box
    <3>. QED
      BY <1>6, <3>1, <3>3, <3>4
  <2>. QED
    BY <2>2, <2>3
<1>15. Balance'
  <2>1. Removing' = Removing /\ Making' = Making \ {c} /\ c \in Making
    BY <1>1, <1>6 DEF Removing, Making, Docker
  <2>2. /\ Cardinality(Making') = Cardinality(Making) - 1 /\ Cardinality(Making') \in Nat
        /\ Cardinality(Removing') = Cardinality(Removing)
    BY <2>1, Counted, FS_RemoveElement, FS_CardinalityType
  <2>3. Registered' \subseteq Registered \cup {box} /\ box \notin Registered
    BY <1>5, <1>9 DEF Registered
  <2>4. slots[u][i] = None => Registered' = Registered \cup {box}
    <3>1. SUFFICES ASSUME slots[u][i] = None
                   PROVE  Registered \cup {box} \subseteq Registered'
      BY <2>3
    <3>2. box \in Registered'
      BY <1>2, <1>5 DEF Registered
    <3>3. ASSUME NEW x \in Registered
          PROVE  x \in Registered'
      <4>1. PICK t \in Tasks, k \in Keys : x = slots[t][k] /\ x # None
        BY DEF Registered
      <4>2. slots'[t][k] = x
        BY <1>5, <3>1, <4>1
      <4>. QED
        BY <4>1, <4>2 DEF Registered
    <3>. QED
      BY <3>2, <3>3
  <2>5. Cardinality(Registered \cup {box}) = Cardinality(Registered) + 1
        /\ IsFiniteSet(Registered \cup {box})
    BY <2>3, Counted, FS_AddElement
  <2>6. /\ Cardinality(Registered') \in Nat /\ Cardinality(Registered') =< Cardinality(Registered) + 1
        /\ slots[u][i] = None => Cardinality(Registered') = Cardinality(Registered) + 1
    BY <2>3, <2>4, <2>5, FS_Subset, FS_CardinalityType
  <2>7. MaxConcurrent \in Nat
    BY SandboxConstants
  <2>8. /\ permits \in Nat /\ permits' = permits
        /\ permits + (Cardinality(Registered) + Cardinality(Making) + Cardinality(Removing))
             =< MaxConcurrent
        /\ faults = 0 =>
             permits + (Cardinality(Registered) + Cardinality(Making) + Cardinality(Removing))
               = MaxConcurrent
    BY <1>1 DEF SandboxInv, Typed, Balance, Taken
  <2>. QED
    BY <1>3, <2>2, <2>6, <2>7, <2>8, Counted DEF Balance, Taken
<1>. QED
  BY <1>6, <1>7, <1>10, <1>11, <1>12, <1>13, <1>14, <1>15 DEF SandboxInv

----------------------------------------------------------------------------
(* A run and its stages.                                                   *)

\* A step that touches neither boxes nor table: callers begin or, when that
\* is a fault if they were under way, are cancelled.
LEMMA SameBoxes ==
  ASSUME Typed, Typed', SandboxInv, UNCHANGED <<backend, permits, slots, live>>,
         faults' = 0 => faults = 0,
         \A c \in Callers :
            \/ mk'[c] = mk[c] /\ (mk[c].box # None => CallerTask(c)' = CallerTask(c))
            \/ /\ mk'[c].box = None /\ mk'[c].at \in {"idle", "acquire"}
               /\ mk[c].at \in {"idle", "acquire"} \/ faults' > 0,
         \A t \in Tasks : /\ \/ run'[t].removing = run[t].removing
                             \/ run'[t].removing = None /\ faults' > 0
                          /\ run'[t].todo \subseteq run[t].todo
  PROVE  Owned' /\ Apart' /\ OneEach' /\ Known' /\ Balance'
<1>1. Owned' /\ Apart' /\ OneEach'
  <2>. DEFINE G == {}
  <2>1. \A x : x \notin G
    OBVIOUS
  <2>. HIDE DEF G
  <2>2. \A c \in Callers : mk'[c].box # None =>
             /\ mk'[c].box = mk[c].box /\ mk'[c].box \notin G
             /\ CallerTask(c)' = CallerTask(c) /\ CallerTask(c) # None
    <3>. SUFFICES ASSUME NEW c \in Callers, mk'[c].box # None
                  PROVE  /\ mk'[c].box = mk[c].box /\ mk'[c].box \notin G
                         /\ CallerTask(c)' = CallerTask(c) /\ CallerTask(c) # None
      OBVIOUS
    <3>1. mk'[c] = mk[c] /\ CallerTask(c)' = CallerTask(c)
      OBVIOUS
    <3>2. CallerTask(c) \in Tasks
      BY <3>1, HeldIsLive DEF SandboxInv
    <3>. QED
      BY <2>1, <3>1, <3>2, Distinct
  <2>3. \A t \in Tasks : /\ run'[t].removing # None =>
                               run'[t].removing = run[t].removing /\ run'[t].removing \notin G
                         /\ run'[t].todo \subseteq run[t].todo
    BY <2>1
  <2>4. /\ \A b \in Boxes : live[b] # None /\ b \notin G => live'[b] = live[b]
        /\ \A b \in Boxes : live'[b] \in {None, live[b]}
        /\ \A t \in Tasks, k \in Keys : slots[t][k] \notin G
    BY <2>1
  <2>. QED
    BY <2>2, <2>3, <2>4, Standing DEF SandboxInv
<1>2. faults' = 0 => /\ \A c \in Callers : mk[c].box = mk'[c].box
                     /\ \A t \in Tasks : run'[t].removing = run[t].removing
  BY DEF SandboxInv, Phases
<1>3. Known'
  BY <1>2, StillKnown DEF SandboxInv
<1>4. Balance'
  <2>1. Registered' = Registered /\ permits' = permits /\ permits \in Nat
    BY DEF Registered, Typed
  <2>2. Removing' \subseteq Removing
    BY DEF Removing
  <2>3. Making' \subseteq Making
    <3>1. \A c \in Callers : mk'[c] = mk[c] \/ mk'[c].at \in {"idle", "acquire"}
      OBVIOUS
    <3>. QED
      BY <3>1 DEF Making, Docker
  <2>4. ASSUME faults' = 0
        PROVE  Removing' = Removing /\ Making' = Making
    <3>1. Removing' = Removing
      BY <1>2, <2>4 DEF Removing
    <3>2. \A c \in Callers : mk'[c] = mk[c] \/ (mk'[c].at \in {"idle", "acquire"} /\ mk[c].at \in {"idle", "acquire"})
      BY <2>4
    <3>. QED
      BY <3>1, <3>2 DEF Making, Docker
  <2>. QED
    BY <2>1, <2>2, <2>3, <2>4, BalanceStands DEF SandboxInv
<1>. QED
  BY <1>1, <1>3, <1>4

\* A run starts.
LEMMA RunStarts ==
  ASSUME Typed, SandboxInv, NEW t \in Tasks, StartRun(t)
  PROVE  Typed' /\ SandboxInv'
<1>1. /\ \A v \in Tasks : run[v].at = "none"
      /\ run' = [run EXCEPT ![t].at = "setup"] /\ mk' = [mk EXCEPT ![t].at = "acquire"]
      /\ UNCHANGED <<backend, permits, slots, cache, live, job, faults, warm, req>>
  BY DEF StartRun, serverVars
<1>2. /\ run' \in [Tasks -> Runs] /\ run'[t].at = "setup"
      /\ \A v \in Tasks : /\ run'[v].removing = run[v].removing /\ run'[v].todo = run[v].todo
                          /\ run'[v].at \in {"none", "setup"}
  BY <1>1 DEF Typed, Runs
<1>3. mk[t].at = "idle" /\ mk[t].box = None
  BY <1>1, Distinct DEF SandboxInv, Phases
<1>4. /\ mk' \in [Callers -> Makers] /\ mk'[t].at = "acquire" /\ mk'[t].box = None
      /\ \A c \in Callers : c # t => mk'[c] = mk[c]
  BY <1>1, <1>3, Distinct DEF Typed, Makers
<1>5. Typed'
  BY <1>1, <1>2, <1>4 DEF Typed
<1>6. Readers'
  BY <1>1 DEF SandboxInv, Readers
<1>7. Phases'
  BY <1>1, <1>2, <1>3, <1>4, Distinct DEF SandboxInv, Phases
<1>8. Owned' /\ Apart' /\ OneEach' /\ Known' /\ Balance'
  <2>1. \A c \in Callers : \/ mk'[c] = mk[c] /\ CallerTask(c)' = CallerTask(c)
                           \/ /\ mk'[c].box = None /\ mk'[c].at \in {"idle", "acquire"}
                              /\ mk[c].at \in {"idle", "acquire"}
    BY <1>1, <1>3, <1>4 DEF CallerTask
  <2>. QED
    BY <1>1, <1>2, <1>5, <2>1, SameBoxes
<1>9. InTable'
  <2>1. \A v \in Tasks : run'[v].at \notin {"created", "stages"} /\ run'[v].todo = run[v].todo
    BY <1>2
  <2>. QED
    BY <1>1, <2>1, StillInTable DEF SandboxInv
<1>. QED
  BY <1>5, <1>6, <1>7, <1>8, <1>9 DEF SandboxInv

\* The set-up hands over to the stages, or the run ends when none is out.
LEMMA RunMovesOn ==
  ASSUME Typed, SandboxInv, NEW t \in Tasks, SetupDone(t) \/ RunEnds(t)
  PROVE  Typed' /\ SandboxInv'
<1>1. PICK next \in {"stages", "ending"} :
        /\ run' = [run EXCEPT ![t].at = next]
        /\ UNCHANGED <<backend, permits, slots, cache, live, mk, job, faults, warm, req>>
        /\ run[t].at \in {"created", "stages"}
        /\ next = "stages" \/ StagesOf(t) = {}
  BY DEF SetupDone, RunEnds, serverVars
<1>2. /\ run' \in [Tasks -> Runs] /\ run'[t].at = next
      /\ \A v \in Tasks : /\ run'[v].removing = run[v].removing /\ run'[v].todo = run[v].todo
                          /\ run'[v].info = run[v].info
                          /\ v # t => run'[v] = run[v]
  BY <1>1 DEF Typed, Runs
<1>3. Typed'
  BY <1>1, <1>2 DEF Typed
<1>4. Readers'
  BY <1>1 DEF SandboxInv, Readers
<1>5. Phases'
  <2>1. ASSUME NEW s \in Stages, job[s].at # "idle"
        PROVE  /\ job[s].task \in Tasks /\ job[s].role \in Roles
               /\ ~job[s].left => run'[job[s].task].at = "stages"
    BY <1>1, <1>2, <2>1 DEF SandboxInv, Phases, StagesOf
  <2>2. (\A v \in Tasks : mk[v].at # "idle" => run[v].at = "setup")'
    BY <1>1, <1>2 DEF SandboxInv, Phases
  <2>3. (\A v \in Tasks : run[v].removing = None <=> run[v].at # "cleanup")'
    BY <1>1, <1>2 DEF SandboxInv, Phases
  <2>. QED
    BY <1>1, <2>1, <2>2, <2>3 DEF SandboxInv, Phases
<1>6. Owned' /\ Apart' /\ OneEach' /\ Known' /\ Balance'
  <2>1. \A c \in Callers : mk'[c] = mk[c] /\ CallerTask(c)' = CallerTask(c)
    BY <1>1 DEF CallerTask
  <2>. QED
    BY <1>1, <1>2, <1>3, <2>1, SameBoxes
<1>7. InTable'
  <2>1. \A v \in Tasks : /\ run'[v].at \in {"created", "stages"} /\ run'[v].info # None =>
                               run[v].at \in {"created", "stages"} /\ run'[v].info = run[v].info
                         /\ run'[v].todo \subseteq run[v].todo
    BY <1>1, <1>2
  <2>. QED
    BY <1>1, <2>1, StillInTable DEF SandboxInv
<1>. QED
  BY <1>3, <1>4, <1>5, <1>6, <1>7 DEF SandboxInv

\* A stage starts: what it takes from its run or from the cache is in the
\* table.
LEMMA StageBegins ==
  ASSUME Typed, SandboxInv, NEW s \in Stages, NEW t \in Tasks, NEW r \in Roles, StageStarts(s, t, r)
  PROVE  Typed' /\ SandboxInv'
<1>. DEFINE box == IF run[t].info # None THEN run[t].info ELSE cache[t][r]
            j == [NoJob EXCEPT !.at = IF box = None THEN "create" ELSE "use",
                               !.task = t, !.role = r, !.box = box]
<1>1. /\ run[t].at = "stages" /\ job[s].at = "idle" /\ job' = [job EXCEPT ![s] = j]
      /\ mk' = IF box = None THEN [mk EXCEPT ![s].at = "acquire"] ELSE mk
      /\ req' = IF box = None THEN req ELSE Use(s, box)
      /\ UNCHANGED <<backend, permits, slots, cache, live, run, faults, warm>>
  BY DEF StageStarts
<1>2. box \in Some(Boxes)
  BY DEF Typed, Runs
<1>3. Docker \/ faults = 0 =>
        \/ box = None
        \/ box = slots[t]["default"]
        \/ box = slots[t][RoleKey(r)]
  BY <1>1 DEF SandboxInv, InTable
<1>. HIDE DEF box
<1>4. /\ j \in Jobs /\ j.at = IF box = None THEN "create" ELSE "use"
      /\ j.task = t /\ j.role = r /\ j.box = box /\ ~j.left
  BY <1>2 DEF NoJob, Jobs, Some
<1>. HIDE DEF j
<1>5. job' \in [Stages -> Jobs] /\ job'[s] = j /\ \A u \in Stages : u # s => job'[u] = job[u]
  BY <1>1, <1>4 DEF Typed
<1>6. mk[s].at = "idle" /\ mk[s].box = None
  BY <1>1, Distinct DEF SandboxInv, Phases
<1>7. /\ mk' \in [Callers -> Makers] /\ mk'[s].box = None
      /\ mk'[s].at = IF box = None THEN "acquire" ELSE "idle"
      /\ \A c \in Callers : c # s => mk'[c] = mk[c]
  BY <1>1, <1>6, Distinct DEF Typed, Makers
<1>8. req' \in [Stages -> Requests] /\ Readers'
  BY <1>1, <1>2, PostIsRead DEF Typed, SandboxInv, Readers
<1>9. Typed'
  BY <1>1, <1>5, <1>7, <1>8 DEF Typed
<1>10. Phases'
  BY <1>1, <1>4, <1>5, <1>7, Distinct DEF SandboxInv, Phases
<1>11. Owned' /\ Apart' /\ OneEach' /\ Known' /\ Balance'
  <2>1. \A c \in Callers : \/ mk'[c] = mk[c] /\ (mk[c].box # None => CallerTask(c)' = CallerTask(c))
                           \/ /\ mk'[c].box = None /\ mk'[c].at \in {"idle", "acquire"}
                              /\ mk[c].at \in {"idle", "acquire"}
    BY <1>5, <1>6, <1>7, Distinct DEF CallerTask
  <2>. QED
    BY <1>1, <1>9, <2>1, SameBoxes
<1>12. InTable'
  <2>1. SUFFICES ASSUME Docker \/ faults = 0
                 PROVE  InTable'
    BY <1>1 DEF InTable, Docker
  <2>2. ASSUME NEW u \in Stages, job'[u].at = "use", ~job'[u].left
        PROVE  (/\ job[u].box # None
                /\ \/ job[u].box = slots[job[u].task]["default"]
                   \/ job[u].box = slots[job[u].task][RoleKey(job[u].role)])'
    <3>1. CASE u = s
      BY <1>1, <1>3, <1>4, <1>5, <2>1, <2>2, <3>1 DEF RoleKey, Docker
    <3>2. CASE u # s
      <4>1. /\ job[u].box # None
            /\ \/ job[u].box = slots[job[u].task]["default"]
               \/ job[u].box = slots[job[u].task][RoleKey(job[u].role)]
        BY <1>5, <2>1, <2>2, <3>2 DEF SandboxInv, InTable
      <4>. QED
        BY <1>1, <1>5, <3>2, <4>1 DEF RoleKey, Docker
    <3>. QED
      BY <3>1, <3>2
  <2>3. (/\ \A v \in Tasks, q \in Roles : cache[v][q] # None => cache[v][q] = slots[v][RoleKey(q)]
         /\ \A v \in Tasks : run[v].at \in {"created", "stages"} /\ run[v].info # None
                               => run[v].info = slots[v]["default"]
         /\ \A v \in Tasks, q \in Roles :
              ~Docker /\ q \in run[v].todo => cache[v][q] = None /\ slots[v][q] # None)'
    BY <1>1, <2>1 DEF SandboxInv, InTable, RoleKey, Docker
  <2>. QED
    BY <2>2, <2>3 DEF InTable
<1>. QED
  BY <1>8, <1>9, <1>10, <1>11, <1>12 DEF SandboxInv

\* A stage ends.
LEMMA StageFinishes ==
  ASSUME Typed, SandboxInv, NEW s \in Stages, StageEnds(s)
  PROVE  Typed' /\ SandboxInv'
<1>1. /\ job[s].at = "use" /\ job' = [job EXCEPT ![s] = NoJob] /\ req' = [req EXCEPT ![s] = Left(@)]
      /\ UNCHANGED <<backend, permits, slots, cache, live, run, mk, faults, warm>>
  BY DEF StageEnds
<1>2. NoJob \in Jobs /\ NoJob.at = "idle"
  BY DEF NoJob, Jobs, Some
<1>3. job' \in [Stages -> Jobs] /\ job'[s].at = "idle" /\ \A u \in Stages : u # s => job'[u] = job[u]
  <2>. HIDE DEF NoJob
  <2>. QED
    BY <1>1, <1>2 DEF Typed
<1>4. mk[s].at = "idle" /\ mk[s].box = None
  BY <1>1, Distinct DEF SandboxInv, Phases
<1>5. req' \in [Stages -> Requests] /\ Readers'
  <2>1. Left(req[s]) \in Requests /\ Read(Left(req[s]))
    BY LeftIsRead DEF Typed, SandboxInv, Readers
  <2>2. req' = [req EXCEPT ![s] = Left(req[s])]
    BY <1>1
  <2>. QED
    BY <2>1, <2>2, OneRequest DEF Typed, SandboxInv
<1>6. Typed'
  BY <1>1, <1>3, <1>5 DEF Typed
<1>7. Phases'
  BY <1>1, <1>3, <1>4, Distinct DEF SandboxInv, Phases
<1>8. Owned' /\ Apart' /\ OneEach' /\ Known' /\ Balance'
  <2>1. \A c \in Callers : mk'[c] = mk[c] /\ (mk[c].box # None => CallerTask(c)' = CallerTask(c))
    BY <1>1, <1>3, <1>4, Distinct DEF CallerTask
  <2>. QED
    BY <1>1, <1>6, <2>1, SameBoxes
<1>9. InTable'
  BY <1>1, <1>3, StillInTable DEF SandboxInv
<1>. QED
  BY <1>5, <1>6, <1>7, <1>8, <1>9 DEF SandboxInv

\* The server inside a box works on.
LEMMA ServerWorks ==
  ASSUME Typed, SandboxInv, ServerStep, UNCHANGED poolVars
  PROVE  Typed' /\ SandboxInv'
<1>1. UNCHANGED <<backend, permits, slots, cache, live, run, mk, job, faults>>
  BY DEF poolVars
<1>2. warm' \in [Boxes -> SUBSET WarmUps] /\ req' \in [Stages -> Requests] /\ Readers'
  BY ServerKeeps DEF Typed, SandboxInv
<1>3. Typed'
  BY <1>1, <1>2 DEF Typed
<1>4. Phases'
  BY <1>1 DEF SandboxInv, Phases
<1>5. Owned' /\ Apart' /\ OneEach' /\ Known' /\ Balance'
  <2>1. \A c \in Callers : mk'[c] = mk[c] /\ CallerTask(c)' = CallerTask(c)
    BY <1>1 DEF CallerTask
  <2>. QED
    BY <1>1, <1>3, <2>1, SameBoxes
<1>6. InTable'
  BY <1>1, StillInTable DEF SandboxInv
<1>. QED
  BY <1>2, <1>3, <1>4, <1>5, <1>6 DEF SandboxInv

----------------------------------------------------------------------------
(* The timeout of the task.                                                *)

LEMMA SetupTimesOut ==
  ASSUME Typed, SandboxInv, NEW t \in Tasks, TimeoutInSetup(t)
  PROVE  Typed' /\ SandboxInv'
<1>1. /\ run[t].at \in {"setup", "created"} /\ run' = [run EXCEPT ![t] = NoRun]
      /\ mk' = [c \in Callers |-> IF c \in {t} THEN NotMaking ELSE mk[c]]
      /\ UNCHANGED <<backend, permits, slots, cache, live, job, warm, req>>
      /\ IF mk[t].at \in {"idle", "acquire"} THEN faults' = faults ELSE Fault
  BY DEF TimeoutInSetup, Abandon, serverVars
<1>2. /\ faults' \in 0..MaxFaults /\ faults' >= faults /\ (faults' = 0 => faults = 0)
      /\ mk[t].at \in {"idle", "acquire"} \/ faults' > 0
  BY <1>1, SandboxConstants DEF Typed, Fault
<1>3. NoRun \in Runs /\ NoRun.at = "none" /\ NoRun.removing = None /\ NoRun.todo = {}
  BY DEF NoRun, Runs, Some
<1>4. /\ run' \in [Tasks -> Runs] /\ run'[t] = NoRun
      /\ \A v \in Tasks : v # t => run'[v] = run[v]
  <2>. HIDE DEF NoRun
  <2>. QED
    BY <1>1, <1>3 DEF Typed
<1>5. NotMaking \in Makers /\ NotMaking.at = "idle" /\ NotMaking.box = None
  BY DEF NotMaking, Makers, Some
<1>6. /\ mk' \in [Callers -> Makers] /\ mk'[t].at = "idle" /\ mk'[t].box = None
      /\ \A c \in Callers : c # t => mk'[c] = mk[c]
  <2>. HIDE DEF NotMaking
  <2>. QED
    BY <1>1, <1>5, Distinct DEF Typed
<1>7. Typed'
  BY <1>1, <1>2, <1>4, <1>6 DEF Typed
<1>8. Readers'
  BY <1>1 DEF SandboxInv, Readers
<1>9. run[t].removing = None
  BY <1>1 DEF SandboxInv, Phases
<1>10. Phases'
  <2>1. faults > 0 => faults' > 0
    BY <1>2 DEF Typed
  <2>. HIDE DEF NoRun
  <2>. QED
    BY <1>1, <1>3, <1>4, <1>6, <2>1, Distinct DEF SandboxInv, Phases
<1>11. Owned' /\ Apart' /\ OneEach' /\ Known' /\ Balance'
  <2>1. \A c \in Callers : \/ mk'[c] = mk[c] /\ CallerTask(c)' = CallerTask(c)
                           \/ /\ mk'[c].box = None /\ mk'[c].at \in {"idle", "acquire"}
                              /\ mk[c].at \in {"idle", "acquire"} \/ faults' > 0
    BY <1>1, <1>2, <1>6 DEF CallerTask
  <2>2. \A v \in Tasks : run'[v].removing = run[v].removing /\ run'[v].todo \subseteq run[v].todo
    BY <1>3, <1>4, <1>9
  <2>. QED
    BY <1>1, <1>2, <1>7, <2>1, <2>2, SameBoxes
<1>12. InTable'
  <2>1. \A v \in Tasks : /\ run'[v].at \in {"created", "stages"} /\ run'[v].info # None =>
                               run[v].at \in {"created", "stages"} /\ run'[v].info = run[v].info
                         /\ run'[v].todo \subseteq run[v].todo
    BY <1>3, <1>4
  <2>. QED
    BY <1>1, <1>2, <2>1, StillInTable DEF SandboxInv
<1>. QED
  BY <1>7, <1>8, <1>10, <1>11, <1>12 DEF SandboxInv

\* The run leaves its stages: some are cancelled, the others go on.
LEMMA StagesAreLeft ==
  ASSUME Typed, SandboxInv, NEW t \in Tasks, NEW C, LeaveStages(t, C)
  PROVE  Typed' /\ SandboxInv'
<1>. DEFINE mine == StagesOf(t)
            gone(s) == [job[s] EXCEPT !.left = TRUE]
<1>1. /\ run[t].at = "stages" /\ run' = [run EXCEPT ![t].at = "ending"] /\ C \subseteq mine
      /\ mk' = [c \in Callers |-> IF c \in C THEN NotMaking ELSE mk[c]]
      /\ job' = [s \in Stages |-> IF s \in C THEN NoJob
                                  ELSE IF s \in mine THEN gone(s) ELSE job[s]]
      /\ req' = [s \in Stages |-> IF s \in C THEN Left(req[s]) ELSE req[s]]
      /\ UNCHANGED <<backend, permits, slots, cache, live, warm>>
      /\ IF \A s \in C : mk[s].at \in {"idle", "acquire"} THEN faults' = faults ELSE Fault
  BY DEF LeaveStages, Abandon
<1>2. /\ faults' \in 0..MaxFaults /\ faults' >= faults /\ (faults' = 0 => faults = 0)
      /\ (\A s \in C : mk[s].at \in {"idle", "acquire"}) \/ faults' > 0
  BY <1>1, SandboxConstants DEF Typed, Fault
<1>3. /\ \A s \in Stages : s \notin mine /\ job[s].at # "idle" /\ ~job[s].left => job[s].task # t
      /\ mine \subseteq Stages /\ C \subseteq Stages
  BY <1>1 DEF StagesOf
<1>. HIDE DEF mine
<1>4. /\ run' \in [Tasks -> Runs] /\ run'[t].at = "ending"
      /\ \A v \in Tasks : /\ run'[v].removing = run[v].removing /\ run'[v].todo = run[v].todo
                          /\ v # t => run'[v] = run[v]
  BY <1>1 DEF Typed, Runs
<1>5. /\ NotMaking \in Makers /\ NotMaking.at = "idle" /\ NotMaking.box = None
      /\ NoJob \in Jobs /\ NoJob.at = "idle"
  BY DEF NotMaking, Makers, NoJob, Jobs, Some
<1>6. /\ mk' \in [Callers -> Makers]
      /\ \A c \in C : mk'[c].at = "idle" /\ mk'[c].box = None
      /\ \A c \in Callers : c \notin C => mk'[c] = mk[c]
      /\ job' \in [Stages -> Jobs]
      /\ \A s \in C : job'[s].at = "idle"
      /\ \A s \in Stages : s \notin C =>
           /\ job'[s].at = job[s].at /\ job'[s].task = job[s].task
           /\ job'[s].role = job[s].role /\ job'[s].box = job[s].box
           /\ job'[s].at # "idle" /\ ~job'[s].left => ~job[s].left /\ job[s].task # t
  <2>1. \A s \in Stages :
          /\ job[s] \in Jobs /\ gone(s) \in Jobs /\ gone(s).left
          /\ gone(s).at = job[s].at /\ gone(s).task = job[s].task
          /\ gone(s).role = job[s].role /\ gone(s).box = job[s].box
    BY DEF Typed, Jobs
  <2>. HIDE DEF NotMaking, NoJob, gone
  <2>2. /\ mk' \in [Callers -> Makers]
        /\ \A c \in C : mk'[c].at = "idle" /\ mk'[c].box = None
        /\ \A c \in Callers : c \notin C => mk'[c] = mk[c]
    BY <1>1, <1>3, <1>5, Distinct DEF Typed, Callers
  <2>3. job' \in [Stages -> Jobs] /\ \A s \in C : job'[s].at = "idle"
    BY <1>1, <1>3, <1>5, <2>1
  <2>4. \A s \in Stages : s \notin C => job'[s] = IF s \in mine THEN gone(s) ELSE job[s]
    BY <1>1
  <2>. QED
    BY <1>3, <2>1, <2>2, <2>3, <2>4
<1>7. req' \in [Stages -> Requests] /\ Readers'
  <2>1. \A s \in Stages : /\ req[s] \in Requests /\ Left(req[s]) \in Requests
                          /\ Read(req[s]) /\ Read(Left(req[s]))
    BY LeftIsRead DEF Typed, SandboxInv, Readers
  <2>2. \A s \in Stages : req'[s] \in {req[s], Left(req[s])}
    BY <1>1
  <2>3. req' \in [Stages -> Requests]
    BY <1>1, <2>1
  <2>. QED
    BY <2>1, <2>2, <2>3 DEF Readers
<1>8. Typed'
  BY <1>1, <1>2, <1>4, <1>6, <1>7 DEF Typed
<1>9. Phases'
  <2>1. faults > 0 => faults' > 0
    BY <1>2 DEF Typed
  <2>2. ASSUME NEW s \in Stages, job'[s].at # "idle"
        PROVE  /\ job'[s].task \in Tasks /\ job'[s].role \in Roles
               /\ ~job'[s].left => run'[job'[s].task].at = "stages"
    <3>1. s \notin C /\ job[s].at # "idle" /\ job'[s].task = job[s].task /\ job'[s].role = job[s].role
      BY <1>6, <2>2
    <3>2. /\ job[s].task \in Tasks /\ job[s].role \in Roles
          /\ ~job[s].left => run[job[s].task].at = "stages"
      BY <3>1 DEF SandboxInv, Phases
    <3>3. ~job'[s].left => ~job[s].left /\ job[s].task # t
      BY <1>6, <2>2, <3>1
    <3>. QED
      BY <1>4, <3>1, <3>2, <3>3
  <2>3. (\A s \in Stages : mk[s].at # "idle" => job[s].at = "create")'
    BY <1>6, Distinct DEF SandboxInv, Phases
  <2>4. (\A v \in Tasks : mk[v].at # "idle" => run[v].at = "setup")'
    BY <1>1, <1>3, <1>4, <1>6, Distinct DEF SandboxInv, Phases
  <2>5. (\A c \in Callers : mk[c].box = None <=> mk[c].at \in {"idle", "acquire", "start"})'
    BY <1>6 DEF SandboxInv, Phases
  <2>6. (\A v \in Tasks : run[v].removing = None <=> run[v].at # "cleanup")'
    BY <1>1, <1>4 DEF SandboxInv, Phases
  <2>. QED
    BY <2>2, <2>3, <2>4, <2>5, <2>6 DEF Phases
<1>10. Owned' /\ Apart' /\ OneEach' /\ Known' /\ Balance'
  <2>1. \A c \in Callers : \/ mk'[c] = mk[c] /\ CallerTask(c)' = CallerTask(c)
                           \/ /\ mk'[c].box = None /\ mk'[c].at \in {"idle", "acquire"}
                              /\ mk[c].at \in {"idle", "acquire"} \/ faults' > 0
    BY <1>2, <1>6, Distinct DEF CallerTask
  <2>. QED
    BY <1>1, <1>2, <1>4, <1>8, <2>1, SameBoxes
<1>11. InTable'
  <2>1. \A v \in Tasks : /\ run'[v].at \in {"created", "stages"} /\ run'[v].info # None =>
                               run[v].at \in {"created", "stages"} /\ run'[v].info = run[v].info
                         /\ run'[v].todo \subseteq run[v].todo
    BY <1>4
  <2>2. \A s \in Stages : job'[s].at = "use" /\ ~job'[s].left =>
             /\ job[s].at = "use" /\ ~job[s].left /\ job'[s].box = job[s].box
             /\ job'[s].task = job[s].task /\ job'[s].role = job[s].role
    <3>1. SUFFICES ASSUME NEW s \in Stages, job'[s].at = "use", ~job'[s].left
                   PROVE  /\ job[s].at = "use" /\ ~job[s].left /\ job'[s].box = job[s].box
                          /\ job'[s].task = job[s].task /\ job'[s].role = job[s].role
      OBVIOUS
    <3>2. s \notin C
      BY <1>6, <3>1
    <3>. QED
      BY <1>6, <3>1, <3>2
  <2>. QED
    BY <1>1, <1>2, <2>1, <2>2, StillInTable DEF SandboxInv
<1>. QED
  BY <1>7, <1>8, <1>9, <1>10, <1>11 DEF SandboxInv

LEMMA CleanupTimesOut ==
  ASSUME Typed, SandboxInv, NEW t \in Tasks, TimeoutInCleanup(t)
  PROVE  Typed' /\ SandboxInv'
<1>1. PICK q \in {NoRun, [NoRun EXCEPT !.at = "ending"]} : run' = [run EXCEPT ![t] = q]
  BY DEF TimeoutInCleanup
<1>2. /\ run[t].at = "cleanup" /\ Fault
      /\ UNCHANGED <<backend, permits, slots, cache, live, mk, job, warm, req>>
  BY DEF TimeoutInCleanup, serverVars
<1>3. faults' \in 0..MaxFaults /\ faults' > 0
  BY <1>2, SandboxConstants DEF Typed, Fault
<1>4. q \in Runs /\ q.at \in {"none", "ending"} /\ q.removing = None /\ q.todo = {}
  BY DEF NoRun, Runs, Some
<1>5. /\ run' \in [Tasks -> Runs] /\ run'[t] = q
      /\ \A v \in Tasks : v # t => run'[v] = run[v]
  BY <1>1, <1>4 DEF Typed
<1>6. Typed'
  BY <1>2, <1>3, <1>5 DEF Typed
<1>7. Readers'
  BY <1>2 DEF SandboxInv, Readers
<1>8. Phases'
  BY <1>2, <1>3, <1>4, <1>5 DEF SandboxInv, Phases
<1>9. Owned' /\ Apart' /\ OneEach' /\ Known' /\ Balance'
  <2>1. \A c \in Callers : mk'[c] = mk[c] /\ CallerTask(c)' = CallerTask(c)
    BY <1>2 DEF CallerTask
  <2>2. \A v \in Tasks : /\ \/ run'[v].removing = run[v].removing
                            \/ run'[v].removing = None /\ faults' > 0
                         /\ run'[v].todo \subseteq run[v].todo
    BY <1>3, <1>4, <1>5
  <2>3. faults' = 0 => faults = 0
    BY <1>3
  <2>. QED
    BY <1>2, <1>6, <2>1, <2>2, <2>3, SameBoxes
<1>10. InTable'
  <2>1. \A v \in Tasks : /\ run'[v].at \in {"created", "stages"} /\ run'[v].info # None =>
                               run[v].at \in {"created", "stages"} /\ run'[v].info = run[v].info
                         /\ run'[v].todo \subseteq run[v].todo
    BY <1>4, <1>5
  <2>. QED
    BY <1>2, <1>3, <2>1, StillInTable DEF SandboxInv
<1>. QED
  BY <1>6, <1>7, <1>8, <1>9, <1>10 DEF SandboxInv

----------------------------------------------------------------------------
(* The removal of the sandboxes of a run.                                  *)

\* The box that was being removed is done with, and the next one leaves the
\* table.
LEMMA NextIsRemoved ==
  ASSUME Typed, SandboxInv, NEW t \in Tasks, NEW keys \in SUBSET Keys, RemoveNext(t, keys),
         run[t].at \in {"ending", "cleanup"}, UNCHANGED <<backend, mk, job>>,
         Docker => "default" \notin keys \/ keys \subseteq {"default"},
         warm' \in [Boxes -> SUBSET WarmUps], req' \in [Stages -> Requests], Readers',
         faults' \in 0..MaxFaults, faults' >= faults,
         \A b \in Boxes : \/ live'[b] = live[b]
                          \/ b = run[t].removing /\ live'[b] = None,
         live' \in [Boxes -> Some(Tasks)],
         permits' = IF run[t].removing = None THEN permits ELSE permits + 1,
         faults' = 0 /\ run[t].removing # None => live'[run[t].removing] = None,
         cache' \in [Tasks -> [Roles -> Some(Boxes)]],
         \A v \in Tasks, r \in Roles : cache'[v][r] \in {None, cache[v][r]},
         Docker \/ faults' = 0 =>
            \/ Docker /\ slots' = slots
            \/ \A r \in Roles : RoleKey(r) \in keys => cache'[t][r] = None /\ slots[t][RoleKey(r)] # None
  PROVE  Typed' /\ SandboxInv'
<1>. DEFINE old == run[t].removing
<1>1. \/ slots' = slots /\ run' = [run EXCEPT ![t] = NoRun]
      \/ \E k \in keys :
           /\ slots[t][k] # None /\ slots' = [slots EXCEPT ![t][k] = None]
           /\ run' = [run EXCEPT ![t] = [at |-> "cleanup", info |-> None,
                                         todo |-> keys \ {k}, removing |-> slots[t][k]]]
  BY DEF RemoveNext
<1>2. \E q \in Runs : run' = [run EXCEPT ![t] = q]
  <2>1. NoRun \in Runs
    BY DEF NoRun, Runs, Some
  <2>2. ASSUME NEW k \in keys
        PROVE  [at |-> "cleanup", info |-> None, todo |-> keys \ {k}, removing |-> slots[t][k]] \in Runs
    BY DEF Typed, Runs, Some
  <2>. QED
    BY <1>1, <2>1, <2>2
<1>3. run' \in [Tasks -> Runs] /\ \A v \in Tasks : v # t => run'[v] = run[v]
  BY <1>2 DEF Typed
<1>4. slots' \in [Tasks -> [Keys -> Some(Boxes)]]
  <2>1. None \in Some(Boxes)
    BY DEF Some
  <2>2. CASE slots' = slots
    BY <2>2 DEF Typed
  <2>3. ASSUME NEW k \in keys, slots' = [slots EXCEPT ![t][k] = None]
        PROVE  slots' \in [Tasks -> [Keys -> Some(Boxes)]]
    BY <2>1, <2>3 DEF Typed
  <2>. QED
    BY <1>1, <2>2, <2>3
<1>5. permits' \in Nat
  BY DEF Typed
<1>6. Typed'
  BY <1>3, <1>4, <1>5 DEF Typed
<1>7. /\ run'[t].info = None /\ run'[t].at \in {"none", "cleanup"}
      /\ run'[t].at = "cleanup" <=> run'[t].removing # None
      /\ Docker => "default" \notin run'[t].todo
      /\ run'[t].removing = None => run'[t].todo = {}
  <2>1. /\ NoRun.info = None /\ NoRun.at = "none" /\ NoRun.removing = None /\ NoRun.todo = {}
    BY DEF NoRun
  <2>. HIDE DEF NoRun
  <2>. QED
    BY <1>1, <2>1 DEF Typed
<1>8. \A v \in Tasks, k \in Keys : slots'[v][k] # None => slots'[v][k] = slots[v][k]
  BY <1>1 DEF Typed
<1>9. run'[t].removing # None =>
        \E k \in Keys : /\ k \in keys /\ run'[t].todo = keys \ {k}
                        /\ run'[t].removing = slots[t][k]
                        /\ slots'[t][k] = None /\ slots[t][k] # None
                        /\ \A v \in Tasks, j \in Keys : v # t \/ j # k => slots'[v][j] = slots[v][j]
  <2>. SUFFICES ASSUME run'[t].removing # None
                PROVE  \E k \in Keys :
                         /\ k \in keys /\ run'[t].todo = keys \ {k}
                         /\ run'[t].removing = slots[t][k]
                         /\ slots'[t][k] = None /\ slots[t][k] # None
                         /\ \A v \in Tasks, j \in Keys :
                              v # t \/ j # k => slots'[v][j] = slots[v][j]
    OBVIOUS
  <2>1. run' # [run EXCEPT ![t] = NoRun]
    BY DEF Typed, NoRun
  <2>2. PICK k \in keys :
          /\ slots[t][k] # None /\ slots' = [slots EXCEPT ![t][k] = None]
          /\ run' = [run EXCEPT ![t] = [at |-> "cleanup", info |-> None,
                                        todo |-> keys \ {k}, removing |-> slots[t][k]]]
    BY <1>1, <2>1
  <2>3. k \in Keys /\ run'[t].removing = slots[t][k] /\ run'[t].todo = keys \ {k}
    BY <2>2 DEF Typed
  <2>4. \A v \in Tasks, j \in Keys :
          slots'[v][j] = IF v = t /\ j = k THEN None ELSE slots[v][j]
    BY <2>2 DEF Typed
  <2>. QED
    BY <2>2, <2>3, <2>4
<1>10. run'[t].removing = None => slots' = slots
  BY <1>1 DEF Typed
<1>11. /\ \A v \in Tasks, k \in Keys : slots[v][k] # None =>
            slots[v][k] \in Boxes /\ live[slots[v][k]] = v /\ v # None
       /\ \A c \in Callers : mk[c].box # None =>
            mk[c].box \in Boxes /\ live[mk[c].box] = CallerTask(c) /\ CallerTask(c) \in Tasks
       /\ \A v \in Tasks : run[v].removing # None =>
            run[v].removing \in Boxes /\ live[run[v].removing] = v /\ v # None
  BY HeldIsLive DEF SandboxInv
\* Nobody else holds the box that goes.
<1>12. /\ \A v \in Tasks, k \in Keys : slots[v][k] # None => slots[v][k] # old
       /\ \A c \in Callers : mk[c].box # None => mk[c].box # old
       /\ \A v \in Tasks : run[v].removing # None /\ v # t => run[v].removing # old
  BY <1>11 DEF SandboxInv, Apart
<1>. HIDE DEF old
<1>13. \A b \in Boxes : b # old => live'[b] = live[b]
  BY DEF old
<1>14. Phases'
  <2>1. ASSUME NEW s \in Stages, job[s].at # "idle"
        PROVE  /\ job[s].task \in Tasks /\ job[s].role \in Roles
               /\ ~job[s].left => run'[job[s].task].at = "stages"
    BY <1>3, <2>1 DEF SandboxInv, Phases
  <2>2. (\A s \in Stages : mk[s].at # "idle" => job[s].at = "create")'
    BY DEF SandboxInv, Phases
  <2>3. (\A v \in Tasks : mk[v].at # "idle" => run[v].at = "setup")'
    BY <1>3 DEF SandboxInv, Phases
  <2>4. (\A c \in Callers : mk[c].box = None <=> mk[c].at \in {"idle", "acquire", "start"})'
    BY DEF SandboxInv, Phases
  <2>5. (\A v \in Tasks : run[v].removing = None <=> run[v].at # "cleanup")'
    BY <1>3, <1>7 DEF SandboxInv, Phases
  <2>. QED
    BY <2>1, <2>2, <2>3, <2>4, <2>5 DEF Phases
<1>15. \A c \in Callers : CallerTask(c)' = CallerTask(c)
  BY DEF CallerTask
<1>16. Owned'
  <2>1. (\A v \in Tasks, k \in Keys : slots[v][k] # None => live[slots[v][k]] = v)'
    BY <1>8, <1>11, <1>12, <1>13
  <2>2. (\A c \in Callers : mk[c].box # None => live[mk[c].box] = CallerTask(c))'
    BY <1>11, <1>12, <1>13, <1>15
  <2>3. ASSUME NEW v \in Tasks, run'[v].removing # None
        PROVE  live'[run'[v].removing] = v
    <3>1. CASE v = t
      BY <1>9, <1>11, <1>12, <1>13, <2>3, <3>1
    <3>2. CASE v # t
      BY <1>3, <1>11, <1>12, <1>13, <2>3, <3>2
    <3>. QED
      BY <3>1, <3>2
  <2>. QED
    BY <2>1, <2>2, <2>3 DEF Owned
<1>17. Apart'
  <2>1. (\A v \in Tasks : \A j, k \in Keys : slots[v][j] # None /\ slots[v][j] = slots[v][k] => j = k)'
    <3>1. ASSUME NEW v \in Tasks, NEW j \in Keys, NEW k \in Keys,
                 slots'[v][j] # None, slots'[v][j] = slots'[v][k]
          PROVE  j = k
      BY <1>8, <3>1 DEF SandboxInv, Apart
    <3>. QED
      BY <3>1
  <2>2. (\A c, d \in Callers : mk[c].box # None /\ mk[c].box = mk[d].box => c = d)'
    BY DEF SandboxInv, Apart
  <2>3. (\A c \in Callers, v \in Tasks, k \in Keys : mk[c].box # None => mk[c].box # slots[v][k])'
    BY <1>8 DEF SandboxInv, Apart
  <2>4. ASSUME NEW c \in Callers, NEW v \in Tasks, mk[c].box # None
        PROVE  mk[c].box # run'[v].removing
    BY <1>3, <1>9, <2>4 DEF SandboxInv, Apart
  <2>5. ASSUME NEW v \in Tasks, NEW k \in Keys, run'[v].removing # None
        PROVE  run'[v].removing # slots'[v][k]
    <3>1. CASE v # t
      BY <1>3, <1>8, <2>5, <3>1 DEF SandboxInv, Apart
    <3>2. CASE v = t
      <4>1. PICK j \in Keys : /\ run'[t].removing = slots[t][j] /\ slots'[t][j] = None /\ slots[t][j] # None
        BY <1>9, <2>5, <3>2
      <4>2. slots'[t][k] = slots[t][j] => j = k
        BY <1>8, <4>1 DEF SandboxInv, Apart
      <4>. QED
        BY <3>2, <4>1, <4>2
    <3>. QED
      BY <3>1, <3>2
  <2>. QED
    BY <2>1, <2>2, <2>3, <2>4, <2>5 DEF Apart
<1>18. OneEach'
  <2>1. SUFFICES ASSUME Docker
                 PROVE  /\ \A b, d \in Boxes : live'[b] # None /\ live'[b] = live'[d] => b = d
                        /\ \A v \in Tasks : "default" \notin run'[v].todo /\ \A r \in Roles : slots'[v][r] = None
    BY DEF OneEach, Docker
  <2>2. \A b, d \in Boxes : live'[b] # None /\ live'[b] = live'[d] => b = d
    BY <2>1 DEF SandboxInv, OneEach
  <2>3. ASSUME NEW v \in Tasks
        PROVE  "default" \notin run'[v].todo /\ \A r \in Roles : slots'[v][r] = None
    <3>1. \A r \in Roles : slots'[v][r] = None
      BY <1>8, <2>1, Distinct DEF SandboxInv, OneEach
    <3>2. CASE v = t
      BY <1>7, <2>1, <3>1, <3>2
    <3>3. CASE v # t
      BY <1>3, <2>1, <3>1, <3>3 DEF SandboxInv, OneEach
    <3>. QED
      BY <3>2, <3>3
  <2>. QED
    BY <2>2, <2>3
<1>19. InTable'
  <2>1. SUFFICES ASSUME Docker \/ faults' = 0
                 PROVE  InTable'
    BY DEF InTable, Docker
  <2>2. Docker \/ faults = 0
    BY <2>1 DEF Typed
  <2>3. \A v \in Tasks, k \in Keys : v # t => slots'[v][k] = slots[v][k]
    BY <1>9, <1>10
  <2>4. (\A v \in Tasks, r \in Roles : cache[v][r] # None => cache[v][r] = slots[v][RoleKey(r)])'
    <3>1. SUFFICES ASSUME NEW v \in Tasks, NEW r \in Roles, cache'[v][r] # None
                   PROVE  cache'[v][r] = slots'[v][RoleKey(r)]
      BY DEF RoleKey, Docker
    <3>2. cache'[v][r] = slots[v][RoleKey(r)] /\ RoleKey(r) \in Keys
      BY <2>2, <3>1, Distinct DEF SandboxInv, InTable, RoleKey
    <3>3. v # t \/ slots' = slots \/ RoleKey(r) \notin keys
      BY <2>1, <3>1
    <3>. QED
      BY <1>9, <1>10, <2>3, <3>2, <3>3
  <2>5. (\A v \in Tasks : run[v].at \in {"created", "stages"} /\ run[v].info # None
                            => run[v].info = slots[v]["default"])'
    BY <1>3, <1>7, <2>2, <2>3, Distinct DEF SandboxInv, InTable
  <2>6. ASSUME NEW s \in Stages, job[s].at = "use", ~job[s].left
        PROVE  (/\ job[s].box # None
                /\ \/ job[s].box = slots[job[s].task]["default"]
                   \/ job[s].box = slots[job[s].task][RoleKey(job[s].role)])'
    <3>1. job[s].task \in Tasks /\ job[s].task # t /\ job[s].role \in Roles
      BY <2>6 DEF SandboxInv, Phases
    <3>2. /\ job[s].box # None
          /\ \/ job[s].box = slots[job[s].task]["default"]
             \/ job[s].box = slots[job[s].task][RoleKey(job[s].role)]
      BY <2>2, <2>6 DEF SandboxInv, InTable
    <3>. QED
      BY <2>3, <3>1, <3>2, Distinct DEF RoleKey, Docker
  <2>7. (\A v \in Tasks, r \in Roles :
          ~Docker /\ r \in run[v].todo => cache[v][r] = None /\ slots[v][r] # None)'
    <3>1. SUFFICES ASSUME NEW v \in Tasks, ~Docker, NEW r \in Roles, r \in run'[v].todo
                   PROVE  cache'[v][r] = None /\ slots'[v][r] # None
      BY DEF Docker
    <3>2. r \in Keys /\ RoleKey(r) = r
      BY <3>1 DEF RoleKey, Keys
    <3>3. CASE v = t
      <4>1. run'[t].removing # None
        BY <1>7, <3>1, <3>3
      <4>2. r \in keys /\ slots'[t][r] = slots[t][r]
        BY <1>9, <3>1, <3>2, <3>3, <4>1
      <4>. QED
        BY <2>1, <3>1, <3>2, <3>3, <4>2
    <3>4. CASE v # t
      <4>1. cache[v][r] = None /\ slots[v][r] # None
        BY <1>3, <2>2, <3>1, <3>4 DEF SandboxInv, InTable
      <4>. QED
        BY <2>3, <3>2, <3>4, <4>1
    <3>. QED
      BY <3>3, <3>4
  <2>. QED
    BY <2>4, <2>5, <2>6, <2>7 DEF InTable
<1>20. Known'
  <2>1. SUFFICES ASSUME faults' = 0, NEW b \in Boxes, live'[b] # None
                 PROVE  \/ \E v \in Tasks, k \in Keys : slots'[v][k] = b
                        \/ \E v \in Tasks : run'[v].removing = b
                        \/ \E c \in Callers : mk'[c].box = b
    BY DEF Known
  <2>2. faults = 0 /\ live[b] # None /\ b # old
    BY <2>1, Distinct DEF Typed, old
  <2>3. \/ \E v \in Tasks, k \in Keys : slots[v][k] = b
        \/ \E v \in Tasks : run[v].removing = b
        \/ \E c \in Callers : mk[c].box = b
    BY <2>2 DEF SandboxInv, Known
  <2>4. ASSUME NEW v \in Tasks, NEW k \in Keys, slots[v][k] = b
        PROVE  slots'[v][k] = b \/ run'[t].removing = b
    BY <1>9, <1>10, <2>4
  <2>5. ASSUME NEW v \in Tasks, run[v].removing = b
        PROVE  run'[v].removing = b
    BY <1>3, <2>2, <2>5 DEF old
  <2>. QED
    BY <2>3, <2>4, <2>5
<1>21. Balance'
  <2>1. Making' = Making
    BY DEF Making, Docker
  <2>2. \A v \in Tasks : v # t => (v \in Removing' <=> v \in Removing)
    BY <1>3 DEF Removing
  <2>3. t \in Removing <=> old # None
    BY DEF Removing, old
  <2>4. t \in Removing' <=> run'[t].removing # None
    BY DEF Removing
  <2>5. Removing \subseteq Tasks /\ Removing' \subseteq Tasks
    BY DEF Removing
  <2>6. /\ Cardinality(Removing \cup {t}) = IF old # None THEN Cardinality(Removing) ELSE Cardinality(Removing) + 1
        /\ Cardinality(Removing \ {t}) = IF old # None THEN Cardinality(Removing) - 1 ELSE Cardinality(Removing)
    BY <2>3, Counted, FS_AddElement, FS_RemoveElement
  <2>7. permits \in Nat /\ permits' = IF old = None THEN permits ELSE permits + 1
    BY DEF Typed, old
  <2>8. /\ permits + (Cardinality(Registered) + Cardinality(Making) + Cardinality(Removing))
             =< MaxConcurrent
        /\ faults = 0 =>
             permits + (Cardinality(Registered) + Cardinality(Making) + Cardinality(Removing))
               = MaxConcurrent
    BY DEF SandboxInv, Balance, Taken
  <2>9. /\ Cardinality(Registered') \in Nat
        /\ Cardinality(Registered') = IF run'[t].removing = None THEN Cardinality(Registered)
                                      ELSE Cardinality(Registered) - 1
    <3>1. CASE run'[t].removing = None
      <4>1. Registered' = Registered
        BY <1>10, <3>1 DEF Registered
      <4>. QED
        BY <3>1, <4>1, Counted
    <3>2. CASE run'[t].removing # None
      <4>1. PICK k \in Keys :
              /\ slots'[t][k] = None /\ slots[t][k] # None
              /\ \A v \in Tasks, j \in Keys : v # t \/ j # k => slots'[v][j] = slots[v][j]
        BY <1>9, <3>2
      <4>2. \A v \in Tasks, j \in Keys : slots[v][j] = slots[t][k] => v = t /\ j = k
        BY <1>11, <4>1 DEF SandboxInv, Apart
      <4>3. Registered' = Registered \ {slots[t][k]} /\ slots[t][k] \in Registered
        <5>1. ASSUME NEW x \in Registered'
              PROVE  x \in Registered \ {slots[t][k]}
          <6>1. PICK v \in Tasks, j \in Keys : slots'[v][j] = x /\ x # None
            BY DEF Registered
          <6>2. slots[v][j] = x /\ (v # t \/ j # k)
            BY <4>1, <6>1
          <6>. QED
            BY <4>2, <6>1, <6>2 DEF Registered
        <5>2. ASSUME NEW x \in Registered, x # slots[t][k]
              PROVE  x \in Registered'
          <6>1. PICK v \in Tasks, j \in Keys : slots[v][j] = x /\ x # None
            BY DEF Registered
          <6>2. slots'[v][j] = x
            BY <4>1, <5>2, <6>1
          <6>. QED
            BY <6>1, <6>2 DEF Registered
        <5>3. slots[t][k] \in Registered
          BY <4>1 DEF Registered
        <5>. QED
          BY <5>1, <5>2, <5>3
      <4>. QED
        BY <3>2, <4>3, Counted, FS_RemoveElement, FS_CardinalityType
    <3>. QED
      BY <3>1, <3>2
  <2>10. Removing' = IF run'[t].removing = None THEN Removing \ {t} ELSE Removing \cup {t}
    BY <2>2, <2>4, <2>5
  <2>11. MaxConcurrent \in Nat /\ (faults' = 0 => faults = 0)
    BY SandboxConstants DEF Typed
  <2>. QED
    BY <2>1, <2>6, <2>7, <2>8, <2>9, <2>10, <2>11, Counted DEF Balance, Taken
<1>. QED
  BY <1>6, <1>14, <1>16, <1>17, <1>18, <1>19, <1>20, <1>21 DEF SandboxInv

LEMMA RunCleansUp ==
  ASSUME Typed, SandboxInv, NEW t \in Tasks, CleanUp(t) \/ Removed(t) \/ RemovalFails(t)
  PROVE  Typed' /\ SandboxInv'
<1>1. CASE CleanUp(t)
  <2>. DEFINE keys == {k \in Keys : slots[t][k] # None}
  <2>1. /\ run[t].at = "ending" /\ RemoveNext(t, keys)
        /\ cache' = [cache EXCEPT ![t] = [r \in Roles |-> None]]
        /\ UNCHANGED <<backend, permits, live, mk, job, faults, warm, req>>
    BY <1>1 DEF CleanUp, serverVars
  <2>2. keys \in SUBSET Keys
    OBVIOUS
  <2>3. /\ Docker => keys \subseteq {"default"}
        /\ \A k \in keys : slots[t][k] # None
    BY Distinct DEF SandboxInv, OneEach
  <2>. HIDE DEF keys
  <2>4. run[t].removing = None
    BY <2>1 DEF SandboxInv, Phases
  <2>5. /\ cache' \in [Tasks -> [Roles -> Some(Boxes)]]
        /\ \A v \in Tasks, r \in Roles : cache'[v][r] \in {None, cache[v][r]}
        /\ \A r \in Roles : cache'[t][r] = None
    BY <2>1 DEF Typed, Some
  <2>6. /\ warm' \in [Boxes -> SUBSET WarmUps] /\ req' \in [Stages -> Requests]
        /\ faults' \in 0..MaxFaults /\ faults' >= faults /\ permits' = permits
        /\ live' \in [Boxes -> Some(Tasks)] /\ \A b \in Boxes : live'[b] = live[b]
    BY <2>1 DEF Typed
  <2>7. Readers'
    BY <2>1 DEF SandboxInv, Readers
  <2>. QED
    BY <2>1, <2>2, <2>3, <2>4, <2>5, <2>6, <2>7, NextIsRemoved
<1>2. CASE Removed(t) \/ RemovalFails(t)
  <2>. DEFINE keys == run[t].todo
              box == run[t].removing
  <2>1. /\ run[t].removing # None /\ RemoveNext(t, keys)
        /\ permits' = permits + 1
        /\ UNCHANGED <<backend, cache, mk, job>>
        /\ \/ Remove({box}) /\ faults' = faults
           \/ UNCHANGED <<live, warm, req>> /\ Fault
    BY <1>2 DEF Removed, RemovalFails, serverVars
  <2>2. run[t].at = "cleanup" /\ keys \in SUBSET Keys /\ (Docker => "default" \notin keys)
    BY <2>1 DEF SandboxInv, Phases, OneEach, Typed, Runs
  <2>3. Docker => slots' = slots
    <3>1. Docker => {k \in keys : slots[t][k] # None} = {}
      BY <2>2, Distinct DEF SandboxInv, OneEach
    <3>. QED
      BY <2>1, <3>1 DEF RemoveNext
  <2>4. /\ faults' \in 0..MaxFaults /\ faults' >= faults /\ (Fault => faults' > 0)
    BY <2>1, SandboxConstants DEF Typed, Fault
  <2>5. Docker \/ faults' = 0 =>
          \/ Docker /\ slots' = slots
          \/ \A r \in Roles : RoleKey(r) \in keys => cache'[t][r] = None /\ slots[t][RoleKey(r)] # None
    <3>1. CASE Docker
      BY <2>3, <3>1
    <3>2. CASE ~Docker /\ faults' = 0
      <4>1. faults = 0
        BY <2>4, <3>2 DEF Typed
      <4>. QED
        BY <2>1, <3>2, <4>1 DEF SandboxInv, InTable, RoleKey
    <3>. QED
      BY <3>1, <3>2
  <2>6. box \in Boxes
    BY <2>1 DEF Typed, Runs, Some
  <2>. HIDE DEF keys
  <2>7. /\ live' \in [Boxes -> Some(Tasks)] /\ warm' \in [Boxes -> SUBSET WarmUps]
        /\ \A b \in Boxes : live'[b] = live[b] \/ (b = box /\ live'[b] = None)
        /\ faults' = 0 => live'[box] = None
    <3>1. CASE Remove({box}) /\ faults' = faults
      BY <2>6, <3>1 DEF Remove, Typed, Some
    <3>2. CASE UNCHANGED <<live, warm, req>> /\ Fault
      BY <2>4, <3>2 DEF Typed
    <3>. QED
      BY <2>1, <3>1, <3>2
  <2>8. req' \in [Stages -> Requests] /\ Readers'
    <3>1. CASE Remove({box})
      <4>1. req' = [s \in Stages |-> Cut(req[s], {box})]
        BY <3>1 DEF Remove
      <4>2. \A s \in Stages : Cut(req[s], {box}) \in Requests /\ Read(Cut(req[s], {box}))
        BY CutIsRead DEF Typed, SandboxInv, Readers
      <4>. QED
        BY <4>1, <4>2 DEF Readers
    <3>2. CASE UNCHANGED <<live, warm, req>>
      BY <3>2 DEF Typed, SandboxInv, Readers
    <3>. QED
      BY <2>1, <3>1, <3>2
  <2>9. /\ cache' \in [Tasks -> [Roles -> Some(Boxes)]]
        /\ \A v \in Tasks, r \in Roles : cache'[v][r] \in {None, cache[v][r]}
    BY <2>1 DEF Typed
  <2>. QED
    BY <2>1, <2>2, <2>4, <2>5, <2>7, <2>8, <2>9, NextIsRemoved
<1>. QED
  BY <1>1, <1>2

----------------------------------------------------------------------------
(* The ends of the process, the initial states, and all steps.             *)

LEMMA ProcessEnds ==
  ASSUME Typed, SandboxInv, Shutdown \/ Crash
  PROVE  Typed' /\ SandboxInv'
<1>1. PICK B : /\ Restart(B)
               /\ \/ /\ B = Registered /\ faults' = faults
                     /\ \A t \in Tasks : run[t].at = "none"
                     /\ \A c \in Callers : mk[c].at \in {"idle", "acquire"}
                  \/ Fault
  BY DEF Shutdown, Crash
<1>2. /\ permits' = MaxConcurrent /\ slots' = EmptySlots /\ cache' = EmptyCache
      /\ run' = [t \in Tasks |-> NoRun] /\ mk' = [c \in Callers |-> NotMaking]
      /\ job' = [s \in Stages |-> NoJob]
      /\ live' = [b \in Boxes |-> IF b \in B THEN None ELSE live[b]]
      /\ warm' = [b \in Boxes |-> IF b \in B THEN {} ELSE warm[b]]
      /\ req' = [s \in Stages |-> Cut(Left(req[s]), B)]
      /\ UNCHANGED backend
  BY <1>1 DEF Restart
<1>3. /\ faults' \in 0..MaxFaults /\ faults' >= faults /\ (Fault => faults' > 0)
      /\ MaxConcurrent \in Nat
  BY <1>1, SandboxConstants DEF Typed, Fault
<1>4. /\ NoRun \in Runs /\ NotMaking \in Makers /\ NoJob \in Jobs
      /\ NoRun.at = "none" /\ NoRun.removing = None /\ NoRun.todo = {}
      /\ NotMaking.at = "idle" /\ NotMaking.box = None /\ NoJob.at = "idle"
  BY DEF NoRun, Runs, NotMaking, Makers, NoJob, Jobs, Some
<1>5. /\ \A t \in Tasks, k \in Keys : slots'[t][k] = None
      /\ \A t \in Tasks, r \in Roles : cache'[t][r] = None
      /\ slots' \in [Tasks -> [Keys -> Some(Boxes)]] /\ cache' \in [Tasks -> [Roles -> Some(Boxes)]]
  BY <1>2 DEF EmptySlots, EmptyCache, Some
<1>6. live' \in [Boxes -> Some(Tasks)] /\ \A b \in Boxes : live'[b] \in {None, live[b]}
  BY <1>2 DEF Typed, Some
<1>7. req' \in [Stages -> Requests] /\ Readers'
  <2>1. \A s \in Stages : Left(req[s]) \in Requests /\ Read(Left(req[s]))
    BY LeftIsRead DEF Typed, SandboxInv, Readers
  <2>2. \A s \in Stages : Cut(Left(req[s]), B) \in Requests /\ Read(Cut(Left(req[s]), B))
    BY <2>1, CutIsRead
  <2>. QED
    BY <1>2, <2>2 DEF Readers
<1>8. /\ run' \in [Tasks -> Runs] /\ mk' \in [Callers -> Makers] /\ job' \in [Stages -> Jobs]
      /\ \A t \in Tasks : run'[t] = NoRun
      /\ \A c \in Callers : mk'[c] = NotMaking
      /\ \A s \in Stages : job'[s] = NoJob
  <2>. HIDE DEF NoRun, NotMaking, NoJob
  <2>. QED
    BY <1>2, <1>4
<1>9. warm' \in [Boxes -> SUBSET WarmUps]
  BY <1>2 DEF Typed
<1>10. Typed'
  BY <1>2, <1>3, <1>5, <1>6, <1>7, <1>8, <1>9 DEF Typed
<1>. HIDE DEF NoRun, NotMaking, NoJob
<1>11. Phases'
  BY <1>4, <1>8, Distinct DEF Phases
<1>12. Owned' /\ Apart'
  BY <1>4, <1>5, <1>8 DEF Owned, Apart
<1>13. OneEach'
  <2>1. Docker' => \A b, d \in Boxes : live'[b] # None /\ live'[b] = live'[d] => b = d
    BY <1>2, <1>6 DEF SandboxInv, OneEach, Docker
  <2>2. \A t \in Tasks : "default" \notin run'[t].todo /\ \A r \in Roles : slots'[t][r] = None
    BY <1>4, <1>5, <1>8, Distinct
  <2>. QED
    BY <2>1, <2>2 DEF OneEach
<1>14. InTable'
  BY <1>4, <1>5, <1>8 DEF InTable
<1>15. Known'
  <2>1. SUFFICES ASSUME faults' = 0, NEW b \in Boxes, live'[b] # None
                 PROVE  FALSE
    BY DEF Known
  <2>2. /\ faults = 0 /\ B = Registered /\ \A t \in Tasks : run[t].at = "none"
        /\ \A c \in Callers : mk[c].at \in {"idle", "acquire"}
    BY <1>1, <1>3, <2>1 DEF Typed
  <2>3. live[b] # None /\ b \notin Registered /\ b # None
    BY <1>2, <2>1, <2>2, Distinct
  <2>4. \A t \in Tasks, k \in Keys : slots[t][k] # b
    BY <2>3 DEF Registered
  <2>5. \A t \in Tasks : run[t].removing = None
    BY <2>2 DEF SandboxInv, Phases
  <2>6. \A c \in Callers : mk[c].box = None
    BY <2>2 DEF SandboxInv, Phases
  <2>. QED
    BY <2>2, <2>3, <2>4, <2>5, <2>6 DEF SandboxInv, Known
<1>16. Balance'
  <2>1. Registered' = {} /\ Making' = {} /\ Removing' = {}
    BY <1>4, <1>5, <1>8 DEF Registered, Making, Removing
  <2>. QED
    BY <1>2, <1>3, <2>1, FS_EmptySet DEF Balance, Taken
<1>. QED
  BY <1>7, <1>10, <1>11, <1>12, <1>13, <1>14, <1>15, <1>16 DEF SandboxInv

LEMMA StartsRight == Init => Typed /\ SandboxInv
<1>. SUFFICES ASSUME Init
              PROVE  Typed /\ SandboxInv
  OBVIOUS
<1>1. /\ warm = [b \in Boxes |-> {}] /\ req = [s \in Stages |-> NoRequest]
      /\ backend \in {"docker", "boxlite"} /\ permits = MaxConcurrent /\ faults = 0
      /\ slots = EmptySlots /\ cache = EmptyCache /\ live = [b \in Boxes |-> None]
      /\ run = [t \in Tasks |-> NoRun] /\ mk = [c \in Callers |-> NotMaking]
      /\ job = [s \in Stages |-> NoJob]
  BY DEF Init, ServerInit
<1>2. /\ NoRun \in Runs /\ NotMaking \in Makers /\ NoJob \in Jobs /\ NoRequest \in Requests
      /\ NoRun.at = "none" /\ NoRun.removing = None /\ NoRun.todo = {}
      /\ NotMaking.at = "idle" /\ NotMaking.box = None /\ NoJob.at = "idle"
      /\ NoRequest.at = "none" /\ NoRequest.final = FALSE
  BY DEF NoRun, Runs, NotMaking, Makers, NoJob, Jobs, Some, NoRequest, Requests, WarmUps
<1>. HIDE DEF NoRun, NotMaking, NoJob, NoRequest
<1>3. /\ \A t \in Tasks, k \in Keys : slots[t][k] = None
      /\ \A t \in Tasks, r \in Roles : cache[t][r] = None
      /\ slots \in [Tasks -> [Keys -> Some(Boxes)]] /\ cache \in [Tasks -> [Roles -> Some(Boxes)]]
  BY <1>1 DEF EmptySlots, EmptyCache, Some
<1>4. /\ \A t \in Tasks : run[t] = NoRun
      /\ \A c \in Callers : mk[c] = NotMaking
      /\ \A s \in Stages : job[s] = NoJob /\ req[s] = NoRequest
  BY <1>1
<1>5. MaxConcurrent \in Nat /\ 0 \in 0..MaxFaults
  BY SandboxConstants
<1>6. /\ live \in [Boxes -> Some(Tasks)] /\ warm \in [Boxes -> SUBSET WarmUps]
      /\ run \in [Tasks -> Runs] /\ mk \in [Callers -> Makers] /\ job \in [Stages -> Jobs]
      /\ req \in [Stages -> Requests]
  BY <1>1, <1>2 DEF Some
<1>7. Typed
  BY <1>1, <1>3, <1>5, <1>6 DEF Typed
<1>8. Readers
  BY <1>2, <1>4 DEF Readers, Read
<1>9. Phases
  BY <1>2, <1>4, Distinct DEF Phases
<1>10. Owned /\ Apart
  BY <1>2, <1>3, <1>4 DEF Owned, Apart
<1>11. OneEach
  BY <1>1, <1>2, <1>3, <1>4, Distinct DEF OneEach
<1>12. InTable
  BY <1>2, <1>3, <1>4 DEF InTable
<1>13. Known
  BY <1>1 DEF Known
<1>14. Balance
  <2>1. Registered = {} /\ Making = {} /\ Removing = {}
    BY <1>2, <1>3, <1>4 DEF Registered, Making, Removing
  <2>. QED
    BY <1>1, <1>5, <2>1, FS_EmptySet DEF Balance, Taken
<1>. QED
  BY <1>7, <1>8, <1>9, <1>10, <1>11, <1>12, <1>13, <1>14 DEF SandboxInv

LEMMA EveryStep == Typed /\ SandboxInv /\ [Next]_vars => Typed' /\ SandboxInv'
<1>. SUFFICES ASSUME Typed, SandboxInv, [Next]_vars
              PROVE  Typed' /\ SandboxInv'
  OBVIOUS
<1>1. ASSUME NEW c \in Callers, CreateStep(c)
      PROVE  Typed' /\ SandboxInv'
  <2>1. CASE Acquire(c) \/ Unhealthy(c)
    BY <2>1, CreateGoesOn
  <2>2. CASE \E b \in Boxes : Boot(c, b)
    BY <2>2, CreateBoots
  <2>3. CASE \/ CreateFails(c) \/ CreateRaises(c) \/ UnhealthyRemoved(c)
             \/ \E b \in Boxes : CreateLosesBox(c, b)
    BY <2>3, CreateGivesUp
  <2>4. CASE Ready(c)
    BY <2>4, CreateReady
  <2>. QED
    BY <1>1, <2>1, <2>2, <2>3, <2>4 DEF CreateStep
<1>2. ASSUME NEW t \in Tasks, RunStep(t)
      PROVE  Typed' /\ SandboxInv'
  <2>1. CASE StartRun(t)
    BY <2>1, RunStarts
  <2>2. CASE SetupDone(t) \/ RunEnds(t)
    BY <2>2, RunMovesOn
  <2>3. CASE CleanUp(t) \/ Removed(t) \/ RemovalFails(t)
    BY <2>3, RunCleansUp
  <2>4. CASE TimeoutInSetup(t)
    BY <2>4, SetupTimesOut
  <2>5. CASE RunRaises(t) \/ RunReturns(t) \/ TimeoutInStages(t)
    BY <2>5, StagesAreLeft DEF RunRaises, RunReturns, TimeoutInStages
  <2>6. CASE TimeoutInCleanup(t)
    BY <2>6, CleanupTimesOut
  <2>. QED
    BY <1>2, <2>1, <2>2, <2>3, <2>4, <2>5, <2>6 DEF RunStep
<1>3. CASE \E s \in Stages, t \in Tasks, r \in Roles : StageStarts(s, t, r)
  BY <1>3, StageBegins
<1>4. CASE \E s \in Stages : StageEnds(s)
  BY <1>4, StageFinishes
<1>5. CASE Shutdown \/ Crash
  BY <1>5, ProcessEnds
<1>6. CASE ServerStep /\ UNCHANGED poolVars
  BY <1>6, ServerWorks
<1>7. CASE UNCHANGED vars
  BY <1>7, SMTT(30) DEF vars, poolVars, serverVars, Typed, SandboxInv, Readers, Phases, Owned, Apart, OneEach, Docker,
              InTable, RoleKey, Known, Balance, Taken, Registered, Making, Removing, CallerTask
<1>. QED
  BY <1>1, <1>2, <1>3, <1>4, <1>5, <1>6, <1>7 DEF Next

\* The inductive invariant, from the initial states on.
LEMMA Always == Spec => [](Typed /\ SandboxInv)
  BY StartsRight, EveryStep, PTL DEF Spec

----------------------------------------------------------------------------
(* The theorems.                                                           *)

\* Boxes in the table, creates that hold a permit and removals that have not
\* given theirs back are never more than SANDBOX_MAX_CONCURRENT together with
\* the free permits, whatever fails, times out or crashes: no permit is given
\* back twice.
THEOREM PoolIsBounded == Spec => [](permits + Taken =< MaxConcurrent)
<1>1. Typed /\ SandboxInv => permits + Taken =< MaxConcurrent
  BY DEF SandboxInv, Balance
<1>. QED
  BY <1>1, Always, PTL

\* Every variable keeps its type; the permits stay between none and all.
THEOREM TypeCorrect == Spec => []TypeOK
<1>1. Typed /\ SandboxInv => TypeOK
  <2>. SUFFICES ASSUME Typed, SandboxInv
                PROVE  TypeOK
    OBVIOUS
  <2>1. permits + (Cardinality(Registered) + Cardinality(Making) + Cardinality(Removing)) =< MaxConcurrent
    BY DEF SandboxInv, Balance, Taken
  <2>2. permits \in Nat /\ MaxConcurrent \in Nat
    BY SandboxConstants DEF Typed
  <2>3. permits =< MaxConcurrent
    BY <2>1, <2>2, Counted
  <2>. QED
    BY <2>3, Parts
<1>. QED
  BY <1>1, Always, PTL

\* As long as nothing happened that the code does not clean up after, permits
\* and live boxes balance: none is lost and none is forgotten.
THEOREM EverythingIsAccounted == Spec => []Accounted
<1>1. Typed /\ SandboxInv => Accounted
  <2>. SUFFICES ASSUME Typed, SandboxInv, faults = 0
                PROVE  /\ permits + Cardinality(Registered) + Cardinality(Making) + Cardinality(Removing)
                            = MaxConcurrent
                       /\ {b \in Boxes : live[b] # None} =
                            Registered \cup {run[t].removing : t \in Removing}
                                       \cup ({mk[c].box : c \in Callers} \ {None})
    BY DEF Accounted
  <2>. DEFINE held == Registered \cup {run[t].removing : t \in Removing}
                                 \cup ({mk[c].box : c \in Callers} \ {None})
  <2>1. permits + Cardinality(Registered) + Cardinality(Making) + Cardinality(Removing) = MaxConcurrent
    <3>1. permits + (Cardinality(Registered) + Cardinality(Making) + Cardinality(Removing)) = MaxConcurrent
      BY DEF SandboxInv, Balance, Taken
    <3>2. permits \in Nat
      BY DEF Typed
    <3>. QED
      BY <3>1, <3>2, Counted
  <2>2. ASSUME NEW b \in Boxes, live[b] # None
        PROVE  b \in held
    <3>1. b # None
      BY Distinct
    <3>2. CASE \E t \in Tasks, k \in Keys : slots[t][k] = b
      BY <3>1, <3>2 DEF Registered
    <3>3. CASE \E t \in Tasks : run[t].removing = b
      BY <3>1, <3>3 DEF Removing
    <3>4. CASE \E c \in Callers : mk[c].box = b
      BY <3>1, <3>4
    <3>. QED
      BY <2>2, <3>2, <3>3, <3>4 DEF SandboxInv, Known
  <2>3. ASSUME NEW b \in held
        PROVE  b \in Boxes /\ live[b] # None
    <3>1. /\ \A t \in Tasks, k \in Keys : slots[t][k] # None =>
               slots[t][k] \in Boxes /\ live[slots[t][k]] # None
          /\ \A c \in Callers : mk[c].box # None => mk[c].box \in Boxes /\ live[mk[c].box] # None
          /\ \A t \in Tasks : run[t].removing # None =>
               run[t].removing \in Boxes /\ live[run[t].removing] # None
      BY HeldIsLive, Distinct DEF SandboxInv
    <3>2. CASE b \in Registered
      BY <3>1, <3>2 DEF Registered
    <3>3. CASE b \in {run[t].removing : t \in Removing}
      BY <3>1, <3>3 DEF Removing
    <3>4. CASE b \in {mk[c].box : c \in Callers} \ {None}
      BY <3>1, <3>4
    <3>. QED
      BY <3>2, <3>3, <3>4
  <2>. QED
    BY <2>1, <2>2, <2>3
<1>. QED
  BY <1>1, Always, PTL

\* A stage of the current run works in a live sandbox of its own task: with
\* Docker whatever fails, with BoxLite as long as nothing does.
THEOREM StagesHaveTheirBox == Spec => []StageBoxUp
<1>1. Typed /\ SandboxInv => StageBoxUp
  <2>. SUFFICES ASSUME Typed, SandboxInv, Docker \/ faults = 0,
                       NEW s \in Stages, job[s].at = "use", ~job[s].left
                PROVE  live[job[s].box] = job[s].task
    BY DEF StageBoxUp
  <2>1. /\ job[s].task \in Tasks /\ job[s].role \in Roles
        /\ RoleKey(job[s].role) \in Keys /\ "default" \in Keys
    BY Distinct DEF SandboxInv, Phases, RoleKey
  <2>2. /\ job[s].box # None
        /\ \/ job[s].box = slots[job[s].task]["default"]
           \/ job[s].box = slots[job[s].task][RoleKey(job[s].role)]
    BY DEF SandboxInv, InTable
  <2>. QED
    BY <2>1, <2>2 DEF SandboxInv, Owned
<1>. QED
  BY <1>1, Always, PTL

\* A chat that nobody reads goes on only when its client left before the
\* response stream was open.
THEOREM ChatsHaveReaders == Spec => []ChatHasReader
<1>1. Typed /\ SandboxInv => ChatHasReader
  BY DEF SandboxInv, Readers, Read, ChatHasReader
<1>. QED
  BY <1>1, Always, PTL
=============================================================================
