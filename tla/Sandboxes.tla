---- MODULE Sandboxes ----
(***************************************************************************)
(* The sandboxes of the platform process: who creates them (the set-up of  *)
(* a run and stages that have none), who uses them, who removes them, and  *)
(* the semaphore that bounds them (sandbox.py, sandbox_boxlite.py and the  *)
(* sandbox parts of engine.py), composed with the server inside a          *)
(* container (AgentServer).                                                *)
(***************************************************************************)
EXTENDS AgentServer

CONSTANTS
    Tasks, Roles,
    MaxConcurrent,  \* SANDBOX_MAX_CONCURRENT
    MaxFaults       \* bound on failures that the code does not clean up after

ASSUME SandboxConstants ==
    /\ {MaxConcurrent, MaxFaults} \subseteq Nat \ {0}
    /\ IsFiniteSet(Tasks) /\ IsFiniteSet(Stages) /\ IsFiniteSet(Roles)
    /\ Tasks \cap Stages = {} /\ "default" \notin Roles /\ None \notin Boxes \cup Tasks

VARIABLES
    backend,    \* "docker" or "boxlite", fixed for the life of the deployment
    permits,    \* the semaphore
    slots,      \* the backend's table: task -> key -> box
    cache,      \* SandboxManager._role_sandboxes: task -> role -> box
    live,       \* box -> the task it was started for; outlives the process
    run,        \* task -> its run
    mk,         \* who is inside backend.create, and how far
    job,        \* stage -> its coroutine
    faults

poolVars == <<backend, permits, slots, cache, live, run, mk, job, faults>>
vars == <<poolVars, serverVars>>

Keys == Roles \cup {"default"}
Callers == Tasks \cup Stages

NoRun == [at |-> "none", info |-> None, todo |-> {}, removing |-> None]
NotMaking == [at |-> "idle", box |-> None]
NoJob == [at |-> "idle", task |-> None, role |-> None, box |-> None, left |-> FALSE]

TypeOK ==
    /\ ServerTypeOK
    /\ backend \in {"docker", "boxlite"}
    /\ permits \in 0..MaxConcurrent
    /\ slots \in [Tasks -> [Keys -> Boxes \cup {None}]]
    /\ cache \in [Tasks -> [Roles -> Boxes \cup {None}]]
    /\ live \in [Boxes -> Tasks \cup {None}]
    /\ run \in [Tasks -> [at : {"none", "setup", "created", "stages", "ending", "cleanup"},
                          info : Boxes \cup {None}, todo : SUBSET Keys,
                          removing : Boxes \cup {None}]]
    /\ mk \in [Callers -> [at : {"idle", "acquire", "start", "health", "remove"},
                           box : Boxes \cup {None}]]
    /\ job \in [Stages -> [at : {"idle", "create", "use"}, task : Tasks \cup {None},
                           role : Roles \cup {None}, box : Boxes \cup {None},
                           left : BOOLEAN]]
    /\ faults \in 0..MaxFaults

EmptySlots == [t \in Tasks |-> [k \in Keys |-> None]]
EmptyCache == [t \in Tasks |-> [r \in Roles |-> None]]

Init ==
    /\ ServerInit
    /\ backend \in {"docker", "boxlite"}
    /\ permits = MaxConcurrent
    /\ slots = EmptySlots /\ cache = EmptyCache
    /\ live = [b \in Boxes |-> None]
    /\ run = [t \in Tasks |-> NoRun]
    /\ mk = [c \in Callers |-> NotMaking]
    /\ job = [s \in Stages |-> NoJob]
    /\ faults = 0

Docker == backend = "docker"

CallerTask(c) == IF c \in Tasks THEN c ELSE job[c].task

\* Docker keeps one container per task, whatever the role; BoxLite one machine
\* per role and task.
Key(c) == IF Docker \/ c \in Tasks THEN "default" ELSE job[c].role

Fault == faults < MaxFaults /\ faults' = faults + 1

\* The boxes in B are gone, and with them the requests inside.
Remove(B) ==
    /\ live' = [b \in Boxes |-> IF b \in B THEN None ELSE live[b]]
    /\ warm' = [b \in Boxes |-> IF b \in B THEN {} ELSE warm[b]]
    /\ req' = [s \in Stages |-> Cut(req[s], B)]

(***************************************************************************)
(* backend.create                                                          *)
(***************************************************************************)
Acquire(c) ==
    /\ mk[c].at = "acquire" /\ permits > 0
    /\ permits' = permits - 1
    /\ mk' = [mk EXCEPT ![c].at = "start"]
    /\ UNCHANGED <<backend, slots, cache, live, run, job, faults, serverVars>>

\* A container is named after its task: docker run fails while one is there.
NameTaken(t) == Docker /\ \E b \in Boxes : live[b] = t

Boot(c, b) ==
    /\ mk[c].at = "start" /\ ~NameTaken(CallerTask(c))
    /\ live[b] = None
    /\ live' = [live EXCEPT ![b] = CallerTask(c)]
    /\ mk' = [mk EXCEPT ![c] = [at |-> "health", box |-> b]]
    /\ UNCHANGED <<backend, permits, slots, cache, run, job, faults, serverVars>>

\* The stage's chat, in the container or, with BoxLite, in this process.
Use(s, box) == IF Docker THEN Post(s, box) ELSE req

\* create has returned into the set-up, with a sandbox or without.
RunGoesOn(t, box) ==
    /\ run' = [run EXCEPT ![t].at = "created", ![t].info = box]
    /\ UNCHANGED <<cache, job, req>>

\* A stage without a box runs in process or, in strict mode, fails: both end
\* its interest in the sandboxes.
StageGoesOn(s, box) ==
    /\ run' = run
    /\ IF box = None
       THEN job' = [job EXCEPT ![s] = NoJob] /\ UNCHANGED <<cache, req>>
       ELSE /\ cache' = [cache EXCEPT ![job[s].task][job[s].role] = box]
            /\ job' = [job EXCEPT ![s].at = "use", ![s].box = box]
            /\ req' = Use(s, box)

\* How the caller goes on with what create returned.
GoesOn(c, box) ==
    /\ mk' = [mk EXCEPT ![c] = NotMaking]
    /\ IF c \in Tasks THEN RunGoesOn(c, box) ELSE StageGoesOn(c, box)

\* No workspace (BoxLite looks before it takes a permit), or docker run or the
\* runtime's start returns an error.
CreateFails(c) ==
    /\ \/ mk[c].at = "acquire" /\ ~Docker /\ permits' = permits
       \/ mk[c].at = "start" /\ permits' = permits + 1
    /\ GoesOn(c, None)
    /\ UNCHANGED <<backend, slots, live, faults, warm>>

\* docker run does not return within 120 s: the permit is given back although
\* the daemon started the container.
CreateLosesBox(c, b) ==
    /\ mk[c].at = "start" /\ Docker /\ ~NameTaken(CallerTask(c))
    /\ live[b] = None
    /\ Fault
    /\ permits' = permits + 1
    /\ live' = [live EXCEPT ![b] = CallerTask(c)]
    /\ GoesOn(c, None)
    /\ UNCHANGED <<backend, slots, warm>>

\* create raises: Docker gives nothing back; BoxLite gives the permit back but
\* leaves a machine that had started.
CreateRaises(c) ==
    /\ mk[c].at = "start" \/ (mk[c].at \in {"health", "remove"} /\ ~Docker)
    /\ Fault
    /\ permits' = IF Docker THEN permits ELSE permits + 1
    /\ GoesOn(c, None)
    /\ UNCHANGED <<backend, slots, live, warm>>

\* No answer from the box.  Docker gives the permit back before it removes the
\* container, BoxLite after.
Unhealthy(c) ==
    /\ mk[c].at = "health"
    /\ permits' = IF Docker THEN permits + 1 ELSE permits
    /\ mk' = [mk EXCEPT ![c].at = "remove"]
    /\ UNCHANGED <<backend, slots, cache, live, run, job, faults, serverVars>>

\* Mutant: the permit is given back on both sides of the removal.
UnhealthyReleasedTwice(c) ==
    /\ mk[c].at = "remove"
    /\ permits' = permits + 1
    /\ live' = [live EXCEPT ![mk[c].box] = None]
    /\ GoesOn(c, None)
    /\ UNCHANGED <<backend, slots, faults, warm>>

UnhealthyRemoved(c) ==
    /\ mk[c].at = "remove"
    /\ permits' = IF Docker THEN permits ELSE permits + 1
    /\ live' = [live EXCEPT ![mk[c].box] = None]
    /\ GoesOn(c, None)
    /\ UNCHANGED <<backend, slots, faults, warm>>

\* The box enters the table.  A second machine for the same role of the task
\* takes the place of the first, which nobody will remove: that is a fault too.
Ready(c) ==
    LET t == CallerTask(c)
        lost == slots[t][Key(c)] # None
    IN  /\ mk[c].at = "health"
        /\ faults' = IF lost /\ faults < MaxFaults THEN faults + 1 ELSE faults
        /\ slots' = [slots EXCEPT ![t][Key(c)] = mk[c].box]
        /\ GoesOn(c, mk[c].box)
        /\ UNCHANGED <<backend, permits, live, warm>>

(***************************************************************************)
(* A run and its stages                                                    *)
(***************************************************************************)
StartRun(t) ==
    /\ \A u \in Tasks : run[u].at = "none"
    /\ run' = [run EXCEPT ![t].at = "setup"]
    /\ mk' = [mk EXCEPT ![t].at = "acquire"]
    /\ UNCHANGED <<backend, permits, slots, cache, live, job, faults, serverVars>>

\* The set-up has written its log rows and hands the sandbox to the run.
SetupDone(t) ==
    /\ run[t].at = "created"
    /\ run' = [run EXCEPT ![t].at = "stages"]
    /\ UNCHANGED <<backend, permits, slots, cache, live, mk, job, faults, serverVars>>

\* The task's own sandbox, or the role's from the cache (its health is not
\* looked at again), or a new one.
StageStarts(s, t, r) ==
    LET box == IF run[t].info # None THEN run[t].info ELSE cache[t][r]
    IN  /\ run[t].at = "stages" /\ job[s].at = "idle" /\ req[s].at = "none"
        /\ job' = [job EXCEPT ![s] =
              [NoJob EXCEPT !.at = IF box = None THEN "create" ELSE "use",
                            !.task = t, !.role = r, !.box = box]]
        /\ mk' = IF box = None THEN [mk EXCEPT ![s].at = "acquire"] ELSE mk
        /\ req' = IF box = None THEN req ELSE Use(s, box)
        /\ UNCHANGED <<backend, permits, slots, cache, live, run, faults, warm>>

\* An answer, an error, a broken stream or the stage's own timeout.
StageEnds(s) ==
    /\ job[s].at = "use"
    /\ job' = [job EXCEPT ![s] = NoJob]
    /\ req' = [req EXCEPT ![s] = Left(@)]
    /\ UNCHANGED <<backend, permits, slots, cache, live, run, mk, faults, warm>>

StagesOf(t) == {s \in Stages : job[s].at # "idle" /\ job[s].task = t /\ ~job[s].left}

RunEnds(t) ==
    /\ run[t].at = "stages" /\ StagesOf(t) = {}
    /\ run' = [run EXCEPT ![t].at = "ending"]
    /\ UNCHANGED <<backend, permits, slots, cache, live, mk, job, faults, serverVars>>

\* create is cancelled in callers C: no handler gives the permit back or
\* removes the box.  What docker run was doing is done all the same.
Abandon(C) == mk' = [c \in Callers |-> IF c \in C THEN NotMaking ELSE mk[c]]

\* The run goes to its finally block while stages are out: those in C are
\* cancelled, the others go on without it.
LeaveStages(t, C) ==
    /\ run[t].at = "stages" /\ C \subseteq StagesOf(t)
    /\ IF \A s \in C : mk[s].at \in {"idle", "acquire"} THEN faults' = faults ELSE Fault
    /\ Abandon(C)
    /\ job' = [s \in Stages |->
                 IF s \in C THEN NoJob
                 ELSE IF s \in StagesOf(t) THEN [job[s] EXCEPT !.left = TRUE] ELSE job[s]]
    /\ req' = [s \in Stages |-> IF s \in C THEN Left(req[s]) ELSE req[s]]
    /\ run' = [run EXCEPT ![t].at = "ending"]
    /\ UNCHANGED <<backend, permits, slots, cache, live, warm>>

\* A parallel stage of a linear run raised: the rest are cancelled.
RunRaises(t) == StagesOf(t) # {} /\ LeaveStages(t, StagesOf(t))

\* A parallel stage returned no output, or its code check failed: the run
\* returns and the rest go on.
RunReturns(t) == StagesOf(t) # {} /\ LeaveStages(t, {})

\* The sandboxes named in keys, one after the other; each leaves the table
\* before anything is awaited.
RemoveNext(t, keys) ==
    LET present == {k \in keys : slots[t][k] # None}
    IN  IF present = {}
        THEN run' = [run EXCEPT ![t] = NoRun] /\ UNCHANGED slots
        ELSE \E k \in present :
               /\ slots' = [slots EXCEPT ![t][k] = None]
               /\ run' = [run EXCEPT ![t] = [at |-> "cleanup", info |-> None,
                                             todo |-> keys \ {k}, removing |-> slots[t][k]]]

\* Mutant: the cached sandboxes of the task stay cached.
CleanUpKeepsCache(t) ==
    /\ run[t].at = "ending"
    /\ RemoveNext(t, {k \in Keys : slots[t][k] # None})
    /\ UNCHANGED <<backend, permits, cache, live, mk, job, faults, serverVars>>

\* _cleanup_runtime_resources: destroy_role_sandboxes forgets the cached boxes
\* and calls the backend's destroy.
CleanUp(t) ==
    /\ run[t].at = "ending"
    /\ cache' = [cache EXCEPT ![t] = [r \in Roles |-> None]]
    /\ RemoveNext(t, {k \in Keys : slots[t][k] # None})
    /\ UNCHANGED <<backend, permits, live, mk, job, faults, serverVars>>

\* Mutant: the permit is not given back.
RemovedUnreleased(t) ==
    /\ run[t].removing # None
    /\ Remove({run[t].removing})
    /\ RemoveNext(t, run[t].todo)
    /\ UNCHANGED <<backend, permits, cache, mk, job, faults>>

Removed(t) ==
    /\ run[t].removing # None
    /\ permits' = permits + 1
    /\ Remove({run[t].removing})
    /\ RemoveNext(t, run[t].todo)
    /\ UNCHANGED <<backend, cache, mk, job, faults>>

\* docker rm or runtime.destroy fails: logged, the box stays.
RemovalFails(t) ==
    /\ run[t].removing # None
    /\ Fault
    /\ permits' = permits + 1
    /\ RemoveNext(t, run[t].todo)
    /\ UNCHANGED <<backend, cache, live, mk, job, serverVars>>

(***************************************************************************)
(* The timeout of the task, and the ends of the process                    *)
(***************************************************************************)
\* Before the set-up returned, the run knows no sandbox manager and cleans up
\* nothing: a box that create has put into the table stays there, for the
\* clean-up of a later run of the task or for the end of the process.
TimeoutInSetup(t) ==
    /\ run[t].at \in {"setup", "created"}
    /\ IF mk[t].at \in {"idle", "acquire"} THEN faults' = faults ELSE Fault
    /\ Abandon({t})
    /\ run' = [run EXCEPT ![t] = NoRun]
    /\ UNCHANGED <<backend, permits, slots, cache, live, job, serverVars>>

\* Parallel stages are awaited one by one: the timeout cancels the one the run
\* waits for, or none where the run is busy with the output of another.
TimeoutInStages(t) ==
    \E C \in SUBSET StagesOf(t) : Cardinality(C) =< 1 /\ LeaveStages(t, C)

\* Cancelled while a box is removed: its permit is lost.  Where the clean-up
\* belonged to the finalization, the finally block cleans up once more.
TimeoutInCleanup(t) ==
    /\ run[t].at = "cleanup"
    /\ Fault
    /\ run' = [run EXCEPT ![t] = NoRun] \/ run' = [run EXCEPT ![t] = [NoRun EXCEPT !.at = "ending"]]
    /\ UNCHANGED <<backend, permits, slots, cache, live, mk, job, serverVars>>

\* A new process over the boxes that are left, less those in B.
Restart(B) ==
    /\ permits' = MaxConcurrent
    /\ slots' = EmptySlots /\ cache' = EmptyCache
    /\ run' = [t \in Tasks |-> NoRun]
    /\ mk' = [c \in Callers |-> NotMaking]
    /\ job' = [s \in Stages |-> NoJob]
    /\ live' = [b \in Boxes |-> IF b \in B THEN None ELSE live[b]]
    /\ warm' = [b \in Boxes |-> IF b \in B THEN {} ELSE warm[b]]
    /\ req' = [s \in Stages |-> Cut(Left(req[s]), B)]
    /\ UNCHANGED backend

Registered == {slots[t][k] : t \in Tasks, k \in Keys} \ {None}

\* close_sandbox_manager, after the worker has stopped.  It removes the boxes of
\* the table; what a stage that its run left behind is creating is lost.
Shutdown ==
    /\ \A t \in Tasks : run[t].at = "none"
    /\ permits # MaxConcurrent \/ slots # EmptySlots \/ cache # EmptyCache
    /\ IF \A c \in Callers : mk[c].at \in {"idle", "acquire"} THEN faults' = faults ELSE Fault
    /\ Restart(Registered)

Crash == Fault /\ Restart({})

CreateStep(c) ==
    \/ Acquire(c)
    \/ \E b \in Boxes : Boot(c, b) \/ CreateLosesBox(c, b)
    \/ CreateFails(c)
    \/ CreateRaises(c)
    \/ Unhealthy(c)
    \/ UnhealthyRemoved(c)
    \/ Ready(c)

RunStep(t) ==
    \/ StartRun(t)
    \/ SetupDone(t)
    \/ RunEnds(t)
    \/ RunRaises(t)
    \/ RunReturns(t)
    \/ CleanUp(t)
    \/ Removed(t)
    \/ RemovalFails(t)
    \/ TimeoutInSetup(t)
    \/ TimeoutInStages(t)
    \/ TimeoutInCleanup(t)

Next ==
    \/ \E c \in Callers : CreateStep(c)
    \/ \E t \in Tasks : RunStep(t)
    \/ \E s \in Stages, t \in Tasks, r \in Roles : StageStarts(s, t, r)
    \/ \E s \in Stages : StageEnds(s)
    \/ Shutdown
    \/ Crash
    \/ ServerStep /\ UNCHANGED poolVars

Spec == Init /\ [][Next]_vars

Making == {c \in Callers : mk[c].at \in {"start", "health"} \/ (mk[c].at = "remove" /\ ~Docker)}
Removing == {t \in Tasks : run[t].removing # None}

\* As long as nothing happened that the code does not clean up after, every
\* permit is with a box in the table, with a create or a removal under way, or
\* free; and every live box is known to the process.  The permits are taken
\* and given back in ten places of two backends.
Accounted ==
    faults = 0 =>
        /\ permits + Cardinality(Registered) + Cardinality(Making) + Cardinality(Removing)
             = MaxConcurrent
        /\ {b \in Boxes : live[b] # None} =
             Registered \cup {run[t].removing : t \in Removing}
                        \cup ({mk[c].box : c \in Callers} \ {None})

\* A stage of the current run works in a live sandbox of its own task, never in
\* one that was removed under it or belongs to another task: with Docker
\* whatever fails, with BoxLite as long as nothing does.
StageBoxUp ==
    Docker \/ faults = 0 =>
        \A s \in Stages :
            job[s].at = "use" /\ ~job[s].left => live[job[s].box] = job[s].task
====
