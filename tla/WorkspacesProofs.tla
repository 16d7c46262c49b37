-------------------------- MODULE WorkspacesProofs --------------------------
(***************************************************************************)
(* Proofs about Workspaces, for any number of tasks and repositories, any  *)
(* mapping of tasks to repositories, and any number of crashes and failing *)
(* commands.                                                               *)
(***************************************************************************)
EXTENDS Workspaces, TLAPS

Rows == [status : {"pending", "running", "completed", "failed"},
         code : {"pending", "completed", "failed"}, url : BOOLEAN]
Runs == [at : {"none", "cleanup", "close"} \cup SetUp \cup Working,
         ends : {"none", "complete", "failed", "timeout"}, path : BOOLEAN]
Trees == [there : BOOLEAN, dirty : BOOLEAN]

\* The types of the variables that have an entry for every task,
TaskTypes ==
    /\ task \in [Tasks -> Rows] /\ run \in [Tasks -> Runs] /\ tree \in [Tasks -> Trees]
    /\ reg \in [Tasks -> BOOLEAN] /\ pr \in [Tasks -> BOOLEAN]
    /\ local \in [Tasks -> Contents] /\ remote \in [Tasks -> Contents]
    /\ newest \in [Tasks -> Places]

\* and all others.
Typed ==
    /\ TaskTypes
    /\ mode \in Modes /\ mirror \in [Repos -> BOOLEAN]
    /\ worker \in [up : BOOLEAN, toPrune : SUBSET Repos]
    /\ crashes \in 0..MaxCrashes /\ failures \in 0..MaxFailures

----------------------------------------------------------------------------
(* The inductive invariant: what holds of one task, and of the worker.     *)

\* A worktree is added to a mirror that is there, and registered in one.
SetsUp(t) ==
    /\ run[t].at \in {"mirror", "worktree"} \/ reg[t] => Worktree
    /\ run[t].at = "worktree" \/ reg[t] => mirror[RepoOf[t]]

\* The branch follows the work at the origin, also when it is created again,
\* unless its mirror was removed.
Follows(t) ==
    Worktree =>
        /\ remote[t] # "diverged"
        /\ local[t] = "diverged" => remote[t] = "work"
        /\ ~MadeAnew(t) /\ remote[t] = "work" /\ (t \in mode.targeted => reg[t]) =>
               local[t] = "work"

\* A completed run makes no more commits.
Settled(t) ==
    /\ task[t].status = "completed" => run[t].at = "none"
    /\ run[t].ends = "complete" => run[t].at \in {"cleanup", "close"}

\* The work of the task has to be at the origin.
Pushed(t) ==
    \/ run[t].at \in {"branch", "pr", "url"} \/ run[t].ends = "complete"
    \/ task[t].status = "completed"

\* How far the work has come: changes in a worktree that git knows, then a
\* commit, then the branch at the origin.
Delivers(t) ==
    Worktree /\ failures = 0 =>
        /\ run[t].at \in {"later", "commit"} => reg[t] /\ tree[t].there /\ tree[t].dirty
        /\ run[t].at = "push" => reg[t] /\ newest[t] = "local" /\ local[t] \in {"work", "diverged"}
        /\ Pushed(t) => /\ remote[t] = "work"
                        /\ newest[t] = "origin" \/ (newest[t] = "refused" /\ MadeAnew(t))

\* A run without a directory has no path, and one with a path removes it.
Tidies(t) ==
    crashes = 0 /\ failures = 0 =>
        /\ run[t].at \in {"none", "close"} \cup SetUp => tree[t] = NoTree /\ ~reg[t]
        /\ run[t].at \in Working => run[t].path
        /\ run[t].at = "cleanup" => run[t].path \/ (tree[t] = NoTree /\ ~reg[t])

TaskInv(t) == SetsUp(t) /\ Follows(t) /\ Settled(t) /\ Delivers(t) /\ Tidies(t)

\* One run at a time, and none while the worker is down; the pruning is over
\* when it is up.
OneRun ==
    /\ \A t, u \in Active : t = u
    /\ worker.up => worker.toPrune = {}
    /\ ~worker.up => Active = {}
    /\ crashes = 0 => worker.up

WorkspaceInv == OneRun /\ \A t \in Tasks : TaskInv(t)

LEMMA Parts == Typed /\ WorkspaceInv => TypeOK
  BY DEF Typed, TaskTypes, WorkspaceInv, OneRun, TaskInv, SetsUp, TypeOK, Rows, Runs, Trees, Worktree

----------------------------------------------------------------------------
(* The steps of a run touch what belongs to its task only.                 *)

\* Where the run of t gets to,
Moved(t, at, ends, path) ==
    /\ run' \in [Tasks -> Runs] /\ \A u \in Tasks : u # t => run'[u] = run[u]
    /\ run'[t].at = at /\ run'[t].ends = ends /\ run'[t].path = path

\* its row,
Rowed(t, status) ==
    /\ task' \in [Tasks -> Rows] /\ \A u \in Tasks : u # t => task'[u] = task[u]
    /\ task'[t].status = status

\* its directory and its branches.
Kept(t) ==
    /\ tree' \in [Tasks -> Trees] /\ \A u \in Tasks : u # t => tree'[u] = tree[u]
    /\ reg' \in [Tasks -> BOOLEAN] /\ \A u \in Tasks : u # t => reg'[u] = reg[u]
    /\ local' \in [Tasks -> Contents] /\ \A u \in Tasks : u # t => local'[u] = local[u]
    /\ remote' \in [Tasks -> Contents] /\ \A u \in Tasks : u # t => remote'[u] = remote[u]
    /\ newest' \in [Tasks -> Places] /\ \A u \in Tasks : u # t => newest'[u] = newest[u]
    /\ pr' \in [Tasks -> BOOLEAN]

\* The variables keep their types, and other tasks what they have.
Only(t) ==
    /\ TaskTypes'
    /\ \A u \in Tasks : u # t =>
          /\ task'[u] = task[u] /\ run'[u] = run[u] /\ tree'[u] = tree[u] /\ reg'[u] = reg[u]
          /\ local'[u] = local[u] /\ remote'[u] = remote[u] /\ newest'[u] = newest[u]

LEMMA Locally ==
  ASSUME NEW t, NEW at, NEW ends, NEW path, NEW status,
         Moved(t, at, ends, path), Rowed(t, status), Kept(t)
  PROVE  Only(t) /\ run'[t].at = at
  BY DEF TaskTypes, Moved, Rowed, Kept, Only

LEMMA TaskStep ==
  ASSUME Typed, WorkspaceInv, NEW t \in Tasks, Only(t), TaskInv(t)',
         UNCHANGED <<mode, worker, crashes>>,
         failures' = failures \/ Failure,
         mirror' \in [Repos -> BOOLEAN], \A r \in Repos : mirror[r] => mirror'[r],
         run'[t].at = "none" \/ run[t].at # "none" \/ (worker.up /\ Active = {})
  PROVE  Typed' /\ WorkspaceInv'
<1>1. failures' \in 0..MaxFailures /\ (failures' = 0 => failures = 0)
  BY WorkspaceConstants DEF Typed, Failure
<1>2. TaskTypes'
  BY DEF Only
<1>3. Typed'
  BY <1>1, <1>2 DEF Typed
<1>4. \A u \in Tasks : u # t =>
         /\ task'[u] = task[u] /\ run'[u] = run[u] /\ tree'[u] = tree[u] /\ reg'[u] = reg[u]
         /\ local'[u] = local[u] /\ remote'[u] = remote[u] /\ newest'[u] = newest[u]
  BY DEF Only
<1>5. OneRun'
  <2>1. /\ Active' \subseteq Active \cup {t}
        /\ t \in Active' => t \in Active \/ (worker.up /\ Active = {})
    BY <1>4 DEF Active
  <2>. QED
    BY <2>1 DEF WorkspaceInv, OneRun
<1>6. ASSUME NEW u \in Tasks, u # t
      PROVE  TaskInv(u)'
  <2>1. TaskInv(u) /\ RepoOf[u] \in Repos
    BY WorkspaceConstants DEF WorkspaceInv
  <2>. QED
    BY <1>1, <1>4, <1>6, <2>1 DEF TaskInv, SetsUp, Follows, MadeAnew, Settled, Delivers, Pushed, Tidies, Worktree
<1>. QED
  BY <1>3, <1>5, <1>6 DEF WorkspaceInv

\* What the moves of a run do to it.
LEMMA MovesOn ==
  ASSUME Typed, NEW t \in Tasks
  PROVE  /\ \A pc \in {"cleanup", "close"} \cup SetUp \cup Working :
              Goes(t, pc) => Moved(t, pc, run[t].ends, run[t].path)
         /\ Finished(t) => Moved(t, "cleanup", "complete", run[t].path)
         /\ Fails(t) \/ StageFails(t) => Moved(t, "cleanup", "failed", run[t].path) /\ Rowed(t, "failed")
         /\ run' = [run EXCEPT ![t].at = "code", ![t].path = TRUE] => Moved(t, "code", run[t].ends, TRUE)
         /\ UNCHANGED task => Rowed(t, task[t].status)
         /\ UNCHANGED <<tree, reg, local, remote, newest, pr>> => Kept(t)
<1>1. ASSUME NEW pc \in {"cleanup", "close"} \cup SetUp \cup Working, Goes(t, pc)
      PROVE  Moved(t, pc, run[t].ends, run[t].path)
  BY <1>1 DEF Typed, TaskTypes, Runs, Goes, Moved
<1>2. ASSUME NEW e \in {"complete", "failed"},
             run' = [run EXCEPT ![t].at = "cleanup", ![t].ends = e]
      PROVE  Moved(t, "cleanup", e, run[t].path)
  BY <1>2, ZenonT(40) DEF Typed, TaskTypes, Runs, Moved
<1>3. ASSUME Fails(t) \/ StageFails(t)
      PROVE  Rowed(t, "failed")
  <2>1. CASE Fails(t)
    BY <2>1 DEF Typed, TaskTypes, Rows, Rowed, Fails
  <2>2. CASE StageFails(t)
    BY <2>2, ZenonT(30) DEF Typed, TaskTypes, Rows, Rowed, StageFails
  <2>. QED
    BY <1>3, <2>1, <2>2
<1>4. UNCHANGED task => Rowed(t, task[t].status)
  BY DEF Typed, TaskTypes, Rowed
<1>5. UNCHANGED <<tree, reg, local, remote, newest, pr>> => Kept(t)
  BY DEF Typed, TaskTypes, Kept
<1>6. ASSUME run' = [run EXCEPT ![t].at = "code", ![t].path = TRUE]
      PROVE  Moved(t, "code", run[t].ends, TRUE)
  <2>1. "code" \in Working
    BY DEF Working
  <2>. QED
    BY <1>6, <2>1 DEF Typed, TaskTypes, Runs, Moved
<1>. QED
  BY <1>1, <1>2, <1>3, <1>4, <1>5, <1>6 DEF Finished, Fails, StageFails

\* A directory, its registration and its branches change.
LEMMA Changes ==
  ASSUME Typed, NEW t \in Tasks, NEW d \in Trees, NEW g \in BOOLEAN, NEW c \in Contents,
         NEW m \in Contents,
         tree' = [tree EXCEPT ![t] = d] \/ (tree' = tree /\ d = tree[t]),
         reg' = [reg EXCEPT ![t] = g] \/ (reg' = reg /\ g = reg[t]),
         local' = [local EXCEPT ![t] = c] \/ (local' = local /\ c = local[t]),
         remote' = [remote EXCEPT ![t] = m] \/ (remote' = remote /\ m = remote[t]),
         newest' = newest, pr' = pr
  PROVE  Kept(t) /\ tree'[t] = d /\ reg'[t] = g /\ local'[t] = c /\ remote'[t] = m
<1>1. tree' \in [Tasks -> Trees] /\ tree'[t] = d /\ \A u \in Tasks : u # t => tree'[u] = tree[u]
  BY DEF Typed, TaskTypes
<1>2. reg' \in [Tasks -> BOOLEAN] /\ reg'[t] = g /\ \A u \in Tasks : u # t => reg'[u] = reg[u]
  BY DEF Typed, TaskTypes
<1>3. local' \in [Tasks -> Contents] /\ local'[t] = c /\ \A u \in Tasks : u # t => local'[u] = local[u]
  BY DEF Typed, TaskTypes
<1>4. remote' \in [Tasks -> Contents] /\ remote'[t] = m
      /\ \A u \in Tasks : u # t => remote'[u] = remote[u]
  BY DEF Typed, TaskTypes
<1>5. pr' \in [Tasks -> BOOLEAN] /\ newest' \in [Tasks -> Places]
  BY DEF Typed, TaskTypes
<1>. QED
  BY <1>1, <1>2, <1>3, <1>4, <1>5 DEF Kept

\* A worktree is added for a task, by its run or by a git that outlives it.
LEMMA Adds ==
  ASSUME Typed, NEW t \in Tasks, pr' = pr, remote' = remote, newest' = newest,
         tree' = [tree EXCEPT ![t] = [there |-> TRUE, dirty |-> FALSE]],
         reg' = [reg EXCEPT ![t] = TRUE],
         local' = [local EXCEPT ![t] = Added(t)]
  PROVE  Kept(t) /\ remote'[t] = remote[t] /\ reg'[t] /\ local'[t] = Added(t)
<1>. DEFINE c == Added(t)
            d == [there |-> TRUE, dirty |-> FALSE]
<1>1. local[t] \in Contents /\ remote[t] \in Contents
  BY DEF Typed, TaskTypes
<1>2. c \in Contents
  BY <1>1 DEF Added, Contents
<1>3. d \in Trees
  BY DEF Trees
<1>4. /\ tree' = [tree EXCEPT ![t] = d] /\ local' = [local EXCEPT ![t] = c]
      /\ c = Added(t)
  OBVIOUS
<1>. HIDE DEF c, d
<1>5. tree' \in [Tasks -> Trees] /\ \A u \in Tasks : u # t => tree'[u] = tree[u]
  BY <1>3, <1>4 DEF Typed, TaskTypes
<1>6. reg' \in [Tasks -> BOOLEAN] /\ reg'[t] = TRUE /\ \A u \in Tasks : u # t => reg'[u] = reg[u]
  BY DEF Typed, TaskTypes
<1>7. local' \in [Tasks -> Contents] /\ local'[t] = c /\ \A u \in Tasks : u # t => local'[u] = local[u]
  BY <1>2, <1>4 DEF Typed, TaskTypes
<1>. QED
  BY <1>4, <1>5, <1>6, <1>7 DEF Kept, Typed, TaskTypes

\* A worktree that is added is on the work at the origin, if the task can know it.
LEMMA AddedFollows ==
  ASSUME NEW t, Follows(t), Worktree
  PROVE  /\ Added(t) = "diverged" => remote[t] = "work"
         /\ ~MadeAnew(t) /\ remote[t] = "work" => Added(t) = "work"
  BY DEF Added, Follows

\* The workspace of a run is set up.
LEMMA SetUpStep ==
  ASSUME Typed, WorkspaceInv, NEW t \in Tasks,
         \/ StartRun(t) \/ EnsureMirror(t) \/ CreateWorktree(t)
         \/ WorktreeRefused(t) \/ Clone(t) \/ SetUpFails(t)
  PROVE  Typed' /\ WorkspaceInv'
<1>1. /\ TaskInv(t) /\ run[t] \in Runs /\ RepoOf[t] \in Repos /\ mirror \in [Repos -> BOOLEAN]
      /\ tree[t] \in Trees /\ reg[t] \in BOOLEAN /\ local[t] \in Contents /\ remote[t] \in Contents
      /\ failures \in Nat
  BY WorkspaceConstants DEF Typed, TaskTypes, WorkspaceInv
<1>2. ASSUME StartRun(t)
      PROVE  Typed' /\ WorkspaceInv'
  <2>1. /\ worker.up /\ Active = {} /\ run[t].at = "none"
        /\ UNCHANGED <<mode, tree, reg, local, remote, newest, pr, mirror, worker, crashes, failures>>
    BY <1>2 DEF StartRun, Active, gitVars
  <2>2. Moved(t, IF Worktree THEN "mirror" ELSE "clone", "none", FALSE)
    <3>. DEFINE w == [NoRun EXCEPT !.at = IF Worktree THEN "mirror" ELSE "clone"]
    <3>1. /\ w \in Runs /\ w.at = (IF Worktree THEN "mirror" ELSE "clone")
          /\ w.ends = "none" /\ w.path = FALSE
      BY DEF NoRun, Runs, SetUp
    <3>2. run' = [run EXCEPT ![t] = w]
      BY <1>2 DEF StartRun
    <3>. HIDE DEF w
    <3>. QED
      BY <3>1, <3>2 DEF Moved, Typed, TaskTypes
  <2>3. Rowed(t, "running")
    BY <1>2 DEF StartRun, Rowed, Typed, TaskTypes, Rows
  <2>4. Kept(t)
    BY <2>1, MovesOn
  <2>5. TaskInv(t)'
    BY <1>1, <2>1, <2>2, <2>3, <2>4
       DEF Moved, Rowed, TaskInv, SetsUp, Follows, MadeAnew, Settled, Delivers, Pushed, Tidies, Worktree, SetUp, Working
  <2>6. Only(t)
    BY <2>2, <2>3, <2>4, Locally
  <2>. QED
    BY <1>1, <2>1, <2>2, <2>3, <2>4, <2>5, <2>6, TaskStep DEF SetUp, Working
<1>3. ASSUME EnsureMirror(t)
      PROVE  Typed' /\ WorkspaceInv'
  <2>1. /\ run[t].at = "mirror" /\ mirror' = [mirror EXCEPT ![RepoOf[t]] = TRUE]
        /\ UNCHANGED <<mode, task, tree, reg, local, remote, newest, pr, worker, crashes, failures>>
    BY <1>3 DEF EnsureMirror, At
  <2>2. /\ Moved(t, "worktree", run[t].ends, run[t].path)
        /\ Rowed(t, task[t].status) /\ Kept(t)
    BY <1>3, <2>1, MovesOn DEF EnsureMirror, SetUp
  <2>3. /\ mirror' \in [Repos -> BOOLEAN] /\ mirror'[RepoOf[t]]
        /\ \A r \in Repos : mirror[r] => mirror'[r]
    BY <1>3, <1>1, <2>1
  <2>4. TaskInv(t)'
    BY <1>1, <2>1, <2>2, <2>3
       DEF Moved, Rowed, TaskInv, SetsUp, Follows, MadeAnew, Settled, Delivers, Pushed, Tidies, Worktree, SetUp, Working
  <2>5. Only(t)
    BY <2>2, <2>3, Locally
  <2>. QED
    BY <1>1, <2>1, <2>2, <2>3, <2>4, <2>5, TaskStep DEF SetUp, Working
<1>4. ASSUME CreateWorktree(t)
      PROVE  Typed' /\ WorkspaceInv'
  <2>1. /\ run[t].at = "worktree"
        /\ run' = [run EXCEPT ![t].at = "code", ![t].path = TRUE]
        /\ UNCHANGED <<mode, task, remote, newest, pr, mirror, worker, crashes, failures>>
    BY <1>4 DEF CreateWorktree, At
  <2>2. Moved(t, "code", run[t].ends, TRUE) /\ Rowed(t, task[t].status)
    BY <1>4, <2>1, MovesOn
  <2>3. /\ Kept(t) /\ remote'[t] = remote[t]
        /\ \/ reg'[t] = reg[t] /\ local'[t] = local[t]
           \/ reg'[t] /\ local'[t] = Added(t)
    <3>1. CASE tree[t].there
      <4>1. UNCHANGED <<tree, reg, local>>
        BY <1>4, <3>1 DEF CreateWorktree
      <4>2. Kept(t)
        BY <2>1, <4>1, MovesOn
      <4>. QED
        BY <2>1, <4>1, <4>2
    <3>2. CASE ~tree[t].there
      BY <1>4, <2>1, <3>2, Adds DEF CreateWorktree
    <3>. QED
      BY <3>1, <3>2
  <2>4. TaskInv(t)'
    BY <1>1, <2>1, <2>2, <2>3, AddedFollows
       DEF Moved, Rowed, TaskInv, SetsUp, Follows, MadeAnew, Settled, Delivers, Pushed, Tidies, Worktree, SetUp, Working
  <2>5. Only(t)
    BY <2>2, <2>3, Locally
  <2>. QED
    BY <1>1, <2>1, <2>2, <2>3, <2>4, <2>5, TaskStep DEF SetUp, Working
<1>5. ASSUME WorktreeRefused(t)
      PROVE  Typed' /\ WorkspaceInv'
  <2>1. /\ run[t].at = "worktree" /\ ~tree[t].there /\ reg[t]
        /\ UNCHANGED <<mode, tree, reg, local, remote, newest, pr, mirror, worker, crashes, failures>>
    BY <1>5 DEF WorktreeRefused, At, gitVars
  <2>2. /\ Moved(t, "cleanup", "failed", run[t].path) /\ Rowed(t, "failed") /\ Kept(t)
    BY <1>5, <2>1, MovesOn DEF WorktreeRefused
  <2>3. TaskInv(t)'
    BY <1>1, <2>1, <2>2
       DEF Moved, Rowed, TaskInv, SetsUp, Follows, MadeAnew, Settled, Delivers, Pushed, Tidies, Worktree, SetUp, Working
  <2>4. Only(t)
    BY <2>2, Locally
  <2>. QED
    BY <1>1, <2>1, <2>2, <2>3, <2>4, TaskStep DEF SetUp, Working
<1>6. ASSUME Clone(t)
      PROVE  Typed' /\ WorkspaceInv'
  <2>1. /\ run[t].at = "clone" /\ run' = [run EXCEPT ![t].at = "code", ![t].path = TRUE]
        /\ tree' = [tree EXCEPT ![t] = [there |-> TRUE, dirty |-> FALSE]]
        /\ local' = [local EXCEPT ![t] = IF remote[t] = "none" THEN "base" ELSE remote[t]]
        /\ UNCHANGED <<mode, task, reg, remote, newest, pr, mirror, worker, crashes, failures>>
    BY <1>6 DEF Clone, At
  <2>2. Moved(t, "code", run[t].ends, TRUE) /\ Rowed(t, task[t].status)
    BY <1>6, <2>1, MovesOn
  <2>3. /\ Kept(t) /\ remote'[t] = remote[t] /\ reg'[t] = reg[t]
        /\ local'[t] = IF remote[t] = "none" THEN "base" ELSE remote[t]
    <3>. DEFINE c == IF remote[t] = "none" THEN "base" ELSE remote[t]
                d == [there |-> TRUE, dirty |-> FALSE]
    <3>1. c \in Contents /\ d \in Trees
      BY <1>1 DEF Contents, Trees
    <3>2. /\ tree' = [tree EXCEPT ![t] = d] /\ local' = [local EXCEPT ![t] = c]
          /\ c = IF remote[t] = "none" THEN "base" ELSE remote[t]
      BY <2>1
    <3>. HIDE DEF c, d
    <3>3. Kept(t) /\ remote'[t] = remote[t] /\ reg'[t] = reg[t] /\ local'[t] = c
      BY <1>1, <2>1, <3>1, <3>2, Changes, ZenonT(40)
    <3>. QED
      BY <3>2, <3>3
  <2>4. TaskInv(t)'
    BY <1>1, <2>1, <2>2, <2>3
       DEF Moved, Rowed, TaskInv, SetsUp, Follows, MadeAnew, Settled, Delivers, Pushed, Tidies, Worktree, SetUp, Working
  <2>5. Only(t)
    BY <2>2, <2>3, Locally
  <2>. QED
    BY <1>1, <2>1, <2>2, <2>3, <2>4, <2>5, TaskStep DEF SetUp, Working
<1>7. ASSUME SetUpFails(t)
      PROVE  Typed' /\ WorkspaceInv'
  <2>1. /\ run[t].at \in SetUp /\ Failure
        /\ UNCHANGED <<mode, tree, reg, local, remote, newest, pr, mirror, worker, crashes>>
    BY <1>7 DEF SetUpFails, gitVars
  <2>2. /\ Moved(t, "cleanup", "failed", run[t].path) /\ Rowed(t, "failed") /\ Kept(t)
    BY <1>7, <2>1, MovesOn DEF SetUpFails
  <2>3. failures' # 0
    BY <1>7, <1>1, <2>1 DEF Failure
  <2>4. TaskInv(t)'
    BY <1>1, <2>1, <2>2, <2>3
       DEF Moved, Rowed, TaskInv, SetsUp, Follows, MadeAnew, Settled, Delivers, Pushed, Tidies, Worktree, SetUp, Working
  <2>5. Only(t)
    BY <2>2, <2>3, Locally
  <2>. QED
    BY <1>1, <2>1, <2>2, <2>3, <2>4, <2>5, TaskStep DEF SetUp, Working
<1>. QED
  BY <1>2, <1>3, <1>4, <1>5, <1>6, <1>7
\* The stages of a run.
LEMMA StageStep ==
  ASSUME Typed, WorkspaceInv, NEW t \in Tasks,
         Edit(t) \/ CodeEnds(t) \/ CheckChanges(t) \/ LaterStages(t)
  PROVE  Typed' /\ WorkspaceInv'
<1>1. /\ TaskInv(t) /\ run[t] \in Runs /\ RepoOf[t] \in Repos /\ mirror \in [Repos -> BOOLEAN]
      /\ tree[t] \in Trees /\ reg[t] \in BOOLEAN /\ local[t] \in Contents /\ remote[t] \in Contents
      /\ failures \in Nat
  BY WorkspaceConstants DEF Typed, TaskTypes, WorkspaceInv
<1>2. ASSUME Edit(t)
      PROVE  Typed' /\ WorkspaceInv'
  <2>1. /\ run[t].at = "code" /\ tree' = [tree EXCEPT ![t].dirty = TRUE]
        /\ UNCHANGED <<mode, task, run, reg, local, remote, newest, pr, mirror, worker, crashes, failures>>
    BY <1>2 DEF Edit, At
  <2>2. Moved(t, run[t].at, run[t].ends, run[t].path) /\ Rowed(t, task[t].status)
    BY <1>1, <2>1, MovesOn DEF Moved, Typed, TaskTypes
  <2>3. Kept(t) /\ reg'[t] = reg[t] /\ remote'[t] = remote[t]
    BY <2>1 DEF Typed, TaskTypes, Trees, Kept
  <2>4. TaskInv(t)'
    BY <1>1, <2>1, <2>2, <2>3
       DEF Moved, Rowed, TaskInv, SetsUp, Follows, MadeAnew, Settled, Delivers, Pushed, Tidies, Worktree, SetUp, Working
  <2>5. Only(t)
    BY <2>2, <2>3, Locally
  <2>. QED
    BY <1>1, <2>1, <2>2, <2>3, <2>4, <2>5, TaskStep DEF SetUp, Working
<1>3. ASSUME CodeEnds(t)
      PROVE  Typed' /\ WorkspaceInv'
  <2>1. /\ run[t].at = "code"
        /\ UNCHANGED <<mode, tree, reg, local, remote, newest, pr, mirror, worker, crashes, failures>>
        /\ \/ task' = [task EXCEPT ![t].code = "completed"] /\ Goes(t, "check")
           \/ StageFails(t)
    BY <1>3 DEF CodeEnds, At, gitVars
  <2>2. PICK at, ends, status :
           /\ Moved(t, at, ends, run[t].path) /\ Rowed(t, status) /\ Kept(t)
           /\ \/ at = "check" /\ ends = run[t].ends /\ status = task[t].status
              \/ at = "cleanup" /\ ends = "failed" /\ status = "failed"
    <3>1. CASE task' = [task EXCEPT ![t].code = "completed"] /\ Goes(t, "check")
      <4>1. Moved(t, "check", run[t].ends, run[t].path) /\ Kept(t)
        BY <2>1, <3>1, MovesOn DEF Working
      <4>2. Rowed(t, task[t].status)
        BY <3>1, SMTT(30) DEF Rowed, Typed, TaskTypes, Rows
      <4>. QED
        BY <4>1, <4>2
    <3>2. CASE StageFails(t)
      BY <2>1, <3>2, MovesOn
    <3>. QED
      BY <2>1, <3>1, <3>2
  <2>3. TaskInv(t)'
    BY <1>1, <2>1, <2>2
       DEF Moved, Rowed, TaskInv, SetsUp, Follows, MadeAnew, Settled, Delivers, Pushed, Tidies, Worktree, SetUp, Working
  <2>4. Only(t)
    BY <2>2, Locally
  <2>. QED
    BY <1>1, <2>1, <2>2, <2>3, <2>4, TaskStep DEF SetUp, Working
<1>4. ASSUME CheckChanges(t)
      PROVE  Typed' /\ WorkspaceInv'
  <2>1. /\ run[t].at = "check"
        /\ UNCHANGED <<mode, tree, reg, local, remote, newest, pr, mirror, worker, crashes, failures>>
        /\ \/ (~Worktree \/ SeesChanges(t)) /\ Goes(t, "later") /\ UNCHANGED task
           \/ StageFails(t)
    BY <1>4 DEF CheckChanges, At, gitVars
  <2>2. PICK at, ends, status :
           /\ Moved(t, at, ends, run[t].path) /\ Rowed(t, status) /\ Kept(t)
           /\ \/ /\ at = "later" /\ ends = run[t].ends /\ status = task[t].status
                 /\ ~Worktree \/ (tree[t].there /\ reg[t] /\ tree[t].dirty)
              \/ at = "cleanup" /\ ends = "failed" /\ status = "failed"
    <3>1. CASE (~Worktree \/ SeesChanges(t)) /\ Goes(t, "later") /\ UNCHANGED task
      BY <2>1, <3>1, MovesOn DEF Working, SeesChanges
    <3>2. CASE StageFails(t)
      BY <2>1, <3>2, MovesOn
    <3>. QED
      BY <2>1, <3>1, <3>2
  <2>3. TaskInv(t)'
    BY <1>1, <2>1, <2>2
       DEF Moved, Rowed, TaskInv, SetsUp, Follows, MadeAnew, Settled, Delivers, Pushed, Tidies, Worktree, SetUp, Working
  <2>4. Only(t)
    BY <2>2, Locally
  <2>. QED
    BY <1>1, <2>1, <2>2, <2>3, <2>4, TaskStep DEF SetUp, Working
<1>5. ASSUME LaterStages(t)
      PROVE  Typed' /\ WorkspaceInv'
  <2>1. /\ run[t].at = "later"
        /\ UNCHANGED <<mode, tree, reg, local, remote, newest, pr, mirror, worker, crashes, failures>>
        /\ (Goes(t, "commit") /\ UNCHANGED task) \/ Fails(t)
    BY <1>5 DEF LaterStages, At, gitVars
  <2>2. PICK at, ends, status :
           /\ Moved(t, at, ends, run[t].path) /\ Rowed(t, status) /\ Kept(t)
           /\ \/ at = "commit" /\ ends = run[t].ends /\ status = task[t].status
              \/ at = "cleanup" /\ ends = "failed" /\ status = "failed"
    <3>1. CASE Goes(t, "commit") /\ UNCHANGED task
      BY <2>1, <3>1, MovesOn DEF Working
    <3>2. CASE Fails(t)
      BY <2>1, <3>2, MovesOn
    <3>. QED
      BY <2>1, <3>1, <3>2
  <2>3. TaskInv(t)'
    BY <1>1, <2>1, <2>2
       DEF Moved, Rowed, TaskInv, SetsUp, Follows, MadeAnew, Settled, Delivers, Pushed, Tidies, Worktree, SetUp, Working
  <2>4. Only(t)
    BY <2>2, Locally
  <2>. QED
    BY <1>1, <2>1, <2>2, <2>3, <2>4, TaskStep DEF SetUp, Working
<1>. QED
  BY <1>2, <1>3, <1>4, <1>5

\* A commit is on top of what the branch has; where that is not the work at the
\* origin, it has diverged from it.
LEMMA Commits ==
  ASSUME Typed, NEW t \in Tasks, AddCommit(t), UNCHANGED <<reg, remote, pr>>
  PROVE  /\ Kept(t) /\ reg'[t] = reg[t] /\ remote'[t] = remote[t] /\ newest'[t] = "local"
         /\ local'[t] \in {"work", "diverged"}
         /\ local'[t] = "diverged" => remote[t] = "work" /\ local[t] # "work"
<1>. DEFINE c == IF local[t] = "work" \/ remote[t] # "work" THEN "work" ELSE "diverged"
            d == [tree[t] EXCEPT !.dirty = FALSE]
<1>1. /\ c \in Contents /\ c \in {"work", "diverged"} /\ "local" \in Places
      /\ c = "diverged" => remote[t] = "work" /\ local[t] # "work"
  <2>1. CASE local[t] = "work" \/ remote[t] # "work"
    BY <2>1 DEF Contents, Places
  <2>2. CASE ~(local[t] = "work" \/ remote[t] # "work")
    BY <2>2 DEF Contents, Places
  <2>. QED
    BY <2>1, <2>2
<1>2. d \in Trees
  <2>1. tree[t] \in Trees
    BY DEF Typed, TaskTypes
  <2>. QED
    BY <2>1 DEF Trees
<1>3. /\ tree' = [tree EXCEPT ![t] = d] /\ local' = [local EXCEPT ![t] = c]
      /\ newest' = [newest EXCEPT ![t] = "local"]
  BY DEF AddCommit
<1>. HIDE DEF c, d
<1>4. /\ tree' \in [Tasks -> Trees] /\ \A u \in Tasks : u # t => tree'[u] = tree[u]
      /\ local' \in [Tasks -> Contents] /\ \A u \in Tasks : u # t => local'[u] = local[u]
      /\ newest' \in [Tasks -> Places] /\ \A u \in Tasks : u # t => newest'[u] = newest[u]
      /\ local'[t] = c /\ newest'[t] = "local"
  BY <1>1, <1>2, <1>3 DEF Typed, TaskTypes
<1>. QED
  BY <1>1, <1>4 DEF Kept, Typed, TaskTypes

\* Its changes leave the machine.
LEMMA FinalStep ==
  ASSUME Typed, WorkspaceInv, NEW t \in Tasks,
         \/ Commit(t) \/ Push(t) \/ CommitOrPushFails(t) \/ RecordBranch(t)
         \/ CreatePr(t) \/ CreatePrFails(t) \/ RecordUrl(t) \/ FinalizeRaises(t)
  PROVE  Typed' /\ WorkspaceInv'
<1>1. /\ TaskInv(t) /\ run[t] \in Runs /\ RepoOf[t] \in Repos /\ mirror \in [Repos -> BOOLEAN]
      /\ tree[t] \in Trees /\ reg[t] \in BOOLEAN /\ local[t] \in Contents /\ remote[t] \in Contents
      /\ failures \in Nat
  BY WorkspaceConstants DEF Typed, TaskTypes, WorkspaceInv
<1>2. ASSUME Commit(t)
      PROVE  Typed' /\ WorkspaceInv'
  <2>1. /\ run[t].at = "commit"
        /\ UNCHANGED <<mode, task, reg, remote, pr, mirror, worker, crashes, failures>>
    BY <1>2 DEF Commit, At
  <2>2. \/ Worktree /\ ~reg[t] /\ Finished(t) /\ UNCHANGED <<tree, local, newest>>
        \/ HasChanges(t) /\ AddCommit(t) /\ Goes(t, "push")
        \/ /\ ~Worktree \/ (reg[t] /\ ~tree[t].dirty)
           /\ Goes(t, IF Worktree THEN "push" ELSE "branch") /\ UNCHANGED <<tree, local, newest>>
    BY <1>2, <1>1 DEF Commit, HasChanges
  <2>3. CASE Worktree /\ ~reg[t] /\ Finished(t) /\ UNCHANGED <<tree, local, newest>>
    <3>1. /\ Moved(t, "cleanup", "complete", run[t].path)
          /\ Rowed(t, task[t].status) /\ Kept(t)
      BY <2>1, <2>3, MovesOn
    <3>2. TaskInv(t)'
      BY <1>1, <2>1, <2>3, <3>1
         DEF Moved, Rowed, TaskInv, SetsUp, Follows, MadeAnew, Settled, Delivers, Pushed, Tidies,
             Worktree, SetUp, Working
    <3>. QED
      BY <1>1, <2>1, <3>1, <3>2, Locally, TaskStep DEF SetUp, Working
  <2>4. CASE HasChanges(t) /\ AddCommit(t) /\ Goes(t, "push")
    <3>1. Moved(t, "push", run[t].ends, run[t].path) /\ Rowed(t, task[t].status)
      BY <2>1, <2>4, MovesOn DEF Working
    <3>2. /\ Kept(t) /\ reg'[t] = reg[t] /\ remote'[t] = remote[t] /\ newest'[t] = "local"
          /\ local'[t] \in {"work", "diverged"}
          /\ local'[t] = "diverged" => remote[t] = "work" /\ local[t] # "work"
      BY <1>1, <2>1, <2>4, Commits
    <3>3. Follows(t)'
      BY <1>1, <2>1, <2>4, <3>2 DEF TaskInv, Follows, MadeAnew, HasChanges, Worktree
    <3>4. SetsUp(t)' /\ Settled(t)' /\ Delivers(t)'
      BY <1>1, <2>1, <2>4, <3>1, <3>2
         DEF Moved, Rowed, TaskInv, SetsUp, Settled, Delivers, Pushed, HasChanges, Worktree
    <3>5. Tidies(t)'
      BY <1>1, <2>1, <3>1, <3>2 DEF Moved, TaskInv, Tidies, SetUp, Working
    <3>. QED
      BY <1>1, <2>1, <3>1, <3>2, <3>3, <3>4, <3>5, Locally, TaskStep DEF TaskInv
  <2>5. CASE /\ ~Worktree \/ (reg[t] /\ ~tree[t].dirty)
             /\ Goes(t, IF Worktree THEN "push" ELSE "branch") /\ UNCHANGED <<tree, local, newest>>
    <3>1. PICK at \in {"push", "branch"} :
             /\ Moved(t, at, run[t].ends, run[t].path) /\ Rowed(t, task[t].status) /\ Kept(t)
             /\ at = "push" <=> Worktree
      <4>1. CASE Worktree
        BY <2>1, <2>5, <4>1, MovesOn DEF Working
      <4>2. CASE ~Worktree
        BY <2>1, <2>5, <4>2, MovesOn DEF Working
      <4>. QED
        BY <4>1, <4>2
    <3>2. TaskInv(t)'
      BY <1>1, <2>1, <2>5, <3>1
         DEF Moved, Rowed, TaskInv, SetsUp, Follows, MadeAnew, Settled, Delivers, Pushed, Tidies,
             Worktree, SetUp, Working
    <3>. QED
      BY <1>1, <2>1, <3>1, <3>2, Locally, TaskStep DEF SetUp, Working
  <2>. QED
    BY <2>2, <2>3, <2>4, <2>5
<1>3. ASSUME Push(t)
      PROVE  Typed' /\ WorkspaceInv'
  <2>1. /\ run[t].at = "push"
        /\ UNCHANGED <<mode, task, tree, reg, local, pr, mirror, worker, crashes, failures>>
        /\ \/ /\ remote[t] = "work" /\ local[t] # "work" /\ Finished(t) /\ UNCHANGED remote
              /\ newest' = [newest EXCEPT ![t] = IF newest[t] = "local" THEN "refused" ELSE newest[t]]
           \/ /\ remote[t] # "work" \/ local[t] = "work"
              /\ remote' = [remote EXCEPT ![t] = local[t]] /\ Goes(t, "branch")
              /\ newest' = [newest EXCEPT ![t] = IF local[t] = "work" THEN "origin" ELSE newest[t]]
    BY <1>3 DEF Push, At
  <2>2. PICK at, ends :
           /\ Moved(t, at, ends, run[t].path) /\ Rowed(t, task[t].status) /\ Kept(t)
           /\ tree'[t] = tree[t] /\ reg'[t] = reg[t] /\ local'[t] = local[t]
           /\ \/ /\ at = "cleanup" /\ ends = "complete" /\ remote[t] = "work" /\ remote'[t] = "work"
                 /\ local[t] # "work"
                 /\ newest[t] = "local" => newest'[t] = "refused"
              \/ /\ at = "branch" /\ ends = run[t].ends /\ remote'[t] = local[t]
                 /\ local[t] = "work" => newest'[t] = "origin"
                 /\ remote[t] = "work" => local[t] = "work"
    <3>1. CASE /\ remote[t] = "work" /\ local[t] # "work" /\ Finished(t) /\ UNCHANGED remote
               /\ newest' = [newest EXCEPT ![t] = IF newest[t] = "local" THEN "refused" ELSE newest[t]]
      <4>1. Moved(t, "cleanup", "complete", run[t].path) /\ Rowed(t, task[t].status)
        BY <2>1, <3>1, MovesOn
      <4>2. Kept(t) /\ (newest[t] = "local" => newest'[t] = "refused")
        BY <2>1, <3>1 DEF Kept, Typed, TaskTypes, Places
      <4>. QED
        BY <2>1, <3>1, <4>1, <4>2
    <3>2. CASE /\ remote[t] # "work" \/ local[t] = "work"
               /\ remote' = [remote EXCEPT ![t] = local[t]] /\ Goes(t, "branch")
               /\ newest' = [newest EXCEPT ![t] = IF local[t] = "work" THEN "origin" ELSE newest[t]]
      <4>1. Moved(t, "branch", run[t].ends, run[t].path) /\ Rowed(t, task[t].status)
        BY <2>1, <3>2, MovesOn DEF Working
      <4>2. Kept(t) /\ remote'[t] = local[t] /\ (local[t] = "work" => newest'[t] = "origin")
        BY <2>1, <3>2 DEF Kept, Typed, TaskTypes, Places
      <4>. QED
        BY <2>1, <3>2, <4>1, <4>2
    <3>. QED
      BY <2>1, <3>1, <3>2
  <2>3. Follows(t)'
    <3>1. Follows(t) /\ UNCHANGED <<mode, crashes>>
      BY <1>1, <2>1 DEF TaskInv
    <3>2. reg'[t] = reg[t] /\ local'[t] = local[t]
      BY <2>2
    <3>3. CASE remote[t] = "work" /\ remote'[t] = "work"
      BY <3>1, <3>2, <3>3 DEF Follows, MadeAnew, Worktree
    <3>4. CASE remote'[t] = local[t] /\ (remote[t] = "work" => local[t] = "work")
      BY <3>1, <3>2, <3>4 DEF Follows, MadeAnew, Worktree
    <3>. QED
      BY <2>2, <3>3, <3>4
  <2>4. Delivers(t)'
    BY <1>1, <2>1, <2>2
       DEF Moved, Rowed, TaskInv, Follows, MadeAnew, Settled, Delivers, Pushed, Worktree
  <2>5. SetsUp(t)' /\ Settled(t)' /\ Tidies(t)'
    BY <1>1, <2>1, <2>2
       DEF Moved, Rowed, TaskInv, SetsUp, Settled, Tidies, Worktree, SetUp, Working
  <2>6. Only(t) /\ TaskInv(t)'
    BY <2>2, <2>3, <2>4, <2>5, Locally DEF TaskInv
  <2>. QED
    BY <1>1, <2>1, <2>2, <2>6, TaskStep DEF SetUp, Working
<1>4. ASSUME CommitOrPushFails(t)
      PROVE  Typed' /\ WorkspaceInv'
  <2>1. /\ run[t].at \in {"commit", "push"} /\ Failure /\ Finished(t)
        /\ UNCHANGED <<mode, task, reg, remote, pr, mirror, worker, crashes>>
    BY <1>4 DEF CommitOrPushFails
  <2>2. Moved(t, "cleanup", "complete", run[t].path) /\ Rowed(t, task[t].status)
    BY <2>1, MovesOn
  <2>3. failures' # 0
    BY <1>1, <2>1 DEF Failure
  <2>4. Kept(t) /\ reg'[t] = reg[t] /\ remote'[t] = remote[t] /\ Follows(t)'
    <3>1. CASE UNCHANGED <<tree, local, newest>>
      <4>1. Kept(t)
        BY <2>1, <3>1, MovesOn
      <4>. QED
        BY <1>1, <2>1, <3>1, <4>1 DEF TaskInv, Follows, MadeAnew, Worktree
    <3>2. CASE HasChanges(t) /\ AddCommit(t)
      <4>1. /\ Kept(t) /\ local'[t] \in {"work", "diverged"}
            /\ local'[t] = "diverged" => remote[t] = "work" /\ local[t] # "work"
        BY <1>1, <2>1, <3>2, Commits
      <4>. QED
        BY <1>1, <2>1, <3>2, <4>1 DEF TaskInv, Follows, MadeAnew, HasChanges, Worktree
    <3>. QED
      BY <1>4, <3>1, <3>2 DEF CommitOrPushFails
  <2>5. SetsUp(t)' /\ Settled(t)' /\ Delivers(t)' /\ Tidies(t)'
    BY <1>1, <2>1, <2>2, <2>3, <2>4
       DEF Moved, Rowed, TaskInv, SetsUp, Settled, Delivers, Pushed, Tidies, Worktree, SetUp, Working
  <2>6. Only(t) /\ TaskInv(t)'
    BY <2>2, <2>4, <2>5, Locally DEF TaskInv
  <2>. QED
    BY <1>1, <2>1, <2>2, <2>6, TaskStep DEF SetUp, Working
<1>5. ASSUME RecordBranch(t)
      PROVE  Typed' /\ WorkspaceInv'
  <2>1. /\ run[t].at = "branch"
        /\ UNCHANGED <<mode, task, tree, reg, local, remote, newest, pr, mirror, worker, crashes, failures>>
    BY <1>5 DEF RecordBranch, At, gitVars
  <2>2. /\ Moved(t, "pr", run[t].ends, run[t].path)
        /\ Rowed(t, task[t].status) /\ Kept(t)
    BY <1>5, <2>1, MovesOn DEF RecordBranch, Working
  <2>3. TaskInv(t)'
    BY <1>1, <2>1, <2>2
       DEF Moved, Rowed, TaskInv, SetsUp, Follows, MadeAnew, Settled, Delivers, Pushed, Tidies, Worktree, SetUp, Working
  <2>4. Only(t)
    BY <2>2, Locally
  <2>. QED
    BY <1>1, <2>1, <2>2, <2>3, <2>4, TaskStep DEF SetUp, Working
<1>6. ASSUME CreatePr(t)
      PROVE  Typed' /\ WorkspaceInv'
  <2>1. /\ run[t].at = "pr"
        /\ UNCHANGED <<mode, task, tree, reg, local, remote, newest, mirror, worker, crashes, failures>>
        /\ \/ pr' = [pr EXCEPT ![t] = TRUE] /\ Goes(t, "url")
           \/ pr' = pr /\ Finished(t)
    BY <1>6 DEF CreatePr, At
  <2>2. Kept(t)
    BY <2>1 DEF Kept, Typed, TaskTypes
  <2>3. PICK at, ends :
           /\ Moved(t, at, ends, run[t].path) /\ Rowed(t, task[t].status) /\ Kept(t)
           /\ \/ at = "url" /\ ends = run[t].ends
              \/ at = "cleanup" /\ ends = "complete"
    BY <2>1, <2>2, MovesOn DEF Working
  <2>4. TaskInv(t)'
    BY <1>1, <2>1, <2>2, <2>3
       DEF Moved, Rowed, TaskInv, SetsUp, Follows, MadeAnew, Settled, Delivers, Pushed, Tidies, Worktree, SetUp, Working
  <2>5. Only(t)
    BY <2>2, <2>3, Locally
  <2>. QED
    BY <1>1, <2>1, <2>2, <2>3, <2>4, <2>5, TaskStep DEF SetUp, Working
<1>7. ASSUME CreatePrFails(t)
      PROVE  Typed' /\ WorkspaceInv'
  <2>1. /\ run[t].at = "pr" /\ Failure /\ Finished(t)
        /\ UNCHANGED <<mode, task, tree, reg, local, remote, newest, pr, mirror, worker, crashes>>
    BY <1>7 DEF CreatePrFails, At, gitVars
  <2>2. /\ Moved(t, "cleanup", "complete", run[t].path)
        /\ Rowed(t, task[t].status) /\ Kept(t)
    BY <1>7, <2>1, MovesOn
  <2>3. failures' # 0
    BY <1>7, <1>1, <2>1 DEF Failure
  <2>4. TaskInv(t)'
    BY <1>1, <2>1, <2>2, <2>3
       DEF Moved, Rowed, TaskInv, SetsUp, Follows, MadeAnew, Settled, Delivers, Pushed, Tidies, Worktree, SetUp, Working
  <2>5. Only(t)
    BY <2>2, <2>3, Locally
  <2>. QED
    BY <1>1, <2>1, <2>2, <2>3, <2>4, <2>5, TaskStep DEF SetUp, Working
<1>8. ASSUME RecordUrl(t)
      PROVE  Typed' /\ WorkspaceInv'
  <2>1. /\ run[t].at = "url" /\ task' = [task EXCEPT ![t].url = TRUE] /\ Finished(t)
        /\ UNCHANGED <<mode, tree, reg, local, remote, newest, pr, mirror, worker, crashes, failures>>
    BY <1>8 DEF RecordUrl, At, gitVars
  <2>2. Moved(t, "cleanup", "complete", run[t].path) /\ Kept(t)
    BY <2>1, MovesOn
  <2>3. Rowed(t, task[t].status)
    BY <2>1, ZenonT(40) DEF Rowed, Typed, TaskTypes, Rows
  <2>4. TaskInv(t)'
    BY <1>1, <2>1, <2>2, <2>3
       DEF Moved, Rowed, TaskInv, SetsUp, Follows, MadeAnew, Settled, Delivers, Pushed, Tidies, Worktree, SetUp, Working
  <2>5. Only(t)
    BY <2>2, <2>3, Locally
  <2>. QED
    BY <1>1, <2>1, <2>2, <2>3, <2>4, <2>5, TaskStep DEF SetUp, Working
<1>9. ASSUME FinalizeRaises(t)
      PROVE  Typed' /\ WorkspaceInv'
  <2>1. /\ run[t].at \in {"commit", "branch", "url"} /\ Failure
        /\ UNCHANGED <<mode, tree, reg, local, remote, newest, pr, mirror, worker, crashes>>
    BY <1>9 DEF FinalizeRaises, gitVars
  <2>2. /\ Moved(t, "cleanup", "failed", run[t].path) /\ Rowed(t, "failed") /\ Kept(t)
    BY <1>9, <2>1, MovesOn DEF FinalizeRaises
  <2>3. failures' # 0
    BY <1>9, <1>1, <2>1 DEF Failure
  <2>4. TaskInv(t)'
    BY <1>1, <2>1, <2>2, <2>3
       DEF Moved, Rowed, TaskInv, SetsUp, Follows, MadeAnew, Settled, Delivers, Pushed, Tidies, Worktree, SetUp, Working
  <2>5. Only(t)
    BY <2>2, <2>3, Locally
  <2>. QED
    BY <1>1, <2>1, <2>2, <2>3, <2>4, <2>5, TaskStep DEF SetUp, Working
<1>. QED
  BY <1>2, <1>3, <1>4, <1>5, <1>6, <1>7, <1>8, <1>9

\* A run is over.
LEMMA Stops ==
  ASSUME Typed, NEW t \in Tasks, run' = [run EXCEPT ![t] = NoRun]
  PROVE  Moved(t, "none", "none", FALSE)
<1>1. NoRun \in Runs /\ NoRun.at = "none" /\ NoRun.ends = "none" /\ NoRun.path = FALSE
  BY DEF NoRun, Runs
<1>. QED
  BY <1>1 DEF Moved, Typed, TaskTypes

\* A run ends, and a task is retried.
LEMMA EndStep ==
  ASSUME Typed, WorkspaceInv, NEW t \in Tasks,
         CleanUp(t) \/ Close(t) \/ Timeout(t) \/ TimeoutOfGit(t) \/ Retry(t)
  PROVE  Typed' /\ WorkspaceInv'
<1>1. /\ TaskInv(t) /\ run[t] \in Runs /\ RepoOf[t] \in Repos /\ mirror \in [Repos -> BOOLEAN]
      /\ tree[t] \in Trees /\ reg[t] \in BOOLEAN /\ local[t] \in Contents /\ remote[t] \in Contents
      /\ failures \in Nat
  BY WorkspaceConstants DEF Typed, TaskTypes, WorkspaceInv
<1>2. ASSUME CleanUp(t)
      PROVE  Typed' /\ WorkspaceInv'
  <2>1. /\ run[t].at = "cleanup" /\ Goes(t, "close")
        /\ UNCHANGED <<mode, task, remote, newest, pr, mirror, worker, crashes, failures>>
    BY <1>2 DEF CleanUp, At
  <2>2. Moved(t, "close", run[t].ends, run[t].path) /\ Rowed(t, task[t].status)
    BY <2>1, MovesOn
  <2>3. /\ Kept(t) /\ remote'[t] = remote[t]
        /\ \/ run[t].path /\ tree'[t] = NoTree /\ reg'[t] = FALSE
           \/ ~run[t].path /\ tree'[t] = tree[t] /\ reg'[t] = reg[t]
        /\ Worktree => local'[t] = local[t]
    <3>1. CASE run[t].path
      <4>. DEFINE c == IF Worktree THEN local[t] ELSE "none"
      <4>1. c \in Contents /\ NoTree \in Trees
        BY <1>1 DEF Contents, NoTree, Trees
      <4>2. /\ tree' = [tree EXCEPT ![t] = NoTree] /\ reg' = [reg EXCEPT ![t] = FALSE]
            /\ local' = [local EXCEPT ![t] = c]
        BY <1>2, <3>1 DEF CleanUp
      <4>3. Worktree => c = local[t]
        OBVIOUS
      <4>. HIDE DEF c
      <4>4. Kept(t) /\ tree'[t] = NoTree /\ reg'[t] = FALSE /\ local'[t] = c /\ remote'[t] = remote[t]
        BY <1>1, <2>1, <4>1, <4>2, Changes
      <4>. QED
        BY <3>1, <4>3, <4>4
    <3>2. CASE ~run[t].path
      BY <1>2, <2>1, <3>2, MovesOn DEF CleanUp
    <3>. QED
      BY <3>1, <3>2
  <2>4. TaskInv(t)'
    BY <1>1, <2>1, <2>2, <2>3
       DEF Moved, Rowed, TaskInv, SetsUp, Follows, MadeAnew, Settled, Delivers, Pushed, Tidies, Worktree, SetUp, Working
  <2>5. Only(t)
    BY <2>2, <2>3, Locally
  <2>. QED
    BY <1>1, <2>1, <2>2, <2>3, <2>4, <2>5, TaskStep DEF SetUp, Working
<1>3. ASSUME Close(t)
      PROVE  Typed' /\ WorkspaceInv'
  <2>1. /\ run[t].at = "close" /\ run' = [run EXCEPT ![t] = NoRun]
        /\ UNCHANGED <<mode, tree, reg, local, remote, newest, pr, mirror, worker, crashes, failures>>
    BY <1>3 DEF Close, At, gitVars
  <2>2. Moved(t, "none", "none", FALSE) /\ Kept(t)
    BY <2>1, Stops, MovesOn
  <2>3. PICK status :
           /\ Rowed(t, status)
           /\ status = "completed" => run[t].ends = "complete" \/ task[t].status = "completed"
    <3>. DEFINE s == CASE run[t].ends = "complete" -> "completed"
                       [] run[t].ends = "timeout" -> "failed"
                       [] OTHER -> task[t].status
    <3>1. /\ s \in {"pending", "running", "completed", "failed"}
          /\ s = "completed" => run[t].ends = "complete" \/ task[t].status = "completed"
      BY DEF Typed, TaskTypes, Rows
    <3>2. task' = [task EXCEPT ![t].status = s]
      BY <1>3 DEF Close
    <3>. HIDE DEF s
    <3>3. Rowed(t, s)
      BY <3>1, <3>2 DEF Rowed, Typed, TaskTypes, Rows
    <3>. QED
      BY <3>1, <3>3
  <2>4. TaskInv(t)'
    <3>1. SetsUp(t)'
      BY <1>1, <2>1, <2>2, <2>3
         DEF Moved, Rowed, TaskInv, SetsUp, Worktree, SetUp, Working
    <3>2. Delivers(t)'
      <4>1. Delivers(t) /\ mode' = mode /\ failures' = failures /\ remote' = remote
        BY <1>1, <2>1 DEF TaskInv
      <4>2. run'[t].at \notin Working /\ run'[t].ends # "complete"
        BY <2>2 DEF Moved, Working
      <4>3. Worktree /\ failures = 0 /\ task'[t].status = "completed" =>
               /\ remote[t] = "work"
               /\ newest[t] = "origin" \/ (newest[t] = "refused" /\ MadeAnew(t))
        BY <2>1, <2>3, <4>1 DEF Rowed, Delivers, Pushed, MadeAnew
      <4>. QED
        BY <2>1, <4>1, <4>2, <4>3 DEF Delivers, Pushed, Working, Worktree, MadeAnew
    <3>3. Tidies(t)'
      BY <1>1, <2>1, <2>2, <2>3
         DEF Moved, Rowed, TaskInv, Tidies, Worktree, SetUp, Working
    <3>4. Follows(t)' /\ Settled(t)'
      BY <1>1, <2>1, <2>2, <2>3 DEF Moved, Rowed, TaskInv, Follows, MadeAnew, Settled, Worktree, Working
    <3>. QED
      BY <3>1, <3>2, <3>3, <3>4 DEF TaskInv
  <2>5. Only(t)
    BY <2>2, <2>3, Locally
  <2>. QED
    BY <1>1, <2>1, <2>2, <2>3, <2>4, <2>5, TaskStep DEF SetUp, Working
<1>4. ASSUME Timeout(t)
      PROVE  Typed' /\ WorkspaceInv'
  <2>1. /\ run[t].at \in Working
        /\ run' = [run EXCEPT ![t].at = "cleanup", ![t].ends = "timeout"]
        /\ UNCHANGED <<mode, task, tree, reg, local, remote, newest, pr, mirror, worker, crashes, failures>>
    BY <1>4 DEF Timeout, gitVars
  <2>2. Moved(t, "cleanup", "timeout", run[t].path)
    BY <2>1, ZenonT(40) DEF Moved, Typed, TaskTypes, Runs
  <2>3. Rowed(t, task[t].status) /\ Kept(t)
    BY <2>1, MovesOn
  <2>4. TaskInv(t)'
    <3>1. SetsUp(t)'
      BY <1>1, <2>1, <2>2, <2>3
         DEF Moved, Rowed, TaskInv, SetsUp, Worktree, SetUp, Working
    <3>2. Delivers(t)'
      <4>1. Delivers(t) /\ mode' = mode /\ failures' = failures /\ remote' = remote
        BY <1>1, <2>1 DEF TaskInv
      <4>2. run'[t].at \notin Working /\ run'[t].ends # "complete"
        BY <2>2 DEF Moved, Working
      <4>3. Worktree /\ failures = 0 /\ task'[t].status = "completed" =>
               /\ remote[t] = "work"
               /\ newest[t] = "origin" \/ (newest[t] = "refused" /\ MadeAnew(t))
        BY <2>1, <2>3, <4>1 DEF Rowed, Delivers, Pushed, MadeAnew
      <4>. QED
        BY <2>1, <4>1, <4>2, <4>3 DEF Delivers, Pushed, Working, Worktree, MadeAnew
    <3>3. Tidies(t)'
      BY <1>1, <2>1, <2>2, <2>3
         DEF Moved, Rowed, TaskInv, Tidies, Worktree, SetUp, Working
    <3>4. Follows(t)' /\ Settled(t)'
      BY <1>1, <2>1, <2>2, <2>3 DEF Moved, Rowed, TaskInv, Follows, MadeAnew, Settled, Worktree, Working
    <3>. QED
      BY <3>1, <3>2, <3>3, <3>4 DEF TaskInv
  <2>5. Only(t)
    BY <2>2, <2>3, Locally
  <2>. QED
    BY <1>1, <2>1, <2>2, <2>3, <2>4, <2>5, TaskStep DEF SetUp, Working
<1>5. ASSUME TimeoutOfGit(t)
      PROVE  Typed' /\ WorkspaceInv'
  <2>1. /\ run[t].at \in SetUp \cup {"cleanup"} /\ Failure
        /\ run' = [run EXCEPT ![t] = NoRun] /\ task' = [task EXCEPT ![t].status = "failed"]
        /\ UNCHANGED <<mode, remote, newest, pr, mirror, worker, crashes>>
    BY <1>5 DEF TimeoutOfGit
  <2>2. Moved(t, "none", "none", FALSE)
    BY <2>1, Stops
  <2>3. Rowed(t, "failed") /\ failures' # 0
    <3>1. failures' # 0
      BY <1>1, <2>1 DEF Failure
    <3>2. Rowed(t, "failed")
      BY <2>1, ZenonT(40) DEF Rowed, Typed, TaskTypes, Rows
    <3>. QED
      BY <3>1, <3>2
  <2>4. /\ Kept(t)
        /\ \/ run[t].at = "worktree" /\ reg'[t] /\ local'[t] = Added(t)
           \/ reg'[t] = reg[t] /\ local'[t] = local[t]
    <3>1. CASE At(t, "worktree") /\ ~tree[t].there /\ ~reg[t]
      BY <1>5, <2>1, <3>1, Adds DEF TimeoutOfGit, At
    <3>2. CASE ~(At(t, "worktree") /\ ~tree[t].there /\ ~reg[t])
      BY <1>5, <2>1, <3>2, MovesOn DEF TimeoutOfGit
    <3>. QED
      BY <3>1, <3>2
  <2>5. TaskInv(t)'
    BY <1>1, <2>1, <2>2, <2>3, <2>4, AddedFollows
       DEF Moved, Rowed, TaskInv, SetsUp, Follows, MadeAnew, Settled, Delivers, Pushed, Tidies, Worktree, SetUp, Working
  <2>6. Only(t)
    BY <2>2, <2>3, <2>4, Locally
  <2>. QED
    BY <1>1, <2>1, <2>2, <2>3, <2>4, <2>5, <2>6, TaskStep DEF SetUp, Working
<1>6. ASSUME Retry(t)
      PROVE  Typed' /\ WorkspaceInv'
  <2>1. UNCHANGED <<mode, run, tree, reg, local, remote, newest, pr, mirror, worker, crashes, failures>>
    BY <1>6 DEF Retry, gitVars
  <2>2. Moved(t, run[t].at, run[t].ends, run[t].path) /\ Kept(t)
    BY <2>1, MovesOn DEF Moved, Typed, TaskTypes
  <2>3. Rowed(t, "pending")
    <3>. DEFINE c == IF task[t].code = "failed" THEN "pending" ELSE task[t].code
    <3>1. c \in {"pending", "completed", "failed"}
      BY DEF Typed, TaskTypes, Rows
    <3>2. task' = [task EXCEPT ![t].status = "pending", ![t].code = c]
      BY <1>6 DEF Retry
    <3>. HIDE DEF c
    <3>. QED
      BY <3>1, <3>2, ZenonT(30) DEF Rowed, Typed, TaskTypes, Rows
  <2>4. TaskInv(t)'
    BY <1>1, <2>1, <2>2, <2>3
       DEF Moved, Rowed, TaskInv, SetsUp, Follows, MadeAnew, Settled, Delivers, Pushed, Tidies, Worktree, SetUp, Working
  <2>5. Only(t)
    BY <2>2, <2>3, Locally
  <2>. QED
    BY <1>1, <2>1, <2>2, <2>3, <2>4, <2>5, TaskStep DEF SetUp, Working
<1>. QED
  BY <1>2, <1>3, <1>4, <1>5, <1>6

----------------------------------------------------------------------------
(* The worker crashes, prunes and starts.                                  *)

\* Pruning removes directories and registrations while no run is there: what
\* is left is in a mirror that is left, and the branches at the origin stay.
LEMMA PruneStep ==
  ASSUME Typed, WorkspaceInv, NEW r \in Repos, Prune(r)
  PROVE  Typed' /\ WorkspaceInv'
<1>1. /\ r \in worker.toPrune /\ UNCHANGED <<mode, task, run, remote, newest, pr, crashes, failures>>
      /\ ~worker.up /\ Active = {} /\ crashes # 0
  BY DEF Prune, gitVars, WorkspaceInv, OneRun
<1>2. \A u \in Tasks : run[u].at = "none"
  BY <1>1 DEF Active
<1>3. /\ worker' \in [up : BOOLEAN, toPrune : SUBSET Repos] /\ ~worker'.up
  BY <1>1 DEF Prune, Typed
<1>4. /\ tree' \in [Tasks -> Trees] /\ reg' \in [Tasks -> BOOLEAN]
      /\ local' \in [Tasks -> Contents] /\ mirror' \in [Repos -> BOOLEAN]
      /\ \A u \in Tasks : reg'[u] => reg[u] /\ mirror'[RepoOf[u]]
      /\ \A u \in Tasks : \/ local'[u] = local[u]
                          \/ RepoOf[u] \in Managed /\ ~reg'[u] /\ local'[u] = "none"
  <2>1. CASE ~mirror[r]
    <3>1. UNCHANGED <<tree, reg, local, mirror>>
      BY <2>1 DEF Prune, gitVars
    <3>2. \A u \in Tasks : SetsUp(u)
      BY DEF WorkspaceInv, TaskInv
    <3>. QED
      BY <3>1, <3>2 DEF Typed, TaskTypes, SetsUp
  <2>2. CASE mirror[r]
    <3>. DEFINE kept == {t \in Tasks : RepoOf[t] = r /\ reg[t] /\ tree[t].there}
                gone(t) == Managed # {} /\ RepoOf[t] \in Managed
    <3>1. /\ tree' = [t \in Tasks |-> IF t \in kept THEN tree[t] ELSE NoTree]
          /\ mirror' = [q \in Repos |-> mirror[q] /\ q \notin Managed]
          /\ reg' = [t \in Tasks |->
                       reg[t] /\ ~gone(t) /\ (RepoOf[t] = r => t \in kept)]
          /\ local' = [t \in Tasks |-> IF gone(t) THEN "none" ELSE local[t]]
      BY <2>2 DEF Prune
    <3>2. NoTree \in Trees /\ "none" \in Contents
      BY DEF NoTree, Trees, Contents
    <3>3. tree' \in [Tasks -> Trees]
      BY <3>1, <3>2 DEF Typed, TaskTypes
    <3>4. /\ local' \in [Tasks -> Contents]
          /\ \A u \in Tasks : local'[u] = IF gone(u) THEN "none" ELSE local[u]
      BY <3>1, <3>2 DEF Typed, TaskTypes
    <3>5. mirror' \in [Repos -> BOOLEAN] /\ \A q \in Repos : mirror'[q] <=> mirror[q] /\ q \notin Managed
      BY <3>1, Zenon DEF Typed
    <3>6. /\ reg' \in [Tasks -> BOOLEAN]
          /\ \A u \in Tasks : reg'[u] => reg[u] /\ ~gone(u)
      BY <3>1, Zenon DEF Typed, TaskTypes
    <3>7. ASSUME NEW u \in Tasks, reg'[u]
          PROVE  mirror'[RepoOf[u]]
      <4>1. RepoOf[u] \in Repos /\ mirror[RepoOf[u]] /\ RepoOf[u] \notin Managed
        BY <3>6, <3>7, WorkspaceConstants DEF WorkspaceInv, TaskInv, SetsUp
      <4>. QED
        BY <4>1, <3>5
    <3>. QED
      BY <3>3, <3>4, <3>5, <3>6, <3>7
  <2>. QED
    BY <2>1, <2>2
<1>5. Typed'
  BY <1>1, <1>3, <1>4 DEF Typed, TaskTypes
<1>6. OneRun'
  BY <1>1, <1>3 DEF WorkspaceInv, OneRun, Active
<1>7. ASSUME NEW u \in Tasks
      PROVE  TaskInv(u)'
  <2>1. TaskInv(u)
    BY DEF WorkspaceInv
  <2>. QED
    BY <1>1, <1>2, <1>4, <2>1
       DEF TaskInv, SetsUp, Follows, MadeAnew, Settled, Delivers, Pushed, Tidies, Worktree, SetUp, Working
<1>. QED
  BY <1>5, <1>6, <1>7 DEF WorkspaceInv

\* Runs end without their clean-up.
LEMMA CrashStep ==
  ASSUME Typed, WorkspaceInv, Crash
  PROVE  Typed' /\ WorkspaceInv'
<1>1. /\ worker.up /\ crashes < MaxCrashes /\ crashes' = crashes + 1
      /\ worker' = [up |-> FALSE, toPrune |-> IF Worktree THEN Repos ELSE {}]
      /\ run' = [t \in Tasks |-> NoRun]
      /\ UNCHANGED <<mode, task, tree, reg, local, remote, newest, pr, mirror, failures>>
  BY DEF Crash, gitVars
<1>2. crashes' \in 0..MaxCrashes /\ crashes' # 0
  BY <1>1, WorkspaceConstants DEF Typed
<1>3. NoRun \in Runs /\ NoRun.at = "none" /\ NoRun.ends = "none"
  BY DEF NoRun, Runs
<1>4. run' \in [Tasks -> Runs] /\ \A u \in Tasks : run'[u].at = "none" /\ run'[u].ends = "none"
  <2>. HIDE DEF NoRun
  <2>. QED
    BY <1>1, <1>3
<1>5. worker' \in [up : BOOLEAN, toPrune : SUBSET Repos] /\ ~worker'.up
  BY <1>1
<1>6. Typed'
  BY <1>1, <1>2, <1>4, <1>5 DEF Typed, TaskTypes
<1>7. OneRun'
  BY <1>2, <1>4, <1>5 DEF OneRun, Active
<1>8. ASSUME NEW u \in Tasks
      PROVE  TaskInv(u)'
  <2>1. TaskInv(u)
    BY DEF WorkspaceInv
  <2>. QED
    BY <1>1, <1>2, <1>4, <2>1
       DEF TaskInv, SetsUp, Follows, MadeAnew, Settled, Delivers, Pushed, Tidies, Worktree, SetUp, Working
<1>. QED
  BY <1>6, <1>7, <1>8 DEF WorkspaceInv

\* The rows of interrupted runs are pending again.
LEMMA StartStep ==
  ASSUME Typed, WorkspaceInv, Start
  PROVE  Typed' /\ WorkspaceInv'
<1>1. /\ ~worker.up /\ worker.toPrune = {} /\ worker' = [worker EXCEPT !.up = TRUE]
      /\ task' = [t \in Tasks |-> IF task[t].status = "running"
                                  THEN [task[t] EXCEPT !.status = "pending"] ELSE task[t]]
      /\ UNCHANGED <<mode, run, tree, reg, local, remote, newest, pr, mirror, crashes, failures>>
  BY DEF Start, gitVars
<1>2. ASSUME NEW u \in Tasks
      PROVE  /\ task'[u] \in Rows
             /\ task'[u].status = "completed" => task[u].status = "completed"
  BY <1>1, <1>2 DEF Typed, TaskTypes, Rows
<1>3. task' \in [Tasks -> Rows]
  BY <1>1, <1>2
<1>4. worker' \in [up : BOOLEAN, toPrune : SUBSET Repos] /\ worker'.up /\ worker'.toPrune = {}
  BY <1>1 DEF Typed
<1>5. Typed'
  BY <1>1, <1>3, <1>4 DEF Typed, TaskTypes
<1>6. OneRun'
  BY <1>1, <1>4 DEF WorkspaceInv, OneRun, Active
<1>7. ASSUME NEW u \in Tasks
      PROVE  TaskInv(u)'
  <2>1. TaskInv(u)
    BY DEF WorkspaceInv
  <2>. QED
    BY <1>1, <1>2, <2>1 DEF TaskInv, SetsUp, Follows, MadeAnew, Settled, Delivers, Pushed, Tidies, Worktree
<1>. QED
  BY <1>5, <1>6, <1>7 DEF WorkspaceInv

----------------------------------------------------------------------------
\* The invariant holds at first, and every step keeps it.
THEOREM Invariant == Spec => [](Typed /\ WorkspaceInv)
<1>1. Init => Typed /\ WorkspaceInv
  <2>. SUFFICES ASSUME Init
                PROVE  Typed /\ WorkspaceInv
    OBVIOUS
  <2>1. NoRun \in Runs /\ NoRun.at = "none" /\ NoRun.ends = "none" /\ NoTree \in Trees
    BY DEF NoRun, NoTree, Runs, Trees
  <2>2. run \in [Tasks -> Runs] /\ \A u \in Tasks : run[u].at = "none" /\ run[u].ends = "none"
    <3>. HIDE DEF NoRun
    <3>. QED
      BY <2>1 DEF Init
  <2>3. tree \in [Tasks -> Trees] /\ \A u \in Tasks : tree[u] = NoTree
    <3>. HIDE DEF NoTree
    <3>. QED
      BY <2>1 DEF Init
  <2>4. task \in [Tasks -> Rows] /\ \A u \in Tasks : task[u].status = "pending"
    BY DEF Init, Rows
  <2>5. /\ reg \in [Tasks -> BOOLEAN] /\ pr \in [Tasks -> BOOLEAN] /\ mirror \in [Repos -> BOOLEAN]
        /\ local \in [Tasks -> Contents] /\ remote \in [Tasks -> Contents]
        /\ newest \in [Tasks -> Places]
        /\ \A u \in Tasks : ~reg[u] /\ local[u] = "none" /\ remote[u] = "none"
    BY DEF Init, Contents, Places
  <2>6. /\ worker \in [up : BOOLEAN, toPrune : SUBSET Repos] /\ worker.up /\ worker.toPrune = {}
        /\ crashes \in 0..MaxCrashes /\ failures \in 0..MaxFailures
        /\ mode \in Modes
    BY WorkspaceConstants DEF Init
  <2>7. Typed
    BY <2>2, <2>3, <2>4, <2>5, <2>6 DEF Typed, TaskTypes
  <2>8. OneRun
    BY <2>2, <2>6 DEF OneRun, Active
  <2>9. ASSUME NEW u \in Tasks
        PROVE  TaskInv(u)
    BY <2>2, <2>3, <2>4, <2>5 DEF TaskInv, SetsUp, Follows, MadeAnew, Settled, Delivers, Pushed, Tidies, SetUp, Working
  <2>. QED
    BY <2>7, <2>8, <2>9 DEF WorkspaceInv
<1>2. Typed /\ WorkspaceInv /\ [Next]_vars => Typed' /\ WorkspaceInv'
  <2>. SUFFICES ASSUME Typed, WorkspaceInv, [Next]_vars
                PROVE  Typed' /\ WorkspaceInv'
    OBVIOUS
  <2>1. ASSUME NEW t \in Tasks, RunStep(t)
        PROVE  Typed' /\ WorkspaceInv'
    BY <2>1, SetUpStep, StageStep, FinalStep, EndStep DEF RunStep
  <2>2. CASE UNCHANGED vars
    BY <2>2 DEF vars, gitVars, Typed, TaskTypes, WorkspaceInv, OneRun, Active, TaskInv, SetsUp,
                Follows, MadeAnew, Settled, Delivers, Pushed, Tidies, Worktree
  <2>. QED
    BY <2>1, <2>2, PruneStep, CrashStep, StartStep DEF Next
<1>. QED
  BY <1>1, <1>2, PTL DEF Spec

\* Every variable keeps its type, one run is in progress at a time, and git
\* has worktrees registered only in mirrors that are there (worktree.py's
\* create and remove, the poll loop of engine.py, and prune_all_stale, which
\* removes mirrors).
THEOREM TypeCorrect == Spec => []TypeOK
  BY Invariant, Parts, PTL

\* With worktrees, and as long as no command fails, a completed task has its
\* newest commit at the origin, whatever crashes, prunings, timeouts, failed
\* stages and retries came before, unless its branch was made anew after a crash
\* and git refused it (_ensure_code_stage_has_changes, commit_and_push and
\* _complete_task).
THEOREM WorkIsDelivered == Spec => []WorkDelivered
<1>1. WorkspaceInv => WorkDelivered
  BY DEF WorkspaceInv, TaskInv, Delivers, Pushed, MadeAnew, WorkDelivered
<1>. QED
  BY Invariant, <1>1, PTL

\* Without crashes and failing commands, no run leaves a directory or a
\* registration behind, whichever way it ended (the finally block of the run,
\* and the answers to a timeout and to a refused worktree).
THEOREM NothingIsLeft == Spec => []NothingLeft
<1>1. WorkspaceInv => NothingLeft
  BY DEF WorkspaceInv, TaskInv, Tidies, NothingLeft
<1>. QED
  BY Invariant, <1>1, PTL
=============================================================================
