---- MODULE Workspaces ----
(***************************************************************************)
(* Where the stages of a task change files and how the changes leave the   *)
(* machine: the git worktree or temporary clone of a run, the managed      *)
(* mirrors of the repositories, commit, push and pull request, the         *)
(* clean-up, and the pruning at the start of the worker (worktree.py and   *)
(* the workspace parts of engine.py).  One worker; runs of the linear      *)
(* pipeline; every project has a repository.  A crash can come between any *)
(* two commands.                                                           *)
(***************************************************************************)
EXTENDS Integers, FiniteSets

CONSTANTS
    Tasks, Repos,
    RepoOf,         \* task -> repository of its project
    Targeted,       \* tasks that may have a target_branch
    Managed,        \* repositories whose mirror is in WORKTREE_BASE_DIR/repos
    MaxCrashes,     \* bound on crashes of the worker
    MaxFailures     \* bound on failing git, gh and database commands and timeouts

ASSUME WorkspaceConstants ==
    /\ RepoOf \in [Tasks -> Repos]
    /\ Targeted \subseteq Tasks /\ Managed \subseteq Repos
    /\ MaxCrashes \in Nat /\ MaxFailures \in Nat

VARIABLES
    mode,       \* [uses: "worktree" (WORKTREE_ENABLED) or "clone",
                \*  targeted: the tasks with a target_branch]
    task,       \* task -> its row and the row of its code stage
    run,        \* task -> where its run is
    tree,       \* task -> its directory: [there, dirty]
    reg,        \* task -> git has its worktree registered
    local,      \* task -> its branch in the mirror or the clone
    remote,     \* task -> its branch at the origin
    newest,     \* history: task -> where its newest commit has come to
    pr,         \* task -> its pull request exists
    mirror,     \* repository -> its local copy exists
    worker,     \* [up, toPrune]
    crashes, failures

vars == <<mode, task, run, tree, reg, local, remote, newest, pr, mirror, worker, crashes, failures>>
gitVars == <<tree, reg, local, remote, newest, pr, mirror>>

\* What a branch holds: nothing, what it was created from, the task's work, or
\* work that does not continue the work at the origin.
Contents == {"none", "base", "work", "diverged"}
Places == {"none", "local", "origin", "refused"}
SetUp == {"mirror", "worktree", "clone"}
Working == {"code", "check", "later", "commit", "push", "branch", "pr", "url"}

NoRun == [at |-> "none", ends |-> "none", path |-> FALSE]
NoTree == [there |-> FALSE, dirty |-> FALSE]
Active == {t \in Tasks : run[t].at # "none"}

Modes == [uses : {"worktree", "clone"}, targeted : SUBSET Targeted]
Worktree == mode.uses = "worktree"

TypeOK ==
    /\ mode \in Modes
    /\ task \in [Tasks -> [status : {"pending", "running", "completed", "failed"},
                           code : {"pending", "completed", "failed"}, url : BOOLEAN]]
    /\ run \in [Tasks -> [at : {"none", "cleanup", "close"} \cup SetUp \cup Working,
                          ends : {"none", "complete", "failed", "timeout"},
                          path : BOOLEAN]]
    /\ tree \in [Tasks -> [there : BOOLEAN, dirty : BOOLEAN]]
    /\ reg \in [Tasks -> BOOLEAN] /\ pr \in [Tasks -> BOOLEAN]
    /\ local \in [Tasks -> Contents] /\ remote \in [Tasks -> Contents]
    /\ newest \in [Tasks -> Places]
    /\ mirror \in [Repos -> BOOLEAN]
    /\ worker \in [up : BOOLEAN, toPrune : SUBSET Repos]
    /\ crashes \in 0..MaxCrashes /\ failures \in 0..MaxFailures
    /\ \A t, u \in Active : t = u
    /\ \A t \in Tasks : reg[t] => mirror[RepoOf[t]] /\ Worktree

Init ==
    /\ mode \in Modes
    /\ task = [t \in Tasks |-> [status |-> "pending", code |-> "pending", url |-> FALSE]]
    /\ run = [t \in Tasks |-> NoRun]
    /\ tree = [t \in Tasks |-> NoTree]
    /\ reg = [t \in Tasks |-> FALSE] /\ pr = [t \in Tasks |-> FALSE]
    /\ local = [t \in Tasks |-> "none"] /\ remote = [t \in Tasks |-> "none"]
    /\ newest = [t \in Tasks |-> "none"]
    /\ mirror = [r \in Repos |-> r \notin Managed]
    /\ worker = [up |-> TRUE, toPrune |-> {}]
    /\ crashes = 0 /\ failures = 0

At(t, pc) == run[t].at = pc
Goes(t, pc) == run' = [run EXCEPT ![t].at = pc]

\* A command fails, raises or times out.
Failure == failures < MaxFailures /\ failures' = failures + 1

\* _fail_task; the finally block of the run cleans up.
Fails(t) ==
    /\ task' = [task EXCEPT ![t].status = "failed"]
    /\ run' = [run EXCEPT ![t].at = "cleanup", ![t].ends = "failed"]

StageFails(t) ==
    /\ task' = [task EXCEPT ![t].status = "failed", ![t].code = "failed"]
    /\ run' = [run EXCEPT ![t].at = "cleanup", ![t].ends = "failed"]

\* The finalization is over, whatever became of push and pull request.
Finished(t) == run' = [run EXCEPT ![t].at = "cleanup", ![t].ends = "complete"]

(***************************************************************************)
(* The workspace of a run                                                  *)
(***************************************************************************)
\* Mutant: the next row is taken while a run is in progress.
StartRunAtOnce(t) ==
    /\ worker.up /\ task[t].status = "pending"
    /\ task' = [task EXCEPT ![t].status = "running"]
    /\ run' = [run EXCEPT ![t] = [NoRun EXCEPT !.at = IF Worktree THEN "mirror" ELSE "clone"]]
    /\ UNCHANGED <<mode, gitVars, worker, crashes, failures>>

\* The poll loop awaits a run before it takes the next row.
StartRun(t) ==
    /\ worker.up /\ Active = {} /\ task[t].status = "pending"
    /\ task' = [task EXCEPT ![t].status = "running"]
    /\ run' = [run EXCEPT ![t] = [NoRun EXCEPT !.at = IF Worktree THEN "mirror" ELSE "clone"]]
    /\ UNCHANGED <<mode, gitVars, worker, crashes, failures>>

\* A missing local copy is cloned again; what only it had is not in the clone.
EnsureMirror(t) ==
    /\ At(t, "mirror")
    /\ mirror' = [mirror EXCEPT ![RepoOf[t]] = TRUE]
    /\ Goes(t, "worktree")
    /\ UNCHANGED <<mode, task, tree, reg, local, remote, newest, pr, worker, crashes, failures>>

\* An existing directory is taken as it is.  Otherwise git adds a worktree: on
\* a new branch, on the remote target branch (which resets a local one), or on
\* the local branch that is there.  It refuses a path it still has registered.
Added(t) ==
    IF t \in mode.targeted /\ remote[t] # "none" THEN remote[t]
    ELSE IF local[t] # "none" THEN local[t] ELSE "base"

CreateWorktree(t) ==
    /\ At(t, "worktree")
    /\ tree[t].there \/ ~reg[t]
    /\ IF tree[t].there
       THEN UNCHANGED <<tree, reg, local>>
       ELSE /\ tree' = [tree EXCEPT ![t] = [there |-> TRUE, dirty |-> FALSE]]
            /\ reg' = [reg EXCEPT ![t] = TRUE]
            /\ local' = [local EXCEPT ![t] = Added(t)]
    /\ run' = [run EXCEPT ![t].at = "code", ![t].path = TRUE]
    /\ UNCHANGED <<mode, task, remote, newest, pr, mirror, worker, crashes, failures>>

\* A stale registration: no worktree, and a worktree is required.
WorktreeRefused(t) ==
    /\ At(t, "worktree") /\ ~tree[t].there /\ reg[t]
    /\ Fails(t)
    /\ UNCHANGED <<mode, gitVars, worker, crashes, failures>>

\* prepare_workspace_from_repo: whatever is in the directory is removed first.
Clone(t) ==
    /\ At(t, "clone")
    /\ tree' = [tree EXCEPT ![t] = [there |-> TRUE, dirty |-> FALSE]]
    /\ local' = [local EXCEPT ![t] = IF remote[t] = "none" THEN "base" ELSE remote[t]]
    /\ run' = [run EXCEPT ![t].at = "code", ![t].path = TRUE]
    /\ UNCHANGED <<mode, task, reg, remote, newest, pr, mirror, worker, crashes, failures>>

SetUpFails(t) ==
    /\ run[t].at \in SetUp
    /\ Failure
    /\ Fails(t)
    /\ UNCHANGED <<mode, gitVars, worker, crashes>>

(***************************************************************************)
(* The stages                                                              *)
(***************************************************************************)
Edit(t) ==
    /\ At(t, "code") /\ task[t].code = "pending" /\ ~tree[t].dirty
    /\ tree' = [tree EXCEPT ![t].dirty = TRUE]
    /\ UNCHANGED <<mode, task, run, reg, local, remote, newest, pr, mirror, worker>>
    /\ UNCHANGED <<crashes, failures>>

CodeEnds(t) ==
    /\ At(t, "code")
    /\ \/ /\ task' = [task EXCEPT ![t].code = "completed"]
          /\ Goes(t, "check")
       \/ task[t].code = "pending" /\ StageFails(t)
    /\ UNCHANGED <<mode, gitVars, worker, crashes, failures>>

\* Mutant: a git status that fails counts as changes.
SeesChangesOrNothing(t) == tree[t].there /\ (reg[t] => tree[t].dirty)

\* git status has an answer, and it is not empty.
SeesChanges(t) == tree[t].there /\ reg[t] /\ tree[t].dirty

\* _ensure_code_stage_has_changes, also for a code stage that an earlier run
\* completed; without a worktree nothing is checked.
CheckChanges(t) ==
    /\ At(t, "check")
    /\ IF ~Worktree \/ SeesChanges(t)
       THEN Goes(t, "later") /\ UNCHANGED task
       ELSE StageFails(t)
    /\ UNCHANGED <<mode, gitVars, worker, crashes, failures>>

\* The stages after code: they succeed, or the task fails with code completed.
LaterStages(t) ==
    /\ At(t, "later")
    /\ (Goes(t, "commit") /\ UNCHANGED task) \/ Fails(t)
    /\ UNCHANGED <<mode, gitVars, worker, crashes, failures>>

(***************************************************************************)
(* _finalize_task_resources                                                *)
(***************************************************************************)
HasChanges(t) == (Worktree => reg[t]) /\ tree[t].dirty

\* A commit on the base, where the origin already has earlier work, has lost
\* touch with that work; so have the commits that follow it.
AddCommit(t) ==
    /\ tree' = [tree EXCEPT ![t].dirty = FALSE]
    /\ local' = [local EXCEPT ![t] =
                    IF @ = "work" \/ remote[t] # "work" THEN "work" ELSE "diverged"]
    /\ newest' = [newest EXCEPT ![t] = "local"]

\* Without changes a worktree is pushed all the same; a clone is not, but its
\* branch counts as pushed.  In a directory that git does not know there is no
\* branch to push.
Commit(t) ==
    /\ At(t, "commit")
    /\ CASE Worktree /\ ~reg[t] -> Finished(t) /\ UNCHANGED <<tree, local, newest>>
         [] HasChanges(t) -> AddCommit(t) /\ Goes(t, "push")
         [] OTHER ->
              /\ Goes(t, IF Worktree THEN "push" ELSE "branch")
              /\ UNCHANGED <<tree, local, newest>>
    /\ UNCHANGED <<mode, task, reg, remote, pr, mirror, worker, crashes, failures>>

\* git push refuses what does not continue the remote branch.  The run goes on
\* to complete the task: a refused push is logged like one that succeeded.
Push(t) ==
    /\ At(t, "push")
    /\ IF remote[t] = "work" /\ local[t] # "work"
       THEN /\ newest' = [newest EXCEPT ![t] = IF @ = "local" THEN "refused" ELSE @]
            /\ Finished(t)
            /\ UNCHANGED remote
       ELSE /\ remote' = [remote EXCEPT ![t] = local[t]]
            /\ newest' = [newest EXCEPT ![t] = IF local[t] = "work" THEN "origin" ELSE @]
            /\ Goes(t, "branch")
    /\ UNCHANGED <<mode, task, tree, reg, local, pr, mirror, worker, crashes, failures>>

\* commit_and_push returns None: logged as a success, and the run completes.
CommitOrPushFails(t) ==
    /\ run[t].at \in {"commit", "push"}
    /\ Failure
    /\ \/ UNCHANGED <<tree, local, newest>>
       \/ At(t, "commit") /\ HasChanges(t) /\ AddCommit(t)
    /\ Finished(t)
    /\ UNCHANGED <<mode, task, reg, remote, pr, mirror, worker, crashes>>

RecordBranch(t) ==
    /\ At(t, "branch")
    /\ Goes(t, "pr")
    /\ UNCHANGED <<mode, task, gitVars, worker, crashes, failures>>

\* gh refuses a second pull request for a branch, and one without commits.
CreatePr(t) ==
    /\ At(t, "pr")
    /\ IF remote[t] = "work" /\ ~pr[t]
       THEN pr' = [pr EXCEPT ![t] = TRUE] /\ Goes(t, "url")
       ELSE pr' = pr /\ Finished(t)
    /\ UNCHANGED <<mode, task, tree, reg, local, remote, newest, mirror, worker, crashes, failures>>

CreatePrFails(t) ==
    /\ At(t, "pr")
    /\ Failure
    /\ Finished(t)
    /\ UNCHANGED <<mode, task, gitVars, worker, crashes>>

RecordUrl(t) ==
    /\ At(t, "url")
    /\ task' = [task EXCEPT ![t].url = TRUE]
    /\ Finished(t)
    /\ UNCHANGED <<mode, gitVars, worker, crashes, failures>>

\* The session raises at one of the two commits, or git cannot be started.
FinalizeRaises(t) ==
    /\ run[t].at \in {"commit", "branch", "url"}
    /\ Failure
    /\ Fails(t)
    /\ UNCHANGED <<mode, gitVars, worker, crashes>>

(***************************************************************************)
(* The end of a run                                                        *)
(***************************************************************************)
\* Mutant: a worktree with changes is kept.
CleanUpCleanTrees(t) ==
    /\ At(t, "cleanup")
    /\ IF run[t].path /\ ~tree[t].dirty
       THEN /\ tree' = [tree EXCEPT ![t] = NoTree]
            /\ reg' = [reg EXCEPT ![t] = FALSE]
            /\ local' = [local EXCEPT ![t] = IF Worktree THEN @ ELSE "none"]
       ELSE UNCHANGED <<tree, reg, local>>
    /\ Goes(t, "close")
    /\ UNCHANGED <<mode, task, remote, newest, pr, mirror, worker, crashes, failures>>

\* The directory and its registration; commits in the mirror's branch stay,
\* those of a clone go.  Nothing is removed when the set-up gave no path.
CleanUp(t) ==
    /\ At(t, "cleanup")
    /\ IF run[t].path
       THEN /\ tree' = [tree EXCEPT ![t] = NoTree]
            /\ reg' = [reg EXCEPT ![t] = FALSE]
            /\ local' = [local EXCEPT ![t] = IF Worktree THEN @ ELSE "none"]
       ELSE UNCHANGED <<tree, reg, local>>
    /\ Goes(t, "close")
    /\ UNCHANGED <<mode, task, remote, newest, pr, mirror, worker, crashes, failures>>

\* _complete_task, or the poll loop's answer to a timeout.
Close(t) ==
    /\ At(t, "close")
    /\ task' = [task EXCEPT ![t].status =
          CASE run[t].ends = "complete" -> "completed"
            [] run[t].ends = "timeout" -> "failed"
            [] OTHER -> @]
    /\ run' = [run EXCEPT ![t] = NoRun]
    /\ UNCHANGED <<mode, gitVars, worker, crashes, failures>>

\* The task's timeout cancels the run; its finally block cleans up.
Timeout(t) ==
    /\ run[t].at \in Working
    /\ run' = [run EXCEPT ![t].at = "cleanup", ![t].ends = "timeout"]
    /\ UNCHANGED <<mode, task, gitVars, worker, crashes, failures>>

\* The timeout comes while the workspace is set up or removed: git goes on
\* without the run, and nobody removes what it has made.
TimeoutOfGit(t) ==
    /\ run[t].at \in SetUp \cup {"cleanup"} /\ run[t].ends # "timeout"
    /\ Failure
    /\ run' = [run EXCEPT ![t] = NoRun]
    /\ task' = [task EXCEPT ![t].status = "failed"]
    /\ IF At(t, "worktree") /\ ~tree[t].there /\ ~reg[t]
       THEN /\ tree' = [tree EXCEPT ![t] = [there |-> TRUE, dirty |-> FALSE]]
            /\ reg' = [reg EXCEPT ![t] = TRUE]
            /\ local' = [local EXCEPT ![t] = Added(t)]
       ELSE UNCHANGED <<tree, reg, local>>
    /\ UNCHANGED <<mode, remote, newest, pr, mirror, worker, crashes>>

\* retry_task of the API: the failed stage starts again, completed ones do not.
Retry(t) ==
    /\ task[t].status = "failed"
    /\ task' = [task EXCEPT ![t].status = "pending",
                            ![t].code = IF @ = "failed" THEN "pending" ELSE @]
    /\ UNCHANGED <<mode, run, gitVars, worker, crashes, failures>>

(***************************************************************************)
(* Crash and start of the worker                                           *)
(***************************************************************************)
Crash ==
    /\ worker.up /\ crashes < MaxCrashes
    /\ crashes' = crashes + 1
    /\ worker' = [up |-> FALSE, toPrune |-> IF Worktree THEN Repos ELSE {}]
    /\ run' = [t \in Tasks |-> NoRun]
    /\ UNCHANGED <<mode, task, gitVars, failures>>

\* prune_all_stale of one repository: every directory of WORKTREE_BASE_DIR that
\* this repository has not registered is removed, those of other repositories
\* and the directory of the managed mirrors among them.  A mirror that is gone
\* makes the next git command raise, which ends the pruning.
Prune(r) ==
    LET kept == {t \in Tasks : RepoOf[t] = r /\ reg[t] /\ tree[t].there}
        gone(t) == Managed # {} /\ RepoOf[t] \in Managed
    IN  /\ r \in worker.toPrune
        /\ IF ~mirror[r]
           THEN /\ worker' = [worker EXCEPT !.toPrune = {}]
                /\ UNCHANGED gitVars
           ELSE /\ tree' = [t \in Tasks |-> IF t \in kept THEN tree[t] ELSE NoTree]
                /\ mirror' = [q \in Repos |-> mirror[q] /\ q \notin Managed]
                /\ reg' = [t \in Tasks |->
                             reg[t] /\ ~gone(t) /\ (RepoOf[t] = r => t \in kept)]
                /\ local' = [t \in Tasks |-> IF gone(t) THEN "none" ELSE local[t]]
                /\ worker' = [worker EXCEPT !.toPrune =
                                 IF r \in Managed THEN {} ELSE @ \ {r}]
                /\ UNCHANGED <<remote, newest, pr>>
        /\ UNCHANGED <<mode, task, run, crashes, failures>>

\* start_worker: rows of the run that was interrupted are pending again.
Start ==
    /\ ~worker.up /\ worker.toPrune = {}
    /\ worker' = [worker EXCEPT !.up = TRUE]
    /\ task' = [t \in Tasks |->
          IF task[t].status = "running" THEN [task[t] EXCEPT !.status = "pending"] ELSE task[t]]
    /\ UNCHANGED <<mode, run, gitVars, crashes, failures>>

RunStep(t) ==
    \/ StartRun(t)
    \/ EnsureMirror(t)
    \/ CreateWorktree(t)
    \/ WorktreeRefused(t)
    \/ Clone(t)
    \/ SetUpFails(t)
    \/ Edit(t)
    \/ CodeEnds(t)
    \/ CheckChanges(t)
    \/ LaterStages(t)
    \/ Commit(t)
    \/ Push(t)
    \/ CommitOrPushFails(t)
    \/ RecordBranch(t)
    \/ CreatePr(t)
    \/ CreatePrFails(t)
    \/ RecordUrl(t)
    \/ FinalizeRaises(t)
    \/ CleanUp(t)
    \/ Close(t)
    \/ Timeout(t)
    \/ TimeoutOfGit(t)
    \/ Retry(t)

Next ==
    \/ \E t \in Tasks : RunStep(t)
    \/ \E r \in Repos : Prune(r)
    \/ Crash
    \/ Start

Spec == Init /\ [][Next]_vars

\* A crash can have cost the task its branch: the mirror it was in is one that
\* the pruning removes, and without a target branch the next run starts from the
\* base again.
MadeAnew(t) == crashes # 0 /\ RepoOf[t] \in Managed /\ t \notin mode.targeted

\* With worktrees, and as long as no command failed, a completed task has work
\* at the origin, and its newest commit is part of it, whatever crashes,
\* prunings, timeouts, failed stages and retries came before: work that was lost
\* is noticed before the task completes.  One exception: a branch that was made
\* anew after it had been pushed; the origin refuses what is committed on it,
\* and the task completes with the work of the earlier run.  (With clones nothing
\* is checked, and a failed push completes the task all the same.)
WorkDelivered ==
    Worktree /\ failures = 0 =>
        \A t \in Tasks : task[t].status = "completed" =>
            /\ remote[t] = "work"
            /\ newest[t] = "origin" \/ (newest[t] = "refused" /\ MadeAnew(t))

\* Without crashes and failing commands, no run leaves a directory or a
\* registration behind, whichever way it ended.
NothingLeft ==
    crashes = 0 /\ failures = 0 =>
        \A t \in Tasks : run[t].at = "none" => tree[t] = NoTree /\ ~reg[t]
====
