---- MODULE MCWorkspaces ----
EXTENDS Workspaces, TLC

CONSTANTS t1, t2, own, managed

\* One project with a repository of its own, one with a managed mirror.
MCRepoOf == t1 :> own @@ t2 :> managed
====
