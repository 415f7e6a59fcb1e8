----------------------------- MODULE MCScheduler -----------------------------
(***************************************************************************)
(* The programs that the scheduler is checked with.  Tasks are             *)
(* interchangeable: a program says how many it spawns.                     *)
(***************************************************************************)
EXTENDS Scheduler

Symmetry == Permutations(Tasks)

Program(w, n, c) == [workers |-> w, tasks |-> n, calls |-> c]

\* Deques that overflow; joins among tasks that spawn others; every way to
\* park or to fail; shutdown at any moment; three workers stealing.
SafePrograms ==
    {Program(2, 4, {"yield", "spawn"}),
     Program(2, 3, {"yield", "join", "spawn"}),
     Program(2, 2, {"yield", "sleep", "io", "fiber_yield", "fail"}),
     Program(2, 2, {"join", "sleep", "io", "request", "task_request"}),
     Program(3, 2, {"yield"})}

\* One worker whose tasks yield and wait for each other; two workers and a
\* thread that asks for shutdown.
LivePrograms ==
    {Program(1, 2, {"yield", "join"}),
     Program(2, 2, {"yield", "sleep", "request"})}

\* The host spawns tasks between two runs.
RespawnPrograms == {Program(2, 2, {"respawn"})}

\* Tasks join others whose fiber may not be created.
JoinPrograms == {Program(2, 2, {"join", "fail"})}

\* Two workers, and tasks that yield for ever.
YieldPrograms == {Program(2, 3, {"yield"})}
=============================================================================
