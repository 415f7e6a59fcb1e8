--------------------------- MODULE TaskLifecycle ---------------------------
(***************************************************************************)
(* What the scheduler promises about a Task (docs/diagrams/task-lifecycle, *)
(* docs/architecture/scheduler): it runs on at most one worker at a time,  *)
(* a worker runs at most one Task, a started Task stays on the worker that *)
(* created its fiber, a wakeup makes a parked Task RUNNABLE and never      *)
(* RUNNING, and a terminal Task stays terminal.  Scheduler implements it.  *)
(***************************************************************************)
EXTENDS Naturals

CONSTANTS Tasks, Workers, NoWorker

VARIABLES state,    \* vl_task_state_t of each Task
          runner,   \* the worker whose thread is on the Task's stack
          home      \* the worker that owns the Task's fiber

vars == <<state, runner, home>>

Parked == {"WAITING", "SLEEPING"}
Off(t) == runner[t] = NoWorker

Init ==
    /\ state = [t \in Tasks |-> "NEW"]
    /\ runner = [t \in Tasks |-> NoWorker]
    /\ home = [t \in Tasks |-> NoWorker]

Set(S, s) == [t \in Tasks |-> IF t \in S THEN s ELSE state[t]]

Spawn(t) ==
    /\ state[t] = "NEW"
    /\ state' = [state EXCEPT ![t] = "RUNNABLE"]
    /\ UNCHANGED <<runner, home>>

\* Worker p takes t: neither is engaged, and t is new or at home on p.
Start(t, p) ==
    /\ state[t] = "RUNNABLE" /\ Off(t)
    /\ \A u \in Tasks : runner[u] # p
    /\ home[t] \in {NoWorker, p}
    /\ state' = [state EXCEPT ![t] = "RUNNING"]
    /\ runner' = [runner EXCEPT ![t] = p]
    /\ UNCHANGED home

\* The fiber is created on the worker that runs t.
Settle(t) ==
    /\ state[t] = "RUNNING" /\ home[t] = NoWorker
    /\ home' = [home EXCEPT ![t] = runner[t]]
    /\ UNCHANGED <<state, runner>>

\* A running Task yields or parks; its worker is still on its stack.
Suspend(t, s) ==
    /\ state[t] = "RUNNING" /\ s \in Parked \cup {"RUNNABLE"}
    /\ state' = [state EXCEPT ![t] = s]
    /\ UNCHANGED <<runner, home>>

\* The worker leaves the stack of a suspended Task, which may have been woken.
Switch(t) ==
    /\ ~Off(t) /\ state[t] # "RUNNING"
    /\ state' \in {state, [state EXCEPT ![t] = "RUNNABLE"]}
    /\ runner' = [runner EXCEPT ![t] = NoWorker]
    /\ UNCHANGED home

\* A Task ends; finishing wakes the Tasks in W, which wait for it.
End(t, s, W) ==
    /\ state[t] = "RUNNING"
    /\ s \in {"DONE", "CANCELLED"} /\ (s = "CANCELLED" => W = {})
    /\ \A u \in W : state[u] \in Parked /\ Off(u)
    /\ state' = [Set(W, "RUNNABLE") EXCEPT ![t] = s]
    /\ runner' = [runner EXCEPT ![t] = NoWorker]
    /\ home' = [home EXCEPT ![t] = NoWorker]

Wake(W) ==
    /\ \A u \in W : state[u] \in Parked /\ Off(u)
    /\ state' = Set(W, "RUNNABLE")
    /\ UNCHANGED <<runner, home>>

\* Shutdown: Tasks that nobody runs are cancelled, fibers at rest destroyed.
Cancel(C, D) ==
    /\ \A t \in C : state[t] \notin {"NEW", "DONE", "CANCELLED"} /\ Off(t)
    /\ \A t \in D : Off(t)
    /\ state' = Set(C, "CANCELLED")
    /\ home' = [t \in Tasks |-> IF t \in D THEN NoWorker ELSE home[t]]
    /\ UNCHANGED runner

Next ==
    \/ \E t \in Tasks :
          \/ Spawn(t) \/ Settle(t) \/ Switch(t)
          \/ \E p \in Workers : Start(t, p)
          \/ \E s \in Parked \cup {"RUNNABLE"} : Suspend(t, s)
          \/ \E s \in {"DONE", "CANCELLED"}, W \in SUBSET Tasks : End(t, s, W)
    \/ \E W \in SUBSET Tasks : Wake(W)
    \/ \E C, D \in SUBSET Tasks : Cancel(C, D)

Spec == Init /\ [][Next]_vars
=============================================================================
