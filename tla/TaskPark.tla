------------------------------ MODULE TaskPark ------------------------------
(***************************************************************************)
(* Tasks as the synchronization primitives see them: src/sync/             *)
(* sync_internal.h over vl_task_wake_locked and vl_worker_execute.  Every  *)
(* primitive extends this module.  A task that calls a primitive either    *)
(* goes on or parks: it is WAITING at once, but its worker leaves the      *)
(* task's stack only later, and a wake that comes in between is kept in    *)
(* wake_pending.  Any number of tasks may execute at the same time, as     *)
(* with one worker for each.                                               *)
(***************************************************************************)
EXTENDS Integers, Sequences, FiniteSets

CONSTANTS
    Tasks,
    None,       \* NULL
    PtrdiffMax  \* PTRDIFF_MAX

ASSUME NoneAssumption == None \notin Tasks
ASSUME TasksAssumption == IsFiniteSet(Tasks)
ASSUME WidthAssumption == PtrdiffMax \in Nat

\* SIZE_MAX: size_t is as wide as ptrdiff_t.
SizeMax == 2 * PtrdiffMax + 1

VARIABLES
    state, executing, wakePending,
    waitResult,     \* task->wait_result
    call            \* the call a task is parked in, or "none"

taskVars == <<state, executing, wakePending, waitResult, call>>

TaskInit ==
    /\ state = [t \in Tasks |-> "RUNNABLE"]
    /\ executing = [t \in Tasks |-> FALSE]
    /\ wakePending = [t \in Tasks |-> FALSE]
    /\ waitResult = [t \in Tasks |-> "OK"]
    /\ call = [t \in Tasks |-> "none"]

\* Task t may make a call (vl_sync_current).
Running(t) == state[t] = "RUNNING"

\* vl_sync_park_locked: t parks in the call c.
Park(t, c) ==
    /\ state[t] = "RUNNING" /\ executing[t]
    /\ state' = [state EXCEPT ![t] = "WAITING"]
    /\ waitResult' = [waitResult EXCEPT ![t] = "OK"]
    /\ call' = [call EXCEPT ![t] = c]
    /\ UNCHANGED <<executing, wakePending>>

\* Mutant: a task that is still on its stack is not woken.
WakeLost(W, r) ==
    LET parked == {t \in W : state[t] = "WAITING"}
    IN  /\ state' = [t \in Tasks |-> IF t \in parked /\ ~executing[t]
                                     THEN "RUNNABLE" ELSE state[t]]
        /\ waitResult' = [t \in Tasks |-> IF t \in W THEN r ELSE waitResult[t]]
        /\ UNCHANGED <<executing, wakePending, call>>

\* vl_task_wake_locked for the tasks in W, which get the result r.
Wake(W, r) ==
    LET parked == {t \in W : state[t] = "WAITING"}
    IN  /\ state' = [t \in Tasks |-> IF t \in parked /\ ~executing[t]
                                     THEN "RUNNABLE" ELSE state[t]]
        /\ wakePending' = [t \in Tasks |-> wakePending[t] \/
                                           (t \in parked /\ executing[t])]
        /\ waitResult' = [t \in Tasks |-> IF t \in W THEN r ELSE waitResult[t]]
        /\ UNCHANGED <<executing, call>>

\* A worker resumes t; the call that t was parked in returns waitResult[t].
ResumeTask(t) ==
    /\ state[t] = "RUNNABLE" /\ ~executing[t]
    /\ state' = [state EXCEPT ![t] = "RUNNING"]
    /\ executing' = [executing EXCEPT ![t] = TRUE]
    /\ call' = [call EXCEPT ![t] = "none"]
    /\ UNCHANGED <<wakePending, waitResult>>

\* t calls vl_yield, and its worker is back on its own stack: what the others
\* do in between does not touch a task that is neither running nor waiting.
YieldTask(t) ==
    /\ state[t] = "RUNNING"
    /\ state' = [state EXCEPT ![t] = "RUNNABLE"]
    /\ executing' = [executing EXCEPT ![t] = FALSE]
    /\ UNCHANGED <<wakePending, waitResult, call>>

\* The worker is back on its own stack after t has parked.
LeaveTask(t) ==
    /\ executing[t] /\ state[t] # "RUNNING"
    /\ executing' = [executing EXCEPT ![t] = FALSE]
    /\ state' = [state EXCEPT ![t] = IF wakePending[t] THEN "RUNNABLE" ELSE @]
    /\ wakePending' = [wakePending EXCEPT ![t] = FALSE]
    /\ UNCHANGED <<waitResult, call>>

\* vl_task_cancel_all, once no task executes.  The wait queues keep the tasks.
CancelTasks ==
    /\ \A t \in Tasks : ~executing[t]
    /\ state' = [t \in Tasks |-> "CANCELLED"]
    /\ UNCHANGED <<executing, wakePending, waitResult, call>>

\* t has been woken, and the wake cannot get lost any more.
Woken(t) ==
    \/ state[t] = "RUNNABLE"
    \/ state[t] = "WAITING" /\ executing[t] /\ wakePending[t]

Dead(t) == state[t] = "CANCELLED"

Calls == {"none", "lock", "sem_wait", "group_wait", "send", "receive"}

TasksOK ==
    /\ state \in [Tasks -> {"RUNNABLE", "RUNNING", "WAITING", "CANCELLED"}]
    /\ executing \in [Tasks -> BOOLEAN] /\ wakePending \in [Tasks -> BOOLEAN]
    /\ waitResult \in [Tasks -> {"OK", "CLOSED"}] /\ call \in [Tasks -> Calls]

\* The entries of a wait queue: a task is linked through its one waiter_next.
Elems(q) == {q[i] : i \in DOMAIN q}
WaitQueue(q) ==
    /\ q \in Seq(Tasks)
    /\ \A i, j \in DOMAIN q : q[i] = q[j] => i = j

\* q holds the tasks that wait in the call c, all of them and no others.
QueueOf(c, q) ==
    /\ \A t \in Tasks : state[t] = "WAITING" /\ ~wakePending[t] /\ call[t] = c
                          => t \in Elems(q)
    /\ \A t \in Elems(q) : call[t] = c /\ ~Woken(t)
=============================================================================
