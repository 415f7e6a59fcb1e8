-------------------------------- MODULE Timer --------------------------------
(***************************************************************************)
(* Timers of tasks: src/time/timer.c.  Tasks are pinned to workers and arm *)
(* vl_timer_t handles, which any running task may cancel; the worker that  *)
(* owns the task expires them.  The heap of a worker is the priority queue *)
(* that TimerHeap implements.  An action is one section under the runtime  *)
(* mutex, except for the two stores that vl_timer_arm makes to the handle  *)
(* after its task was resumed: they are not protected by anything.         *)
(***************************************************************************)
EXTENDS Naturals, FiniteSets, FiniteSetsExt

CONSTANTS
    Tasks, Workers, Timers, None,
    Delays,     \* the delays that tasks ask for
    MaxNow,     \* UINT64_MAX, the end of time
    NsPerMs,    \* 1000000
    IntMax,     \* INT_MAX
    Sharing     \* may a task arm a handle that another task has armed?

ASSUME TimeAssumption == MaxNow \in Nat /\ Delays \subseteq Nat
ASSUME NsPerMsAssumption == NsPerMs \in Nat \ {0} /\ IntMax \in Nat \ {0}
ASSUME TimersAssumption == IsFiniteSet(Timers)
ASSUME NoneAssumption == None \notin Tasks \cup Workers \cup Timers

VARIABLES
    now,            \* vl_runtime_now_ns
    \* vl_timer_impl_t: task, p, node.deadline_ns, node.active, not yet freed
    impl, due, active, allocated,
    heap,           \* p->timers
    looked,         \* worker p has called vl_timers_expire in this round
    timerCount,     \* runtime->timer_count
    \* vl_task_t
    state, executing, wakePending, result,
    home, armer,    \* the worker of a task, the task that arms a handle
    \* where a task is in vl_timer_arm, with which handle, and how the arm
    \* that it is in really ended
    pc, armed, ended

implVars == <<impl, due, active, allocated>>
taskVars == <<state, executing, wakePending, result>>
armVars == <<pc, armed, ended>>
fixed == <<home, armer>>
vars == <<now, implVars, heap, looked, timerCount, taskVars, fixed, armVars>>

Init ==
    /\ now = 0
    /\ impl = [m \in Timers |-> [task |-> None, p |-> None]]
    /\ due = [m \in Timers |-> 0]
    /\ active = [m \in Timers |-> FALSE]
    /\ allocated = [m \in Timers |-> TRUE]
    /\ heap = [p \in Workers |-> {}]
    /\ looked = [p \in Workers |-> FALSE]
    /\ timerCount = 0
    /\ state = [t \in Tasks |-> "RUNNABLE"]
    /\ executing = [t \in Tasks |-> FALSE]
    /\ wakePending = [t \in Tasks |-> FALSE]
    /\ result = [t \in Tasks |-> "OK"]
    /\ home \in [Tasks -> Workers]
    /\ armer \in [Timers -> Tasks]
    /\ pc = [t \in Tasks |-> "free"]
    /\ armed = [t \in Tasks |-> None]
    /\ ended = [t \in Tasks |-> "no"]

Free(p) == \A t \in Tasks : executing[t] => home[t] # p
Runs(t) == state[t] = "RUNNING" /\ pc[t] = "free"

-----------------------------------------------------------------------------
(* The worker of a task, as far as timers see it                           *)

\* The clock advances.
Tick ==
    /\ now < MaxNow
    /\ now' = now + 1
    /\ UNCHANGED <<implVars, heap, looked, timerCount, taskVars, fixed, armVars>>

\* vl_worker_execute resumes a runnable task; one that was parked in
\* vl_timer_arm reads its timer_result.
Ready(t) == state[t] = "RUNNABLE" /\ ~executing[t]
Resume(t) ==
    /\ Ready(t) /\ Free(home[t]) /\ looked[home[t]]
    /\ looked' = [looked EXCEPT ![home[t]] = FALSE]
    /\ state' = [state EXCEPT ![t] = "RUNNING"]
    /\ executing' = [executing EXCEPT ![t] = TRUE]
    /\ pc' = [pc EXCEPT ![t] = IF @ = "parked" THEN "clear_task" ELSE @]
    /\ UNCHANGED <<now, implVars, heap, timerCount, wakePending, result, fixed,
                   armed, ended>>

\* With no task to run, vl_worker_idle polls and the loop starts again.
Idle(p) ==
    /\ Free(p) /\ looked[p]
    /\ \A t \in Tasks : home[t] = p => ~Ready(t)
    /\ looked' = [looked EXCEPT ![p] = FALSE]
    /\ UNCHANGED <<now, implVars, heap, timerCount, taskVars, fixed, armVars>>

\* The task yields.
Yield(t) ==
    /\ Runs(t)
    /\ state' = [state EXCEPT ![t] = "RUNNABLE"]
    /\ UNCHANGED <<now, looked, implVars, heap, timerCount, executing, wakePending,
                   result, fixed, armVars>>

\* The worker is back from a task that yielded or went to sleep.
Leave(t) ==
    /\ executing[t] /\ state[t] # "RUNNING"
    /\ executing' = [executing EXCEPT ![t] = FALSE]
    /\ state' = [state EXCEPT ![t] = IF wakePending[t] THEN "RUNNABLE" ELSE @]
    /\ wakePending' = [wakePending EXCEPT ![t] = FALSE]
    /\ UNCHANGED <<now, looked, implVars, heap, timerCount, result, fixed, armVars>>

\* vl_task_wake_locked for the tasks in W, which get timer_result r.
Wake(W, r) ==
    LET asleep == {t \in W : state[t] = "SLEEPING"}
    IN  /\ state' = [t \in Tasks |-> IF t \in asleep /\ ~executing[t]
                                     THEN "RUNNABLE" ELSE state[t]]
        /\ wakePending' = [t \in Tasks |-> wakePending[t] \/
                                           (t \in asleep /\ executing[t])]
        /\ result' = [t \in Tasks |-> IF t \in W THEN r ELSE result[t]]

-----------------------------------------------------------------------------
(* vl_timer_arm                                                            *)

\* The section under the mutex.  A deadline beyond the end of time is refused.
\* (The clock is read just before: waiting for the mutex shortens the delay.)
Arm(t, m, d) ==
    /\ Runs(t) /\ allocated[m]
    /\ Sharing \/ armer[m] = t
    /\ d <= MaxNow - now
    /\ ~active[m] /\ impl[m].task = None
    /\ state' = [state EXCEPT ![t] = "SLEEPING"]
    /\ result' = [result EXCEPT ![t] = "OK"]
    /\ impl' = [impl EXCEPT ![m] = [task |-> t, p |-> home[t]]]
    /\ due' = [due EXCEPT ![m] = now + d]
    /\ active' = [active EXCEPT ![m] = TRUE]
    /\ heap' = [heap EXCEPT ![home[t]] = @ \cup {m}]
    /\ timerCount' = timerCount + 1
    /\ pc' = [pc EXCEPT ![t] = "parked"]
    /\ armed' = [armed EXCEPT ![t] = m]
    /\ ended' = [ended EXCEPT ![t] = "no"]
    /\ UNCHANGED <<now, looked, allocated, executing, wakePending, fixed>>

\* After the resume, without the mutex: impl->task = NULL ...
ClearTask(t) ==
    /\ pc[t] = "clear_task"
    /\ impl' = [impl EXCEPT ![armed[t]].task = None]
    /\ pc' = [pc EXCEPT ![t] = "clear_p"]
    /\ UNCHANGED <<now, looked, due, active, allocated, heap, timerCount, taskVars,
                   fixed, armed, ended>>

\* ... and impl->p = NULL.  Then it returns.
ClearP(t) ==
    /\ pc[t] = "clear_p"
    /\ impl' = [impl EXCEPT ![armed[t]].p = None]
    /\ pc' = [pc EXCEPT ![t] = "free"]
    /\ armed' = [armed EXCEPT ![t] = None]
    /\ UNCHANGED <<now, looked, due, active, allocated, heap, timerCount, taskVars,
                   fixed, ended>>

-----------------------------------------------------------------------------
(* The end of a wait                                                       *)

\* Mutant: timer_count is not decremented.
CancelUncounted(m) ==
    /\ \E t \in Tasks : Runs(t)
    /\ allocated[m] /\ active[m] /\ impl[m].p # None /\ impl[m].task # None
    /\ heap' = [heap EXCEPT ![impl[m].p] = @ \ {m}]
    /\ active' = [active EXCEPT ![m] = FALSE]
    /\ impl' = [impl EXCEPT ![m] = [task |-> None, p |-> None]]
    /\ Wake({impl[m].task}, "CANCELLED")
    /\ ended' = [ended EXCEPT ![impl[m].task] = "cancelled"]
    /\ UNCHANGED <<now, looked, due, allocated, executing, fixed, pc, armed,
                   timerCount>>

\* Mutant: the cancelled task finds the result of an expiry.
CancelAsExpiry(m) ==
    /\ \E t \in Tasks : Runs(t)
    /\ allocated[m] /\ active[m] /\ impl[m].p # None /\ impl[m].task # None
    /\ heap' = [heap EXCEPT ![impl[m].p] = @ \ {m}]
    /\ active' = [active EXCEPT ![m] = FALSE]
    /\ impl' = [impl EXCEPT ![m] = [task |-> None, p |-> None]]
    /\ timerCount' = IF timerCount = 0 THEN 0 ELSE timerCount - 1
    /\ Wake({impl[m].task}, "OK")
    /\ ended' = [ended EXCEPT ![impl[m].task] = "cancelled"]
    /\ UNCHANGED <<now, looked, due, allocated, executing, fixed, pc, armed>>

\* vl_timer_cancel, called by a running task.
Cancel(m) ==
    /\ \E t \in Tasks : Runs(t)
    /\ allocated[m] /\ active[m] /\ impl[m].p # None /\ impl[m].task # None
    /\ heap' = [heap EXCEPT ![impl[m].p] = @ \ {m}]
    /\ active' = [active EXCEPT ![m] = FALSE]
    /\ impl' = [impl EXCEPT ![m] = [task |-> None, p |-> None]]
    /\ timerCount' = IF timerCount = 0 THEN 0 ELSE timerCount - 1
    /\ Wake({impl[m].task}, "CANCELLED")
    /\ ended' = [ended EXCEPT ![impl[m].task] = "cancelled"]
    /\ UNCHANGED <<now, looked, due, allocated, executing, fixed, pc, armed>>

\* Mutant: a timer that is due at this very moment is left for later, and
\* the last moment never passes.
DueLate(p) == {m \in heap[p] : due[m] < now}

\* The nodes that the loop of vl_timers_expire pops.
Due(p) == {m \in heap[p] : due[m] <= now}

\* Mutant: the tasks are not woken.
ExpireSilently(p) ==
    /\ Free(p) /\ ~looked[p]
    /\ looked' = [looked EXCEPT ![p] = TRUE]
    /\ heap' = [heap EXCEPT ![p] = @ \ Due(p)]
    /\ active' = [m \in Timers |-> active[m] /\ m \notin Due(p)]
    /\ impl' = [m \in Timers |-> IF m \in Due(p)
                                 THEN [task |-> None, p |-> None] ELSE impl[m]]
    /\ timerCount' = IF Cardinality(Due(p)) > timerCount THEN 0
                     ELSE timerCount - Cardinality(Due(p))
    /\ UNCHANGED <<now, due, allocated, taskVars, fixed, armVars>>

\* vl_timers_expire by worker p, between two tasks.
Expire(p) ==
    /\ Free(p) /\ ~looked[p]
    /\ looked' = [looked EXCEPT ![p] = TRUE]
    /\ heap' = [heap EXCEPT ![p] = @ \ Due(p)]
    /\ active' = [m \in Timers |-> active[m] /\ m \notin Due(p)]
    /\ impl' = [m \in Timers |-> IF m \in Due(p)
                                 THEN [task |-> None, p |-> None] ELSE impl[m]]
    /\ timerCount' = IF Cardinality(Due(p)) > timerCount THEN 0
                     ELSE timerCount - Cardinality(Due(p))
    /\ LET woken == {impl[m].task : m \in Due(p)} \ {None}
       IN  /\ Wake(woken, "OK")
           /\ ended' = [t \in Tasks |-> IF t \in woken THEN "expired" ELSE ended[t]]
    /\ UNCHANGED <<now, due, allocated, executing, fixed, pc, armed>>

\* vl_timer_destroy, by the task that arms the handle.
Destroy(m) ==
    /\ Runs(armer[m])
    /\ allocated[m] /\ ~active[m] /\ impl[m].task = None
    /\ allocated' = [allocated EXCEPT ![m] = FALSE]
    /\ UNCHANGED <<now, looked, impl, due, active, heap, timerCount, taskVars, fixed,
                   armVars>>

-----------------------------------------------------------------------------

TaskStep(t) ==
    \/ Leave(t) \/ Yield(t) \/ ClearTask(t) \/ ClearP(t)
    \/ \E m \in Timers, d \in Delays : Arm(t, m, d)

\* One round of vl_worker_run.
WorkerStep(p) ==
    \/ Expire(p) \/ Idle(p)
    \/ \E t \in Tasks : home[t] = p /\ Resume(t)

Next ==
    \/ Tick
    \/ \E t \in Tasks : TaskStep(t)
    \/ \E m \in Timers : Cancel(m) \/ Destroy(m)
    \/ \E p \in Workers : WorkerStep(p)

Spec == Init /\ [][Next]_vars

\* The clock goes on and so do the workers; a running task makes some call.
Fairness ==
    /\ WF_vars(Tick)
    /\ \A p \in Workers : WF_vars(WorkerStep(p))
    /\ \A t \in Tasks : WF_vars(TaskStep(t))
FairSpec == Spec /\ Fairness

-----------------------------------------------------------------------------
(* vl_timers_timeout_ms                                                    *)

Earliest(p) == Min({due[m] : m \in heap[p]})

\* Mutant: the remaining time is rounded down.
TimeoutRoundedDown(p) ==
    IF heap[p] = {} THEN 0
    ELSE IF Earliest(p) <= now THEN 0
    ELSE Min({(Earliest(p) - now) \div NsPerMs, IntMax})

\* How long worker p polls: until its first deadline, in milliseconds.
TimeoutMs(p) ==
    IF heap[p] = {} THEN 0
    ELSE IF Earliest(p) <= now THEN 0
    ELSE IF (Earliest(p) - now) \div NsPerMs >= IntMax THEN IntMax
    ELSE (Earliest(p) - now + NsPerMs - 1) \div NsPerMs

-----------------------------------------------------------------------------
(* Properties                                                              *)

\* "SLEEPING: parked on a per-P timer heap entry until deadline"
\* (task-lifecycle.md): a sleeping task has an entry in the heap of its own
\* worker that still leads back to it, or its wake is already on the way.
SleeperHasTimer ==
    \A t \in Tasks : state[t] = "SLEEPING" =>
        \/ wakePending[t] /\ executing[t]
        \/ \E m \in heap[home[t]] : impl[m].task = t

\* "one timer can produce at most one wake" (timers.md): an entry in a heap
\* belongs to one task, which sleeps in the arm of that very handle and has
\* not been woken; timer_count, which keeps the run alive, counts the entries.
OneWake ==
    /\ timerCount = Cardinality(UNION {heap[p] : p \in Workers})
    /\ \A m \in Timers : active[m] <=> \E p \in Workers : m \in heap[p]
    /\ \A p \in Workers : \A m \in heap[p] :
          LET t == impl[m].task
          IN  /\ allocated[m] /\ impl[m].p = p
              /\ t # None /\ armed[t] = m /\ home[t] = p
              /\ state[t] = "SLEEPING" /\ ~wakePending[t]

\* "completion returns VL_OK or VL_ERROR_CANCELLED" (timer.h): what a task
\* finds in timer_result when it goes on tells whether its wait was cancelled,
\* and a wait that was not has lasted until the deadline, however cancel and
\* expiry raced.
ResultTruthful ==
    \A t \in Tasks : pc[t] \in {"clear_task", "clear_p"} =>
        \/ ended[t] = "cancelled" /\ result[t] = "CANCELLED"
        \/ ended[t] = "expired" /\ result[t] = "OK" /\ now >= due[armed[t]]

\* The poll of an idle worker never ends before the deadline it was computed
\* for (which would make the worker spin) unless INT_MAX cuts it short, and
\* never a millisecond or more after it.
TimeoutIsCeiling ==
    \A p \in Workers : heap[p] # {} =>
        LET k == TimeoutMs(p)
        IN  /\ now + k * NsPerMs >= Earliest(p) \/ k = IntMax
            /\ k > 0 => now + (k - 1) * NsPerMs < Earliest(p)

\* Every sleep ends: a sleeping task becomes runnable once its deadline has
\* passed or it is cancelled.
SleeperWakes == \A t \in Tasks : state[t] = "SLEEPING" ~> state[t] = "RUNNABLE"
=============================================================================
