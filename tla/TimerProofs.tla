----------------------------- MODULE TimerProofs ------------------------------
(***************************************************************************)
(* The promises of the timers, proved for any number of tasks, workers and *)
(* handles, any delays and any end of time, for programs in which a handle *)
(* is armed by one task only.                                              *)
(***************************************************************************)
EXTENDS Timer, FiniteSetTheorems, WellFoundedInduction, TLAPS

Impl == [task: Tasks \cup {None}, p: Workers \cup {None}]

TypeOK ==
    /\ now \in 0..MaxNow /\ timerCount \in Nat
    /\ impl \in [Timers -> Impl] /\ due \in [Timers -> Nat]
    /\ active \in [Timers -> BOOLEAN] /\ allocated \in [Timers -> BOOLEAN]
    /\ heap \in [Workers -> SUBSET Timers] /\ looked \in [Workers -> BOOLEAN]
    /\ state \in [Tasks -> {"RUNNABLE", "RUNNING", "SLEEPING"}]
    /\ executing \in [Tasks -> BOOLEAN] /\ wakePending \in [Tasks -> BOOLEAN]
    /\ result \in [Tasks -> {"OK", "CANCELLED"}]
    /\ home \in [Tasks -> Workers] /\ armer \in [Timers -> Tasks]
    /\ pc \in [Tasks -> {"free", "parked", "clear_task", "clear_p"}]
    /\ armed \in [Tasks -> Timers \cup {None}]
    /\ ended \in [Tasks -> {"no", "cancelled", "expired"}]

\* A task sleeps and nobody has woken it.
Waiting(t) == state[t] = "SLEEPING" /\ ~wakePending[t]

\* What ended the wait is what the task will find.
Truthful(t) ==
    \/ ended[t] = "cancelled" /\ result[t] = "CANCELLED"
    \/ ended[t] = "expired" /\ result[t] = "OK" /\ now >= due[armed[t]]

\* A task inside vl_timer_arm uses a handle of its own.  While it waits the
\* handle is in the heap of its worker; afterwards nothing but the task itself
\* refers to the handle any more.
TaskInv(t) ==
    /\ pc[t] = "free" => state[t] # "SLEEPING"
    /\ pc[t] = "parked" => state[t] # "RUNNING"
    /\ pc[t] \in {"clear_task", "clear_p"} => state[t] = "RUNNING"
    /\ pc[t] # "free" => armed[t] \in Timers /\ armer[armed[t]] = t
    /\ state[t] = "RUNNING" => executing[t]
    /\ wakePending[t] => executing[t] /\ state[t] = "SLEEPING"
    /\ Waiting(t) => armed[t] \in heap[home[t]] /\ impl[armed[t]].task = t
    /\ pc[t] # "free" /\ ~Waiting(t) => ~active[armed[t]] /\ Truthful(t)

\* An active handle is in the heap it names, for a task that waits on it.
TimerInv(m) ==
    /\ active[m] => /\ impl[m].task \in Tasks /\ impl[m].p \in Workers
                    /\ m \in heap[impl[m].p]
    /\ ~active[m] => impl[m].task = None
    /\ \A p \in Workers : m \in heap[p] =>
           /\ active[m] /\ allocated[m] /\ impl[m].p = p
           /\ Waiting(impl[m].task) /\ armed[impl[m].task] = m
           /\ home[impl[m].task] = p

Entries == {m \in Timers : active[m]}

IInv ==
    /\ TypeOK
    /\ \A t \in Tasks : TaskInv(t)
    /\ \A m \in Timers : TimerInv(m)
    /\ timerCount = Cardinality(Entries)

-----------------------------------------------------------------------------
(* What a step leaves alone.                                               *)

\* A step does not touch the task u, nor the handle that it is armed with.
Spares(u) ==
    /\ now' \in Nat /\ now' >= now /\ UNCHANGED fixed
    /\ state'[u] = state[u] /\ executing'[u] = executing[u]
    /\ wakePending'[u] = wakePending[u] /\ result'[u] = result[u]
    /\ pc'[u] = pc[u] /\ armed'[u] = armed[u] /\ ended'[u] = ended[u]
    /\ pc[u] # "free" =>
           /\ active'[armed[u]] = active[armed[u]]
           /\ due'[armed[u]] = due[armed[u]]
           /\ Waiting(u) => /\ impl'[armed[u]].task = impl[armed[u]].task
                            /\ armed[u] \in heap'[home[u]]

\* A task that a step does not touch, and whose handle it does not touch.
LEMMA TaskKept ==
    ASSUME TypeOK, NEW u \in Tasks, TaskInv(u), Spares(u)
    PROVE  TaskInv(u)'
  <1> USE DEF Spares
  <1>1. home' = home /\ armer' = armer
    BY Zenon DEF fixed
  <1>2. pc[u] = "free" => ~Waiting(u)
    BY Zenon DEF TaskInv, Waiting
  <1>3. Waiting(u)' <=> Waiting(u)
    BY Zenon DEF Waiting
  <1>4. ASSUME pc[u] # "free", ~Waiting(u) PROVE Truthful(u)'
    <2>1. Truthful(u) /\ armed[u] \in Timers
      BY Zenon, <1>4 DEF TaskInv
    <2>2. due[armed[u]] \in Nat /\ now \in Nat
      BY <2>1 DEF TypeOK
    <2> QED
      BY <1>4, <2>1, <2>2 DEF Truthful
  <1> QED
    BY Zenon, <1>1, <1>2, <1>3, <1>4 DEF TaskInv

\* A handle that a step does not touch, while its task waits on.
LEMMA TimerKept ==
    ASSUME TypeOK, NEW m \in Timers, TimerInv(m), UNCHANGED fixed,
           active'[m] = active[m], impl'[m].task = impl[m].task,
           active[m] => impl'[m].p = impl[m].p /\ allocated'[m] = allocated[m],
           \A p \in Workers : m \in heap'[p] <=> m \in heap[p],
           active[m] => /\ Waiting(impl[m].task)'
                        /\ armed'[impl[m].task] = armed[impl[m].task]
    PROVE  TimerInv(m)'
    BY Zenon DEF TimerInv, fixed

\* The task of an active handle waits on it.
LEMMA Sleeper ==
    ASSUME IInv, NEW m \in Timers, active[m]
    PROVE  /\ impl[m].task \in Tasks /\ Waiting(impl[m].task)
           /\ armed[impl[m].task] = m /\ pc[impl[m].task] = "parked"
           /\ armer[m] = impl[m].task /\ impl[m].p \in Workers
           /\ m \in heap[impl[m].p] /\ home[impl[m].task] = impl[m].p
  <1>1. TimerInv(m) /\ TypeOK
    BY Zenon DEF IInv
  <1>2. /\ impl[m].task \in Tasks /\ impl[m].p \in Workers /\ m \in heap[impl[m].p]
        /\ Waiting(impl[m].task) /\ armed[impl[m].task] = m
        /\ home[impl[m].task] = impl[m].p
    BY Zenon, <1>1 DEF TimerInv
  <1>3. TaskInv(impl[m].task)
    BY Zenon, <1>2 DEF IInv
  <1>4. pc[impl[m].task] = "parked"
    BY Zenon, <1>1, <1>2, <1>3 DEF TaskInv, Waiting, TypeOK
  <1> QED
    BY Zenon, <1>2, <1>3, <1>4 DEF TaskInv

-----------------------------------------------------------------------------
(* Steps of the clock and of a worker.                                     *)

\* The clock.
LEMMA TickKeeps ==
    ASSUME IInv, Tick
    PROVE  IInv'
  <1>1. TypeOK /\ now' \in Nat /\ now' >= now /\ now' \in 0..MaxNow
    BY TimeAssumption DEF IInv, TypeOK, Tick
  <1>2. TypeOK'
    BY Zenon, <1>1 DEF TypeOK, Tick, implVars, taskVars, fixed, armVars
  <1>3. ASSUME NEW u \in Tasks PROVE TaskInv(u)'
    <2>1. Spares(u)
      BY Zenon, <1>1 DEF IInv, Spares, Tick, implVars, taskVars, armVars, TaskInv
    <2> QED
      BY Zenon, <1>1, <2>1, TaskKept DEF IInv
  <1>4. ASSUME NEW m \in Timers PROVE TimerInv(m)'
    BY Zenon, <1>1, Sleeper, TimerKept
    DEF IInv, Tick, implVars, taskVars, armVars, Waiting
  <1> QED
    BY Zenon, <1>2, <1>3, <1>4 DEF IInv, Tick, Entries, implVars

\* A step that changes nothing but the round of a worker, or nothing at all.
LEMMA RoundKeeps ==
    ASSUME IInv, looked' \in [Workers -> BOOLEAN],
           UNCHANGED <<now, implVars, heap, timerCount, taskVars, fixed, armVars>>
    PROVE  IInv'
  <1>1. TypeOK /\ now' \in Nat /\ now' >= now
    BY TimeAssumption DEF IInv, TypeOK
  <1>2. TypeOK'
    BY Zenon, <1>1 DEF TypeOK, implVars, taskVars, fixed, armVars
  <1>3. ASSUME NEW u \in Tasks PROVE TaskInv(u)'
    <2>1. Spares(u)
      BY Zenon, <1>1 DEF IInv, Spares, implVars, taskVars, armVars, TaskInv
    <2> QED
      BY Zenon, <1>1, <2>1, TaskKept DEF IInv
  <1>4. ASSUME NEW m \in Timers PROVE TimerInv(m)'
    BY Zenon, <1>1, Sleeper, TimerKept
    DEF IInv, implVars, taskVars, armVars, Waiting
  <1> QED
    BY Zenon, <1>2, <1>3, <1>4 DEF IInv, Entries, implVars

\* A runnable task goes on.
LEMMA ResumeKeeps ==
    ASSUME IInv, NEW t \in Tasks, Resume(t)
    PROVE  IInv'
  <1>1. /\ TypeOK /\ now' \in Nat /\ now' >= now /\ TaskInv(t)
        /\ state[t] = "RUNNABLE" /\ ~Waiting(t)
    BY TimeAssumption DEF IInv, TypeOK, Resume, Ready, Waiting
  <1>2. TypeOK'
    BY Zenon, <1>1 DEF TypeOK, Resume, implVars, fixed
  <1>3. /\ state'[t] = "RUNNING" /\ executing'[t] /\ ~wakePending[t]
        /\ pc'[t] = IF pc[t] = "parked" THEN "clear_task" ELSE pc[t]
    BY ZenonT(30), <1>1 DEF TypeOK, Resume, TaskInv
  <1>4. TaskInv(t)'
    <2>1. pc[t] \in {"free", "parked"}
      BY ZenonT(30), <1>1 DEF TaskInv, TypeOK
    <2>2. pc[t] # "free" => ~active[armed[t]] /\ Truthful(t)
      BY Zenon, <1>1 DEF TaskInv
    <2>3. Truthful(t) => Truthful(t)'
      BY Zenon DEF Truthful, Resume, implVars
    <2> QED
      BY Zenon, <1>1, <1>3, <2>1, <2>2, <2>3
      DEF TaskInv, Waiting, Resume, implVars, fixed
  <1>o. \A u \in Tasks \ {t} :
            /\ state'[u] = state[u] /\ executing'[u] = executing[u]
            /\ wakePending'[u] = wakePending[u] /\ pc'[u] = pc[u]
    BY <1>1 DEF TypeOK, Resume
  <1>5. ASSUME NEW u \in Tasks, u # t PROVE TaskInv(u)'
    <2>1. Spares(u)
      BY Zenon, <1>1, <1>5, <1>o DEF IInv, Spares, Resume, implVars, TaskInv
    <2> QED
      BY Zenon, <1>1, <2>1, TaskKept DEF IInv
  <1>6. ASSUME NEW m \in Timers PROVE TimerInv(m)'
    <2>1. active[m] => impl[m].task # t /\ Waiting(impl[m].task)
                       /\ impl[m].task \in Tasks
      BY Zenon, <1>1, Sleeper
    <2>2. active[m] => Waiting(impl[m].task)'
      BY <1>o, <2>1 DEF Waiting, Resume, implVars
    <2> QED
      BY Zenon, <1>1, <2>2, TimerKept DEF IInv, Resume, implVars
  <1> QED
    BY Zenon, <1>2, <1>4, <1>5, <1>6 DEF IInv, Entries, Resume, implVars

\* A task yields.
LEMMA YieldKeeps ==
    ASSUME IInv, NEW t \in Tasks, Yield(t)
    PROVE  IInv'
  <1>1. /\ TypeOK /\ now' \in Nat /\ now' >= now /\ TaskInv(t)
        /\ state[t] = "RUNNING" /\ ~Waiting(t) /\ pc[t] = "free"
    BY TimeAssumption DEF IInv, TypeOK, Yield, Runs, Waiting
  <1>2. TypeOK'
    BY Zenon, <1>1 DEF TypeOK, Yield, implVars, fixed, armVars
  <1>3. state'[t] = "RUNNABLE" /\ ~wakePending[t]
    BY Zenon, <1>1 DEF TypeOK, Yield, TaskInv
  <1>4. TaskInv(t)'
    BY Zenon, <1>1, <1>3 DEF TaskInv, Waiting, Yield, armVars
  <1>o. \A u \in Tasks \ {t} :
            /\ state'[u] = state[u] /\ executing'[u] = executing[u]
            /\ wakePending'[u] = wakePending[u]
    BY Zenon, <1>1 DEF TypeOK, Yield
  <1>5. ASSUME NEW u \in Tasks, u # t PROVE TaskInv(u)'
    <2>1. Spares(u)
      BY Zenon, <1>1, <1>5, <1>o DEF IInv, Spares, Yield, implVars, armVars, TaskInv
    <2> QED
      BY Zenon, <1>1, <2>1, TaskKept DEF IInv
  <1>6. ASSUME NEW m \in Timers PROVE TimerInv(m)'
    <2>1. active[m] => impl[m].task # t /\ Waiting(impl[m].task)
                       /\ impl[m].task \in Tasks
      BY Zenon, <1>1, Sleeper
    <2>2. active[m] => Waiting(impl[m].task)'
      BY ZenonT(30), <1>o, <2>1 DEF Waiting, Yield, implVars
    <2> QED
      BY Zenon, <1>1, <2>2, TimerKept DEF IInv, Yield, implVars, armVars
  <1> QED
    BY Zenon, <1>2, <1>4, <1>5, <1>6 DEF IInv, Entries, Yield, implVars

\* The worker is back from a task: one that was woken meanwhile is runnable.
LEMMA LeaveKeeps ==
    ASSUME IInv, NEW t \in Tasks, Leave(t)
    PROVE  IInv'
  <1>1. /\ TypeOK /\ now' \in Nat /\ now' >= now /\ TaskInv(t)
        /\ state[t] # "RUNNING"
    BY TimeAssumption DEF IInv, TypeOK, Leave
  <1>2. TypeOK'
    BY Zenon, <1>1 DEF TypeOK, Leave, implVars, fixed, armVars
  <1>3. /\ state'[t] = IF wakePending[t] THEN "RUNNABLE" ELSE state[t]
        /\ ~wakePending'[t] /\ ~executing'[t]
    BY Zenon, <1>1 DEF TypeOK, Leave
  <1>4. TaskInv(t)'
    <2>1. Waiting(t)' <=> Waiting(t)
      BY Zenon, <1>3 DEF Waiting
    <2>2. Truthful(t) => Truthful(t)'
      BY Zenon DEF Truthful, Leave, implVars, armVars
    <2>3. state'[t] # "RUNNING" /\ (state'[t] = "SLEEPING" => state[t] = "SLEEPING")
      BY Zenon, <1>1, <1>3
    <2> QED
      BY Zenon, <1>1, <1>3, <2>1, <2>2, <2>3
      DEF TaskInv, Leave, implVars, fixed, armVars
  <1>o. \A u \in Tasks \ {t} :
            /\ state'[u] = state[u] /\ executing'[u] = executing[u]
            /\ wakePending'[u] = wakePending[u]
    BY Zenon, <1>1 DEF TypeOK, Leave
  <1>5. ASSUME NEW u \in Tasks, u # t PROVE TaskInv(u)'
    <2>1. Spares(u)
      BY Zenon, <1>1, <1>5, <1>o DEF IInv, Spares, Leave, implVars, armVars, TaskInv
    <2> QED
      BY Zenon, <1>1, <2>1, TaskKept DEF IInv
  <1>6. ASSUME NEW m \in Timers PROVE TimerInv(m)'
    <2>1. active[m] => Waiting(impl[m].task) /\ impl[m].task \in Tasks
      BY Zenon, <1>1, Sleeper
    <2>2. active[m] => Waiting(impl[m].task)'
      BY <1>1, <1>3, <1>o, <2>1 DEF Waiting, Leave, implVars
    <2> QED
      BY Zenon, <1>1, <2>2, TimerKept DEF IInv, Leave, implVars, armVars
  <1> QED
    BY Zenon, <1>2, <1>4, <1>5, <1>6 DEF IInv, Entries, Leave, implVars

-----------------------------------------------------------------------------
(* Steps of vl_timer_arm.                                                  *)

\* Handles are finitely many.
LEMMA EntriesFinite ==
    IsFiniteSet(Entries) /\ Cardinality(Entries) \in Nat
  <1>1. Entries \in SUBSET Timers
    BY Zenon DEF Entries
  <1>2. IsFiniteSet(Entries)
    BY Zenon, <1>1, TimersAssumption, FS_Subset
  <1> QED
    BY Zenon, <1>2, FS_CardinalityType

\* A task arms a handle of its own and goes to sleep.
LEMMA ArmKeeps ==
    ASSUME IInv, ~Sharing, NEW t \in Tasks, NEW m \in Timers, NEW d \in Delays,
           Arm(t, m, d)
    PROVE  IInv'
  <1>1. /\ TypeOK /\ now' \in Nat /\ now' >= now /\ TaskInv(t) /\ TimerInv(m)
        /\ state[t] = "RUNNING" /\ ~Waiting(t) /\ pc[t] = "free"
        /\ armer[m] = t /\ ~active[m] /\ allocated[m] /\ home[t] \in Workers
        /\ UNCHANGED fixed
    BY TimeAssumption DEF IInv, TypeOK, Arm, Runs, Waiting
  <1>a. now \in Nat /\ d \in Nat /\ now + d \in Nat
    BY <1>1, TimeAssumption DEF TypeOK
  <1>b. [task |-> t, p |-> home[t]] \in Impl
    BY Zenon, <1>1 DEF Impl
  <1>2. TypeOK'
    <2>1. impl' \in [Timers -> Impl] /\ due' \in [Timers -> Nat]
      BY Zenon, <1>1, <1>a, <1>b DEF TypeOK, Arm
    <2>2. /\ heap' \in [Workers -> SUBSET Timers] /\ active' \in [Timers -> BOOLEAN]
          /\ armed' \in [Tasks -> Timers \cup {None}] /\ timerCount' \in Nat
      BY <1>1 DEF TypeOK, Arm
    <2>3. /\ state' \in [Tasks -> {"RUNNABLE", "RUNNING", "SLEEPING"}]
          /\ result' \in [Tasks -> {"OK", "CANCELLED"}]
          /\ pc' \in [Tasks -> {"free", "parked", "clear_task", "clear_p"}]
          /\ ended' \in [Tasks -> {"no", "cancelled", "expired"}]
      BY Zenon, <1>1 DEF TypeOK, Arm
    <2> QED
      BY <1>1, <2>1, <2>2, <2>3 DEF TypeOK, Arm, fixed
  <1>3. /\ state'[t] = "SLEEPING" /\ pc'[t] = "parked" /\ armed'[t] = m
        /\ ~wakePending'[t] /\ executing'[t]
    BY Zenon, <1>1 DEF TypeOK, Arm, TaskInv
  <1>4. /\ impl'[m].task = t /\ impl'[m].p = home[t] /\ active'[m]
        /\ m \in heap'[home[t]] /\ allocated'[m]
    BY Zenon, <1>1 DEF TypeOK, Arm
  <1>5. \A u \in Tasks \ {t} :
            /\ state'[u] = state[u] /\ executing'[u] = executing[u]
            /\ wakePending'[u] = wakePending[u] /\ result'[u] = result[u]
            /\ pc'[u] = pc[u] /\ armed'[u] = armed[u] /\ ended'[u] = ended[u]
    BY Zenon, <1>1 DEF TypeOK, Arm
  <1>6. /\ \A k \in Timers \ {m} :
               /\ active'[k] = active[k] /\ impl'[k] = impl[k] /\ due'[k] = due[k]
               /\ allocated'[k] = allocated[k]
               /\ \A p \in Workers : k \in heap'[p] <=> k \in heap[p]
        /\ \A p \in Workers \ {home[t]} : heap'[p] = heap[p]
    BY Zenon, <1>1 DEF TypeOK, Arm
  <1>7. TaskInv(t)'
    BY Zenon, <1>1, <1>3, <1>4 DEF TaskInv, Waiting, fixed
  <1>8. ASSUME NEW u \in Tasks, u # t PROVE TaskInv(u)'
    <2>1. pc[u] # "free" => armed[u] \in Timers \ {m}
      BY <1>1, <1>8 DEF IInv, TaskInv
    <2>2. Waiting(u) => armed[u] \in heap[home[u]]
      BY Zenon DEF IInv, TaskInv
    <2>3. home[u] \in Workers /\ TaskInv(u)
      BY Zenon, <1>1 DEF IInv, TypeOK
    <2>4. Spares(u)
      BY Zenon, <1>1, <1>5, <1>6, <1>8, <2>1, <2>2, <2>3 DEF Spares
    <2> QED
      BY Zenon, <1>1, <2>3, <2>4, TaskKept
  <1>9. TimerInv(m)'
    <2>1. \A p \in Workers : m \in heap'[p] => p = home[t]
      BY Zenon, <1>1, <1>6 DEF TimerInv
    <2> QED
      BY Zenon, <1>1, <1>3, <1>4, <2>1 DEF TimerInv, Waiting, fixed
  <1>10. ASSUME NEW k \in Timers, k # m PROVE TimerInv(k)'
    <2>1. active[k] => /\ impl[k].task \in Tasks \ {t} /\ Waiting(impl[k].task)
      BY Zenon, <1>1, Sleeper
    <2>2. active[k] => Waiting(impl[k].task)'
      BY <1>5, <1>6, <1>10, <2>1 DEF Waiting
    <2>3. TimerInv(k)
      BY Zenon DEF IInv
    <2> QED
      BY <1>1, <1>5, <1>6, <1>10, <2>1, <2>2, <2>3, TimerKept
  <1>11. timerCount' = Cardinality(Entries')
    <2>1. Entries' = Entries \cup {m} /\ m \notin Entries
      BY Zenon, <1>1, <1>4, <1>6 DEF Entries
    <2>2. Cardinality(Entries \cup {m}) = Cardinality(Entries) + 1
      BY Zenon, <2>1, EntriesFinite, FS_AddElement
    <2> QED
      BY Zenon, <2>1, <2>2 DEF IInv, Arm
  <1> QED
    BY Zenon, <1>2, <1>7, <1>8, <1>9, <1>10, <1>11 DEF IInv

\* The fields of a handle after one of them was cleared.
LEMMA ClearedFields ==
    ASSUME NEW i \in Impl
    PROVE  /\ [i EXCEPT !.task = None] \in Impl /\ [i EXCEPT !.p = None] \in Impl
           /\ [i EXCEPT !.task = None].task = None /\ [i EXCEPT !.task = None].p = i.p
           /\ [i EXCEPT !.p = None].task = i.task
    BY Zenon DEF Impl

\* The two stores that follow the resume hit a handle that nobody waits on.
LEMMA ClearKeeps ==
    ASSUME IInv, NEW t \in Tasks, ClearTask(t) \/ ClearP(t)
    PROVE  IInv'
  <1>1. /\ TypeOK /\ now' \in Nat /\ now' >= now /\ TaskInv(t)
        /\ pc[t] \in {"clear_task", "clear_p"} /\ state[t] = "RUNNING" /\ ~Waiting(t)
        /\ armed[t] \in Timers /\ ~active[armed[t]] /\ impl[armed[t]].task = None
    BY TimeAssumption
    DEF IInv, TypeOK, ClearTask, ClearP, TaskInv, TimerInv, Waiting
  <1>2. UNCHANGED <<now, looked, due, active, allocated, heap, timerCount,
                    taskVars, fixed, ended>>
    BY Zenon DEF ClearTask, ClearP
  <1>3. \/ /\ impl' = [impl EXCEPT ![armed[t]] = [@ EXCEPT !.task = None]]
           /\ pc' = [pc EXCEPT ![t] = "clear_p"] /\ UNCHANGED armed
        \/ /\ impl' = [impl EXCEPT ![armed[t]] = [@ EXCEPT !.p = None]]
           /\ pc' = [pc EXCEPT ![t] = "free"]
           /\ armed' = [armed EXCEPT ![t] = None]
    BY Zenon DEF ClearTask, ClearP
  <1>4. /\ impl' \in [Timers -> Impl]
        /\ \A k \in Timers : impl'[k].task = impl[k].task
        /\ \A k \in Timers \ {armed[t]} : impl'[k] = impl[k]
    <2>1. impl[armed[t]] \in Impl /\ impl \in [Timers -> Impl]
      BY Zenon, <1>1 DEF TypeOK
    <2>2. PICK i \in Impl : i.task = None /\ impl' = [impl EXCEPT ![armed[t]] = i]
      BY Zenon, <1>1, <1>3, <2>1, ClearedFields
    <2> QED
      BY Zenon, <1>1, <2>1, <2>2
  <1>5. TypeOK'
    <2>1. /\ pc' \in [Tasks -> {"free", "parked", "clear_task", "clear_p"}]
          /\ armed' \in [Tasks -> Timers \cup {None}]
      <3>1. /\ pc \in [Tasks -> {"free", "parked", "clear_task", "clear_p"}]
            /\ armed \in [Tasks -> Timers \cup {None}]
        BY Zenon, <1>1 DEF TypeOK
      <3> QED
        BY ZenonT(30), <1>3, <3>1
    <2> QED
      BY Zenon, <1>1, <1>2, <1>4, <2>1 DEF TypeOK, taskVars, fixed
  <1>6. TaskInv(t)'
    <2>1. \/ pc'[t] = "clear_p" /\ armed'[t] = armed[t]
          \/ pc'[t] = "free"
      BY Zenon, <1>1, <1>3 DEF TypeOK
    <2>2. pc'[t] # "free" => Truthful(t)'
      BY Zenon, <1>1, <1>2, <2>1 DEF TaskInv, Truthful, taskVars
    <2> QED
      BY Zenon, <1>1, <1>2, <2>1, <2>2 DEF TaskInv, Waiting, taskVars, fixed
  <1>7. \A u \in Tasks \ {t} : pc'[u] = pc[u] /\ armed'[u] = armed[u]
    BY <1>1, <1>3 DEF TypeOK
  <1>8. ASSUME NEW u \in Tasks, u # t PROVE TaskInv(u)'
    <2>1. TaskInv(u)
      BY Zenon DEF IInv
    <2>2. pc[u] # "free" => armed[u] \in Timers
      BY Zenon, <2>1 DEF TaskInv
    <2>3. Waiting(u) => armed[u] \in heap[home[u]]
      BY Zenon, <2>1 DEF TaskInv
    <2>4. Spares(u)
      BY Zenon, <1>1, <1>2, <1>4, <1>7, <1>8, <2>1, <2>2, <2>3 DEF Spares, taskVars
    <2> QED
      BY Zenon, <1>1, <2>1, <2>4, TaskKept
  <1>9. ASSUME NEW k \in Timers PROVE TimerInv(k)'
    <2>1. /\ active[k] => /\ impl[k].task \in Tasks \ {t} /\ Waiting(impl[k].task)
                          /\ k # armed[t]
          /\ TimerInv(k)
      BY Zenon, <1>1, Sleeper DEF IInv
    <2>2. active[k] => Waiting(impl[k].task)'
      BY Zenon, <1>2, <1>4, <2>1 DEF Waiting, taskVars
    <2> QED
      BY Zenon, <1>1, <1>2, <1>4, <1>7, <2>1, <2>2, TimerKept
  <1> QED
    BY Zenon, <1>2, <1>5, <1>6, <1>8, <1>9 DEF IInv, Entries

-----------------------------------------------------------------------------
(* The end of waits.                                                       *)

\* The waits on the handles of D end, with result r.
Ends(D, r, e) ==
    /\ heap' = [p \in Workers |-> heap[p] \ D]
    /\ active' = [m \in Timers |-> active[m] /\ m \notin D]
    /\ impl' = [m \in Timers |-> IF m \in D THEN [task |-> None, p |-> None]
                                 ELSE impl[m]]
    /\ timerCount' = timerCount - Cardinality(D)
    /\ Wake({impl[m].task : m \in D}, r)
    /\ ended' = [t \in Tasks |-> IF t \in {impl[m].task : m \in D}
                                 THEN e ELSE ended[t]]
    /\ UNCHANGED <<now, due, allocated, executing, fixed, pc, armed>>

\* Every way to end a wait keeps the invariant, if the result tells the truth.
LEMMA EndsKeep ==
    ASSUME IInv, NEW D \in SUBSET Entries, NEW r, NEW e,
           \/ r = "CANCELLED" /\ e = "cancelled"
           \/ r = "OK" /\ e = "expired" /\ \A m \in D : now >= due[m],
           looked' \in [Workers -> BOOLEAN], Ends(D, r, e)
    PROVE  IInv'
  <1> DEFINE W == {impl[m].task : m \in D}
  <1>1. /\ TypeOK /\ now' \in Nat /\ now' >= now /\ UNCHANGED fixed
        /\ D \subseteq Timers /\ \A m \in D : active[m]
    BY TimeAssumption DEF IInv, TypeOK, Ends, Entries
  <1>2. \A t \in W : /\ t \in Tasks /\ Waiting(t) /\ pc[t] = "parked"
                     /\ armed[t] \in D /\ armer[armed[t]] = t
    BY <1>1, Sleeper
  <1>3. \A t \in Tasks : t \notin W /\ pc[t] # "free" => armed[t] \notin D
    <2> SUFFICES ASSUME NEW t \in Tasks, t \notin W, pc[t] # "free", armed[t] \in D
                 PROVE  FALSE
      BY Zenon
    <2>1. armer[armed[t]] = t
      BY Zenon DEF IInv, TaskInv
    <2>2. armer[armed[t]] = impl[armed[t]].task
      BY Zenon, <1>1, Sleeper
    <2> QED
      BY Zenon, <2>1, <2>2
  <1>4. /\ \A t \in W : /\ state'[t] = IF executing[t] THEN "SLEEPING" ELSE "RUNNABLE"
                        /\ wakePending'[t] = executing[t]
                        /\ result'[t] = r /\ ended'[t] = e
        /\ \A t \in Tasks \ W : /\ state'[t] = state[t] /\ wakePending'[t] = wakePending[t]
                                /\ result'[t] = result[t] /\ ended'[t] = ended[t]
    <2> HIDE DEF W
    <2>1. /\ Wake(W, r) /\ ended' = [t \in Tasks |-> IF t \in W THEN e ELSE ended[t]]
      BY Zenon DEF Ends, W
    <2>2. \A t \in W : t \in Tasks /\ state[t] = "SLEEPING" /\ ~wakePending[t]
      BY Zenon, <1>2 DEF Waiting
    <2>3. executing \in [Tasks -> BOOLEAN] /\ wakePending \in [Tasks -> BOOLEAN]
      BY Zenon, <1>1 DEF TypeOK
    <2> QED
      BY Zenon, <2>1, <2>2, <2>3 DEF Wake
  <1>5. /\ \A m \in D : ~active'[m] /\ impl'[m].task = None
        /\ \A m \in Timers \ D : active'[m] = active[m] /\ impl'[m] = impl[m]
        /\ \A p \in Workers : heap'[p] = heap[p] \ D
    <2>1. /\ active' = [m \in Timers |-> active[m] /\ m \notin D]
          /\ impl' = [m \in Timers |-> IF m \in D THEN [task |-> None, p |-> None]
                                       ELSE impl[m]]
          /\ heap' = [p \in Workers |-> heap[p] \ D]
      BY Zenon DEF Ends
    <2>2. [task |-> None, p |-> None].task = None
      BY Zenon
    <2>3. active \in [Timers -> BOOLEAN]
      BY Zenon, <1>1 DEF TypeOK
    <2>4. \A m \in D : ~active'[m] /\ impl'[m].task = None
      BY Zenon, <1>1, <2>1, <2>2
    <2>5. \A m \in Timers \ D : active'[m] = active[m] /\ impl'[m] = impl[m]
      BY Zenon, <2>1, <2>3
    <2> QED
      BY Zenon, <2>1, <2>4, <2>5
  <1>c. timerCount' = Cardinality(Entries') /\ timerCount' \in Nat
    <2>1. Entries' = Entries \ D
      BY Zenon, <1>1, <1>5 DEF Entries
    <2>2. IsFiniteSet(D) /\ Cardinality(D) \in Nat /\ IsFiniteSet(Entries \ D)
          /\ Cardinality(Entries \ D) \in Nat
      <3>1. (Entries \ D) \in SUBSET Entries
        BY Zenon
      <3> QED
        BY Zenon, <3>1, EntriesFinite, FS_Subset, FS_CardinalityType
    <2> DEFINE Rest == Entries \ D
               Both == Rest \cup D
               Shared == Rest \cap D
    <2>3. Cardinality(Both) =
              Cardinality(Rest) + Cardinality(D) - Cardinality(Shared)
      BY Zenon, <2>2, FS_Union
    <2>4. Both = Entries /\ Shared = {}
      BY Zenon
    <2>5. Cardinality({}) = 0
      BY Zenon, FS_EmptySet
    <2>6. Cardinality(Entries) = Cardinality(Entries \ D) + Cardinality(D)
      <3> HIDE DEF Both, Shared
      <3> QED
        BY <2>2, <2>3, <2>4, <2>5
    <2>7. timerCount' = Cardinality(Entries) - Cardinality(D)
      BY Zenon DEF Ends, IInv
    <2> QED
      BY <2>1, <2>2, <2>6, <2>7, EntriesFinite
  <1>6. TypeOK'
    <2>1. /\ state' \in [Tasks -> {"RUNNABLE", "RUNNING", "SLEEPING"}]
          /\ wakePending' \in [Tasks -> BOOLEAN]
      BY Zenon, <1>1 DEF Ends, Wake, TypeOK
    <2>2. result' \in [Tasks -> {"OK", "CANCELLED"}]
      BY Zenon, <1>1 DEF Ends, Wake, TypeOK
    <2>3. ended' \in [Tasks -> {"no", "cancelled", "expired"}]
      BY Zenon, <1>1 DEF Ends, TypeOK
    <2>4. impl' \in [Timers -> Impl]
      BY ZenonT(30), <1>1 DEF Ends, TypeOK, Impl
    <2>5. heap' \in [Workers -> SUBSET Timers] /\ active' \in [Timers -> BOOLEAN]
      BY Zenon, <1>1 DEF Ends, TypeOK
    <2> QED
      BY <1>1, <1>c, <2>1, <2>2, <2>3, <2>4, <2>5 DEF Ends, TypeOK, fixed
  <1> HIDE DEF W
  <1>7. ASSUME NEW t \in Tasks, t \in W PROVE TaskInv(t)'
    <2>1. /\ pc'[t] = "parked" /\ armed'[t] = armed[t] /\ executing'[t] = executing[t]
          /\ armed[t] \in Timers /\ armer'[armed[t]] = t /\ due' = due /\ now' = now
      BY Zenon, <1>1, <1>2, <1>7 DEF Ends, fixed
    <2>2. ~Waiting(t)' /\ ~active'[armed'[t]]
      BY <1>2, <1>4, <1>5, <1>7, <2>1 DEF Waiting
    <2>3. Truthful(t)'
      BY Zenon, <1>2, <1>4, <1>7, <2>1 DEF Truthful
    <2> QED
      BY Zenon, <1>4, <1>7, <2>1, <2>2, <2>3 DEF TaskInv
  <1>8. ASSUME NEW t \in Tasks, t \notin W PROVE TaskInv(t)'
    <2>1. TaskInv(t) /\ home[t] \in Workers
      BY Zenon, <1>1 DEF IInv, TypeOK
    <2>2. pc[t] # "free" => armed[t] \in Timers \ D
      BY Zenon, <1>3, <1>8, <2>1 DEF TaskInv
    <2>3. Waiting(t) => armed[t] \in heap[home[t]] /\ pc[t] # "free"
      BY Zenon, <2>1 DEF TaskInv, Waiting
    <2>4. /\ executing'[t] = executing[t] /\ pc'[t] = pc[t] /\ armed'[t] = armed[t]
          /\ due' = due
      BY Zenon DEF Ends
    <2>5. /\ state'[t] = state[t] /\ wakePending'[t] = wakePending[t]
          /\ result'[t] = result[t] /\ ended'[t] = ended[t]
      BY Zenon, <1>4, <1>8
    <2>6. pc[t] # "free" => /\ active'[armed[t]] = active[armed[t]]
                            /\ impl'[armed[t]] = impl[armed[t]]
      BY Zenon, <1>5, <2>2
    <2>7. Waiting(t) => armed[t] \in heap'[home[t]]
      BY Zenon, <1>5, <2>1, <2>2, <2>3
    <2>8. Spares(t)
      BY Zenon, <1>1, <2>4, <2>5, <2>6, <2>7 DEF Spares
    <2> QED
      BY Zenon, <1>1, <2>1, <2>8, TaskKept
  <1>9. ASSUME NEW m \in Timers PROVE TimerInv(m)'
    <2>1. CASE m \in D
      BY Zenon, <1>5, <2>1 DEF TimerInv
    <2>2. CASE m \notin D
      <3>1. /\ active[m] => /\ impl[m].task \in Tasks /\ Waiting(impl[m].task)
                            /\ armed[impl[m].task] = m /\ pc[impl[m].task] # "free"
            /\ TimerInv(m)
        BY Zenon, Sleeper DEF IInv
      <3>2. active[m] => impl[m].task \in Tasks \ W
        BY Zenon, <1>2, <2>2, <3>1
      <3>3. active[m] => Waiting(impl[m].task)'
        BY <1>4, <1>5, <2>2, <3>1, <3>2 DEF Waiting
      <3>4. armed' = armed /\ allocated' = allocated
        BY Zenon DEF Ends
      <3> QED
        BY <1>1, <1>5, <2>2, <3>1, <3>3, <3>4, TimerKept
    <2> QED
      BY Zenon, <2>1, <2>2
  <1> QED
    BY Zenon, <1>6, <1>7, <1>8, <1>9, <1>c DEF IInv

\* Cancel ends one wait.
LEMMA CancelKeeps ==
    ASSUME IInv, NEW m \in Timers, Cancel(m)
    PROVE  IInv'
  <1>1. TypeOK /\ active[m] /\ m \in Entries /\ Entries \subseteq Timers
    BY Zenon DEF IInv, Cancel, Entries
  <1>2. /\ impl[m].p \in Workers /\ m \in heap[impl[m].p] /\ impl[m].task \in Tasks
    BY Zenon, <1>1, Sleeper
  <1>3. \A p \in Workers : m \in heap[p] => p = impl[m].p
    BY DEF IInv, TimerInv
  <1>4. heap' = [p \in Workers |-> heap[p] \ {m}]
    <2>1. \A p \in Workers \ {impl[m].p} : heap[p] \ {m} = heap[p]
      BY Zenon, <1>3
    <2>2. /\ heap' = [heap EXCEPT ![impl[m].p] = heap[impl[m].p] \ {m}]
          /\ heap \in [Workers -> SUBSET Timers]
      BY Zenon, <1>1 DEF Cancel, TypeOK
    <2> QED
      BY Zenon, <2>1, <2>2
  <1>5. timerCount' = timerCount - 1
    <2>1. timerCount \in Nat /\ timerCount # 0
      BY Zenon, <1>1, EntriesFinite, FS_EmptySet DEF IInv
    <2> QED
      BY Zenon, <2>1 DEF Cancel
  <1>6. Cardinality({m}) = 1
    BY Zenon, FS_Singleton
  <1>7. {impl[k].task : k \in {m}} = {impl[m].task}
    BY Zenon
  <1>8. /\ active' = [k \in Timers |-> active[k] /\ k \notin {m}]
        /\ impl' = [k \in Timers |-> IF k \in {m} THEN [task |-> None, p |-> None]
                                     ELSE impl[k]]
        /\ ended' = [t \in Tasks |-> IF t \in {impl[m].task}
                                     THEN "cancelled" ELSE ended[t]]
    <2>1. active \in [Timers -> BOOLEAN] /\ impl \in [Timers -> Impl]
          /\ ended \in [Tasks -> {"no", "cancelled", "expired"}]
      BY Zenon, <1>1 DEF TypeOK
    <2> QED
      BY Zenon, <1>2, <2>1 DEF Cancel
  <1>9. Wake({impl[m].task}, "CANCELLED")
        /\ UNCHANGED <<now, due, allocated, executing, fixed, pc, armed, looked>>
    BY Zenon DEF Cancel
  <1>10. Ends({m}, "CANCELLED", "cancelled")
    BY Zenon, <1>4, <1>5, <1>6, <1>7, <1>8, <1>9 DEF Ends
  <1>11. looked' \in [Workers -> BOOLEAN] /\ {m} \in SUBSET Entries
    BY Zenon, <1>1, <1>9 DEF TypeOK
  <1> QED
    BY Zenon, <1>10, <1>11, EndsKeep

\* Expiry ends the waits that are due.
LEMMA ExpireKeeps ==
    ASSUME IInv, NEW p \in Workers, Expire(p)
    PROVE  IInv'
  <1>1. TypeOK /\ Due(p) \subseteq heap[p] /\ heap[p] \subseteq Timers
    BY Zenon DEF IInv, TypeOK, Due
  <1>2. \A m \in Due(p) : active[m] /\ impl[m].p = p /\ m \in Timers
    BY <1>1 DEF IInv, TimerInv
  <1>3. Due(p) \in SUBSET Entries /\ \A m \in Due(p) : impl[m].task \in Tasks
    BY Zenon, <1>1, <1>2, Sleeper DEF Entries
  <1>4. heap' = [q \in Workers |-> heap[q] \ Due(p)]
    <2>1. \A q \in Workers \ {p} : heap[q] \cap Due(p) = {}
      BY <1>1, <1>2 DEF IInv, TimerInv
    <2> HIDE DEF Due
    <2> QED
      BY Zenon, <1>1, <2>1 DEF Expire, TypeOK
  <1>5. timerCount' = timerCount - Cardinality(Due(p))
    <2>1. /\ Cardinality(Due(p)) <= Cardinality(Entries)
          /\ Cardinality(Due(p)) \in Nat
      BY Zenon, <1>3, EntriesFinite, FS_Subset, FS_CardinalityType
    <2>2. timerCount = Cardinality(Entries) /\ timerCount \in Nat
      BY Zenon, EntriesFinite DEF IInv
    <2> QED
      BY <2>1, <2>2 DEF Expire
  <1>6. {impl[m].task : m \in Due(p)} \ {None} = {impl[m].task : m \in Due(p)}
    BY Zenon, <1>3, NoneAssumption
  <1>7. Ends(Due(p), "OK", "expired")
    BY Zenon, <1>4, <1>5, <1>6 DEF Ends, Expire
  <1>8. looked' \in [Workers -> BOOLEAN]
    BY Zenon, <1>1 DEF Expire, TypeOK
  <1>9. \A m \in Due(p) : now >= due[m]
    <2>1. \A m \in Due(p) : due[m] <= now /\ due[m] \in Nat /\ now \in Nat
      BY <1>1, <1>2 DEF Due, TypeOK
    <2> QED
      BY Zenon, <2>1
  <1> QED
    BY Zenon, <1>3, <1>7, <1>8, <1>9, EndsKeep

\* A handle is freed only when nobody waits on it.
LEMMA DestroyKeeps ==
    ASSUME IInv, NEW m \in Timers, Destroy(m)
    PROVE  IInv'
  <1>1. TypeOK /\ now' \in Nat /\ now' >= now /\ ~active[m]
    BY TimeAssumption DEF IInv, TypeOK, Destroy
  <1>2. TypeOK'
    BY Zenon, <1>1 DEF TypeOK, Destroy, taskVars, fixed, armVars
  <1>3. ASSUME NEW u \in Tasks PROVE TaskInv(u)'
    <2>1. Spares(u)
      BY Zenon, <1>1 DEF IInv, Spares, Destroy, taskVars, armVars, TaskInv
    <2> QED
      BY Zenon, <1>1, <2>1, TaskKept DEF IInv
  <1>4. ASSUME NEW k \in Timers PROVE TimerInv(k)'
    <2>1. active[k] => allocated'[k] = allocated[k]
      BY Zenon, <1>1 DEF Destroy, TypeOK
    <2> QED
      BY Zenon, <1>1, <2>1, Sleeper, TimerKept
      DEF IInv, Destroy, taskVars, armVars, Waiting
  <1> QED
    BY Zenon, <1>2, <1>3, <1>4 DEF IInv, Destroy, Entries

-----------------------------------------------------------------------------
(* vl_timers_timeout_ms.                                                   *)

\* The earliest deadline exists.
LEMMA Minimum ==
    ASSUME NEW S \in SUBSET Nat, S # {}
    PROVE  Min(S) \in S
  <1>1. PICK x \in S : \A y \in S : ~(<<y, x>> \in OpToRel(<, Nat))
    BY Zenon, WFMin, NatLessThanWellFounded
  <1>2. \A y \in S : ~(y < x)
    BY Zenon, <1>1 DEF OpToRel
  <1>3. \A y \in S : x <= y
    BY <1>2
  <1> QED
    BY Zenon, <1>3 DEF Min

\* Division rounds down.
LEMMA Quotient ==
    ASSUME NEW a \in Nat, NEW n \in Nat \ {0}
    PROVE  /\ a \div n \in Nat
           /\ (a \div n) * n <= a /\ a < (a \div n) * n + n
    OBVIOUS

\* The quotient of the rounding formula is the ceiling.
LEMMA Ceiling ==
    ASSUME NEW a \in Nat \ {0}, NEW n \in Nat \ {0}
    PROVE  LET k == (a + n - 1) \div n
           IN  /\ k \in Nat /\ k * n >= a /\ (k - 1) * n < a
  <1> DEFINE b == a + n - 1
             k == b \div n
  <1>1. b \in Nat
    OBVIOUS
  <1>2. k \in Nat /\ k * n <= b /\ b < k * n + n
    BY Zenon, <1>1, Quotient
  <1> DEFINE kn == k * n
  <1>3. (k - 1) * n = kn - n /\ kn \in Int
    BY <1>2
  <1> HIDE DEF k, kn
  <1>4. kn >= a /\ kn - n < a
    BY <1>2, <1>3 DEF kn
  <1> QED
    BY Zenon, <1>2, <1>3, <1>4 DEF k, kn

\* A quotient that reaches the largest int.
LEMMA Capped ==
    ASSUME NEW a \in Nat, NEW n \in Nat \ {0}, NEW i \in Nat \ {0}, a \div n >= i
    PROVE  (i - 1) * n < a
  <1> DEFINE q == a \div n
  <1>1. q \in Nat /\ q * n <= a /\ q >= i
    BY Zenon, Quotient
  <1> HIDE DEF q
  <1>2. PICK e \in Nat : q = i + e
    BY <1>1
  <1>3. q * n = i * n + e * n /\ e * n \in Nat /\ i * n \in Nat
    BY <1>2
  <1>4. (i - 1) * n = i * n - n
    OBVIOUS
  <1> DEFINE qn == q * n
             inn == i * n
             en == e * n
             jn == (i - 1) * n
  <1>5. qn <= a /\ qn = inn + en /\ en \in Nat /\ inn \in Nat /\ jn = inn - n
    BY Zenon, <1>1, <1>3, <1>4
  <1> HIDE DEF qn, inn, en, jn
  <1>6. jn < a
    BY <1>5
  <1> QED
    BY Zenon, <1>6 DEF jn

\* What the timeout is computed from, whoever shares handles.
Clocks ==
    /\ now \in Nat /\ due \in [Timers -> Nat] /\ heap \in [Workers -> SUBSET Timers]
    /\ home \in [Tasks -> Workers]

\* It has its types in every state.
LEMMA ClocksHold == Spec => []Clocks
  <1>1. Init => Clocks
    BY DEF Init, Clocks
  <1>2. Clocks /\ [Next]_vars => Clocks'
    <2> SUFFICES ASSUME Clocks, [Next]_vars PROVE Clocks'
      BY Zenon
    <2>1. CASE UNCHANGED <<now, due, heap, home>>
      BY Zenon, <2>1 DEF Clocks
    <2>2. CASE Tick
      BY <2>2 DEF Clocks, Tick, implVars, fixed
    <2>3. ASSUME NEW t \in Tasks, TaskStep(t) PROVE Clocks'
      <3>1. ASSUME NEW m \in Timers, NEW d \in Delays, Arm(t, m, d)
            PROVE  Clocks'
        BY <3>1, TimeAssumption DEF Clocks, Arm, fixed
      <3> QED
        BY Zenon, <2>1, <2>3, <3>1
        DEF TaskStep, Leave, Yield, ClearTask, ClearP, implVars, fixed
    <2>4. ASSUME NEW m \in Timers, Cancel(m) \/ Destroy(m) PROVE Clocks'
      <3>1. CASE Cancel(m)
        BY Zenon, <3>1 DEF Clocks, Cancel, fixed
      <3> QED
        BY Zenon, <2>1, <2>4, <3>1 DEF Destroy, fixed
    <2>5. ASSUME NEW p \in Workers, WorkerStep(p) PROVE Clocks'
      <3>1. CASE Expire(p)
        BY Zenon, <3>1 DEF Clocks, Expire, fixed
      <3> QED
        BY Zenon, <2>1, <2>5, <3>1
        DEF WorkerStep, Idle, Resume, implVars, fixed
    <2>6. CASE UNCHANGED vars
      BY Zenon, <2>1, <2>6 DEF vars, implVars, fixed
    <2> QED
      BY Zenon, <2>2, <2>3, <2>4, <2>5, <2>6 DEF Next
  <1> QED
    BY <1>1, <1>2, PTL DEF Spec

\* vl_timers_timeout_ms rounds up, and never by a whole millisecond; only
\* INT_MAX cuts it short.
THEOREM TimeoutRoundsUp == Spec => []TimeoutIsCeiling
  <1>1. Clocks => TimeoutIsCeiling
    <2> SUFFICES ASSUME Clocks, NEW p \in Workers, heap[p] # {}
                 PROVE  /\ \/ now + TimeoutMs(p) * NsPerMs >= Earliest(p)
                           \/ TimeoutMs(p) = IntMax
                        /\ TimeoutMs(p) > 0 =>
                              now + (TimeoutMs(p) - 1) * NsPerMs < Earliest(p)
      BY Zenon DEF TimeoutIsCeiling
    <2> DEFINE e == Earliest(p)
               n == NsPerMs
    <2>1. now \in Nat /\ n \in Nat \ {0} /\ IntMax \in Nat \ {0}
      BY Zenon, NsPerMsAssumption DEF Clocks
    <2>2. e \in Nat
      <3> DEFINE S == {due[m] : m \in heap[p]}
      <3>1. S \in SUBSET Nat /\ S # {}
        BY Zenon DEF Clocks
      <3> HIDE DEF S
      <3>2. Min(S) \in Nat
        BY Zenon, <3>1, Minimum
      <3> QED
        BY Zenon, <3>2 DEF Earliest, S
    <2> HIDE DEF e, n
    <2>3. TimeoutMs(p) = IF e <= now THEN 0
                         ELSE IF (e - now) \div n >= IntMax THEN IntMax
                         ELSE (e - now + n - 1) \div n
      BY Zenon DEF TimeoutMs, e, n
    <2> DEFINE k == TimeoutMs(p)
    <2>4. (now + k * n >= e \/ k = IntMax) /\ (k > 0 => now + (k - 1) * n < e)
      <3>1. CASE e <= now
        BY <2>1, <2>2, <2>3, <3>1
      <3>2. CASE ~(e <= now)
        <4> DEFINE a == e - now
        <4>1. a \in Nat \ {0} /\ e = now + a
          BY <2>1, <2>2, <3>2
        <4> HIDE DEF a
        <4>2. CASE a \div n >= IntMax
          <5>1. k = IntMax
            BY Zenon, <2>3, <3>2, <4>2 DEF a
          <5>2. (IntMax - 1) * n < a /\ (IntMax - 1) * n \in Int
            BY <2>1, <4>1, <4>2, Capped
          <5> QED
            BY <2>1, <4>1, <5>1, <5>2
        <4>3. CASE ~(a \div n >= IntMax)
          <5> HIDE DEF k
          <5>1. k = (a + n - 1) \div n
            BY Zenon, <2>3, <3>2, <4>3 DEF a, k
          <5>2. k \in Nat /\ k * n >= a /\ (k - 1) * n < a
            BY Zenon, <2>1, <4>1, <5>1, Ceiling
          <5>3. k * n \in Int /\ (k - 1) * n \in Int
            BY <2>1, <5>2
          <5> QED
            BY <2>1, <4>1, <5>2, <5>3
        <4> QED
          BY Zenon, <4>2, <4>3
      <3> QED
        BY Zenon, <3>1, <3>2
    <2> QED
      BY Zenon, <2>4 DEF e, n
  <1> QED
    BY <1>1, ClocksHold, PTL

-----------------------------------------------------------------------------
(* The theorems about waits.                                               *)

\* The invariant holds at the start.
LEMMA InitKeeps ==
    ASSUME Init
    PROVE  IInv
  <1>1. TypeOK
    BY TimeAssumption DEF Init, TypeOK, Impl
  <1>2. Entries = {}
    BY Zenon DEF Init, Entries
  <1>3. ASSUME NEW t \in Tasks PROVE TaskInv(t)
    BY Zenon DEF Init, TaskInv, Waiting
  <1>4. ASSUME NEW m \in Timers PROVE TimerInv(m)
    BY Zenon DEF Init, TimerInv
  <1> QED
    BY Zenon, <1>1, <1>2, <1>3, <1>4, FS_EmptySet DEF IInv, Init

\* Every step keeps it, as long as handles are not shared.
LEMMA NextKeeps ==
    ASSUME ~Sharing, IInv, [Next]_vars
    PROVE  IInv'
  <1>t. looked \in [Workers -> BOOLEAN]
    BY Zenon DEF IInv, TypeOK
  <1>1. ASSUME NEW t \in Tasks, TaskStep(t) PROVE IInv'
    BY Zenon, <1>1, LeaveKeeps, YieldKeeps, ClearKeeps, ArmKeeps DEF TaskStep
  <1>2. ASSUME NEW p \in Workers, WorkerStep(p) PROVE IInv'
    <2>1. CASE Idle(p)
      BY Zenon, <1>t, <2>1, RoundKeeps DEF Idle
    <2> QED
      BY Zenon, <1>2, <2>1, ExpireKeeps, ResumeKeeps DEF WorkerStep
  <1>3. CASE UNCHANGED vars
    BY Zenon, <1>t, <1>3, RoundKeeps DEF vars
  <1> QED
    BY Zenon, <1>1, <1>2, <1>3, TickKeeps, CancelKeeps, DestroyKeeps DEF Next

\* It holds in every reachable state.
LEMMA InvariantHolds ==
    ASSUME ~Sharing
    PROVE  Spec => []IInv
  <1>1. Init => IInv
    BY Zenon, InitKeeps
  <1>2. IInv /\ [Next]_vars => IInv'
    BY Zenon, NextKeeps
  <1> QED
    BY <1>1, <1>2, PTL DEF Spec

\* "parked on a per-P timer heap entry until deadline": no sleep is forgotten,
\* if every handle is armed by one task only.
THEOREM NoSleepForgotten ==
    ASSUME ~Sharing
    PROVE  Spec => []SleeperHasTimer
  <1>1. IInv => SleeperHasTimer
    BY Zenon DEF IInv, TaskInv, Waiting, SleeperHasTimer
  <1> QED
    BY <1>1, InvariantHolds, PTL

\* "one timer can produce at most one wake", and timer_count is exact.
THEOREM AtMostOneWake ==
    ASSUME ~Sharing
    PROVE  Spec => []OneWake
  <1>1. IInv => OneWake
    <2> SUFFICES ASSUME IInv PROVE OneWake
      BY Zenon
    <2>1. \A m \in Timers : active[m] <=> \E p \in Workers : m \in heap[p]
      BY Zenon, Sleeper DEF IInv, TimerInv
    <2>2. Entries = UNION {heap[p] : p \in Workers}
      BY <2>1 DEF Entries, IInv, TypeOK
    <2>3. ASSUME NEW p \in Workers, NEW m \in heap[p]
          PROVE  /\ allocated[m] /\ impl[m].p = p
                 /\ impl[m].task # None /\ armed[impl[m].task] = m
                 /\ home[impl[m].task] = p
                 /\ state[impl[m].task] = "SLEEPING" /\ ~wakePending[impl[m].task]
      <3>1. m \in Timers
        BY Zenon DEF IInv, TypeOK
      <3>2. /\ active[m] /\ allocated[m] /\ impl[m].p = p
            /\ home[impl[m].task] = p
        BY <3>1 DEF IInv, TimerInv
      <3> QED
        BY <3>1, <3>2, Sleeper, NoneAssumption DEF Waiting
    <2> QED
      BY <2>1, <2>2, <2>3 DEF OneWake, IInv
  <1> QED
    BY <1>1, InvariantHolds, PTL

\* "completion returns VL_OK or VL_ERROR_CANCELLED", as it really ended.
THEOREM ResultsAreTrue ==
    ASSUME ~Sharing
    PROVE  Spec => []ResultTruthful
  <1>1. IInv => ResultTruthful
    BY Zenon DEF IInv, TaskInv, Waiting, Truthful, ResultTruthful
  <1> QED
    BY <1>1, InvariantHolds, PTL

=============================================================================
