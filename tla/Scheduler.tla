----------------------------- MODULE Scheduler -----------------------------
(***************************************************************************)
(* The G/P/M scheduler: src/runtime/{scheduler,worker,task,context}.c.     *)
(* An action is one section under the runtime mutex, or one access to an   *)
(* atomic word, eventfd or P-local deque between two sections.  The local  *)
(* deques are atomic here; RunQueue shows that they may be.  Worker 0 is   *)
(* the host thread inside vl_runtime_run, the others own a thread each.    *)
(* What a Task's function does is left open: while it runs it may make any *)
(* of the runtime calls of the program, in any order.                      *)
(***************************************************************************)
EXTENDS Integers, Sequences, SequencesExt, FiniteSetsExt, FiniteSets

CONSTANTS
    Tasks,          \* the vl_task_t handles that may be spawned
    NWorkers,       \* the most workers of a program
    LocalCapacity,  \* VL_P_RUN_QUEUE_CAPACITY
    StealBatchMax,  \* VL_STEAL_BATCH_MAX
    Programs,       \* [workers, tasks, calls]: what a program asks for
    NoTask          \* NULL

ASSUME WorkersAssumption == NWorkers \in Nat /\ NWorkers >= 1
ASSUME BatchAssumption == StealBatchMax \in Nat /\ StealBatchMax >= 1
ASSUME LocalAssumption == LocalCapacity \in Nat /\ LocalCapacity >= 1
ASSUME ProgramsAssumption ==
    \A g \in Programs : g.workers \in 1..NWorkers /\ g.tasks \in Nat
ASSUME NoTaskAssumption == NoTask \notin Tasks

Workers == 0..(NWorkers - 1)
NoWorker == NWorkers

VARIABLES
    \* struct vl_task
    state, queued, fiber, lastP, executing, wakePending,
    waitingForIo, waitingOn, waiters,
    \* queues of runnable tasks
    globalQ, local,
    \* struct vl_runtime_impl
    running, runStatus, stopWorkers, shutdownRequested,
    liveTasks, activeWorkers, idleWorkers, timerCount, ioWaiting,
    \* struct vl_p: timer heap (as a set), idle flag, eventfd readable
    timers, idle, event,
    \* threads: place in the code, task in hand, stolen batch, steal offset
    wpc, hand, batch, offset,
    \* the host thread outside the workers (ran: it has called
    \* vl_runtime_run), and a thread asking for shutdown
    hpc, ran, spc,
    \* the program: how many workers it configures (runtime->worker_count),
    \* how many tasks it spawns, and the calls its tasks and threads make
    program

waitVars == <<waitingForIo, waitingOn, waiters, wakePending>>
taskVars == <<state, queued, fiber, lastP, executing, waitVars>>
queueVars == <<globalQ, local>>
flagVars == <<running, runStatus, stopWorkers, shutdownRequested>>
sourceVars == <<timers, timerCount, ioWaiting>>
countVars == <<liveTasks, activeWorkers, idleWorkers>>
stealVars == <<batch, offset>>
hostVars == <<hpc, ran, spc, program>>
threadVars == <<wpc, hand, stealVars, hostVars>>
vars == <<taskVars, queueVars, flagVars, sourceVars, countVars, idle, event,
          threadVars>>

Terminal == {"DONE", "CANCELLED"}

\* vl_runtime_init_with_config: workers 1.. sit in poll(), nothing spawned.
Init ==
    /\ program \in Programs
    /\ state = [t \in Tasks |-> "NEW"]
    /\ queued = [t \in Tasks |-> FALSE]
    /\ fiber = [t \in Tasks |-> "none"]
    /\ lastP = [t \in Tasks |-> NoWorker]
    /\ executing = [t \in Tasks |-> FALSE]
    /\ wakePending = [t \in Tasks |-> FALSE]
    /\ waitingForIo = [t \in Tasks |-> FALSE]
    /\ waitingOn = [t \in Tasks |-> NoTask]
    /\ waiters = [t \in Tasks |-> <<>>]
    /\ globalQ = <<>>
    /\ local = [p \in Workers |-> <<>>]
    /\ running = FALSE /\ runStatus = "OK"
    /\ stopWorkers = FALSE /\ shutdownRequested = FALSE
    /\ liveTasks = 0 /\ activeWorkers = 0 /\ idleWorkers = 0
    /\ timerCount = 0 /\ ioWaiting = 0
    /\ timers = [p \in Workers |-> {}]
    /\ idle = [p \in Workers |-> FALSE]
    /\ event = [p \in Workers |-> FALSE]
    /\ wpc = [p \in Workers |-> CASE p = 0 -> "out"
                                  [] p \in 1..(program.workers - 1) -> "poll"
                                  [] OTHER -> "exited"]
    /\ hand = [p \in Workers |-> NoTask]
    /\ batch = [p \in Workers |-> <<>>]
    /\ offset = [p \in Workers |-> 1]
    /\ hpc = "out" /\ ran = FALSE /\ spc = "out"

-----------------------------------------------------------------------------
(* Helpers called with the runtime mutex held                              *)

Goto(p, pc) == wpc' = [wpc EXCEPT ![p] = pc]

\* n - k for the counters the code guards with "if (n != 0)".
Minus(n, k) == IF k > n THEN 0 ELSE n - k

SetAll(f, S, v) == [x \in DOMAIN f |-> IF x \in S THEN v ELSE f[x]]

\* vl_runtime_wake_workers: make every eventfd readable.
WakeWorkers == event' = [p \in Workers |-> TRUE]

\* vl_task_enqueue_global_locked, for tasks that have just become RUNNABLE:
\* those that win the queued flag go to the back of the global queue.
EnqueueGlobal(ts) ==
    LET won == SelectSeq(ts, LAMBDA t : ~queued[t])
    IN  /\ globalQ' = globalQ \o won
        /\ queued' = SetAll(queued, ToSet(won), TRUE)

Parked(t) == state[t] \in {"WAITING", "SLEEPING"}

\* Mutant: a task is queued while a worker is still on its stack.
WakeableExecuting(ts) == SelectSeq(ts, Parked)

\* Mutant: a wake that meets a task still on its stack is lost.
WakeForgotten(ts) ==
    /\ EnqueueGlobal(SelectSeq(ts, LAMBDA t : Parked(t) /\ ~executing[t]))
    /\ UNCHANGED wakePending

\* vl_task_wake_locked over a sequence of tasks: a parked task becomes
\* RUNNABLE and is queued, unless its fiber has not yet left its worker;
\* then only wake_pending is set.
Wakeable(ts) == SelectSeq(ts, LAMBDA t : Parked(t) /\ ~executing[t])
Pending(ts) == {t \in ToSet(ts) : Parked(t) /\ executing[t]}
Wake(ts) ==
    /\ EnqueueGlobal(Wakeable(ts))
    /\ wakePending' = SetAll(wakePending, Pending(ts), TRUE)

\* vl_worker_stop_run_locked
StopRun(status) ==
    IF running THEN running' = FALSE /\ runStatus' = status
               ELSE UNCHANGED <<running, runStatus>>

\* The test "if (live_tasks == 0) stop the run" after live_tasks changed.
StopIfNoneLive ==
    IF liveTasks' = 0 THEN StopRun("OK") ELSE UNCHANGED <<running, runStatus>>

\* vl_task_cancel_all: every task that is neither terminal nor executing.
CancelAll ==
    LET victims == {t \in Tasks : /\ state[t] \notin Terminal \cup {"NEW"}
                                  /\ ~executing[t]}
        io == {t \in victims : waitingForIo[t]}
    IN  /\ state' = SetAll(state, victims, "CANCELLED")
        /\ waitingForIo' = SetAll(waitingForIo, io, FALSE)
        /\ ioWaiting' = Minus(ioWaiting, Cardinality(io))
        /\ liveTasks' = Minus(liveTasks, Cardinality(victims))

-----------------------------------------------------------------------------
(* The host thread (owner of the runtime) and other threads                *)

\* vl_spawn, by the host outside a run or by a running task.
SpawnTask(t) ==
    /\ ~shutdownRequested
    /\ state[t] = "NEW"
    /\ Cardinality({u \in Tasks : state[u] # "NEW"}) < program.tasks
    /\ state' = [state EXCEPT ![t] = "RUNNABLE"]
    /\ EnqueueGlobal(<<t>>)
    /\ liveTasks' = liveTasks + 1
    /\ UNCHANGED <<fiber, lastP, executing, waitVars, local, flagVars,
                   sourceVars, activeWorkers, idleWorkers, idle, event>>

\* The host may spawn more tasks after a run ("respawn"), before the next.
HostSpawn(t) ==
    /\ hpc = "out" /\ (ran => "respawn" \in program.calls)
    /\ SpawnTask(t)
    /\ hpc' = "spawned"
    /\ UNCHANGED <<wpc, hand, stealVars, ran, spc, program>>

HostSpawnWake ==
    /\ hpc = "spawned"
    /\ WakeWorkers
    /\ hpc' = "out"
    /\ UNCHANGED <<taskVars, queueVars, flagVars, sourceVars, countVars, idle,
                   wpc, hand, stealVars, ran, spc, program>>

\* vl_runtime_run: publish running.  With no live task it returns at once.
RunBegin ==
    /\ hpc = "out"
    /\ ~running /\ liveTasks # 0
    /\ running' = TRUE /\ runStatus' = "OK" /\ idleWorkers' = 0
    /\ hpc' = "starting" /\ ran' = TRUE
    /\ UNCHANGED <<taskVars, queueVars, stopWorkers, shutdownRequested,
                   sourceVars, liveTasks, activeWorkers, idle, event, wpc, hand,
                   stealVars, spc, program>>

\* ... wake the workers and become worker 0.
RunWake ==
    /\ hpc = "starting"
    /\ WakeWorkers
    /\ hpc' = "worker"
    /\ Goto(0, "loop")
    /\ UNCHANGED <<taskVars, queueVars, flagVars, sourceVars, countVars, idle,
                   hand, stealVars, ran, spc, program>>

\* Mutant: return as soon as worker 0 has left its loop.
RunWaitSkipped ==
    /\ hpc = "worker" /\ wpc[0] = "out"
    /\ hpc' = "ended"
    /\ UNCHANGED <<taskVars, queueVars, flagVars, sourceVars, countVars, idle,
                   event, wpc, hand, stealVars, ran, spc, program>>

\* Worker 0 has left its loop: wait until no fiber executes, read the status.
RunWait ==
    /\ hpc = "worker" /\ wpc[0] = "out"
    /\ activeWorkers = 0
    /\ hpc' = "ended"
    /\ UNCHANGED <<taskVars, queueVars, flagVars, sourceVars, countVars, idle,
                   event, wpc, hand, stealVars, ran, spc, program>>

\* Mutant: the tasks that are left are not cancelled.
RunReturnUncancelled ==
    /\ hpc = "ended"
    /\ hpc' = "out"
    /\ UNCHANGED <<taskVars, queueVars, flagVars, sourceVars, countVars, idle,
                   event, wpc, hand, stealVars, ran, spc, program>>

\* Return; a requested shutdown first cancels what is left.
RunReturn ==
    /\ hpc = "ended"
    /\ hpc' = "out"
    /\ \/ /\ shutdownRequested
          /\ CancelAll
       \/ /\ ~shutdownRequested
          /\ UNCHANGED <<state, waitingForIo, ioWaiting, liveTasks>>
    /\ UNCHANGED <<queued, fiber, lastP, executing, waitingOn, waiters,
                   wakePending, queueVars, flagVars, timers, timerCount,
                   activeWorkers, idleWorkers, idle, event, wpc, hand,
                   stealVars, ran, spc, program>>

\* vl_runtime_shutdown: stop the worker threads ...  The host has destroyed
\* its vl_io_t before: as long as there is one the call has no effect.
ShutdownBegin ==
    /\ hpc = "out" /\ spc # "wake"
    /\ running' = FALSE /\ stopWorkers' = TRUE
    /\ hpc' = "stopping"
    /\ UNCHANGED <<taskVars, queueVars, runStatus, shutdownRequested,
                   sourceVars, countVars, idle, event, wpc, hand, stealVars,
                   ran, spc, program>>

ShutdownWake ==
    /\ hpc = "stopping"
    /\ WakeWorkers
    /\ hpc' = "joining"
    /\ UNCHANGED <<taskVars, queueVars, flagVars, sourceVars, countVars, idle,
                   wpc, hand, stealVars, ran, spc, program>>

\* ... and, once all have been joined, cancel the tasks and destroy the
\* fibers of worker 0.
ShutdownFinish ==
    /\ hpc = "joining"
    /\ \A p \in Workers \ {0} : wpc[p] = "exited"
    /\ CancelAll
    /\ fiber' = [t \in Tasks |-> IF lastP[t] = 0 THEN "none" ELSE fiber[t]]
    /\ hpc' = "down"
    /\ UNCHANGED <<queued, lastP, executing, waitingOn, waiters, wakePending,
                   queueVars, flagVars, timers, timerCount, activeWorkers,
                   idleWorkers, idle, event, wpc, hand, stealVars, ran, spc,
                   program>>

\* vl_runtime_request_shutdown, under the mutex.
RequestFlags ==
    /\ shutdownRequested' = TRUE /\ running' = FALSE
    /\ UNCHANGED <<taskVars, queueVars, runStatus, stopWorkers, sourceVars,
                   countVars, idle, event>>

\* ... called once by a thread that is not part of the runtime.
RequestShutdown ==
    /\ "request" \in program.calls
    /\ spc = "out" /\ hpc \notin {"stopping", "joining", "down"}
    /\ RequestFlags
    /\ spc' = "wake"
    /\ UNCHANGED <<wpc, hand, stealVars, hpc, ran, program>>

RequestWake ==
    /\ spc = "wake"
    /\ WakeWorkers
    /\ spc' = "done"
    /\ UNCHANGED <<taskVars, queueVars, flagVars, sourceVars, countVars, idle,
                   wpc, hand, stealVars, hpc, ran, program>>

-----------------------------------------------------------------------------
(* A worker thread, outside and inside vl_worker_run                       *)

\* vl_worker_thread_main: poll() without a timeout, then drain the eventfd.
ThreadPoll(p) ==
    /\ wpc[p] = "poll" /\ event[p]
    /\ event' = [event EXCEPT ![p] = FALSE]
    /\ Goto(p, "woken")
    /\ UNCHANGED <<taskVars, queueVars, flagVars, sourceVars, countVars, idle,
                   hand, stealVars, hostVars>>

\* Stop (destroying the fibers this worker owns), run, or poll again.
ThreadCheck(p) ==
    /\ wpc[p] = "woken"
    /\ \/ /\ stopWorkers
          /\ fiber' = [t \in Tasks |-> IF lastP[t] = p THEN "none" ELSE fiber[t]]
          /\ Goto(p, "exited")
       \/ /\ ~stopWorkers /\ running
          /\ Goto(p, "loop")
          /\ UNCHANGED fiber
       \/ /\ ~stopWorkers /\ ~running
          /\ Goto(p, "poll")
          /\ UNCHANGED fiber
    /\ UNCHANGED <<state, queued, lastP, executing, waitVars, queueVars,
                   flagVars, sourceVars, countVars, idle, event, hand,
                   stealVars, hostVars>>

\* Where the loop body starts.  Only worker p adds to its timer heap, and
\* only tasks on worker 0 wait for I/O, so what is empty now stays empty
\* until p gets there.
AfterExpire(p) == IF p = 0 /\ ioWaiting # 0 THEN "io" ELSE "pop"
LoopStart(p) == IF timers[p] # {} THEN "expire" ELSE AfterExpire(p)

\* The head of the loop of vl_worker_run.  A thread whose run is over finds
\* stop_workers set or polls again.
LoopHead(p) ==
    /\ wpc[p] = "loop"
    /\ Goto(p, CASE running -> LoopStart(p)
                 [] ~running /\ p = 0 -> "out"
                 [] OTHER -> IF stopWorkers THEN "woken" ELSE "poll")
    /\ UNCHANGED <<taskVars, queueVars, flagVars, sourceVars, countVars, idle,
                   event, hand, stealVars, hostVars>>

\* vl_timers_expire: some of the timers are due, in the order of their
\* deadlines.
ExpireTimers(p) ==
    /\ wpc[p] = "expire"
    /\ \E due \in SUBSET timers[p] : \E ts \in SetToSeqs(due) :
          /\ timers' = [timers EXCEPT ![p] = @ \ due]
          /\ timerCount' = Minus(timerCount, Cardinality(due))
          /\ state' = SetAll(state, ToSet(Wakeable(ts)), "RUNNABLE")
          /\ Wake(ts)
    /\ Goto(p, AfterExpire(p))
    /\ UNCHANGED <<fiber, lastP, executing, waitingForIo, waitingOn, waiters,
                   local, flagVars, ioWaiting, countVars, idle, event, hand,
                   stealVars, hostVars>>

\* vl_task_complete_io: t no longer waits for I/O.
CompleteIo(t) ==
    /\ waitingForIo[t] /\ state[t] = "WAITING" /\ ioWaiting # 0
    /\ waitingForIo' = [waitingForIo EXCEPT ![t] = FALSE]
    /\ ioWaiting' = ioWaiting - 1
    /\ state' = SetAll(state, ToSet(Wakeable(<<t>>)), "RUNNABLE")
    /\ Wake(<<t>>)

\* vl_worker_poll_io: vl_io_poll finds the completion of some task, or finds
\* nothing.
PollIo(p) ==
    /\ wpc[p] = "io"
    /\ \/ /\ \E t \in Tasks : CompleteIo(t)
          /\ Goto(p, "io_wake")
       \/ /\ Goto(p, "pop")
          /\ UNCHANGED <<waitingForIo, ioWaiting, state, queued, globalQ,
                         wakePending>>
    /\ UNCHANGED <<fiber, lastP, executing, waitingOn, waiters, local, flagVars,
                   timers, timerCount, countVars, idle, event, hand, stealVars,
                   hostVars>>

\* Every call that ends with vl_runtime_wake_workers, and where it goes on.
WakePcs == {"io_wake", "run_wake", "wake", "idle_wake"}
WakeStep(p) ==
    /\ wpc[p] \in WakePcs
    /\ WakeWorkers
    /\ Goto(p, CASE wpc[p] = "io_wake" -> AfterExpire(p)
                 [] wpc[p] = "run_wake" -> "run"
                 [] wpc[p] = "wake" -> "loop"
                 [] wpc[p] = "idle_wake" -> "idle_leave")
    /\ UNCHANGED <<taskVars, queueVars, flagVars, sourceVars, countVars, idle,
                   hand, stealVars, hostVars>>

-----------------------------------------------------------------------------
(* vl_worker_next_task                                                     *)

\* Mutant: the popped task keeps its queued flag.
PopLocalFlagged(p) ==
    /\ wpc[p] = "pop"
    /\ \/ /\ local[p] # <<>>
          /\ hand' = [hand EXCEPT ![p] = Last(local[p])]
          /\ local' = [local EXCEPT ![p] = Front(@)]
          /\ Goto(p, "exec")
       \/ /\ local[p] = <<>>
          /\ Goto(p, "global")
          /\ UNCHANGED <<hand, local>>
    /\ UNCHANGED <<taskVars, globalQ, flagVars, sourceVars, countVars, idle,
                   event, stealVars, hostVars>>

\* Pop the newest task of the own deque.
PopLocal(p) ==
    /\ wpc[p] = "pop"
    /\ \/ /\ local[p] # <<>>
          /\ hand' = [hand EXCEPT ![p] = Last(local[p])]
          /\ local' = [local EXCEPT ![p] = Front(@)]
          /\ queued' = [queued EXCEPT ![Last(local[p])] = FALSE]
          /\ Goto(p, "exec")
       \/ /\ local[p] = <<>>
          /\ Goto(p, "global")
          /\ UNCHANGED <<hand, local, queued>>
    /\ UNCHANGED <<state, fiber, lastP, executing, waitVars, globalQ, flagVars,
                   sourceVars, countVars, idle, event, stealVars, hostVars>>

Unstarted(t) == fiber[t] = "none"

Eligible(p, t) == Unstarted(t) \/ lastP[t] = p

\* The first loop of vl_worker_take_global: candidates that another worker
\* must run are moved from the front to the back until one is eligible.
TakenAt(p) == SelectInSeq(globalQ, LAMBDA t : Eligible(p, t))
Rotated(q, k) == SubSeq(q, k + 1, Len(q)) \o SubSeq(q, 1, k - 1)

\* The second loop walks over queue q, moving unstarted tasks to the local
\* deque and the others to the back.  It stops after want pulls, or when
\* the deque refuses a task (which then goes to the back as well).
BatchCut(q, want, room) ==
    LET found(m) == Cardinality({i \in 1..m : Unstarted(q[i])})
        full == {m \in 0..Len(q) : found(m) = IF want <= room THEN want ELSE room + 1}
    IN  IF full = {} THEN Len(q) ELSE Min(full)

Batch(q, want, room) ==
    LET cut == BatchCut(q, want, room)
        fresh == SelectSeq(SubSeq(q, 1, cut), Unstarted)
        pulled == SubSeq(fresh, 1, Min({Len(fresh), want, room}))
    IN  [pulled |-> pulled,
         rest |-> SubSeq(q, cut + 1, Len(q)) \o
                  SelectSeq(SubSeq(q, 1, cut), LAMBDA t : t \notin ToSet(pulled))]

\* vl_worker_take_global
TakeGlobal(p) ==
    /\ wpc[p] = "global"
    /\ LET k == TakenAt(p)
           got == IF k = 0 THEN 0 ELSE 1
           q == IF k = 0 THEN globalQ ELSE Rotated(globalQ, k)
           b == IF program.workers = 1 THEN [pulled |-> <<>>, rest |-> q]
                ELSE Batch(q, StealBatchMax - got, LocalCapacity - Len(local[p]))
       IN  /\ globalQ' = b.rest
           /\ local' = [local EXCEPT ![p] = @ \o b.pulled]
           /\ \/ /\ k # 0
                 /\ hand' = [hand EXCEPT ![p] = globalQ[k]]
                 /\ queued' = [queued EXCEPT ![globalQ[k]] = FALSE]
                 /\ Goto(p, "exec")
                 /\ UNCHANGED offset
              \/ /\ k = 0
                 /\ offset' = [offset EXCEPT ![p] = 1]
                 /\ Goto(p, IF program.workers = 1 THEN "idle" ELSE "steal")
                 /\ UNCHANGED <<hand, queued>>
    /\ UNCHANGED <<state, fiber, lastP, executing, waitVars, flagVars,
                   sourceVars, countVars, idle, event, batch, hostVars>>

Victim(p) == (p + offset[p]) % program.workers

\* One vl_run_queue_steal of vl_run_queue_steal_batch.
StealOne(p) ==
    /\ wpc[p] = "steal"
    /\ local[Victim(p)] # <<>>
    /\ Len(batch[p]) < StealBatchMax
    /\ batch' = [batch EXCEPT ![p] = Append(@, Head(local[Victim(p)]))]
    /\ local' = [local EXCEPT ![Victim(p)] = Tail(@)]
    /\ UNCHANGED <<taskVars, globalQ, flagVars, sourceVars, countVars, idle,
                   event, wpc, hand, offset, hostVars>>

\* The batch ends: it is full, the victim is empty, or the thief lost a race
\* for top.  With nothing stolen the next victim is tried.
StealEnd(p) ==
    /\ wpc[p] = "steal"
    /\ \/ /\ batch[p] # <<>>
          /\ Goto(p, "keep")
          /\ UNCHANGED offset
       \/ /\ batch[p] = <<>> /\ offset[p] + 1 < program.workers
          /\ offset' = [offset EXCEPT ![p] = @ + 1]
          /\ UNCHANGED wpc
       \/ /\ batch[p] = <<>> /\ offset[p] + 1 >= program.workers
          /\ offset' = [offset EXCEPT ![p] = 1]
          /\ Goto(p, "idle")
    /\ UNCHANGED <<taskVars, queueVars, flagVars, sourceVars, countVars, idle,
                   event, hand, batch, hostVars>>

\* Keep all but the first stolen task in the own deque; what does not fit
\* goes to the global queue.
StealKeep(p) ==
    /\ wpc[p] = "keep"
    /\ LET rest == Tail(batch[p])
           room == Min({Len(rest), LocalCapacity - Len(local[p])})
       IN  /\ local' = [local EXCEPT ![p] = @ \o SubSeq(rest, 1, room)]
           /\ globalQ' = globalQ \o SubSeq(rest, room + 1, Len(rest))
    /\ hand' = [hand EXCEPT ![p] = Head(batch[p])]
    /\ queued' = [queued EXCEPT ![Head(batch[p])] = FALSE]
    /\ batch' = [batch EXCEPT ![p] = <<>>]
    /\ offset' = [offset EXCEPT ![p] = 1]
    /\ Goto(p, "exec")
    /\ UNCHANGED <<state, fiber, lastP, executing, waitVars, flagVars,
                   sourceVars, countVars, idle, event, hostVars>>

-----------------------------------------------------------------------------
(* vl_worker_execute                                                       *)

\* First section: drop a task that may not run, cancel it if shutdown was
\* requested, or take it.
ExecuteBegin(p) ==
    /\ wpc[p] = "exec"
    /\ LET t == hand[p] IN
       \/ /\ state[t] # "RUNNABLE" \/ ~running
          /\ hand' = [hand EXCEPT ![p] = NoTask]
          /\ Goto(p, "loop")
          /\ UNCHANGED <<state, executing, lastP, liveTasks, activeWorkers>>
       \/ /\ state[t] = "RUNNABLE" /\ running /\ shutdownRequested
          /\ state' = [state EXCEPT ![t] = "CANCELLED"]
          /\ liveTasks' = Minus(liveTasks, 1)
          /\ hand' = [hand EXCEPT ![p] = NoTask]
          /\ Goto(p, "cancelled")
          /\ UNCHANGED <<executing, lastP, activeWorkers>>
       \/ /\ state[t] = "RUNNABLE" /\ running /\ ~shutdownRequested
          /\ state' = [state EXCEPT ![t] = "RUNNING"]
          /\ executing' = [executing EXCEPT ![t] = TRUE]
          /\ lastP' = [lastP EXCEPT ![t] = p]
          /\ activeWorkers' = activeWorkers + 1
          /\ Goto(p, IF Unstarted(t) THEN "create" ELSE "run")
          /\ UNCHANGED <<hand, liveTasks>>
    /\ UNCHANGED <<queued, fiber, waitVars, queueVars, flagVars, sourceVars,
                   idleWorkers, idle, event, stealVars, hostVars>>

\* The task was cancelled instead: was it the last one?
ExecuteCancelled(p) ==
    /\ wpc[p] = "cancelled"
    /\ IF liveTasks = 0 THEN StopRun("OK") ELSE UNCHANGED <<running, runStatus>>
    /\ Goto(p, "wake")
    /\ UNCHANGED <<taskVars, queueVars, stopWorkers, shutdownRequested,
                   sourceVars, countVars, idle, event, hand, stealVars, hostVars>>

\* vl_fiber_create, which may fail (no memory for the stack).
CreateFiber(p) ==
    /\ wpc[p] = "create"
    /\ \/ /\ fiber' = [fiber EXCEPT ![hand[p]] = "live"]
          /\ Goto(p, "run")
       \/ /\ "fail" \in program.calls
          /\ Goto(p, "end")
          /\ UNCHANGED fiber
    /\ UNCHANGED <<state, queued, lastP, executing, waitVars, queueVars, flagVars,
                   sourceVars, countVars, idle, event, hand, stealVars, hostVars>>

-----------------------------------------------------------------------------
(* Runtime calls of the task that worker p is running.  Those that park or *)
(* yield end with vl_fiber_yield, which brings p back to its root context. *)

\* The task of worker p makes call op, which sets its state to st.
Leaves(p, op, st) ==
    /\ wpc[p] = "run" /\ op \in program.calls
    /\ state' = [state EXCEPT ![hand[p]] = st]
    /\ Goto(p, "end")
    /\ UNCHANGED <<queued, fiber, lastP, executing, wakePending, queueVars,
                   flagVars, countVars, idle, event, hand, stealVars, hostVars>>

\* vl_spawn
TaskSpawn(p, t) ==
    /\ wpc[p] = "run" /\ "spawn" \in program.calls
    /\ SpawnTask(t)
    /\ Goto(p, "run_wake")
    /\ UNCHANGED <<hand, stealVars, hostVars>>

\* vl_yield
TaskYield(p) ==
    /\ Leaves(p, "yield", "RUNNABLE")
    /\ UNCHANGED <<waitingForIo, waitingOn, waiters, sourceVars>>

\* vl_join: wait at the back of the target's list; a terminal target makes
\* the call return at once.
TaskJoin(p, t) ==
    /\ t # hand[p] /\ state[t] \notin Terminal \cup {"NEW"}
    /\ Leaves(p, "join", "WAITING")
    /\ waitingOn' = [waitingOn EXCEPT ![hand[p]] = t]
    /\ waiters' = [waiters EXCEPT ![t] = Append(@, hand[p])]
    /\ UNCHANGED <<waitingForIo, sourceVars>>

\* vl_sleep_ns: arm a timer in the heap of this worker.
TaskSleep(p) ==
    /\ Leaves(p, "sleep", "SLEEPING")
    /\ timers' = [timers EXCEPT ![p] = @ \cup {hand[p]}]
    /\ timerCount' = timerCount + 1
    /\ UNCHANGED <<waitingForIo, waitingOn, waiters, ioWaiting>>

\* vl_task_park_for_io, allowed on worker 0 only.
TaskParkForIo(p) ==
    /\ p = 0
    /\ Leaves(p, "io", "WAITING")
    /\ waitingForIo' = [waitingForIo EXCEPT ![hand[p]] = TRUE]
    /\ ioWaiting' = ioWaiting + 1
    /\ UNCHANGED <<waitingOn, waiters, timers, timerCount>>

\* vl_fiber_yield called directly, without telling the scheduler.
TaskFiberYield(p) ==
    /\ Leaves(p, "fiber_yield", state[hand[p]])
    /\ UNCHANGED <<waitingForIo, waitingOn, waiters, sourceVars>>

\* vl_runtime_request_shutdown
TaskRequestShutdown(p) ==
    /\ wpc[p] = "run" /\ "task_request" \in program.calls /\ ~shutdownRequested
    /\ RequestFlags
    /\ Goto(p, "run_wake")
    /\ UNCHANGED <<hand, stealVars, hostVars>>

\* The task's function returns (vl_task_entry).
TaskReturn(p) ==
    /\ wpc[p] = "run"
    /\ fiber' = [fiber EXCEPT ![hand[p]] = "done"]
    /\ Goto(p, "end")
    /\ UNCHANGED <<state, queued, lastP, executing, waitVars, queueVars, flagVars,
                   sourceVars, countVars, idle, event, hand, stealVars, hostVars>>

-----------------------------------------------------------------------------
(* vl_worker_execute, second section: control is back at the root of p     *)

\* The fiber could not be created, or came back without having said why.
EndCancelled(t) ==
    /\ fiber[t] = "none" \/ (fiber[t] = "live" /\ state[t] = "RUNNING")
    /\ state' = [state EXCEPT ![t] = "CANCELLED"]
    /\ fiber' = [fiber EXCEPT ![t] = "none"]
    /\ liveTasks' = Minus(liveTasks, 1)
    /\ UNCHANGED <<queued, waitVars, queueVars>>

\* Mutant: the list of joiners is not emptied.
EndDoneKeepsList(t) ==
    /\ fiber[t] = "done"
    /\ state' = [SetAll(state, ToSet(Wakeable(waiters[t])), "RUNNABLE")
                    EXCEPT ![t] = "DONE"]
    /\ fiber' = [fiber EXCEPT ![t] = "none"]
    /\ Wake(waiters[t])
    /\ liveTasks' = Minus(liveTasks, 1)
    /\ UNCHANGED <<waitingForIo, waitingOn, waiters, local>>

\* Mutant: a finished task is not counted off.
EndDoneUncounted(t) ==
    /\ fiber[t] = "done"
    /\ state' = [SetAll(state, ToSet(Wakeable(waiters[t])), "RUNNABLE")
                    EXCEPT ![t] = "DONE"]
    /\ fiber' = [fiber EXCEPT ![t] = "none"]
    /\ Wake(waiters[t])
    /\ waitingOn' = SetAll(waitingOn, ToSet(waiters[t]), NoTask)
    /\ waiters' = [waiters EXCEPT ![t] = <<>>]
    /\ UNCHANGED <<waitingForIo, local, liveTasks>>

\* The function returned: DONE, and vl_task_complete_locked wakes the joiners.
EndDone(t) ==
    /\ fiber[t] = "done"
    /\ state' = [SetAll(state, ToSet(Wakeable(waiters[t])), "RUNNABLE")
                    EXCEPT ![t] = "DONE"]
    /\ fiber' = [fiber EXCEPT ![t] = "none"]
    /\ Wake(waiters[t])
    /\ waitingOn' = SetAll(waitingOn, ToSet(waiters[t]), NoTask)
    /\ waiters' = [waiters EXCEPT ![t] = <<>>]
    /\ liveTasks' = Minus(liveTasks, 1)
    /\ UNCHANGED <<waitingForIo, local>>

\* Mutant: a yielding task goes to the front of the global queue.
EnqueueLocalFirst(p, t) ==
    /\ queued' = [queued EXCEPT ![t] = TRUE]
    /\ globalQ' = <<t>> \o globalQ
    /\ UNCHANGED local

\* vl_task_enqueue_local_locked: a started task goes to the global queue.
EnqueueLocal(p, t) ==
    LET toGlobal == \/ program.workers = 1 \/ ~Unstarted(t)
                    \/ Len(local[p]) >= LocalCapacity
    IN  IF queued[t]
        THEN UNCHANGED <<queued, globalQ, local>>
        ELSE /\ queued' = [queued EXCEPT ![t] = TRUE]
             /\ IF toGlobal
                THEN globalQ' = Append(globalQ, t) /\ UNCHANGED local
                ELSE /\ local' = [local EXCEPT ![p] = Append(@, t)]
                     /\ UNCHANGED globalQ

\* Mutant: a task woken before it got here becomes RUNNABLE but is not queued.
EndRunnableUnqueued(p, t) ==
    /\ fiber[t] = "live"
    /\ state[t] = "RUNNABLE" \/ (Parked(t) /\ wakePending[t])
    /\ state' = [state EXCEPT ![t] = "RUNNABLE"]
    /\ wakePending' = [wakePending EXCEPT ![t] = IF Parked(t) THEN FALSE ELSE @]
    /\ IF Parked(t) THEN UNCHANGED <<queued, queueVars>> ELSE EnqueueLocal(p, t)
    /\ UNCHANGED <<fiber, waitingForIo, waitingOn, waiters, liveTasks>>

\* It yielded, or it parked and was woken before it got here: queue it.
EndRunnable(p, t) ==
    /\ fiber[t] = "live"
    /\ state[t] = "RUNNABLE" \/ (Parked(t) /\ wakePending[t])
    /\ state' = [state EXCEPT ![t] = "RUNNABLE"]
    /\ wakePending' = [wakePending EXCEPT ![t] = IF Parked(t) THEN FALSE ELSE @]
    /\ EnqueueLocal(p, t)
    /\ UNCHANGED <<fiber, waitingForIo, waitingOn, waiters, liveTasks>>

\* It parked and nobody has woken it yet.
EndParked(t) ==
    /\ fiber[t] = "live" /\ Parked(t) /\ ~wakePending[t]
    /\ UNCHANGED <<state, fiber, waitVars, queued, queueVars, liveTasks>>

ExecuteEnd(p) ==
    /\ wpc[p] = "end"
    /\ LET t == hand[p] IN
       /\ executing' = [executing EXCEPT ![t] = FALSE]
       /\ EndCancelled(t) \/ EndDone(t) \/ EndRunnable(p, t) \/ EndParked(t)
    /\ activeWorkers' = activeWorkers - 1
    /\ StopIfNoneLive
    /\ hand' = [hand EXCEPT ![p] = NoTask]
    /\ Goto(p, "wake")
    /\ UNCHANGED <<lastP, stopWorkers, shutdownRequested, sourceVars, idleWorkers,
                   idle, event, stealVars, hostVars>>

-----------------------------------------------------------------------------
(* vl_worker_idle                                                          *)

\* Mutant: one worker may still be busy.
NothingButOneWorker(idleCount) ==
    /\ idleCount + 1 >= program.workers
    /\ globalQ = <<>> /\ \A p \in Workers : local[p] = <<>>
    /\ liveTasks # 0 /\ timerCount = 0 /\ ioWaiting = 0

\* Mutant: the worker that tests does not count itself.
NothingWithoutSelf(idleCount) ==
    /\ idleCount - 1 = program.workers
    /\ globalQ = <<>> /\ \A p \in Workers : local[p] = <<>>
    /\ liveTasks # 0 /\ timerCount = 0 /\ ioWaiting = 0

\* What the deadlock test sees: idleCount workers idle, nothing queued, tasks
\* alive, no timer and no I/O to wait for.
NothingToWaitFor(idleCount) ==
    /\ idleCount = program.workers
    /\ globalQ = <<>> /\ \A p \in Workers : local[p] = <<>>
    /\ liveTasks # 0 /\ timerCount = 0 /\ ioWaiting = 0

IdleEnter(p) ==
    /\ wpc[p] = "idle"
    /\ LET count == idleWorkers + (IF idle[p] THEN 0 ELSE 1) IN
       \/ /\ ~running
          /\ Goto(p, "loop")
          /\ UNCHANGED <<idle, idleWorkers, running, runStatus>>
       \/ /\ running /\ NothingToWaitFor(count)
          /\ idle' = [idle EXCEPT ![p] = TRUE] /\ idleWorkers' = count
          /\ StopRun("INVALID_STATE")
          /\ Goto(p, "idle_wake")
       \/ /\ running /\ ~NothingToWaitFor(count)
          /\ idle' = [idle EXCEPT ![p] = TRUE] /\ idleWorkers' = count
          /\ Goto(p, "idle_poll")
          /\ UNCHANGED <<running, runStatus>>
    /\ UNCHANGED <<taskVars, queueVars, stopWorkers, shutdownRequested,
                   sourceVars, liveTasks, activeWorkers, event, hand, stealVars,
                   hostVars>>

\* poll() with a timeout (0 without a timer) returns in any case; then drain.
IdlePoll(p) ==
    /\ wpc[p] = "idle_poll"
    /\ event' = [event EXCEPT ![p] = FALSE]
    /\ Goto(p, "idle_leave")
    /\ UNCHANGED <<taskVars, queueVars, flagVars, sourceVars, countVars, idle,
                   hand, stealVars, hostVars>>

\* No longer idle; vl_runtime_run may have reset the count meanwhile.
IdleLeave(p) ==
    /\ wpc[p] = "idle_leave"
    /\ idle' = [idle EXCEPT ![p] = FALSE]
    /\ idleWorkers' = IF idle[p] THEN Minus(idleWorkers, 1) ELSE idleWorkers
    /\ Goto(p, "loop")
    /\ UNCHANGED <<taskVars, queueVars, flagVars, sourceVars, liveTasks,
                   activeWorkers, event, hand, stealVars, hostVars>>

-----------------------------------------------------------------------------

HostStep ==
    \/ \E t \in Tasks : HostSpawn(t)
    \/ HostSpawnWake \/ RunBegin \/ RunWake \/ RunWait \/ RunReturn
    \/ ShutdownBegin \/ ShutdownWake \/ ShutdownFinish

\* What the scheduler does on its own in worker p.
WorkerStep(p) ==
    \/ ThreadPoll(p) \/ ThreadCheck(p) \/ LoopHead(p)
    \/ ExpireTimers(p) \/ PollIo(p) \/ WakeStep(p)
    \/ PopLocal(p) \/ TakeGlobal(p)
    \/ StealOne(p) \/ StealEnd(p) \/ StealKeep(p)
    \/ ExecuteBegin(p) \/ ExecuteCancelled(p) \/ CreateFiber(p) \/ ExecuteEnd(p)
    \/ IdleEnter(p) \/ IdlePoll(p) \/ IdleLeave(p)

\* What the function of the task on worker p does.
TaskStep(p) ==
    \/ \E t \in Tasks : TaskSpawn(p, t) \/ TaskJoin(p, t)
    \/ TaskYield(p) \/ TaskSleep(p) \/ TaskParkForIo(p) \/ TaskFiberYield(p)
    \/ TaskRequestShutdown(p) \/ TaskReturn(p)

\* The runtime is gone: nothing happens any more.
Terminated == hpc = "down" /\ UNCHANGED vars

Next ==
    \/ HostStep \/ RequestShutdown \/ RequestWake
    \/ \E p \in Workers : WorkerStep(p) \/ TaskStep(p)
    \/ Terminated

Spec == Init /\ [][Next]_vars

\* Every thread keeps running, and a call into the runtime, once begun, goes
\* on; a task's function eventually makes a call or returns.  Whether the host
\* starts a run, and when timers and I/O complete, is left open.
Fairness ==
    /\ \A p \in Workers : WF_vars(WorkerStep(p)) /\ WF_vars(TaskStep(p))
    /\ WF_vars(HostSpawnWake \/ RunWake \/ RunWait \/ RunReturn)
    /\ WF_vars(ShutdownWake \/ ShutdownFinish)
    /\ WF_vars(RequestWake)
FairSpec == Spec /\ Fairness

-----------------------------------------------------------------------------
(* Properties                                                              *)

Live(t) == state[t] \notin Terminal \cup {"NEW"}

Occurs(q, t) == Cardinality({i \in DOMAIN q : q[i] = t})
Places(t) ==
    Occurs(globalQ, t) + MapThenSumSet(LAMBDA p : Occurs(local[p], t) +
                                                 Occurs(batch[p], t), Workers)

\* "queued is an atomic single-membership guard" (scheduler.md): a task is
\* flagged exactly while it is in one queue, or on its way between two in
\* the batch of one thief; it is never in two.
SingleMembership == \A t \in Tasks : Places(t) = IF queued[t] THEN 1 ELSE 0

\* A RUNNABLE task can be found again: it is queued, in the hand of a worker
\* about to execute it, or still on the stack of one that will queue it.
\* vl_worker_execute drops a task when the run is over; only a shutdown, which
\* cancels the task later, ends a run while a RUNNABLE task is in a hand.
NoTaskLost ==
    \A t \in Tasks :
        state[t] = "RUNNABLE" /\ ~executing[t] /\ Places(t) = 0 =>
            \/ \E p \in Workers : hand[p] = t /\ wpc[p] = "exec"
            \/ shutdownRequested \/ stopWorkers

\* No lost wakeup: a parked task is still registered with what will wake it
\* (a joiner list of a live task, the timer heap of its worker, the I/O
\* driver), or the wake has come and is remembered in wake_pending until the
\* worker leaves the task's stack.
ParkedHasWaker ==
    \A t \in Tasks : Parked(t) =>
        \/ wakePending[t] /\ executing[t]
        \/ waitingForIo[t]
        \/ state[t] = "SLEEPING" /\ t \in timers[lastP[t]]
        \/ /\ waitingOn[t] # NoTask
           /\ Occurs(waiters[waitingOn[t]], t) = 1 /\ Live(waitingOn[t])

\* No spurious wakeup: whatever can still wake a task finds it parked for that
\* very reason (or cancelled), never running or waiting for something else.
NoStaleWaker ==
    \A t \in Tasks :
        /\ \A u \in Tasks : t \in ToSet(waiters[u]) =>
              waitingOn[t] = u /\ state[t] \in {"WAITING", "CANCELLED"}
        /\ \A p \in Workers : t \in timers[p] =>
              lastP[t] = p /\ state[t] \in {"SLEEPING", "CANCELLED"}
        /\ waitingForIo[t] => state[t] = "WAITING" /\ lastP[t] = 0
        /\ wakePending[t] => executing[t] \/ ~Live(t)

\* The counters that end a run and detect deadlock agree with the tasks.
\* idle_workers may be low (vl_runtime_run resets it) but is never high, and it
\* never wraps below zero, whichever worker still thinks it is counted.
Accounting ==
    /\ liveTasks = Cardinality({t \in Tasks : Live(t)})
    /\ activeWorkers = Cardinality({t \in Tasks : executing[t]})
    /\ ioWaiting = Cardinality({t \in Tasks : waitingForIo[t]})
    /\ timerCount = MapThenSumSet(LAMBDA p : Cardinality(timers[p]), Workers)
    /\ idleWorkers >= 0 /\ idleWorkers <= Cardinality({p \in Workers : idle[p]})

\* Fibers execute only inside vl_runtime_run: when it returns, and while
\* vl_runtime_shutdown cancels and frees the tasks, every fiber has gone back
\* to its root (scheduler.md, "waits for executing Fibers to return").  After
\* shutdown no fiber is left and no task is live.
Quiescent ==
    /\ hpc \notin {"starting", "worker"} => \A t \in Tasks : ~executing[t]
    /\ hpc = "down" => \A t \in Tasks : ~Live(t) /\ fiber[t] = "none"

\* "Deadlock is reported only when ... Tasks remain, and there is no I/O or
\* timer wake source": vl_runtime_run is stopped with VL_ERROR_INVALID_STATE
\* only when every live task waits in a joiner list, so that none could ever
\* be woken.
DeadlockSound ==
    [][running /\ ~running' /\ runStatus' = "INVALID_STATE" =>
          \A t \in Tasks : Live(t) => /\ state[t] = "WAITING" /\ ~executing[t]
                                      /\ ~waitingForIo[t]]_vars

\* A RUNNABLE task is eventually executed while the run goes on, even if the
\* other tasks yield for ever.
RunnableRuns ==
    \A t \in Tasks : state[t] = "RUNNABLE" /\ running
                       ~> state[t] # "RUNNABLE" \/ ~running

\* A run that can make no progress ends: if all live tasks wait for each other,
\* vl_runtime_run reports it instead of polling for ever.
DeadlockReported ==
    (running /\ \A t \in Tasks : Live(t) => waitingOn[t] # NoTask) ~> ~running

\* vl_runtime_request_shutdown, from any thread and at any moment, makes the
\* run return with every task terminal.
ShutdownEnds ==
    (shutdownRequested /\ hpc \in {"starting", "worker", "ended"})
        ~> (hpc = "out" /\ \A t \in Tasks : ~Live(t))

\* The scheduler implements the task lifecycle.
Lifecycle == INSTANCE TaskLifecycle WITH
    runner <- [t \in Tasks |-> IF executing[t] THEN lastP[t] ELSE NoWorker],
    home <- [t \in Tasks |-> IF fiber[t] = "none" THEN NoWorker ELSE lastP[t]]
LifecycleSpec == Lifecycle!Spec
=============================================================================
