# A TLA+ verification of the Veloco runtime

Veloco is a C runtime: stackful fibers scheduled by several worker threads,
timers, task-level synchronisation, epoll and io_uring I/O, an allocator and a
small HTTP server. This directory models its concurrent core in TLA+, checks
small instances with TLC and proves the lock-free run queue with TLAPS for
every size.

## The system

| Part | Source | State | Operations | Talks to |
| --- | --- | --- | --- | --- |
| Run queue | `runtime/run_queue.c` | `top`, `bottom`, slots | owner push and pop, steal, steal batch | workers |
| Runtime | `runtime/scheduler.c` | flags, global queue, counters, eventfds | init, run, request shutdown, shutdown, wake workers | workers, tasks |
| Tasks | `runtime/task.c`, `runtime/context.c` | state, `queued`, `executing`, `wake_pending`, waiters | spawn, yield, join, park, complete | runtime, I/O |
| Workers | `runtime/worker.c` | idle flag, current task | pull, steal, execute, idle, thread loop | all |
| Timers | `time/timer.c`, `time/timer_heap.c` | one heap per worker, handles | arm, cancel, expire, destroy, timeout | workers, tasks |
| Synchronisation | `sync/*` | wait queues, owner, permits, count, buffer | lock, wait, post, add, send, receive, close, destroy | tasks |
| Fibers | `fiber/*` | context, stack, scheduler | create, resume, yield, destroy | workers |
| Sockets, I/O | `net/*` | slots and claims, waiters, completions, commands | track, claim, submit, cancel, poll, close | tasks, workers |
| Allocator | `memory/*` | caches, spans, pages, arenas, pools | malloc, free, refill, drain, reclaim | all |
| HTTP | `http/*` | parser state, routes, connection count | feed, respond, accept, serve | I/O, tasks |

## Modules

| Module | Models | Checked by |
| --- | --- | --- |
| `RunQueue` | every atomic access of the Chase-Lev deque | `MCRunQueue`, `RunQueueProofs` |
| `WorkDeque` | the atomic deque it promises | refinement `DequeSpec` |
| `Scheduler` | runtime, tasks and workers together | `MCScheduler` (five configurations) |
| `TaskLifecycle` | the documented task state machine | refinement `LifecycleSpec` |
| `Timer` | handles, sleeping tasks, expiry and cancellation on several workers | `MCTimer` |
| `TimerHeap`, `TimerQueue` | the array heap, and the priority queue it promises | `MCTimer`, `QueueStep` |
| `TaskPark`, `TaskMutex`, `Semaphore`, `WaitGroup`, `Channel`, `Sync` | parking, the four primitives, and their composition | `MCSync` |
| `FifoLock`, `FifoChannel` | what mutex and channel promise | `LockSpec`, `FifoSpec` |
| `SocketSlots`, `EpollIo` | the descriptor registry, and requests on epoll handles over it | `MCEpollIo` (two configurations) |

`MC*` modules only give the constants their values. The abstract modules
(`WorkDeque`, `TaskLifecycle`, `TimerQueue`, `FifoLock`, `FifoChannel`) describe
promises and correspond to no code. Operators whose comment begins with
"Mutant" are deliberately wrong versions of the operator after them; they show
that each property depends on the code it is about.

### How the state corresponds

* **RunQueue.** `top`, `bottom`, `slots` are the fields of `vl_run_queue_t`. The
  owner has a program counter with the locals of push and pop, each thief one
  with the locals of steal; every atomic load, store and compare-exchange is an
  action. `hands` records who holds a task that is not queued. `Return` sends a
  stolen task back to the owner, so that one pointer passes through the same
  slot many times. The model is sequentially consistent; the C11 orders
  (acquire and release, with a `seq_cst` fence in pop and in steal) are assumed
  to give that for this algorithm.
* **Scheduler.** `state`, `queued`, `executing`, `fiber`, `lastP`,
  `wakePending`, `waiters` are fields of `vl_task_t`; `globalQ`, `local`, the
  counters and flags are fields of `vl_runtime_impl_t` and `vl_p_t`. Sections
  under the runtime mutex are single actions; unlocked reads, eventfd writes and
  the gap between two sections are separate. The local deques are atomic here,
  which `ImplementsWorkDeque` justifies. `program` is the instance: how many
  workers and tasks, and which calls the tasks make. The eventfd writes of one
  `vl_runtime_wake_workers` are one action.
* **Timer.** A handle has `task`, `p` and a node in the heap of a worker; arming
  ends with two unlocked writes (`ClearTask`, `ClearP`) after the task resumes.
  `Sharing` says whether several tasks may use one handle. Only the armer
  destroys a handle. The clock stops at `MaxNow`, which stands for `UINT64_MAX`
  in the overflow test.
* **TimerHeap.** `items`, `capacity`, `heap_index` and `active` as in the code;
  sifting is recursive. Each operation is applied once to *every* legal heap of
  up to six nodes, so that one step shows what an induction over call sequences
  needs: legal before, legal after, and a step of `TimerQueue`.
* **Sync.** `TaskPark` has the part of the scheduler the primitives use (a task
  runs, parks, is woken while still on its stack, resumes, is cancelled). Each
  primitive adds its object; `Sync` composes them and picks which objects a
  program uses. Calls that return an error and change nothing are not actions.
  Counts have the width `Width` of `size_t`.
* **EpollIo.** A handle belongs to one thread with a program counter; every
  registry lock and every system call is a step. `file` is the kernel's table of
  descriptors, and sockets are numbered, so that two sockets that use the same
  number in turn can be told apart. Other threads open, track and close sockets
  at any time. A descriptor duplicated with `dup` is outside the model (its
  close would leave the epoll registration).

## What is checked

| Run | Instance | Result |
| --- | --- | --- |
| `runqueue` | 2 slots, 3 tasks, 2 thieves, indices to 5 | 136k states. Exactly-once, no stale steal, refinement of the atomic deque |
| `scheduler` | five programs, up to 3 workers and 4 tasks, local queues of 1, batch 3 | 312k states. One place per task, a waker for every parked task, exact counters, quiescence before cancellation, no false deadlock report, task state machine |
| `scheduler_live` | two programs, up to 2 workers and 2 tasks | 72k states. Runnable tasks run, deadlock is reported (one worker), shutdown ends the run |
| `timer` | 2 tasks, 2 workers, 2 handles, clock to 4; heaps to 6 nodes | 113k states. One truthful wake per sleep, correct timeout, legal heaps |
| `sync` | 3 tasks, `size_t` of 2 bits, capacities 0 and 2, 3 sends | 74k states. No lost wakeup, permit or value; FIFO; calls return |
| `epoll` | 2 handles, 2 requests, 2 descriptor numbers, 3 sockets, generations to 3 | 555k states. One claim per descriptor, one completion per request, results from the right socket, no leaked socket |
| `epoll_live` | 1 handle, 2 sockets | 90k states. Requests on closed sockets complete |
| `scheduler_respawn` | 2 workers, host spawns between runs | `NoTaskLost` violated |
| `scheduler_joiners` | a fiber cannot be created | `ParkedHasWaker` violated |
| `scheduler_starve` | 2 workers, 3 yielding tasks | `RunnableRuns` violated |
| `timer_shared` | two tasks arm one handle | `SleeperHasTimer` violated |

**Bounds.** Two slots with indices to five wrap twice; three tasks are one more
than the slots, so that full, empty and one-item states all occur. A local queue
of one makes every pull and steal overflow (with the code's 1024 slots and
batches of 8 that needs many tasks). Two workers show every race between two
sections, the third shows stealing along a ring of victims. A heap of six nodes
has three levels and a removal that must sift up. Two descriptor numbers and
three sockets allow a listener, an accepted socket and a reuse of the
listener's number; generations to 3 (odd, like `UINT64_MAX`) saturate. In
`timer`, `sync`, `epoll` and `epoll_live` a program may simply stop, hence no
deadlock check; in the others a state without a step is an error.

**Fairness.** Scheduler: every thread keeps running, and a task's function
eventually makes a call or returns; nothing is assumed of the host, of timers or
of I/O. Timer: the clock advances, workers run. Sync: runnable tasks are resumed;
the holder of a mutex eventually unlocks it if it may run (strong, because it
may yield in between). EpollIo: calls proceed and a handle is polled again and
again, as the worker loop does before each task; the polls return, as those of
the runtime do (timeout 0). A caller that blocks in `vl_io_poll` without a
timeout while another thread closes the socket is not covered.

### What the violated runs show

1. **A task spawned between two runs can be lost** (`worker.c:136`). When a run
   ends, a worker may still be in its loop. It takes the task that the host has
   just spawned, finds `running` at 0 and returns from `vl_worker_execute`
   without queueing it again.
2. **Joiners of a task that could not start are never woken**
   (`worker.c:188`). A failed `vl_fiber_create` cancels the task without
   walking its waiters.
3. **A runnable task may starve with two workers** (`worker.c:29-42`). Searching
   the global queue moves the tasks pinned elsewhere to its tail, so the queue is
   not FIFO for the tasks of one worker.
4. **A timer handle used by two tasks in turn** (`timer.c:94-95`): the late
   unlocked clear of the first erases the registration of the second.

Two observations without a run: with several workers the deadlock report needs
idle windows that overlap, which nothing guarantees, so `DeadlockReported` is
checked with one worker; and a worker whose heap is empty polls with timeout 0
(`timer.c:199`), so an idle runtime spins.

## What is proved

`RunQueueProofs` proves for every capacity of at least two, every set of tasks,
any number of thieves and any batch size:

* `InvariantHolds`, `TypeCorrect`: the inductive invariant and the types;
* `ExactlyOnce`: `NoDuplicate` and `NoLoss`;
* `IndicesBounded`: a push never overwrites a live slot;
* `StealsAreFresh`: a compare-exchange that succeeds takes the item that is at
  the top at that moment;
* `ImplementsWorkDeque`: every step is a step of `WorkDeque` or a stutter.

Assumptions: those named in `RunQueue` (capacity at least 2, the owner is no
thief, the null item is no task). `ExactlyOnce` is not inductive. A thief
between its read and its compare-exchange holds an old `top` and perhaps an old
item, and an owner in the middle of a pop has lowered `bottom` below what the
queue contains. `IInv` adds what their program counters imply: `OwnerShape`
relates the owner's locals to `top` and `bottom` at each place of push and pop;
`ThiefShape` says that a thief's `top` is not ahead of the queue and that, if
`top` has not moved, its item is the one in the slot (a push can reach that slot
again only after `top` has moved); `Custody` says that each task is in one live
slot or in one hand. Each action then keeps, adds or removes one live slot
(`CustodySame`, `CustodyGive`, `CustodyTake`). The refinement maps the live slots
to a sequence and shows its change at each action.

Only model-checked: everything else. Liveness is outside the prover, and so is
what the recursive heap operations compute for every heap.

## What is not modelled, and the plan

1. io_uring worker (`io_worker.c`, `uring_backend.c`): command queue, operation
   lifetime between poll and a queued cancel, claim released before the
   completion is queued, a failed wakeup write, worker failure. Same registry
   (`SocketSlots`) and the same promises as `EpollIo`: claims, one completion,
   no leak. One run.
2. Allocator (`valloc.c`, `span.c`, `size_class.c`, `page_heap.c`): caches, spans
   and counts, remote frees, refill that fails half-way; conservation of objects
   and agreement of counts with lists. Arena and object pool after it. One run,
   shared with the HTTP server.
3. HTTP: the parser fed in segments (same result for every segmentation), the
   connection limit and shutdown of the server. Responses and routing are pure
   functions over text.
4. Proofs: the claim and completion invariants of `EpollIo`; hand-off and permit
   conservation of `Sync` (`LockSpec`, `Conservation`); single wake of `Timer`;
   `SingleMembership` and `Quiescent` of `Scheduler`.

Left out for good: the assembly context switch, stacks, guard pages and the fault
handler of `fiber/` (no protocol state; the scheduler models create, resume,
yield and finish), the debug allocator (a counting wrapper), initialisation
failures of the runtime, statistics, and the order of weak memory accesses.
