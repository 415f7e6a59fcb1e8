------------------------------ MODULE TaskMutex ------------------------------
(***************************************************************************)
(* The task mutex: src/sync/task_mutex.c.  An action is one section under  *)
(* the runtime mutex.  A call that returns VL_ERROR_INVALID_STATE changes  *)
(* nothing and is not an action.                                           *)
(***************************************************************************)
EXTENDS TaskPark

VARIABLES
    owner, mutexWaiters,     \* vl_task_mutex_impl_t
    mutexAlive,              \* mutex->impl is not NULL
    inside              \* the tasks whose lock call has returned VL_OK

mutexVars == <<owner, mutexWaiters, mutexAlive, inside>>

MutexInit ==
    owner = None /\ mutexWaiters = <<>> /\ mutexAlive = TRUE /\ inside = {}

LockFree(t) ==
    /\ Running(t) /\ mutexAlive /\ owner = None
    /\ owner' = t /\ inside' = inside \cup {t}
    /\ UNCHANGED <<taskVars, mutexWaiters, mutexAlive>>

\* Mutant: a waiter is put in front.
LockWaitFront(t) ==
    /\ Running(t) /\ mutexAlive /\ owner \notin {None, t}
    /\ Park(t, "lock")
    /\ mutexWaiters' = <<t>> \o mutexWaiters
    /\ UNCHANGED <<owner, mutexAlive, inside>>

LockWait(t) ==
    /\ Running(t) /\ mutexAlive /\ owner \notin {None, t}
    /\ Park(t, "lock")
    /\ mutexWaiters' = Append(mutexWaiters, t)
    /\ UNCHANGED <<owner, mutexAlive, inside>>

\* Mutant: the mutex is free until the woken task runs.
UnlockNext(t) ==
    /\ Running(t) /\ mutexAlive /\ owner = t /\ mutexWaiters # <<>>
    /\ owner' = None /\ mutexWaiters' = Tail(mutexWaiters)
    /\ Wake({Head(mutexWaiters)}, "OK")
    /\ inside' = inside \ {t}
    /\ UNCHANGED mutexAlive

\* vl_task_mutex_unlock hands the mutex to the oldest waiter ...
UnlockHandOver(t) ==
    /\ Running(t) /\ mutexAlive /\ owner = t /\ mutexWaiters # <<>>
    /\ owner' = Head(mutexWaiters) /\ mutexWaiters' = Tail(mutexWaiters)
    /\ Wake({Head(mutexWaiters)}, "OK")
    /\ inside' = inside \ {t}
    /\ UNCHANGED mutexAlive

\* ... if there is one.
UnlockFree(t) ==
    /\ Running(t) /\ mutexAlive /\ owner = t /\ mutexWaiters = <<>>
    /\ owner' = None /\ inside' = inside \ {t}
    /\ UNCHANGED <<taskVars, mutexWaiters, mutexAlive>>

MutexDestroy ==
    /\ mutexAlive /\ owner = None /\ Len(mutexWaiters) = 0
    /\ mutexAlive' = FALSE
    /\ UNCHANGED <<taskVars, owner, mutexWaiters, inside>>

Unlock(t) == UnlockHandOver(t) \/ UnlockFree(t)
MutexStep ==
    MutexDestroy \/ \E t \in Tasks : LockFree(t) \/ LockWait(t) \/ Unlock(t)

\* What the resume of t changes: a lock call that had parked returns.
LockReturns(t) ==
    /\ inside' = IF call[t] = "lock" /\ waitResult[t] = "OK"
                 THEN inside \cup {t} ELSE inside
    /\ UNCHANGED <<owner, mutexWaiters, mutexAlive>>

-----------------------------------------------------------------------------
(* Properties                                                              *)

\* The owner is a task; the wait queue links each task once, and never the
\* owner.
MutexOK ==
    /\ owner \in Tasks \cup {None} /\ mutexAlive \in BOOLEAN /\ inside \subseteq Tasks
    /\ WaitQueue(mutexWaiters) /\ owner \notin Elems(mutexWaiters)

\* No hand-over is lost: an owner that has not returned from its lock call has
\* been woken, and nobody waits for a mutex that is free or destroyed (unless a
\* shutdown has cancelled the tasks).
HandOver ==
    /\ owner \in Tasks => owner \in inside \/ Woken(owner) \/ Dead(owner)
    /\ QueueOf("lock", mutexWaiters)
    /\ mutexWaiters # <<>> => owner # None /\ mutexAlive

\* Who has asked for the mutex and not released it: the owner, then the waiters.
LockQueue == IF owner = None THEN <<>> ELSE <<owner>> \o mutexWaiters

\* "transfer ownership to the oldest waiter" (synchronization.md): the mutex is
\* a lock that one task holds at a time, granted in the order of the calls.
Lock == INSTANCE FifoLock WITH queue <- LockQueue
LockSpec == Lock!Spec
=============================================================================
