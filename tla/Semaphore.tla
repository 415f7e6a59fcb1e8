------------------------------ MODULE Semaphore ------------------------------
(***************************************************************************)
(* The counting semaphore: src/sync/semaphore.c.  Tasks wait; tasks and    *)
(* the host post.  An action is one section under the runtime mutex.       *)
(***************************************************************************)
EXTENDS TaskPark

CONSTANT Permits    \* what vl_semaphore_init may be given

ASSUME PermitsAssumption == Permits \subseteq 0..SizeMax

VARIABLES
    permits, semWaiters,    \* vl_semaphore_impl_t
    semAlive,               \* semaphore->impl is not NULL
    credit                  \* the initial permits and the posts that returned
                            \* VL_OK, less the waits that returned VL_OK

semVars == <<permits, semWaiters, semAlive, credit>>

SemInit ==
    /\ permits \in Permits /\ credit = permits
    /\ semWaiters = <<>> /\ semAlive = TRUE

SemTake(t) ==
    /\ Running(t) /\ semAlive /\ permits # 0
    /\ permits' = permits - 1 /\ credit' = credit - 1
    /\ UNCHANGED <<taskVars, semWaiters, semAlive>>

SemPark(t) ==
    /\ Running(t) /\ semAlive /\ permits = 0
    /\ Park(t, "sem_wait")
    /\ semWaiters' = Append(semWaiters, t)
    /\ UNCHANGED <<permits, semAlive, credit>>

\* Mutant: the permit is counted as well as handed over.
PostBoth ==
    /\ semAlive /\ semWaiters # <<>>
    /\ semWaiters' = Tail(semWaiters)
    /\ Wake({Head(semWaiters)}, "OK")
    /\ permits' = permits + 1 /\ credit' = credit + 1
    /\ UNCHANGED semAlive

\* vl_semaphore_post gives the permit to the oldest waiter ...
PostWake ==
    /\ semAlive /\ semWaiters # <<>>
    /\ semWaiters' = Tail(semWaiters)
    /\ Wake({Head(semWaiters)}, "OK")
    /\ credit' = credit + 1
    /\ UNCHANGED <<permits, semAlive>>

\* ... or counts it; at SIZE_MAX it is refused.
PostCount ==
    /\ semAlive /\ semWaiters = <<>> /\ permits # SizeMax
    /\ permits' = permits + 1 /\ credit' = credit + 1
    /\ UNCHANGED <<taskVars, semWaiters, semAlive>>

SemDestroy ==
    /\ semAlive /\ Len(semWaiters) = 0
    /\ semAlive' = FALSE
    /\ UNCHANGED <<taskVars, permits, semWaiters, credit>>

SemStep ==
    PostWake \/ PostCount \/ SemDestroy \/ \E t \in Tasks : SemTake(t) \/ SemPark(t)

\* What the resume of t changes: a wait that had parked returns.
SemReturns(t) ==
    /\ credit' = IF call[t] = "sem_wait" /\ waitResult[t] = "OK"
                 THEN credit - 1 ELSE credit
    /\ UNCHANGED <<permits, semWaiters, semAlive>>

-----------------------------------------------------------------------------
(* Properties                                                              *)

\* The count is a size_t; the wait queue links each task once.
SemOK ==
    /\ permits \in 0..SizeMax /\ semAlive \in BOOLEAN /\ credit \in Int
    /\ WaitQueue(semWaiters)

\* Permits are neither made nor lost: those in the semaphore and those given to
\* a task that has not returned yet (a shutdown may have cancelled it) are the
\* initial ones and the posted ones that no wait has returned with.
Conservation ==
    credit = permits + Cardinality({t \in Tasks : call[t] = "sem_wait" /\
                                                   t \notin Elems(semWaiters)})

\* "post wakes the oldest waiter before increasing the permit count"
\* (synchronization.md): no task waits while there is a permit, and nobody
\* waits for a destroyed semaphore.
NoIdlePermit ==
    /\ permits # 0 => semWaiters = <<>>
    /\ QueueOf("sem_wait", semWaiters)
    /\ semWaiters # <<>> => semAlive
=============================================================================
