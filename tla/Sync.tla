-------------------------------- MODULE Sync --------------------------------
(***************************************************************************)
(* Tasks that use the synchronization primitives: src/sync.  A program     *)
(* uses one object of some of the four kinds, together: a task may take a  *)
(* permit while it owns the mutex, and is parked in one queue at a time.   *)
(***************************************************************************)
EXTENDS TaskMutex, Semaphore, WaitGroup, Channel

CONSTANT Programs   \* the kinds of objects that a program may use together

Kinds == {"mutex", "semaphore", "group", "channel"}
ASSUME ProgramsAssumption == Programs \subseteq SUBSET Kinds

VARIABLE uses       \* what this program uses

vars == <<taskVars, mutexVars, semVars, groupVars, chanVars, uses>>

\* An object that the program does not use has the least of its parameters.
Init ==
    /\ uses \in Programs
    /\ TaskInit /\ MutexInit /\ SemInit /\ GroupInit /\ ChannelInit
    /\ "semaphore" \notin uses => \A n \in Permits : permits <= n
    /\ "channel" \notin uses => \A n \in Capacities : capacity <= n

Mutex ==
    "mutex" \in uses /\ MutexStep /\ UNCHANGED <<semVars, groupVars, chanVars, uses>>
Sem ==
    "semaphore" \in uses /\ SemStep /\ UNCHANGED <<mutexVars, groupVars, chanVars, uses>>
Group ==
    "group" \in uses /\ GroupStep /\ UNCHANGED <<mutexVars, semVars, chanVars, uses>>
Chan ==
    "channel" \in uses /\ ChannelStep /\ UNCHANGED <<mutexVars, semVars, groupVars, uses>>

Resume(t) ==
    /\ ResumeTask(t)
    /\ LockReturns(t) /\ SemReturns(t) /\ ChannelReturns(t)
    /\ UNCHANGED <<groupVars, uses>>

objects == <<mutexVars, semVars, groupVars, chanVars, uses>>
Yield(t) == YieldTask(t) /\ UNCHANGED objects
Leave(t) == LeaveTask(t) /\ UNCHANGED objects
Cancel == CancelTasks /\ UNCHANGED objects

Next ==
    \/ Mutex \/ Sem \/ Group \/ Chan \/ Cancel
    \/ \E t \in Tasks : Resume(t) \/ Yield(t) \/ Leave(t)

Spec == Init /\ [][Next]_vars

Release(t) == Unlock(t) /\ UNCHANGED <<semVars, groupVars, chanVars, uses>>

\* Workers run what is runnable.  A task that holds the mutex releases it, if
\* it may run at all, however often it yields before.
Fairness == \A t \in Tasks : WF_vars(Resume(t) \/ Leave(t)) /\ SF_vars(Release(t))
FairSpec == Spec /\ Fairness

-----------------------------------------------------------------------------
(* Properties                                                              *)

\* Every field has a value of its type, a count never leaves size_t, a buffer
\* is never overrun, and a wait queue links each task once.
TypeOK == TasksOK /\ MutexOK /\ SemOK /\ GroupOK /\ ChannelOK

\* No wakeup is lost: a task waits only in the queue of the object it called,
\* only while that object cannot serve it, and whoever has been served has been
\* woken, even if the wake came while its worker was still on its stack.
NoLostWakeup == HandOver /\ NoIdlePermit /\ NoForgottenWaiter /\ WaitersNeeded

\* The counts of the semaphore and of the wait group are exact: see Conservation
\* and ZeroExact.
CountsExact == Conservation /\ ZeroExact

Queued(t) ==
    t \in Elems(mutexWaiters) \cup Elems(semWaiters) \cup Elems(groupWaiters)
            \cup Elems(senders) \cup Elems(receivers)

\* A call that has been served returns, and a lock call is served if those who
\* hold the mutex do not block on something else; only a shutdown ends a task
\* inside a call.
CallsReturn ==
    \A t \in Tasks : call[t] # "none" /\ (~Queued(t) \/ uses = {"mutex"})
                       ~> call[t] = "none" \/ Dead(t)
=============================================================================
