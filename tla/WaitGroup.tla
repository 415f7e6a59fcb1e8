------------------------------ MODULE WaitGroup ------------------------------
(***************************************************************************)
(* The wait group: src/sync/wait_group.c.  Tasks wait until the count is   *)
(* zero; tasks and the host add.  An action is one section under the       *)
(* runtime mutex.                                                          *)
(***************************************************************************)
EXTENDS TaskPark

Deltas == (-(PtrdiffMax + 1))..PtrdiffMax

VARIABLES
    count, groupWaiters,    \* vl_wait_group_impl_t
    groupAlive,             \* group->impl is not NULL
    total,                  \* the exact sum of the accepted adds
    zeroSeen                \* the count has been 0 since the task called wait

groupVars == <<count, groupWaiters, groupAlive, total, zeroSeen>>

GroupInit ==
    /\ count = 0 /\ groupWaiters = <<>> /\ groupAlive = TRUE /\ total = 0
    /\ zeroSeen = [t \in Tasks |-> FALSE]

\* The size of a negative delta: (size_t)(-(delta + 1)) + 1, where no part
\* leaves its type.
Magnitude(d) == (-(d + 1)) + 1

Rejects(d) ==
    \/ d < 0 /\ Magnitude(d) > count
    \/ d > 0 /\ d > SizeMax - count
    \/ d > 0 /\ Len(groupWaiters) # 0

Sum(d) == (IF d < 0 THEN count - Magnitude(d) ELSE count + d) % (SizeMax + 1)

\* vl_wait_group_add; vl_wait_group_done adds -1.
Add(d) ==
    /\ groupAlive /\ ~Rejects(d)
    /\ count' = Sum(d)
    /\ IF count' = 0
       THEN Wake(Elems(groupWaiters), "OK") /\ groupWaiters' = <<>>
       ELSE UNCHANGED <<taskVars, groupWaiters>>
    /\ total' = total + d
    /\ zeroSeen' = [t \in Tasks |-> zeroSeen[t] \/ count' = 0]
    /\ UNCHANGED groupAlive

\* A wait that finds 0 returns at once and changes nothing.
GroupPark(t) ==
    /\ Running(t) /\ groupAlive /\ count # 0
    /\ Park(t, "group_wait")
    /\ groupWaiters' = Append(groupWaiters, t)
    /\ zeroSeen' = [zeroSeen EXCEPT ![t] = FALSE]
    /\ UNCHANGED <<count, groupAlive, total>>

GroupDestroy ==
    /\ groupAlive /\ count = 0 /\ Len(groupWaiters) = 0
    /\ groupAlive' = FALSE
    /\ UNCHANGED <<taskVars, count, groupWaiters, total, zeroSeen>>

GroupStep ==
    \/ GroupDestroy
    \/ \E d \in Deltas : Add(d)
    \/ \E t \in Tasks : GroupPark(t)

-----------------------------------------------------------------------------
(* Properties                                                              *)

\* The count is a size_t; the wait queue links each task once.
GroupOK ==
    /\ count \in 0..SizeMax /\ groupAlive \in BOOLEAN /\ total \in Int
    /\ zeroSeen \in [Tasks -> BOOLEAN]
    /\ WaitQueue(groupWaiters)

\* "A zero transition wakes all waiters" (synchronization.md): nobody waits for
\* a count that is zero or for a destroyed group.
NoForgottenWaiter ==
    /\ count = 0 => groupWaiters = <<>>
    /\ QueueOf("group_wait", groupWaiters)
    /\ groupWaiters # <<>> => groupAlive

\* "Negative updates cannot underflow": the count is the exact sum of the
\* accepted deltas, at both ends of both integer types; and a wait returns only
\* after that sum has been zero since the call (it may have grown again).
ZeroExact ==
    /\ count = total
    /\ \A t \in Tasks : call[t] = "group_wait" /\ Woken(t) => zeroSeen[t]
=============================================================================
