----------------------------- MODULE SyncProofs ------------------------------
(***************************************************************************)
(* Proofs about the synchronization primitives: no wakeup is lost, counts  *)
(* are exact, what a channel operation returns is true, the mutex is a     *)
(* first-in first-out lock and the channel a first-in first-out queue, for *)
(* any finite set of tasks, any widths, permits, capacities and number of  *)
(* sends, and any combination of the four kinds of objects.                *)
(***************************************************************************)
EXTENDS ChannelProofs

-----------------------------------------------------------------------------
(* The mutex                                                               *)

\* vl_task_mutex_lock takes a free mutex.
LEMMA LockFreeKeeps ==
    ASSUME IInv, NEW t \in Tasks, LockFree(t)
    PROVE  MutexInv'
<1>1. /\ owner = None /\ owner' = t /\ inside' = inside \cup {t}
      /\ mutexWaiters' = mutexWaiters /\ mutexAlive' = mutexAlive
      /\ call' = call /\ call[t] = "none"
  BY Zenon DEF LockFree, Running, taskVars, IInv, TaskInv, TaskOK
<1>2. mutexWaiters = <<>> /\ inside = {}
  BY Zenon, <1>1, NoneAssumption DEF IInv, MutexInv, MutexOK
<1>3. MutexOK'
  BY Zenon, <1>1, <1>2, EmptyQueue DEF IInv, MutexInv, MutexOK
<1>4. ASSUME NEW u \in Tasks, call[u] = "lock" PROVE u \in Elems(mutexWaiters)
  BY Zenon, <1>1, <1>4, NoneAssumption DEF IInv, MutexInv
<1> QED
  BY Zenon, <1>1, <1>2, <1>3, <1>4 DEF MutexInv

\* vl_task_mutex_lock parks behind the owner.
LEMMA LockWaitKeeps ==
    ASSUME IInv, NEW t \in Tasks, LockWait(t)
    PROVE  MutexInv'
<1>1. /\ owner \notin {None, t} /\ mutexWaiters' = Append(mutexWaiters, t)
      /\ UNCHANGED <<owner, mutexAlive, inside>> /\ mutexAlive
      /\ Park(t, "lock")
  BY Zenon DEF LockWait
<1>2. TaskInv /\ QueueOf("lock", mutexWaiters) /\ WaitQueue(mutexWaiters)
      /\ "lock" \in Calls \ {"none"}
  BY Zenon, QueueTypes DEF IInv, Queues, Calls
<1>3. /\ t \notin Elems(mutexWaiters) /\ call[t] = "none" /\ call'[t] = "lock"
      /\ \A u \in Tasks \ {t} : call'[u] = call[u]
  BY Zenon, <1>1, <1>2, ParkTask, ParkQueue
<1>4. /\ Elems(mutexWaiters') = Elems(mutexWaiters) \cup {t}
      /\ WaitQueue(mutexWaiters')
  BY Zenon, <1>1, <1>2, <1>3, JoinQueue
<1>5. MutexOK'
  BY Zenon, <1>1, <1>4 DEF IInv, MutexInv, MutexOK
<1> QED
  BY Zenon, <1>1, <1>3, <1>4, <1>5 DEF IInv, MutexInv, MutexOK

\* vl_task_mutex_unlock hands the mutex over to a task whose lock call has not
\* returned.
LEMMA HandOverKeeps ==
    ASSUME IInv, NEW t \in Tasks, UnlockHandOver(t)
    PROVE  MutexInv' /\ inside = {t} /\ inside' = {}
<1> DEFINE h == Head(mutexWaiters)
<1>1. /\ owner = t /\ mutexWaiters # <<>> /\ mutexAlive /\ owner' = h
      /\ mutexWaiters' = Tail(mutexWaiters) /\ inside' = inside \ {t}
      /\ mutexAlive' = mutexAlive /\ call' = call /\ call[t] = "none"
  BY Zenon DEF UnlockHandOver, Running, Wake, IInv, TaskInv, TaskOK
<1>2. inside = {t}
  BY Zenon, <1>1 DEF IInv, MutexInv
<1>3. /\ h \in Tasks /\ h \in Elems(mutexWaiters) /\ WaitQueue(mutexWaiters')
      /\ Elems(mutexWaiters') = Elems(mutexWaiters) \ {h}
  BY Zenon, <1>1, QueueTypes, LeaveQueue
<1>4. call[h] = "lock"
  BY Zenon, <1>3, QueuedCalls
<1>5. h # None
  BY Zenon, <1>3, NoneAssumption
<1> HIDE DEF h
<1>6. MutexOK'
  BY Zenon, <1>1, <1>2, <1>3 DEF IInv, MutexInv, MutexOK
<1>7. ASSUME NEW u \in Tasks, call'[u] = "lock", u \notin Elems(mutexWaiters')
      PROVE  owner' = u /\ u \notin inside'
  BY Zenon, <1>1, <1>2, <1>3, <1>7 DEF IInv, MutexInv
<1> QED
  BY Zenon, <1>1, <1>2, <1>4, <1>5, <1>6, <1>7 DEF MutexInv

\* vl_task_mutex_unlock frees a mutex that nobody waits for.
LEMMA UnlockFreeKeeps ==
    ASSUME IInv, NEW t \in Tasks, UnlockFree(t)
    PROVE  MutexInv' /\ inside = {t} /\ inside' = {}
<1>1. /\ owner = t /\ mutexWaiters = <<>> /\ owner' = None /\ inside' = inside \ {t}
      /\ UNCHANGED <<mutexWaiters, mutexAlive>> /\ call' = call /\ call[t] = "none"
  BY Zenon DEF UnlockFree, Running, taskVars, IInv, TaskInv, TaskOK
<1>2. inside = {t}
  BY Zenon, <1>1 DEF IInv, MutexInv
<1>3. Elems(mutexWaiters) = {}
  BY Zenon, <1>1, EmptyQueue
<1>4. MutexOK'
  BY Zenon, <1>1, <1>2, <1>3 DEF IInv, MutexInv, MutexOK
<1>5. ASSUME NEW u \in Tasks PROVE call[u] # "lock"
  BY Zenon, <1>1, <1>2, <1>3 DEF IInv, MutexInv
<1> QED
  BY Zenon, <1>1, <1>2, <1>4, <1>5, NoneAssumption DEF MutexInv

\* A lock call that had parked returns: the task is inside.
LEMMA LockReturnKeeps ==
    ASSUME IInv, NEW t \in Tasks, ResumeTask(t), LockReturns(t)
    PROVE  /\ MutexInv'
           /\ call[t] = "lock" => owner = t /\ inside = {} /\ inside' = {t}
           /\ call[t] # "lock" => inside' = inside
<1>1. TaskInv /\ QueueOf("lock", mutexWaiters) /\ WaitQueue(mutexWaiters)
      /\ "lock" \in Calls \ {"none"}
  BY Zenon, QueueTypes DEF IInv, Queues, Calls
<1>2. /\ call'[t] = "none" /\ \A u \in Tasks \ {t} : call'[u] = call[u]
      /\ t \notin Elems(mutexWaiters)
  BY Zenon, <1>1, ResumeKeeps
<1>3. UNCHANGED <<owner, mutexWaiters, mutexAlive>>
  BY Zenon DEF LockReturns
<1>4. CASE call[t] = "lock"
  <2>1. waitResult[t] = "OK"
    BY Zenon, <1>4, <1>1 DEF TaskInv, TaskOK
  <2>2. owner = t /\ inside = {}
    BY Zenon, <1>2, <1>4 DEF IInv, MutexInv
  <2>3. inside' = {t}
    BY Zenon, <1>4, <2>1, <2>2 DEF LockReturns
  <2>4. MutexOK'
    BY Zenon, <1>3, <2>2, <2>3 DEF IInv, MutexInv, MutexOK
  <2>5. ASSUME NEW u \in Tasks, call'[u] = "lock" PROVE u \in Elems(mutexWaiters')
    BY Zenon, <1>2, <1>3, <2>2, <2>5 DEF IInv, MutexInv
  <2> QED
    BY Zenon, <1>3, <1>4, <2>2, <2>3, <2>4, <2>5 DEF IInv, MutexInv
<1>5. CASE call[t] # "lock"
  <2>1. inside' = inside
    BY Zenon, <1>5 DEF LockReturns
  <2>2. MutexOK'
    BY Zenon, <1>3, <2>1 DEF IInv, MutexInv, MutexOK
  <2>3. owner' \in Tasks /\ owner' \notin inside' => call'[owner'] = "lock"
    BY Zenon, <1>2, <1>3, <1>5, <2>1 DEF IInv, MutexInv
  <2>4. ASSUME NEW u \in Tasks, call'[u] = "lock", u \notin Elems(mutexWaiters')
        PROVE  owner' = u /\ u \notin inside'
    BY Zenon, <1>2, <1>3, <2>1, <2>4 DEF IInv, MutexInv
  <2> QED
    BY Zenon, <1>3, <1>5, <2>1, <2>2, <2>3, <2>4 DEF IInv, MutexInv
<1> QED
  BY Zenon, <1>4, <1>5

\* Every step of the mutex keeps the invariant.
LEMMA MutexKeeps ==
    ASSUME IInv, Mutex
    PROVE  IInv'
<1>0. UNCHANGED <<semVars, groupVars, chanVars>> /\ MutexStep
  BY Zenon DEF Mutex
<1>q. UNCHANGED <<semWaiters, groupWaiters, senders, receivers>>
  BY Zenon, <1>0 DEF semVars, groupVars, chanVars
<1>c. "lock" \in Calls \ {"none"}
  BY Zenon DEF Calls
<1>1. ASSUME Untouched({"sem_wait"}), Untouched({"group_wait"}),
             Untouched({"send", "receive"}), TaskInv', Queues', MutexInv'
      PROVE  IInv'
  BY Zenon, <1>0, <1>1, SemKept, GroupKept, ChanKept DEF IInv
<1>2. CASE MutexDestroy
  <2>1. /\ UNCHANGED taskVars /\ UNCHANGED <<owner, mutexWaiters, inside>>
        /\ mutexWaiters = <<>> /\ mutexAlive' = FALSE
    BY <1>2, QueueTypes DEF MutexDestroy, WaitQueue
  <2>2. TaskInv' /\ Queues' /\ call' = call /\ \A C : Untouched(C)
    BY Zenon, <1>q, <2>1, TasksKept
  <2>3. MutexInv'
    BY Zenon, <2>1, <2>2 DEF IInv, MutexInv, MutexOK
  <2> QED
    BY Zenon, <1>1, <2>2, <2>3
<1>3. ASSUME NEW t \in Tasks, LockFree(t) \/ UnlockFree(t) PROVE IInv'
  <2>1. UNCHANGED taskVars /\ UNCHANGED mutexWaiters
    BY Zenon, <1>3 DEF LockFree, UnlockFree
  <2>2. TaskInv' /\ Queues' /\ \A C : Untouched(C)
    BY Zenon, <1>q, <2>1, TasksKept
  <2>3. MutexInv'
    BY Zenon, <1>3, LockFreeKeeps, UnlockFreeKeeps
  <2> QED
    BY Zenon, <1>1, <2>2, <2>3
<1>4. ASSUME NEW t \in Tasks, LockWait(t) PROVE IInv'
  <2>1. Park(t, "lock") /\ mutexWaiters' = Append(mutexWaiters, t)
    BY Zenon, <1>4 DEF LockWait
  <2>2. TaskInv'
    BY Zenon, <1>c, <2>1, ParkTask DEF IInv
  <2>3. Queues'
    BY Zenon, <1>c, <1>q, <2>1, ParkQueues
  <2>4. /\ Untouched({"sem_wait"}) /\ Untouched({"group_wait"})
        /\ Untouched({"send", "receive"})
    BY Zenon, <1>c, <2>1, ParkUntouched
  <2> QED
    BY Zenon, <1>1, <1>4, <2>2, <2>3, <2>4, LockWaitKeeps
<1>5. ASSUME NEW t \in Tasks, UnlockHandOver(t) PROVE IInv'
  <2> DEFINE W == {Head(mutexWaiters)}
  <2>1. /\ Wake(W, "OK") /\ mutexWaiters' = Tail(mutexWaiters)
        /\ mutexWaiters # <<>>
    BY Zenon, <1>5 DEF UnlockHandOver
  <2>2. /\ W \in SUBSET Tasks /\ \A u \in W : u \in Elems(mutexWaiters)
        /\ Elems(mutexWaiters') = Elems(mutexWaiters) \ W
    BY Zenon, <2>1, QueueTypes, LeaveQueue
  <2>3. \A u \in W : call[u] = "lock"
    BY Zenon, <2>2, QueuedCalls
  <2> HIDE DEF W
  <2>4. /\ Elems(semWaiters) = Elems(semWaiters) \ W
        /\ Elems(groupWaiters) = Elems(groupWaiters) \ W
        /\ Elems(senders) = Elems(senders) \ W
        /\ Elems(receivers) = Elems(receivers) \ W
    BY Zenon, <2>3, QueuedCalls
  <2>5. TaskInv'
    BY Zenon, <2>1, <2>2, WakeTasks DEF IInv
  <2>6. Queues'
    BY Zenon, <1>q, <2>1, <2>2, <2>4, WakeQueues
  <2>7. /\ Untouched({"sem_wait"}) /\ Untouched({"group_wait"})
        /\ Untouched({"send", "receive"})
    BY Zenon, <2>1, <2>2, <2>3, WakeUntouched
  <2> QED
    BY Zenon, <1>1, <1>5, <2>5, <2>6, <2>7, HandOverKeeps
<1> QED
  BY Zenon, <1>0, <1>2, <1>3, <1>4, <1>5 DEF MutexStep, Unlock

-----------------------------------------------------------------------------
(* The wait group                                                          *)

\* A number below the modulus is its own remainder.
LEMMA SmallMod ==
    ASSUME NEW m \in Nat, NEW n \in 0..m
    PROVE  n % (m + 1) = n
OBVIOUS

\* An accepted delta is added exactly.
LEMMA ExactSum ==
    ASSUME count \in 0..SizeMax, NEW d \in Deltas, ~Rejects(d)
    PROVE  Sum(d) = count + d /\ Sum(d) \in 0..SizeMax
<1>1. SizeMax \in Nat /\ d \in Int
  BY WidthAssumption DEF SizeMax, Deltas
<1>2. Magnitude(d) = -d
  BY <1>1 DEF Magnitude
<1>3. count + d \in 0..SizeMax
  BY <1>1, <1>2 DEF Rejects
<1>4. Sum(d) = (count + d) % (SizeMax + 1)
  BY <1>1, <1>2 DEF Sum
<1> HIDE DEF SizeMax
<1> QED
  BY Zenon, <1>1, <1>3, <1>4, SmallMod

\* vl_wait_group_add keeps the count exact, and wakes everybody at zero.
LEMMA AddKeeps ==
    ASSUME IInv, NEW d \in Deltas, Add(d)
    PROVE  GroupInv'
<1>1. /\ GroupOK /\ count = total /\ (count = 0 => groupWaiters = <<>>)
      /\ (groupWaiters # <<>> => groupAlive)
      /\ \A t \in Tasks : call[t] = "group_wait" /\ t \notin Elems(groupWaiters)
                            => zeroSeen[t]
  BY Zenon DEF IInv, GroupInv
<1>2. /\ groupAlive /\ ~Rejects(d) /\ count' = Sum(d) /\ total' = total + d
      /\ zeroSeen' = [t \in Tasks |-> zeroSeen[t] \/ count' = 0]
      /\ groupAlive' = groupAlive
      /\ groupWaiters' = IF count' = 0 THEN <<>> ELSE groupWaiters
      /\ call' = call
  BY Zenon DEF Add, Wake, taskVars
<1>3. count' = count + d /\ count' \in 0..SizeMax
  BY Zenon, <1>1, <1>2, ExactSum DEF GroupOK
<1>4. d \in Int
  BY WidthAssumption DEF Deltas
<1>5. WaitQueue(groupWaiters')
  BY Zenon, <1>1, <1>2, EmptyQueue DEF GroupOK
<1>6. GroupOK' /\ count' = total'
  BY <1>1, <1>2, <1>3, <1>4, <1>5 DEF GroupOK
<1>7. ASSUME NEW t \in Tasks, call'[t] = "group_wait", t \notin Elems(groupWaiters')
      PROVE  zeroSeen'[t]
  BY Zenon, <1>1, <1>2, <1>7
<1> QED
  BY Zenon, <1>1, <1>2, <1>6, <1>7 DEF GroupInv

\* vl_wait_group_wait parks while the count is not zero.
LEMMA GroupParkKeeps ==
    ASSUME IInv, NEW t \in Tasks, GroupPark(t)
    PROVE  GroupInv'
<1>1. /\ count # 0 /\ groupAlive /\ groupWaiters' = Append(groupWaiters, t)
      /\ UNCHANGED <<count, groupAlive, total>> /\ Park(t, "group_wait")
      /\ zeroSeen' = [zeroSeen EXCEPT ![t] = FALSE]
  BY Zenon DEF GroupPark
<1>2. TaskInv /\ QueueOf("group_wait", groupWaiters) /\ WaitQueue(groupWaiters)
      /\ "group_wait" \in Calls \ {"none"} /\ GroupOK
  BY Zenon, QueueTypes DEF IInv, Queues, Calls, GroupInv
<1>3. /\ t \notin Elems(groupWaiters) /\ call[t] = "none" /\ call'[t] = "group_wait"
      /\ \A u \in Tasks \ {t} : call'[u] = call[u]
  BY Zenon, <1>1, <1>2, ParkTask, ParkQueue
<1>4. /\ Elems(groupWaiters') = Elems(groupWaiters) \cup {t}
      /\ WaitQueue(groupWaiters')
  BY Zenon, <1>1, <1>2, <1>3, JoinQueue
<1>5. GroupOK'
  BY Zenon, <1>1, <1>2, <1>4 DEF GroupOK
<1>6. ASSUME NEW u \in Tasks, call'[u] = "group_wait", u \notin Elems(groupWaiters')
      PROVE  zeroSeen'[u]
  BY Zenon, <1>1, <1>2, <1>3, <1>4, <1>6 DEF IInv, GroupInv, GroupOK
<1> QED
  BY Zenon, <1>1, <1>5, <1>6 DEF IInv, GroupInv

\* A wait that had parked returns.
LEMMA GroupReturnKeeps ==
    ASSUME IInv, NEW t \in Tasks, ResumeTask(t), UNCHANGED groupVars
    PROVE  GroupInv'
<1>1. call'[t] = "none" /\ \A u \in Tasks \ {t} : call'[u] = call[u]
  BY Zenon, ResumeKeeps DEF IInv
<1>2. GroupOK'
  BY Zenon DEF IInv, GroupInv, GroupOK, groupVars
<1> QED
  BY Zenon, <1>1, <1>2 DEF IInv, GroupInv, groupVars

\* Every step of the wait group keeps the invariant.
LEMMA GroupKeeps ==
    ASSUME IInv, Group
    PROVE  IInv'
<1>0. UNCHANGED <<mutexVars, semVars, chanVars>> /\ GroupStep
  BY Zenon DEF Group
<1>q. UNCHANGED <<mutexWaiters, semWaiters, senders, receivers>>
  BY Zenon, <1>0 DEF mutexVars, semVars, chanVars
<1>c. "group_wait" \in Calls \ {"none"}
  BY Zenon DEF Calls
<1>1. ASSUME Untouched({"lock"}), Untouched({"sem_wait"}),
             Untouched({"send", "receive"}), TaskInv', Queues', GroupInv'
      PROVE  IInv'
  BY Zenon, <1>0, <1>1, MutexKept, SemKept, ChanKept DEF IInv
<1>2. CASE GroupDestroy
  <2>1. /\ UNCHANGED taskVars /\ UNCHANGED <<count, groupWaiters, total, zeroSeen>>
        /\ groupWaiters = <<>> /\ groupAlive' = FALSE
    BY <1>2, QueueTypes DEF GroupDestroy, WaitQueue
  <2>2. TaskInv' /\ Queues' /\ call' = call /\ \A C : Untouched(C)
    BY Zenon, <1>q, <2>1, TasksKept
  <2>3. GroupOK'
    BY Zenon, <2>1 DEF IInv, GroupInv, GroupOK
  <2>4. GroupInv'
    BY Zenon, <2>1, <2>2, <2>3 DEF IInv, GroupInv
  <2> QED
    BY Zenon, <1>1, <2>2, <2>4
<1>3. ASSUME NEW t \in Tasks, GroupPark(t) PROVE IInv'
  <2>1. Park(t, "group_wait") /\ groupWaiters' = Append(groupWaiters, t)
    BY Zenon, <1>3 DEF GroupPark
  <2>2. TaskInv'
    BY Zenon, <1>c, <2>1, ParkTask DEF IInv
  <2>3. Queues'
    BY Zenon, <1>c, <1>q, <2>1, ParkQueues
  <2>4. Untouched({"lock"}) /\ Untouched({"sem_wait"}) /\ Untouched({"send", "receive"})
    BY Zenon, <1>c, <2>1, ParkUntouched
  <2> QED
    BY Zenon, <1>1, <1>3, <2>2, <2>3, <2>4, GroupParkKeeps
<1>4. ASSUME NEW d \in Deltas, Add(d) PROVE IInv'
  <2>1. CASE count' = 0
    <3> DEFINE W == Elems(groupWaiters)
    <3>1. Wake(W, "OK") /\ groupWaiters' = <<>>
      BY Zenon, <1>4, <2>1 DEF Add
    <3>2. W \in SUBSET Tasks /\ Elems(groupWaiters') = W \ W
      BY <3>1, QueueTypes, EmptyQueue DEF WaitQueue, Elems
    <3>3. \A u \in W : call[u] = "group_wait"
      BY Zenon, QueuedCalls
    <3>4. /\ Elems(mutexWaiters) = Elems(mutexWaiters) \ W
          /\ Elems(semWaiters) = Elems(semWaiters) \ W
          /\ Elems(senders) = Elems(senders) \ W
          /\ Elems(receivers) = Elems(receivers) \ W
      BY Zenon, <3>3, QueuedCalls
    <3>5. TaskInv'
      BY Zenon, <3>1, <3>2, WakeTasks DEF IInv
    <3>6. Queues'
      BY Zenon, <1>q, <3>1, <3>2, <3>4, WakeQueues
    <3>7. /\ Untouched({"lock"}) /\ Untouched({"sem_wait"})
          /\ Untouched({"send", "receive"})
      BY Zenon, <3>1, <3>2, <3>3, WakeUntouched
    <3> QED
      BY Zenon, <1>1, <1>4, <3>5, <3>6, <3>7, AddKeeps
  <2>2. CASE count' # 0
    <3>1. UNCHANGED taskVars /\ UNCHANGED groupWaiters
      BY Zenon, <1>4, <2>2 DEF Add
    <3>2. TaskInv' /\ Queues' /\ \A C : Untouched(C)
      BY Zenon, <1>q, <3>1, TasksKept
    <3> QED
      BY Zenon, <1>1, <1>4, <3>2, AddKeeps
  <2> QED
    BY Zenon, <2>1, <2>2
<1> QED
  BY Zenon, <1>0, <1>2, <1>3, <1>4 DEF GroupStep

-----------------------------------------------------------------------------
(* The mutex is a first-in first-out lock                                  *)

\* Every step of the primitives is a step of the lock or leaves it unchanged.
LEMMA LockStep ==
    ASSUME IInv, [Next]_vars
    PROVE  [Lock!Next]_(Lock!vars)
<1>0. /\ MutexOK /\ (\A t \in inside : owner = t) /\ inside \subseteq Tasks
      /\ owner \in Tasks \cup {None} /\ mutexWaiters \in Seq(Tasks)
      /\ (mutexWaiters # <<>> => owner # None) /\ None \notin Tasks
  BY Zenon, NoneAssumption DEF IInv, MutexInv, MutexOK, WaitQueue
<1>1. ASSUME UNCHANGED <<owner, mutexWaiters, inside>> PROVE UNCHANGED Lock!vars
  BY Zenon, <1>1 DEF Lock!vars, LockQueue
<1>2. ASSUME NEW t \in Tasks, LockFree(t) PROVE Lock!Ask(t)
  <2>1. owner = None /\ owner' = t /\ mutexWaiters' = mutexWaiters /\ inside' = inside \cup {t}
    BY Zenon, <1>2 DEF LockFree
  <2>2. mutexWaiters = <<>> /\ inside = {}
    BY Zenon, <1>0, <2>1
  <2>3. LockQueue = <<>> /\ LockQueue' = <<t>> \o <<>>
    BY Zenon, <1>0, <2>1, <2>2 DEF LockQueue
  <2>4. <<t>> \o <<>> = <<t>> /\ Append(<<>>, t) = <<t>>
    OBVIOUS
  <2> QED
    BY <2>1, <2>2, <2>3, <2>4 DEF Lock!Ask
<1>3. ASSUME NEW t \in Tasks, LockWait(t) PROVE Lock!Ask(t)
  <2>1. /\ owner \in Tasks /\ owner # t /\ owner' = owner /\ inside' = inside
        /\ mutexWaiters' = Append(mutexWaiters, t) /\ Park(t, "lock")
    BY Zenon, <1>0, <1>3 DEF LockWait
  <2>2. t \notin Elems(mutexWaiters)
    BY Zenon, <2>1, ParkQueue, QueueTypes DEF IInv, Queues, Calls
  <2>3. LockQueue = <<owner>> \o mutexWaiters
        /\ LockQueue' = <<owner>> \o Append(mutexWaiters, t)
    BY Zenon, <1>0, <2>1 DEF LockQueue
  <2>4. LockQueue # <<>> /\ LockQueue' = Append(LockQueue, t)
    <3>1. <<owner>> \o Append(mutexWaiters, t) = Append(<<owner>> \o mutexWaiters, t)
      BY <1>0, <2>1, FrontAppend
    <3> QED
      BY Zenon, <1>0, <2>1, <2>3, <3>1, Front
  <2>5. t \notin Elems(LockQueue)
    BY Zenon, <1>0, <2>1, <2>2, <2>3, FrontElems
  <2>6. \A i \in DOMAIN LockQueue : LockQueue[i] # t
    BY Zenon, <2>5 DEF Elems
  <2> QED
    BY Zenon, <2>1, <2>4, <2>6 DEF Lock!Ask
<1>4. ASSUME NEW t \in Tasks, UnlockHandOver(t) PROVE Lock!Release(t)
  <2>1. /\ owner = t /\ mutexWaiters # <<>> /\ owner' = Head(mutexWaiters)
        /\ mutexWaiters' = Tail(mutexWaiters) /\ inside = {t} /\ inside' = {}
    BY Zenon, <1>4, HandOverKeeps DEF UnlockHandOver
  <2>2. Head(mutexWaiters) \in Tasks /\ <<Head(mutexWaiters)>> \o Tail(mutexWaiters) = mutexWaiters
    BY Zenon, <1>0, <2>1, SeqTail, Rejoin
  <2>3. LockQueue = <<t>> \o mutexWaiters /\ LockQueue' = mutexWaiters
    BY Zenon, <1>0, <2>1, <2>2 DEF LockQueue
  <2>4. LockQueue' = Tail(LockQueue)
    BY Zenon, <1>0, <2>1, <2>3, Front
  <2> QED
    BY Zenon, <2>1, <2>4 DEF Lock!Release
<1>5. ASSUME NEW t \in Tasks, UnlockFree(t) PROVE Lock!Release(t)
  <2>1. /\ owner = t /\ mutexWaiters = <<>> /\ owner' = None /\ inside = {t} /\ inside' = {}
    BY Zenon, <1>5, UnlockFreeKeeps DEF UnlockFree
  <2>2. LockQueue = <<t>> \o mutexWaiters /\ LockQueue' = mutexWaiters
    BY Zenon, <1>0, <2>1 DEF LockQueue
  <2>3. LockQueue' = Tail(LockQueue)
    BY Zenon, <1>0, <2>1, <2>2, Front
  <2> QED
    BY Zenon, <2>1, <2>3 DEF Lock!Release
<1>6. ASSUME NEW t \in Tasks, Resume(t) PROVE Lock!Enter(t) \/ UNCHANGED Lock!vars
  <2>1. ResumeTask(t) /\ LockReturns(t) /\ UNCHANGED <<owner, mutexWaiters>>
    BY Zenon, <1>6 DEF Resume, LockReturns
  <2>2. CASE call[t] = "lock"
    <3>1. owner = t /\ inside = {} /\ inside' = {t}
      BY Zenon, <2>1, <2>2, LockReturnKeeps
    <3>2. LockQueue = <<t>> \o mutexWaiters /\ LockQueue' = LockQueue
      BY Zenon, <1>0, <2>1, <3>1 DEF LockQueue
    <3>3. LockQueue # <<>> /\ t = Head(LockQueue)
      BY Zenon, <1>0, <3>2, Front
    <3> QED
      BY Zenon, <3>1, <3>2, <3>3 DEF Lock!Enter
  <2>3. CASE call[t] # "lock"
    BY Zenon, <1>1, <2>1, <2>3, LockReturnKeeps
  <2> QED
    BY Zenon, <2>2, <2>3
<1>7. ASSUME MutexDestroy PROVE UNCHANGED Lock!vars
  BY Zenon, <1>1, <1>7 DEF MutexDestroy
<1>8. ASSUME Mutex PROVE Lock!Next \/ UNCHANGED Lock!vars
  BY Zenon, <1>2, <1>3, <1>4, <1>5, <1>7, <1>8
  DEF Mutex, MutexStep, Unlock, Lock!Next
<1>9. ASSUME UNCHANGED mutexVars PROVE UNCHANGED Lock!vars
  BY Zenon, <1>1, <1>9 DEF mutexVars
<1>10. ASSUME NEW t \in Tasks, Resume(t) PROVE Lock!Next \/ UNCHANGED Lock!vars
  BY Zenon, <1>6, <1>10 DEF Lock!Next
<1>11. CASE Next
  <2>1. Mutex \/ UNCHANGED mutexVars \/ \E t \in Tasks : Resume(t)
    BY Zenon, <1>11 DEF Next, Sem, Group, Chan, Cancel, Yield, Leave, objects
  <2> QED
    BY Zenon, <1>8, <1>9, <1>10, <2>1
<1>12. CASE UNCHANGED vars
  BY Zenon, <1>9, <1>12 DEF vars
<1> QED
  BY Zenon, <1>11, <1>12

-----------------------------------------------------------------------------
(* The semaphore                                                           *)

\* The tasks that have been given a permit and have not returned with it.
Granted == {t \in Tasks : call[t] = "sem_wait" /\ t \notin Elems(semWaiters)}

\* How the size of a set of tasks changes with its elements; SizesCount, below,
\* shows that it holds.
Counting ==
    \A G \in SUBSET Tasks :
        /\ Cardinality(G) \in Nat
        /\ G = {} => Cardinality(G) = 0
        /\ \A t \in Tasks : t \notin G => Cardinality(G \cup {t}) = Cardinality(G) + 1
        /\ \A t \in Tasks : t \in G => Cardinality(G \ {t}) = Cardinality(G) - 1

\* vl_semaphore_wait takes a permit that is there; nobody waits then.
LEMMA SemTakeKeeps ==
    ASSUME Counting, IInv, NEW t \in Tasks, SemTake(t)
    PROVE  SemInv'
<1>1. /\ permits # 0 /\ permits' = permits - 1 /\ credit' = credit - 1 /\ call' = call
      /\ semWaiters' = semWaiters /\ semAlive' = semAlive
  BY Zenon DEF SemTake, taskVars
<1>2. SemOK /\ Conservation /\ semWaiters = <<>>
  BY Zenon, <1>1 DEF IInv, SemInv
<1>3. permits \in 0..SizeMax /\ credit \in Int /\ SizeMax \in Nat
  BY <1>2, WidthAssumption DEF SemOK, SizeMax
<1>4. Granted' = Granted
  BY Zenon, <1>1 DEF Granted
<1>5. Cardinality(Granted) \in Nat
  BY Zenon DEF Granted, Counting
<1>6. Conservation'
  <2>1. credit = permits + Cardinality(Granted)
    BY <1>2 DEF Conservation, Granted
  <2>2. credit' = permits' + Cardinality(Granted')
    BY <1>1, <1>3, <1>4, <1>5, <2>1
  <2> QED
    BY <2>2 DEF Conservation, Granted
<1>7. SemOK'
  BY <1>1, <1>2, <1>3 DEF SemOK
<1> QED
  BY Zenon, <1>1, <1>2, <1>6, <1>7 DEF SemInv

\* vl_semaphore_wait parks when there is no permit.
LEMMA SemParkKeeps ==
    ASSUME IInv, NEW t \in Tasks, SemPark(t)
    PROVE  SemInv'
<1>1. /\ permits = 0 /\ semAlive /\ semWaiters' = Append(semWaiters, t)
      /\ UNCHANGED <<permits, semAlive, credit>> /\ Park(t, "sem_wait")
  BY Zenon DEF SemPark
<1>2. TaskInv /\ QueueOf("sem_wait", semWaiters) /\ WaitQueue(semWaiters)
      /\ "sem_wait" \in Calls \ {"none"} /\ SemOK /\ Conservation
  BY Zenon, QueueTypes DEF IInv, Queues, Calls, SemInv
<1>3. /\ t \notin Elems(semWaiters) /\ call[t] = "none" /\ call'[t] = "sem_wait"
      /\ \A u \in Tasks \ {t} : call'[u] = call[u]
  BY Zenon, <1>1, <1>2, ParkTask, ParkQueue
<1>4. /\ Elems(semWaiters') = Elems(semWaiters) \cup {t}
      /\ WaitQueue(semWaiters')
  BY Zenon, <1>1, <1>2, <1>3, JoinQueue
<1>5. Granted' = Granted
  BY Zenon, <1>3, <1>4 DEF Granted
<1>6. Conservation'
  BY Zenon, <1>1, <1>2, <1>5 DEF Conservation, Granted
<1>7. SemOK'
  BY Zenon, <1>1, <1>2, <1>4 DEF SemOK
<1> QED
  BY Zenon, <1>1, <1>6, <1>7 DEF SemInv

\* vl_semaphore_post gives the permit to the oldest waiter.
LEMMA PostWakeKeeps ==
    ASSUME Counting, IInv, PostWake
    PROVE  SemInv'
<1> DEFINE h == Head(semWaiters)
<1>1. /\ semWaiters # <<>> /\ semWaiters' = Tail(semWaiters) /\ credit' = credit + 1
      /\ permits' = permits /\ semAlive' = semAlive /\ semAlive /\ call' = call
  BY Zenon DEF PostWake, Wake
<1>2. /\ h \in Tasks /\ h \in Elems(semWaiters) /\ WaitQueue(semWaiters')
      /\ Elems(semWaiters') = Elems(semWaiters) \ {h}
  BY Zenon, <1>1, QueueTypes, LeaveQueue
<1>3. call[h] = "sem_wait"
  BY Zenon, <1>2, QueuedCalls
<1>4. SemOK /\ Conservation /\ permits = 0
  BY Zenon, <1>1 DEF IInv, SemInv
<1> HIDE DEF h
<1>5. h \notin Granted /\ Granted' = Granted \cup {h}
  BY Zenon, <1>1, <1>2, <1>3 DEF Granted
<1>6. Cardinality(Granted') = Cardinality(Granted) + 1 /\ Cardinality(Granted) \in Nat
  BY Zenon, <1>2, <1>5 DEF Granted, Counting
<1>7. Conservation'
  <2>1. credit = permits + Cardinality(Granted)
    BY <1>4 DEF Conservation, Granted
  <2>2. credit' = permits' + Cardinality(Granted')
    BY <1>1, <1>4, <1>6, <2>1
  <2> QED
    BY <2>2 DEF Conservation, Granted
<1>8. SemOK'
  BY <1>1, <1>2, <1>4 DEF SemOK
<1> QED
  BY Zenon, <1>1, <1>4, <1>7, <1>8 DEF SemInv

\* vl_semaphore_post counts a permit that nobody waits for, within size_t.
LEMMA PostCountKeeps ==
    ASSUME Counting, IInv, PostCount
    PROVE  SemInv'
<1>1. /\ semWaiters = <<>> /\ semWaiters' = semWaiters /\ credit' = credit + 1
      /\ permits # SizeMax /\ permits' = permits + 1 /\ semAlive' = semAlive
      /\ call' = call
  BY Zenon DEF PostCount, taskVars
<1>2. SemOK /\ Conservation
  BY Zenon DEF IInv, SemInv
<1>3. permits \in 0..SizeMax /\ credit \in Int /\ SizeMax \in Nat
  BY <1>2, WidthAssumption DEF SemOK, SizeMax
<1>4. Granted' = Granted
  BY Zenon, <1>1 DEF Granted
<1>5. Cardinality(Granted) \in Nat
  BY Zenon DEF Granted, Counting
<1>6. Conservation'
  <2>1. credit = permits + Cardinality(Granted)
    BY <1>2 DEF Conservation, Granted
  <2>2. credit' = permits' + Cardinality(Granted')
    BY <1>1, <1>3, <1>4, <1>5, <2>1
  <2> QED
    BY <2>2 DEF Conservation, Granted
<1>7. SemOK'
  BY <1>1, <1>2, <1>3 DEF SemOK
<1> QED
  BY Zenon, <1>1, <1>6, <1>7 DEF SemInv

\* A wait that had parked returns with its permit.
LEMMA SemReturnKeeps ==
    ASSUME Counting, IInv, NEW t \in Tasks, ResumeTask(t), SemReturns(t)
    PROVE  SemInv'
<1>1. TaskInv /\ QueueOf("sem_wait", semWaiters) /\ WaitQueue(semWaiters)
      /\ "sem_wait" \in Calls \ {"none"} /\ SemOK /\ Conservation
  BY Zenon, QueueTypes DEF IInv, Queues, Calls, SemInv
<1>2. /\ call'[t] = "none" /\ \A u \in Tasks \ {t} : call'[u] = call[u]
      /\ t \notin Elems(semWaiters)
  BY Zenon, <1>1, ResumeKeeps
<1>3. UNCHANGED <<permits, semWaiters, semAlive>>
  BY Zenon DEF SemReturns
<1>4. credit = permits + Cardinality(Granted) /\ permits \in Nat /\ credit \in Int
  BY <1>1 DEF Conservation, Granted, SemOK
<1>5. CASE call[t] = "sem_wait"
  <2>1. credit' = credit - 1
    BY Zenon, <1>1, <1>5 DEF TaskInv, TaskOK, SemReturns
  <2>2. t \in Granted /\ Granted' = Granted \ {t}
    BY Zenon, <1>2, <1>3, <1>5 DEF Granted
  <2>3. Cardinality(Granted') = Cardinality(Granted) - 1 /\ Cardinality(Granted) \in Nat
    BY Zenon, <2>2 DEF Granted, Counting
  <2>4. credit' = permits' + Cardinality(Granted')
    BY <1>3, <1>4, <2>1, <2>3
  <2>5. Conservation'
    BY <2>4 DEF Conservation, Granted
  <2>6. SemOK'
    BY <1>1, <1>3, <1>4, <2>1 DEF SemOK
  <2> QED
    BY Zenon, <1>3, <2>5, <2>6 DEF IInv, SemInv
<1>6. CASE call[t] # "sem_wait"
  <2>1. credit' = credit
    BY Zenon, <1>6 DEF SemReturns
  <2>2. Granted' = Granted
    BY Zenon, <1>2, <1>3, <1>6 DEF Granted
  <2>3. Conservation'
    BY <1>3, <1>4, <2>1, <2>2 DEF Conservation, Granted
  <2>4. SemOK'
    BY Zenon, <1>1, <1>3, <2>1 DEF SemOK
  <2> QED
    BY Zenon, <1>3, <2>3, <2>4 DEF IInv, SemInv
<1> QED
  BY Zenon, <1>5, <1>6

\* Every step of the semaphore keeps the invariant.
LEMMA SemKeeps ==
    ASSUME Counting, IInv, Sem
    PROVE  IInv'
<1>0. UNCHANGED <<mutexVars, groupVars, chanVars>> /\ SemStep
  BY Zenon DEF Sem
<1>q. UNCHANGED <<mutexWaiters, groupWaiters, senders, receivers>>
  BY Zenon, <1>0 DEF mutexVars, groupVars, chanVars
<1>c. "sem_wait" \in Calls \ {"none"}
  BY Zenon DEF Calls
<1>1. ASSUME Untouched({"lock"}), Untouched({"group_wait"}),
             Untouched({"send", "receive"}), TaskInv', Queues', SemInv'
      PROVE  IInv'
  BY Zenon, <1>0, <1>1, MutexKept, GroupKept, ChanKept DEF IInv
<1>2. ASSUME NEW t \in Tasks, SemTake(t) PROVE IInv'
  <2>1. UNCHANGED taskVars /\ UNCHANGED semWaiters
    BY Zenon, <1>2 DEF SemTake
  <2>2. TaskInv' /\ Queues' /\ \A C : Untouched(C)
    BY Zenon, <1>q, <2>1, TasksKept
  <2> QED
    BY Zenon, <1>1, <1>2, <2>2, SemTakeKeeps
<1>3. ASSUME NEW t \in Tasks, SemPark(t) PROVE IInv'
  <2>1. Park(t, "sem_wait") /\ semWaiters' = Append(semWaiters, t)
    BY Zenon, <1>3 DEF SemPark
  <2>2. TaskInv'
    BY Zenon, <1>c, <2>1, ParkTask DEF IInv
  <2>3. Queues'
    BY Zenon, <1>c, <1>q, <2>1, ParkQueues
  <2>4. Untouched({"lock"}) /\ Untouched({"group_wait"}) /\ Untouched({"send", "receive"})
    BY Zenon, <1>c, <2>1, ParkUntouched
  <2> QED
    BY ZenonT(30), <1>1, <1>3, <2>2, <2>3, <2>4, SemParkKeeps
<1>4. CASE PostWake
  <2> DEFINE W == {Head(semWaiters)}
  <2>1. Wake(W, "OK") /\ semWaiters' = Tail(semWaiters) /\ semWaiters # <<>>
    BY Zenon, <1>4 DEF PostWake
  <2>2. /\ W \in SUBSET Tasks /\ \A u \in W : u \in Elems(semWaiters)
        /\ Elems(semWaiters') = Elems(semWaiters) \ W
    BY Zenon, <2>1, QueueTypes, LeaveQueue
  <2>3. \A u \in W : call[u] = "sem_wait"
    BY Zenon, <2>2, QueuedCalls
  <2> HIDE DEF W
  <2>4. /\ Elems(mutexWaiters) = Elems(mutexWaiters) \ W
        /\ Elems(groupWaiters) = Elems(groupWaiters) \ W
        /\ Elems(senders) = Elems(senders) \ W
        /\ Elems(receivers) = Elems(receivers) \ W
    BY Zenon, <2>3, QueuedCalls
  <2>5. TaskInv'
    BY Zenon, <2>1, <2>2, WakeTasks DEF IInv
  <2>6. Queues'
    BY Zenon, <1>q, <2>1, <2>2, <2>4, WakeQueues
  <2>7. Untouched({"lock"}) /\ Untouched({"group_wait"}) /\ Untouched({"send", "receive"})
    BY Zenon, <2>1, <2>2, <2>3, WakeUntouched
  <2> QED
    BY ZenonT(30), <1>1, <1>4, <2>5, <2>6, <2>7, PostWakeKeeps
<1>5. CASE SemDestroy \/ PostCount
  <2>1. UNCHANGED taskVars /\ UNCHANGED semWaiters
    BY Zenon, <1>5 DEF SemDestroy, PostCount
  <2>2. TaskInv' /\ Queues' /\ call' = call /\ \A C : Untouched(C)
    BY Zenon, <1>q, <2>1, TasksKept
  <2>3. CASE SemDestroy
    <3>1. semWaiters = <<>> /\ semAlive' = FALSE /\ UNCHANGED <<permits, credit>>
      BY <2>3, QueueTypes DEF SemDestroy, WaitQueue
    <3>2. SemOK' /\ Conservation'
      BY Zenon, <2>1, <2>2, <3>1 DEF IInv, SemInv, SemOK, Conservation
    <3>3. SemInv'
      BY Zenon, <2>1, <3>1, <3>2 DEF IInv, SemInv
    <3> QED
      BY Zenon, <1>1, <2>2, <3>3
  <2> QED
    BY Zenon, <1>1, <1>5, <2>2, <2>3, PostCountKeeps
<1> QED
  BY Zenon, <1>0, <1>2, <1>3, <1>4, <1>5 DEF SemStep

-----------------------------------------------------------------------------
(* The invariant                                                           *)

\* A resume returns the call that the task was parked in.
LEMMA ResumeStepKeeps ==
    ASSUME Counting, IInv, NEW t \in Tasks, Resume(t)
    PROVE  IInv'
<1>1. ResumeTask(t) /\ LockReturns(t) /\ SemReturns(t) /\ ChannelReturns(t)
      /\ UNCHANGED groupVars
  BY Zenon DEF Resume
<1>2. MutexInv' /\ SemInv' /\ GroupInv' /\ ChanInv'
  BY Zenon, <1>1, LockReturnKeeps, SemReturnKeeps, GroupReturnKeeps,
     ChannelReturnKeeps
<1>3. UNCHANGED <<mutexWaiters, semWaiters, groupWaiters, senders, receivers>>
  BY Zenon, <1>1 DEF LockReturns, SemReturns, ChannelReturns, groupVars
<1>4. TaskInv /\ Queues
  BY Zenon DEF IInv
<1>5. TaskInv'
  BY Zenon, <1>1, <1>4, ResumeKeeps
<1>6. \A c \in Calls \ {"none"} : \A q : WaitQueue(q) /\ QueueOf(c, q) => QueueOf(c, q)'
  BY Zenon, <1>1, <1>4, ResumeKeeps
<1>7. Queues'
  BY Zenon, <1>3, <1>4, <1>6, QueueTypes DEF Queues, Calls
<1> QED
  BY Zenon, <1>2, <1>5, <1>7 DEF IInv

\* Yields, the ends of resumes and the cancellation of all tasks.
LEMMA WorkerStepKeeps ==
    ASSUME IInv, Cancel \/ \E t \in Tasks : Yield(t) \/ Leave(t)
    PROVE  IInv'
<1>1. /\ (\E t \in Tasks : YieldTask(t) \/ LeaveTask(t)) \/ CancelTasks
      /\ UNCHANGED <<mutexVars, semVars, groupVars, chanVars>>
  BY Zenon DEF Cancel, Yield, Leave, objects
<1>2. TaskInv /\ Queues
  BY Zenon DEF IInv
<1>3. TaskInv' /\ call' = call /\ waitResult' = waitResult
  BY Zenon, <1>1, <1>2, WorkerKeeps
<1>4. \A c \in Calls \ {"none"} : \A q : WaitQueue(q) /\ QueueOf(c, q) => QueueOf(c, q)'
  BY Zenon, <1>1, <1>2, WorkerKeeps
<1>5. UNCHANGED <<mutexWaiters, semWaiters, groupWaiters, senders, receivers>>
  BY Zenon, <1>1 DEF mutexVars, semVars, groupVars, chanVars
<1>6. Queues'
  BY Zenon, <1>2, <1>4, <1>5, QueueTypes DEF Queues, Calls
<1>7. \A C : Untouched(C)
  BY Zenon, <1>3 DEF Untouched
<1>8. MutexInv' /\ SemInv' /\ GroupInv' /\ ChanInv'
  BY Zenon, <1>1, <1>7, MutexKept, SemKept, GroupKept, ChanKept DEF IInv
<1> QED
  BY Zenon, <1>3, <1>6, <1>8 DEF IInv

\* The objects as their init calls leave them.
LEMMA InitInvariant ==
    ASSUME Counting, Init
    PROVE  IInv
<1>1. TaskInit /\ MutexInit /\ SemInit /\ GroupInit /\ ChannelInit
  BY Zenon DEF Init
<1>2. TaskInv
  <2>1. TasksOK
    BY Zenon, <1>1 DEF TaskInit, TasksOK, Calls
  <2>2. ASSUME NEW t \in Tasks PROVE TaskOK(t)
    BY Zenon, <1>1 DEF TaskInit, TaskOK
  <2> QED
    BY Zenon, <2>1, <2>2 DEF TaskInv
<1>3. Elems(<<>>) = {} /\ WaitQueue(<<>>)
  BY Zenon, EmptyQueue
<1>4. \A t \in Tasks : call[t] = "none" /\ state[t] = "RUNNABLE"
  BY Zenon, <1>1 DEF TaskInit
<1>5. \A c \in Calls \ {"none"} : QueueOf(c, <<>>)
  BY Zenon, <1>3, <1>4 DEF QueueOf
<1>6. Queues
  BY Zenon, <1>1, <1>5
  DEF Queues, MutexInit, SemInit, GroupInit, ChannelInit, Calls
<1>7. MutexInv
  BY Zenon, <1>1, <1>3, <1>4, NoneAssumption DEF MutexInv, MutexOK, MutexInit
<1>8. SemInv
  <2>1. permits \in 0..SizeMax /\ credit = permits /\ semWaiters = <<>> /\ semAlive
    BY Zenon, <1>1, PermitsAssumption DEF SemInit
  <2>2. Granted = {}
    BY Zenon, <1>4 DEF Granted
  <2>3. Cardinality(Granted) = 0
    BY Zenon, <2>2 DEF Counting
  <2>4. Conservation
    <3>1. credit = permits + Cardinality(Granted)
      BY <2>1, <2>3
    <3> QED
      BY <3>1 DEF Conservation, Granted
  <2>5. SemOK
    BY <1>1, <1>3, <2>1 DEF SemOK, SemInit
  <2> QED
    BY Zenon, <2>1, <2>4, <2>5 DEF SemInv
<1>9. GroupInv
  <2>1. GroupOK
    BY <1>1, <1>3, WidthAssumption DEF GroupOK, GroupInit, SizeMax
  <2> QED
    BY Zenon, <1>1, <1>4, <2>1 DEF GroupInv, GroupInit
<1>10. ChanInv
  <2>1. ChannelOK
    <3>a. /\ capacity \in Nat /\ head = 0 /\ length = 0
          /\ buffer = [i \in 0..(capacity - 1) |-> None]
      BY Zenon, <1>1, CapacityAssumption DEF ChannelInit
    <3>b. head \in 0..capacity /\ length \in 0..capacity
      BY <3>a
    <3>c. buffer \in [0..(capacity - 1) -> Values \cup {None}]
      BY Zenon, <3>a
    <3>d. closed \in BOOLEAN /\ chanAlive \in BOOLEAN
      BY Zenon, <1>1 DEF ChannelInit
    <3>2. WaitQueue(senders) /\ WaitQueue(receivers)
      BY Zenon, <1>1, <1>3 DEF ChannelInit
    <3>3. /\ value \in [Tasks -> Values \cup {None}] /\ out \in [Tasks -> Values \cup {None}]
          /\ mine \in [Tasks -> Values \cup {None}]
          /\ fate \in [Values -> {"none", "pending", "OK", "CLOSED"}]
      BY Zenon, <1>1 DEF ChannelInit
    <3>4. sent \in 0..MaxSends /\ received \in Seq(Values)
      BY <1>1, CapacityAssumption DEF ChannelInit
    <3> QED
      BY Zenon, <3>a, <3>b, <3>c, <3>d, <3>2, <3>3, <3>4 DEF ChannelOK
  <2>2. length = 0 /\ received = <<>> /\ sent = 0 /\ senders = <<>> /\ receivers = <<>>
        /\ head = 0 /\ capacity \in Nat /\ fate = [v \in Values |-> "none"]
        /\ out = [t \in Tasks |-> None]
    BY Zenon, <1>1, CapacityAssumption DEF ChannelInit
  <2>3. Stored = {}
    <3>1. DOMAIN Contents = {}
      BY <2>2 DEF Contents
    <3> QED
      BY Zenon, <1>3, <2>2, <3>1 DEF Stored, Elems
  <2>4. ASSUME NEW v \in Values PROVE ValueOK(v)
    BY <2>2 DEF ValueOK, Values
  <2>5. ASSUME NEW t \in Tasks PROVE SenderOK(t) /\ ReceiverOK(t)
    BY Zenon, <1>4, <2>2 DEF SenderOK, ReceiverOK
  <2> QED
    BY <2>1, <2>2, <2>3, <2>4, <2>5 DEF ChanInv, WaitsOK
<1> QED
  BY Zenon, <1>2, <1>6, <1>7, <1>8, <1>9, <1>10 DEF IInv

\* Every step keeps the invariant.
LEMMA NextInvariant ==
    ASSUME Counting, IInv, [Next]_vars
    PROVE  IInv'
<1>1. CASE UNCHANGED vars
  <2>1. UNCHANGED <<mutexVars, semVars, groupVars, chanVars>> /\ UNCHANGED taskVars
    BY Zenon, <1>1 DEF vars
  <2>2. UNCHANGED <<mutexWaiters, semWaiters, groupWaiters, senders, receivers>>
    BY Zenon, <2>1 DEF mutexVars, semVars, groupVars, chanVars
  <2>3. TaskInv' /\ Queues' /\ \A C : Untouched(C)
    BY Zenon, <2>1, <2>2, TasksKept
  <2>4. MutexInv' /\ SemInv' /\ GroupInv' /\ ChanInv'
    BY ZenonT(30), <2>1, <2>3, MutexKept, SemKept, GroupKept, ChanKept DEF IInv
  <2> QED
    BY Zenon, <2>3, <2>4 DEF IInv
<1>2. CASE Cancel \/ \E t \in Tasks : Yield(t) \/ Leave(t)
  BY Zenon, <1>2, WorkerStepKeeps
<1> QED
  BY ZenonT(30), <1>1, <1>2, MutexKeeps, SemKeeps, GroupKeeps, ChanKeeps, ResumeStepKeeps
  DEF Next

\* What the invariant says of the tasks that wait, ...
LEMMA NoneForgotten ==
    ASSUME IInv
    PROVE  NoLostWakeup
<1>1. TaskInv /\ Queues /\ MutexInv /\ SemInv /\ GroupInv /\ ChanInv
  BY Zenon DEF IInv
<1>2. ASSUME owner \in Tasks, owner \notin inside PROVE Woken(owner) \/ Dead(owner)
  <2>1. call[owner] = "lock" /\ owner \notin Elems(mutexWaiters)
    BY Zenon, <1>1, <1>2 DEF MutexInv, MutexOK
  <2>2. TaskOK(owner) /\ state[owner] \in {"RUNNABLE", "RUNNING", "WAITING", "CANCELLED"}
    BY Zenon, <1>1, <1>2 DEF TaskInv, TasksOK
  <2>3. ~(state[owner] = "WAITING" /\ ~wakePending[owner])
    BY Zenon, <1>1, <1>2, <2>1 DEF Queues, QueueOf
  <2> QED
    BY Zenon, <2>1, <2>2, <2>3 DEF TaskOK, Woken, Dead
<1>3. HandOver
  BY Zenon, <1>1, <1>2 DEF HandOver, Queues, MutexInv
<1>4. NoIdlePermit /\ NoForgottenWaiter
  BY Zenon, <1>1 DEF NoIdlePermit, NoForgottenWaiter, Queues, SemInv,
     GroupInv
<1>5. senders \o receivers # <<>> => senders # <<>> \/ receivers # <<>>
  OBVIOUS
<1>6. WaitersNeeded
  BY Zenon, <1>1, <1>5 DEF WaitersNeeded, Queues, ChanInv, WaitsOK
<1> QED
  BY Zenon, <1>3, <1>4, <1>6 DEF NoLostWakeup

\* ... of the counts, ...
LEMMA Counted ==
    ASSUME IInv
    PROVE  CountsExact
<1>1. Queues /\ SemInv /\ GroupInv
  BY Zenon DEF IInv
<1>2. ASSUME NEW t \in Tasks, call[t] = "group_wait", Woken(t) PROVE zeroSeen[t]
  <2>1. t \notin Elems(groupWaiters)
    BY Zenon, <1>1, <1>2 DEF Queues, QueueOf
  <2> QED
    BY Zenon, <1>1, <1>2, <2>1 DEF GroupInv
<1> QED
  BY Zenon, <1>1, <1>2 DEF CountsExact, SemInv, GroupInv, ZeroExact

\* ... and of the results of the channel.
LEMMA OutcomesFit ==
    ASSUME IInv
    PROVE  OutcomeTruthful
<1>1. Queues /\ ChanInv
  BY Zenon DEF IInv
<1>2. /\ received \in Seq(Values) /\ Contents \in Seq(Values \cup {None})
      /\ received \in Seq(Values \cup {None})
  BY Zenon, <1>1, ContentsAre, SeqWider DEF ChanInv, ChannelOK
<1>3. Elems(received \o Contents) = Stored
  BY <1>2, JoinedElems DEF Stored
<1>4. ASSUME NEW t \in Tasks, call[t] = "receive", Woken(t)
      PROVE  waitResult[t] = "OK" <=> out[t] # None
  <2>1. t \notin Elems(receivers)
    BY Zenon, <1>1, <1>4 DEF Queues, QueueOf
  <2> QED
    BY Zenon, <1>1, <1>4, <2>1 DEF ChanInv, ReceiverOK
<1> QED
  BY Zenon, <1>1, <1>3, <1>4 DEF OutcomeTruthful, ChanInv, ValueOK

-----------------------------------------------------------------------------
(* Finite sets                                                             *)

F == INSTANCE FiniteSetTheorems

\* Finite sets and their sizes are those that the theorems are about.
LEMMA SameSize ==
    ASSUME NEW S
    PROVE  (F!IsFiniteSet(S) <=> IsFiniteSet(S)) /\ F!Cardinality(S) = Cardinality(S)
BY Zenon DEF F!IsFiniteSet, IsFiniteSet, F!Cardinality, Cardinality

\* Sets of tasks have sizes, as there are finitely many tasks.
LEMMA SizesCount == Counting
<1> SUFFICES ASSUME NEW G \in SUBSET Tasks
             PROVE  /\ Cardinality(G) \in Nat
                    /\ G = {} => Cardinality(G) = 0
                    /\ \A t \in Tasks : t \notin G => Cardinality(G \cup {t}) = Cardinality(G) + 1
                    /\ \A t \in Tasks : t \in G => Cardinality(G \ {t}) = Cardinality(G) - 1
  BY Zenon DEF Counting
<1>1. F!IsFiniteSet(G)
  BY Zenon, TasksAssumption, SameSize, F!FS_Subset
<1>2. F!Cardinality(G) \in Nat
  BY Zenon, <1>1, F!FS_CardinalityType
<1>3. G = {} => F!Cardinality(G) = 0
  BY Zenon, F!FS_EmptySet
<1>4. ASSUME NEW t \in Tasks, t \notin G
      PROVE  F!Cardinality(G \cup {t}) = F!Cardinality(G) + 1
  BY Zenon, <1>1, <1>4, F!FS_AddElement
<1>5. ASSUME NEW t \in Tasks, t \in G
      PROVE  F!Cardinality(G \ {t}) = F!Cardinality(G) - 1
  BY Zenon, <1>1, <1>5, F!FS_RemoveElement
<1> QED
  BY Zenon, <1>2, <1>3, <1>4, <1>5, SameSize

\* The invariant holds in every state.
LEMMA InvariantHolds == Spec => []IInv
<1>1. Init => IInv
  BY Zenon, SizesCount, InitInvariant
<1>2. IInv /\ [Next]_vars => IInv'
  BY Zenon, SizesCount, NextInvariant
<1> QED
  BY <1>1, <1>2, PTL DEF Spec

-----------------------------------------------------------------------------
(* What the primitives promise                                             *)

\* No wakeup is lost, in any of the four primitives: a task waits only in the
\* queue of the object it called, only while that object cannot serve it, and
\* whoever has been served has been woken, even if the wake came while its
\* worker was still on its stack (vl_sync_park_locked, vl_task_wake_locked).
THEOREM NoWakeupLost == Spec => []NoLostWakeup
<1>1. IInv => NoLostWakeup
  BY Zenon, NoneForgotten
<1> QED
  BY <1>1, InvariantHolds, PTL

\* The counts are exact: no permit is made or lost by vl_semaphore_post and
\* vl_semaphore_wait, and the count of vl_wait_group_add is the sum of the
\* accepted deltas at both ends of size_t, so that a wait returns only after
\* that sum has been zero.
THEOREM CountsAreExact == Spec => []CountsExact
<1>1. IInv => CountsExact
  BY Zenon, Counted
<1> QED
  BY <1>1, InvariantHolds, PTL

\* What vl_channel_send and vl_channel_receive return is what happened to the
\* value, however sends, receives, close and destroy are interleaved.
THEOREM OutcomesAreTrue == Spec => []OutcomeTruthful
<1>1. IInv => OutcomeTruthful
  BY Zenon, OutcomesFit
<1> QED
  BY <1>1, InvariantHolds, PTL

\* The task mutex implements the first-in first-out lock: one task holds it at
\* a time, in the order of the vl_task_mutex_lock calls, whatever the tasks do
\* with the other primitives, when they are cancelled and when the mutex is
\* destroyed.
THEOREM MutexIsFifoLock == Spec => LockSpec
<1>1. Init => Lock!Init
  BY Zenon DEF Init, MutexInit, Lock!Init, LockQueue
<1>2. IInv /\ [Next]_vars => [Lock!Next]_(Lock!vars)
  BY ZenonT(30), LockStep
<1> QED
  BY <1>1, <1>2, InvariantHolds, PTL DEF Spec, LockSpec, Lock!Spec

\* The channel implements the first-in first-out queue: every value of a send
\* is received once and in the order of the sends, through the ring buffer, the
\* blocked senders and the waiting receivers, and a close withdraws exactly the
\* values of the senders that are still blocked.
THEOREM ChannelIsFifo == Spec => FifoSpec
<1>1. Init => Fifo!Init
  BY Zenon, FifoStart
<1>2. IInv /\ [Next]_vars => [Fifo!Next]_(Fifo!vars)
  BY Zenon, FifoStep
<1> QED
  BY <1>1, <1>2, InvariantHolds, PTL DEF Spec, FifoSpec, Fifo!Spec
=============================================================================
