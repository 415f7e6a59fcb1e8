------------------------------ MODULE FifoLock ------------------------------
(***************************************************************************)
(* What a task mutex promises: the tasks that ask for the lock hold it one *)
(* at a time and in the order in which they asked.                         *)
(***************************************************************************)
EXTENDS Sequences

CONSTANT Tasks
VARIABLES
    queue,      \* who has asked and not released, in order
    inside      \* who has been told that it holds the lock

vars == <<queue, inside>>

Init == queue = <<>> /\ inside = {}

\* t asks for the lock; an idle lock is granted in the same step.
Ask(t) ==
    /\ \A i \in DOMAIN queue : queue[i] # t
    /\ queue' = Append(queue, t)
    /\ inside' = IF queue = <<>> THEN {t} ELSE inside

\* The first in the queue is told.
Enter(t) ==
    /\ inside = {} /\ queue # <<>> /\ t = Head(queue)
    /\ inside' = {t}
    /\ UNCHANGED queue

Release(t) ==
    /\ inside = {t}
    /\ queue' = Tail(queue) /\ inside' = {}

Next == \E t \in Tasks : Ask(t) \/ Enter(t) \/ Release(t)

Spec == Init /\ [][Next]_vars
=============================================================================
