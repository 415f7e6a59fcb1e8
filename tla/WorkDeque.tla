----------------------------- MODULE WorkDeque -----------------------------
(***************************************************************************)
(* What a P-local run queue promises: a bounded double-ended queue whose   *)
(* owner pushes and pops at the back and whose thieves take from the       *)
(* front, every operation atomic.  RunQueue implements it.                 *)
(***************************************************************************)
EXTENDS Naturals, Sequences

CONSTANTS Capacity,   \* slots of the queue
          Items,      \* tasks that may be queued
          Thieves,    \* workers that steal
          Owner       \* the worker that owns the queue

Actors == Thieves \cup {Owner}

VARIABLES queue,      \* front (oldest) to back (newest)
          hands       \* hands[a]: the items actor a holds outside the queue

vars == <<queue, hands>>

Init ==
    /\ queue = <<>>
    /\ hands = [a \in Actors |-> IF a = Owner THEN Items ELSE {}]

\* The owner publishes an item at the back of a queue that is not full.
Push(x) ==
    /\ x \in hands[Owner]
    /\ Len(queue) < Capacity
    /\ queue' = Append(queue, x)
    /\ hands' = [hands EXCEPT ![Owner] = @ \ {x}]

\* The owner takes the newest item.
Pop ==
    /\ queue # <<>>
    /\ queue' = SubSeq(queue, 1, Len(queue) - 1)
    /\ hands' = [hands EXCEPT ![Owner] = @ \cup {queue[Len(queue)]}]

\* A thief takes the oldest item.
Steal(t) ==
    /\ queue # <<>>
    /\ queue' = Tail(queue)
    /\ hands' = [hands EXCEPT ![t] = @ \cup {Head(queue)}]

\* A stolen item comes back to the owner's side.
Return(t, x) ==
    /\ x \in hands[t]
    /\ hands' = [hands EXCEPT ![t] = @ \ {x}, ![Owner] = @ \cup {x}]
    /\ UNCHANGED queue

Next ==
    \/ \E x \in Items : Push(x)
    \/ Pop
    \/ \E t \in Thieves : Steal(t) \/ \E x \in Items : Return(t, x)

Spec == Init /\ [][Next]_vars
=============================================================================
