---------------------------- MODULE FifoChannel ----------------------------
(***************************************************************************)
(* What a channel promises: the values come out once each and in the order *)
(* in which the sends were made.  A close withdraws the values of the      *)
(* sends that are still blocked, which are the ones beyond the capacity.   *)
(***************************************************************************)
EXTENDS Naturals, Sequences

CONSTANT Values
VARIABLES
    queue,      \* values sent and not received, the oldest first
    received,   \* values in the order in which receivers got them
    closed, capacity

vars == <<queue, received, closed, capacity>>

Init == queue = <<>> /\ received = <<>> /\ closed = FALSE /\ capacity \in Nat

Send(v) == ~closed /\ queue' = Append(queue, v) /\ UNCHANGED <<received, closed>>

\* A receiver was waiting.
Meet(v) ==
    /\ ~closed /\ queue = <<>>
    /\ received' = Append(received, v)
    /\ UNCHANGED <<queue, closed>>

Receive ==
    /\ queue # <<>>
    /\ queue' = Tail(queue) /\ received' = Append(received, Head(queue))
    /\ UNCHANGED closed

Close ==
    /\ ~closed /\ closed' = TRUE
    /\ queue' = IF Len(queue) > capacity THEN SubSeq(queue, 1, capacity) ELSE queue
    /\ UNCHANGED received

Next ==
    /\ Receive \/ Close \/ \E v \in Values : Send(v) \/ Meet(v)
    /\ UNCHANGED capacity

Spec == Init /\ [][Next]_vars
=============================================================================
