----------------------------- MODULE TimerQueue -----------------------------
(***************************************************************************)
(* What a timer heap promises: a set of armed nodes, from which pop takes  *)
(* one with the earliest deadline and remove takes any given one.          *)
(* TimerHeap implements it; Timer uses it.                                 *)
(***************************************************************************)
EXTENDS Naturals

CONSTANTS Nodes, Deadlines

VARIABLES queue,    \* the nodes in the heap
          due,      \* the deadline of every node
          last      \* the last call and the node it was about

vars == <<queue, due, last>>

Init == queue = {} /\ due \in [Nodes -> Deadlines] /\ last = <<>>

Push(n, d) ==
    /\ n \notin queue
    /\ queue' = queue \cup {n}
    /\ due' = [due EXCEPT ![n] = d]
    /\ last' = <<"push", n>>

Pop(n) ==
    /\ n \in queue
    /\ \A m \in queue : due[n] <= due[m]
    /\ queue' = queue \ {n}
    /\ last' = <<"pop", n>>
    /\ UNCHANGED due

Remove(n) ==
    /\ n \in queue
    /\ queue' = queue \ {n}
    /\ last' = <<"remove", n>>
    /\ UNCHANGED due

Next == \E n \in Nodes : Pop(n) \/ Remove(n) \/ \E d \in Deadlines : Push(n, d)

Spec == Init /\ [][Next]_vars
=============================================================================
