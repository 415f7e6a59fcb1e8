------------------------------- MODULE MCTimer -------------------------------
(***************************************************************************)
(* The timers of a few tasks, and beside them (part "heap") one call on    *)
(* every legal heap of up to MaxLength nodes.  Tasks, workers and handles  *)
(* are numbered from 1 and interchangeable: the first task is on the first *)
(* worker and arms the first handle.  Node i is the one at place i before  *)
(* the call; the nodes that are not in the heap come after.                *)
(***************************************************************************)
EXTENDS Timer, TLC

CONSTANTS Nodes, Deadlines, FirstCapacity, MaxCapacity, MaxLength

VARIABLES part,
          items, capacity, nodeDue, nodeActive, index, last

heapVars == <<items, capacity, nodeDue, nodeActive, index, last>>
allVars == <<vars, part, heapVars>>

Heap == INSTANCE TimerHeap WITH due <- nodeDue, active <- nodeActive

\* Every legal heap, up to the names of the nodes.
AnyHeap ==
    /\ capacity \in {0} \cup {FirstCapacity * 2^k : k \in 0..2}
    /\ \E len \in 0..MaxLength : /\ items = [i \in 0..(len - 1) |-> i]
                                 /\ nodeActive = [i \in Nodes |-> i < len]
    /\ nodeDue \in {d \in [Nodes -> Deadlines] : \A i \in Nodes \ DOMAIN items : d[i] = 1}
    /\ index = [i \in Nodes |-> i]
    /\ last = <<>>
    /\ Heap!Legal

MCInit ==
    /\ Init /\ home[1] = 1 /\ armer[1] = 1
    /\ \/ part = "timers" /\ Heap!Init
       \/ part = "heap" /\ home = [t \in Tasks |-> 1] /\ armer = [m \in Timers |-> 1] /\ AnyHeap

MCNext ==
    \/ part = "timers" /\ Next /\ UNCHANGED <<part, heapVars>>
    \/ part = "heap" /\ part' = "done" /\ Heap!Next /\ UNCHANGED vars

MCSpec == MCInit /\ [][MCNext]_allVars /\ (part = "timers" => Fairness)

\* The heap implements the steps of the priority queue (TimerHeap!QueueStep).
QueueStep == Heap!QueueStep
=============================================================================
