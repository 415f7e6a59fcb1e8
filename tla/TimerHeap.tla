------------------------------ MODULE TimerHeap ------------------------------
(***************************************************************************)
(* The binary min-heap of src/time/timer_heap.c.  Positions count from 0,  *)
(* as in the code; every call runs under the runtime mutex and is one      *)
(* action.                                                                 *)
(***************************************************************************)
EXTENDS Naturals, FiniteSets, TLC

CONSTANTS Nodes,            \* the vl_timer_node_t
          Deadlines,        \* the deadlines they are armed with
          FirstCapacity,    \* 16 in the code
          MaxCapacity       \* bound: realloc fails beyond it

VARIABLES items,        \* heap->items[0 .. length - 1]
          capacity,     \* heap->capacity
          due,          \* node->deadline_ns
          active,       \* node->active
          index,        \* node->heap_index
          last          \* the last call that changed the heap, and its node

vars == <<items, capacity, due, active, index, last>>

Length == Cardinality(DOMAIN items)

\* A zeroed heap and zeroed nodes.
Init ==
    /\ items = <<>>
    /\ capacity = 0
    /\ due \in [Nodes -> {CHOOSE d \in Deadlines : \A e \in Deadlines : d <= e}]
    /\ active = [n \in Nodes |-> FALSE]
    /\ index = [n \in Nodes |-> 0]
    /\ last = <<>>

-----------------------------------------------------------------------------
(* Sifting, on a heap h with fields items, index and due                   *)

\* vl_timer_heap_swap
Swap(h, l, r) ==
    [h EXCEPT !.items = [@ EXCEPT ![l] = h.items[r], ![r] = h.items[l]],
              !.index = [@ EXCEPT ![h.items[r]] = l, ![h.items[l]] = r]]

Earlier(h, i, j) == h.due[h.items[i]] < h.due[h.items[j]]

RECURSIVE Up(_, _)
RECURSIVE Down(_, _)

\* vl_timer_heap_up
Up(h, i) ==
    LET parent == (i - 1) \div 2
    IN  IF i = 0 THEN h
        ELSE IF ~Earlier(h, i, parent) THEN h
        ELSE Up(Swap(h, parent, i), parent)

\* The one of positions i and j whose node is due first, if j is in the heap.
First(h, i, j) == IF j \in DOMAIN h.items /\ Earlier(h, j, i) THEN j ELSE i

\* vl_timer_heap_down
Down(h, i) ==
    LET smallest == First(h, First(h, i, 2 * i + 1), 2 * i + 2)
    IN  IF smallest = i THEN h ELSE Down(Swap(h, i, smallest), smallest)

-----------------------------------------------------------------------------

Store(h) == items' = h.items /\ index' = h.index /\ due' = h.due

\* The heap without its last place, whose node takes over place i.
LastMovedTo(i) ==
    LET moved == items[Length - 1]
    IN  [items |-> [k \in 0..(Length - 2) |-> IF k = i THEN moved ELSE items[k]],
         index |-> IF i < Length - 1 THEN [index EXCEPT ![moved] = i] ELSE index,
         due |-> due]

\* The capacity after making room for one more node.
Grown ==
    CASE Length < capacity -> capacity
      [] Length = capacity /\ capacity = 0 -> FirstCapacity
      [] Length = capacity /\ capacity # 0 -> 2 * capacity

\* vl_timer_heap_push of a node whose deadline the caller has just set.
Push(n, d) ==
    /\ ~active[n]
    /\ Grown <= MaxCapacity
    /\ capacity' = Grown
    /\ active' = [active EXCEPT ![n] = TRUE]
    /\ Store(Up([items |-> (Length :> n) @@ items,
                 index |-> [index EXCEPT ![n] = Length],
                 due |-> [due EXCEPT ![n] = d]], Length))
    /\ last' = <<"push", n>>

\* vl_timer_heap_pop
Pop ==
    /\ Length # 0
    /\ active' = [active EXCEPT ![items[0]] = FALSE]
    /\ LET h == LastMovedTo(0)
       IN  Store(IF Length = 1 THEN h ELSE Down(h, 0))
    /\ last' = <<"pop", items[0]>>
    /\ UNCHANGED capacity

\* Mutant: the node moved into the gap only ever sinks.
RemoveSinks(n) ==
    /\ active[n] /\ index[n] < Length
    /\ active' = [active EXCEPT ![n] = FALSE]
    /\ LET h == LastMovedTo(index[n])
       IN  Store(IF index[n] = Length - 1 THEN h ELSE Down(h, index[n]))
    /\ last' = <<"remove", n>>
    /\ UNCHANGED capacity

\* vl_timer_heap_remove: the node moved into the gap rises or sinks.
Remove(n) ==
    /\ active[n] /\ index[n] < Length
    /\ active' = [active EXCEPT ![n] = FALSE]
    /\ LET i == index[n]
           h == LastMovedTo(i)
       IN  Store(CASE i = Length - 1 -> h
                   [] i # Length - 1 /\ i # 0 /\ Earlier(h, i, (i - 1) \div 2) ->
                        Up(h, i)
                   [] OTHER -> Down(h, i))
    /\ last' = <<"remove", n>>
    /\ UNCHANGED capacity

Next == Pop \/ \E n \in Nodes : Remove(n) \/ \E d \in Deadlines : Push(n, d)

Spec == Init /\ [][Next]_vars

-----------------------------------------------------------------------------
(* Properties                                                              *)

\* A heap as the calls expect to find it.  A parent is never due after its
\* child, so items[0], which vl_timers_expire and vl_timers_timeout_ms look at,
\* is due first.  heap_index, which vl_timer_cancel relies on to remove a node
\* that other calls have moved, names the node's place; exactly the active
\* nodes have one.
Legal ==
    /\ items \in [0..(Length - 1) -> Nodes] /\ Length <= capacity
    /\ \A i \in DOMAIN items \ {0} : due[items[(i - 1) \div 2]] <= due[items[i]]
    /\ \A n \in Nodes : active[n] <=> index[n] \in DOMAIN items /\ items[index[n]] = n

\* From a legal heap every call leads to a legal heap, also a remove from the
\* middle, where the last node may have to rise into another subtree; and what
\* it did is the call of the same name of the priority queue.
Queue == INSTANCE TimerQueue WITH queue <- {items[i] : i \in DOMAIN items}
QueueStep == [][Legal /\ Queue!Next /\ Legal']_vars
=============================================================================
