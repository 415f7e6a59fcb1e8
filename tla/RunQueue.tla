------------------------------ MODULE RunQueue ------------------------------
(***************************************************************************)
(* The Chase-Lev deque of src/runtime/run_queue.c, one action per access   *)
(* to the shared words top, bottom and slots[].  Only the owner writes     *)
(* bottom and slots, so a load of those by the owner is merged with the    *)
(* step that follows it.  Locals of a call that has returned are reset.    *)
(* Indices stop at MaxIndex, standing for the 64-bit range of size_t; the  *)
(* slot of index i is i & mask, which is i % Capacity since Capacity is a  *)
(* power of two.                                                           *)
(***************************************************************************)
EXTENDS Integers, Sequences

CONSTANTS Capacity,   \* queue->capacity
          Items,      \* the tasks that pass through the queue
          Thieves,    \* workers that steal from this queue
          Owner,      \* the worker that owns it
          BatchMax,   \* VL_STEAL_BATCH_MAX
          MaxIndex,   \* bound: no push beyond this index (SIZE_MAX in the code)
          NoItem      \* the NULL pointer

ASSUME CapacityAssumption == Capacity \in Nat /\ Capacity >= 2
ASSUME BatchAssumption == BatchMax \in Nat /\ BatchMax >= 1
ASSUME MaxIndexAssumption == MaxIndex \in Nat
ASSUME ActorAssumption == Owner \notin Thieves
ASSUME NoItemAssumption == NoItem \notin Items

Actors == Thieves \cup {Owner}
Idx(i) == i % Capacity

VARIABLES
    top, bottom, slots,   \* the shared words
    opc, ob, ot, oitem,   \* owner: place in the code; locals bottom, top, item
    tpc, ttop, titem,     \* thieves: place in the code; locals top, item
    count,                \* thieves: local count of steal_batch
    hands                 \* items each actor holds outside the queue

ownerVars == <<opc, ob, ot, oitem>>
thiefVars == <<tpc, ttop, titem, count>>
vars == <<top, bottom, slots, ownerVars, thiefVars, hands>>

OwnerPcs == {"idle", "push_check", "push_publish",
             "pop_top", "pop_empty", "pop_cas", "pop_fix"}
ThiefPcs == {"idle", "top", "bottom", "slot", "cas"}

\* vl_run_queue_init: empty, both indices zero.
Init ==
    /\ top = 0 /\ bottom = 0
    /\ slots = [i \in 0..(Capacity - 1) |-> NoItem]
    /\ opc = "idle" /\ ob = 0 /\ ot = 0 /\ oitem = NoItem
    /\ tpc = [t \in Thieves |-> "idle"]
    /\ ttop = [t \in Thieves |-> 0]
    /\ titem = [t \in Thieves |-> NoItem]
    /\ count = [t \in Thieves |-> 0]
    /\ hands = [a \in Actors |-> IF a = Owner THEN Items ELSE {}]

Take(a, x) == hands' = [hands EXCEPT ![a] = @ \cup {x}]

OwnerReturn == opc' = "idle" /\ ob' = 0 /\ ot' = 0 /\ oitem' = NoItem

\* Thief t leaves vl_run_queue_steal for place pc.
StealReturn(t, pc) ==
    /\ tpc' = [tpc EXCEPT ![t] = pc]
    /\ ttop' = [ttop EXCEPT ![t] = 0]
    /\ titem' = [titem EXCEPT ![t] = NoItem]

-----------------------------------------------------------------------------
(* vl_run_queue_owner_push                                                 *)

\* Load bottom, then top.
PushLoad(x) ==
    /\ opc = "idle"
    /\ x \in hands[Owner]
    /\ bottom < MaxIndex
    /\ ob' = bottom /\ ot' = top /\ oitem' = x
    /\ opc' = "push_check"
    /\ UNCHANGED <<top, bottom, slots, thiefVars, hands>>

\* The loaded bottom and top leave no room: VL_ERROR_WOULD_BLOCK.
PushRefuse ==
    /\ opc = "push_check"
    /\ ob - ot >= Capacity
    /\ OwnerReturn
    /\ UNCHANGED <<top, bottom, slots, thiefVars, hands>>

\* Store the item into its slot; thieves cannot see it yet.
PushStore ==
    /\ opc = "push_check"
    /\ ob - ot < Capacity
    /\ slots' = [slots EXCEPT ![Idx(ob)] = oitem]
    /\ opc' = "push_publish"
    /\ UNCHANGED <<top, bottom, ob, ot, oitem, thiefVars, hands>>

\* Store bottom + 1: the item is now in the queue.
PushPublish ==
    /\ opc = "push_publish"
    /\ bottom' = ob + 1
    /\ hands' = [hands EXCEPT ![Owner] = @ \ {oitem}]
    /\ OwnerReturn
    /\ UNCHANGED <<top, slots, thiefVars>>

-----------------------------------------------------------------------------
(* vl_run_queue_owner_pop (with bottom = 0 it returns NULL at once)        *)

\* Speculatively store bottom - 1.
PopReserve ==
    /\ opc = "idle"
    /\ bottom # 0
    /\ ob' = bottom - 1
    /\ bottom' = bottom - 1
    /\ opc' = "pop_top"
    /\ UNCHANGED <<top, slots, ot, oitem, thiefVars, hands>>

\* Mutant: the last item is taken without racing the thieves for it.
PopReadTopNoRace ==
    /\ opc = "pop_top"
    /\ \/ /\ top > ob
          /\ ot' = top
          /\ opc' = "pop_empty"
          /\ UNCHANGED <<ob, oitem, hands>>
       \/ /\ top <= ob
          /\ Take(Owner, slots[Idx(ob)])
          /\ OwnerReturn
    /\ UNCHANGED <<top, bottom, slots, thiefVars>>

\* Load top.  Above bottom: empty.  Equal: the last item, raced for with a
\* CAS.  Below: the reserved item is the owner's.
PopReadTop ==
    /\ opc = "pop_top"
    /\ \/ /\ top > ob
          /\ ot' = top
          /\ opc' = "pop_empty"
          /\ UNCHANGED <<ob, oitem, hands>>
       \/ /\ top = ob
          /\ ot' = top
          /\ oitem' = slots[Idx(ob)]
          /\ opc' = "pop_cas"
          /\ UNCHANGED <<ob, hands>>
       \/ /\ top < ob
          /\ Take(Owner, slots[Idx(ob)])
          /\ OwnerReturn
    /\ UNCHANGED <<top, bottom, slots, thiefVars>>

\* Nothing to pop: put bottom back.
PopEmpty ==
    /\ opc = "pop_empty"
    /\ bottom' = ot
    /\ OwnerReturn
    /\ UNCHANGED <<top, slots, thiefVars, hands>>

\* Compare-and-swap top for the last item; losing means a thief has it.
PopCas ==
    /\ opc = "pop_cas"
    /\ \/ /\ top = ot
          /\ top' = ot + 1
          /\ Take(Owner, oitem)
       \/ /\ top # ot
          /\ UNCHANGED <<top, hands>>
    /\ opc' = "pop_fix"
    /\ UNCHANGED <<bottom, slots, ob, ot, oitem, thiefVars>>

\* Either way the queue is empty: store bottom = top + 1.
PopFix ==
    /\ opc = "pop_fix"
    /\ bottom' = ot + 1
    /\ OwnerReturn
    /\ UNCHANGED <<top, slots, thiefVars, hands>>

-----------------------------------------------------------------------------
(* vl_run_queue_steal, called in the loop of vl_run_queue_steal_batch      *)

\* steal_batch starts with an empty batch.
BatchBegin(t) ==
    /\ tpc[t] = "idle"
    /\ tpc' = [tpc EXCEPT ![t] = "top"]
    /\ count' = [count EXCEPT ![t] = 0]
    /\ UNCHANGED <<top, bottom, slots, ownerVars, ttop, titem, hands>>

\* Load top.
StealTop(t) ==
    /\ tpc[t] = "top"
    /\ ttop' = [ttop EXCEPT ![t] = top]
    /\ tpc' = [tpc EXCEPT ![t] = "bottom"]
    /\ UNCHANGED <<top, bottom, slots, ownerVars, titem, count, hands>>

\* Load bottom; an empty queue ends the batch.
StealBottom(t) ==
    /\ tpc[t] = "bottom"
    /\ \/ /\ ttop[t] >= bottom
          /\ StealReturn(t, "idle")
       \/ /\ ttop[t] < bottom
          /\ tpc' = [tpc EXCEPT ![t] = "slot"]
          /\ UNCHANGED <<ttop, titem>>
    /\ UNCHANGED <<top, bottom, slots, ownerVars, count, hands>>

\* Load the slot.  The owner may overwrite it before the CAS.
StealSlot(t) ==
    /\ tpc[t] = "slot"
    /\ titem' = [titem EXCEPT ![t] = slots[Idx(ttop[t])]]
    /\ tpc' = [tpc EXCEPT ![t] = "cas"]
    /\ UNCHANGED <<top, bottom, slots, ownerVars, ttop, count, hands>>

\* Mutant: top is stored without checking that nobody moved it.
StealCasBlind(t) ==
    /\ tpc[t] = "cas"
    /\ top' = ttop[t] + 1
    /\ Take(t, titem[t])
    /\ count' = [count EXCEPT ![t] = @ + 1]
    /\ StealReturn(t, IF count[t] + 1 < BatchMax THEN "top" ELSE "idle")
    /\ UNCHANGED <<bottom, slots, ownerVars>>

\* Compare-and-swap top.  A win yields the item and goes on with the batch
\* until it is full; a loss returns NULL and ends the batch.
StealCas(t) ==
    /\ tpc[t] = "cas"
    /\ \/ /\ top = ttop[t]
          /\ top' = ttop[t] + 1
          /\ Take(t, titem[t])
          /\ count' = [count EXCEPT ![t] = @ + 1]
          /\ StealReturn(t, IF count[t] + 1 < BatchMax THEN "top" ELSE "idle")
       \/ /\ top # ttop[t]
          /\ StealReturn(t, "idle")
          /\ UNCHANGED <<top, count, hands>>
    /\ UNCHANGED <<bottom, slots, ownerVars>>

\* A stolen task is stolen back or otherwise queued here again, so the same
\* pointer may travel through the queue many times.
Return(t, x) ==
    /\ tpc[t] = "idle"
    /\ x \in hands[t]
    /\ hands' = [hands EXCEPT ![t] = @ \ {x}, ![Owner] = @ \cup {x}]
    /\ UNCHANGED <<top, bottom, slots, ownerVars, thiefVars>>

OwnerStep ==
    \/ \E x \in Items : PushLoad(x)
    \/ PushRefuse \/ PushStore \/ PushPublish
    \/ PopReserve \/ PopReadTop \/ PopEmpty \/ PopCas \/ PopFix

ThiefStep(t) ==
    \/ BatchBegin(t) \/ StealTop(t) \/ StealBottom(t)
    \/ StealSlot(t) \/ StealCas(t)
    \/ \E x \in Items : Return(t, x)

Next == OwnerStep \/ \E t \in Thieves : ThiefStep(t)

Spec == Init /\ [][Next]_vars

-----------------------------------------------------------------------------
(* Properties                                                              *)

\* Values of the shared words and of every local.
TypeOK ==
    /\ top \in Nat /\ bottom \in Nat
    /\ slots \in [0..(Capacity - 1) -> Items \cup {NoItem}]
    /\ opc \in OwnerPcs /\ ob \in Nat /\ ot \in Nat
    /\ oitem \in Items \cup {NoItem}
    /\ tpc \in [Thieves -> ThiefPcs]
    /\ ttop \in [Thieves -> Nat]
    /\ titem \in [Thieves -> Items \cup {NoItem}]
    /\ count \in [Thieves -> Nat]
    /\ hands \in [Actors -> SUBSET Items]

\* While a pop has lowered bottom but not yet decided, its item still counts.
Limit == IF opc \in {"pop_top", "pop_cas"} THEN bottom + 1 ELSE bottom
Live == {i \in top..Limit : i < Limit}
Content == {slots[Idx(i)] : i \in Live}

\* No task is handed out twice: queued tasks sit in distinct slots, no actor
\* holds a queued task, and no two actors hold the same one, whatever the
\* interleaving of owner pops, pushes that wrap around, and thieves that
\* race for the last item.
NoDuplicate ==
    /\ \A i, j \in Live : slots[Idx(i)] = slots[Idx(j)] => i = j
    /\ \A a \in Actors : hands[a] \cap Content = {}
    /\ \A a, b \in Actors : a # b => hands[a] \cap hands[b] = {}

\* No task is lost: each one is queued or in somebody's hands.
NoLoss == Items \subseteq Content \cup UNION {hands[a] : a \in Actors}

\* Pops and steals hand out each task exactly once ("exactly-once",
\* tests/test_queue.c), whatever their interleaving: see NoDuplicate, NoLoss.
HandedOnce == NoDuplicate /\ NoLoss

\* The indices bound the content: never more than Capacity items, and top
\* passes bottom only inside a pop that is about to repair it.  The unsigned
\* difference bottom - top that owner_push computes therefore never
\* underflows.
IndexBounds ==
    /\ Limit <= top + Capacity
    /\ top > Limit => opc \in {"pop_empty", "pop_fix"} /\ top = bottom + 1
    /\ opc = "push_check" => ot <= ob

\* A thief whose compare-and-swap is about to succeed holds the task that is
\* at the front now: the slot it read earlier was not recycled meanwhile.
NoStaleSteal ==
    \A t \in Thieves :
        tpc[t] = "cas" /\ top = ttop[t] /\ top < Limit =>
            titem[t] = slots[Idx(top)]

\* A steal that is about to win takes an item that is really queued: top
\* never passes an item the owner has taken through the fast path.
StealTakesQueued ==
    \A t \in Thieves : tpc[t] = "cas" /\ top = ttop[t] => top < Limit

\* The live slots from top on, as a sequence.
Length == IF top < Limit THEN Limit - top ELSE 0
Queued == [k \in 1..Length |-> slots[Idx(top + k - 1)]]

\* The deque behaves as an atomic one: owner at the back, thieves at the front.
Deque == INSTANCE WorkDeque WITH queue <- Queued
DequeSpec == Deque!Spec
=============================================================================
