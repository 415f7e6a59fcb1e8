--------------------------- MODULE RunQueueProofs ---------------------------
(***************************************************************************)
(* Proofs about the run queue for every capacity, set of items, set of     *)
(* thieves, batch size and number of pushes.                               *)
(***************************************************************************)
EXTENDS RunQueue, SequenceTheorems, TLAPS

-----------------------------------------------------------------------------
(* Slot indices                                                            *)

\* A slot index lies inside the array.
LEMMA IdxRange ==
  ASSUME NEW i \in Nat
  PROVE  Idx(i) \in 0..(Capacity - 1)
BY CapacityAssumption DEF Idx

\* Indices less than Capacity apart fall into different slots.
LEMMA IdxInjective ==
  ASSUME NEW i \in Nat, NEW j \in Nat, i < j, j < i + Capacity
  PROVE  Idx(i) # Idx(j)
<1> DEFINE C == Capacity
           p == i \div C
           q == j \div C
<1>0. C \in Nat /\ C > 0
  BY CapacityAssumption
<1>1. p \in Int /\ q \in Int /\ i = C * p + (i % C) /\ j = C * q + (j % C)
  BY <1>0
<1>2. SUFFICES ASSUME i % C = j % C PROVE FALSE
  BY Zenon DEF Idx
<1>3. j - i = C * q - C * p
  BY <1>0, <1>1, <1>2
<1> HIDE DEF C, p, q
<1>4. CASE q <= p
  <2>1. C * q <= C * p
    BY <1>0, <1>1, <1>4
  <2> QED BY <1>0, <1>1, <1>3, <2>1
<1>5. CASE q >= p + 1
  <2>1. C * q >= C * (p + 1)
    BY <1>0, <1>1, <1>5
  <2>2. C * (p + 1) = C * p + C
    BY <1>0, <1>1
  <2> QED BY <1>0, <1>1, <1>3, <2>1, <2>2 DEF C
<1> QED BY <1>1, <1>4, <1>5

-----------------------------------------------------------------------------
(* The inductive invariant                                                 *)

\* What each place of the owner's code knows about the indices.
OwnerShape ==
    /\ opc = "idle" => top <= bottom /\ bottom <= top + Capacity
    /\ opc = "push_check" =>
         /\ ob = bottom /\ ot <= top /\ top <= bottom
         /\ bottom <= top + Capacity /\ oitem \in hands[Owner]
    /\ opc = "push_publish" =>
         /\ ob = bottom /\ top <= bottom /\ bottom < top + Capacity
         /\ oitem \in hands[Owner] /\ slots[Idx(bottom)] = oitem
    /\ opc = "pop_top" =>
         ob = bottom /\ top <= bottom + 1 /\ bottom < top + Capacity
    /\ opc = "pop_empty" => ob = bottom /\ ot = top /\ top = bottom + 1
    /\ opc = "pop_cas" =>
         /\ ob = bottom /\ ot = bottom /\ top \in {bottom, bottom + 1}
         /\ oitem = slots[Idx(bottom)]
    /\ opc = "pop_fix" => ob = bottom /\ ot = bottom /\ top = bottom + 1

\* What a thief's loaded top, and the item it read, still mean.
ThiefShape ==
    \A t \in Thieves :
        /\ tpc[t] \in {"bottom", "slot", "cas"} => ttop[t] <= top
        /\ tpc[t] \in {"slot", "cas"} /\ ttop[t] = top => top < Limit
        /\ tpc[t] = "cas" /\ ttop[t] = top => titem[t] = slots[Idx(top)]

\* Every index between top and Limit holds a task.
LiveFilled == \A i \in Live : slots[Idx(i)] \in Items

\* Every item is in exactly one place.
Custody == LiveFilled /\ NoDuplicate /\ NoLoss

IInv == TypeOK /\ OwnerShape /\ ThiefShape /\ Custody

-----------------------------------------------------------------------------
(* Steps that keep, add or remove one queued item                          *)

\* Custody depends only on which slots are live, on them and on hands.
LEMMA CustodySame ==
  ASSUME Custody, Live' = Live, hands' = hands,
         \A i \in Live : slots'[Idx(i)] = slots[Idx(i)]
  PROVE  Custody'
<1>1. Content' = Content
  BY Zenon DEF Content
<1> QED BY <1>1 DEF Custody, LiveFilled, NoDuplicate, NoLoss

\* An actor that takes the item of live index k, which stops being live.
LEMMA CustodyTake ==
  ASSUME Custody, NEW a \in Actors, NEW k \in Live,
         hands \in [Actors -> SUBSET Items],
         Live' = Live \ {k}, slots' = slots,
         hands' = [hands EXCEPT ![a] = @ \cup {slots[Idx(k)]}]
  PROVE  Custody'
<1> DEFINE x == slots[Idx(k)]
<1>1. Content = Content' \cup {x} /\ x \notin Content'
  BY DEF Content, Custody, NoDuplicate
<1>2. x \in Items
  BY Zenon DEF Custody, LiveFilled
<1>3. \A b \in Actors : x \notin hands[b]
  BY Zenon, <1>1 DEF Custody, NoDuplicate
<1>4. hands'[a] = hands[a] \cup {x} /\ \A b \in Actors \ {a} : hands'[b] = hands[b]
  BY Zenon
<1>5. LiveFilled'
  BY Zenon DEF Custody, LiveFilled
<1>6. NoDuplicate'
  <2>1. \A i, j \in Live' : slots'[Idx(i)] = slots'[Idx(j)] => i = j
    BY Zenon DEF Custody, NoDuplicate
  <2>2. \A b \in Actors : hands'[b] \cap Content' = {}
    BY <1>1, <1>4 DEF Custody, NoDuplicate
  <2>3. \A b, c \in Actors : b # c => hands'[b] \cap hands'[c] = {}
    BY <1>3, <1>4 DEF Custody, NoDuplicate
  <2> QED BY Zenon, <2>1, <2>2, <2>3 DEF NoDuplicate
<1>7. NoLoss'
  <2> SUFFICES ASSUME NEW y \in Items, y \notin Content'
               PROVE  \E b \in Actors : y \in hands'[b]
    BY Zenon DEF NoLoss
  <2>1. CASE y = x
    BY Zenon, <2>1, <1>4
  <2>2. CASE y # x
    BY <2>2, <1>1, <1>4 DEF Custody, NoLoss
  <2> QED BY Zenon, <2>1, <2>2
<1> QED BY Zenon, <1>5, <1>6, <1>7 DEF Custody

\* The owner that makes index k live gives up the item stored there.
LEMMA CustodyGive ==
  ASSUME Custody, NEW k, k \notin Live, NEW x \in hands[Owner],
         hands \in [Actors -> SUBSET Items],
         Live' = Live \cup {k}, slots' = slots, slots[Idx(k)] = x,
         hands' = [hands EXCEPT ![Owner] = @ \ {x}]
  PROVE  Custody'
<1>0. Owner \in Actors
  BY Zenon DEF Actors
<1>1. Content' = Content \cup {x} /\ x \notin Content /\ x \in Items
  BY <1>0 DEF Content, Custody, NoDuplicate
<1>2. hands'[Owner] = hands[Owner] \ {x} /\ \A b \in Actors \ {Owner} : hands'[b] = hands[b]
  BY Zenon, <1>0
<1>3. \A b \in Actors \ {Owner} : x \notin hands[b]
  BY Zenon, <1>0 DEF Custody, NoDuplicate
<1>4. LiveFilled'
  BY Zenon, <1>1 DEF Custody, LiveFilled
<1>5. NoDuplicate'
  <2>1. \A i \in Live : slots[Idx(i)] # x
    BY Zenon, <1>1 DEF Content
  <2>2. \A i, j \in Live' : slots'[Idx(i)] = slots'[Idx(j)] => i = j
    BY Zenon, <2>1 DEF Custody, NoDuplicate
  <2>3. \A b \in Actors : hands'[b] \cap Content' = {}
    BY <1>1, <1>2, <1>3 DEF Custody, NoDuplicate
  <2>4. \A b, c \in Actors : b # c => hands'[b] \cap hands'[c] = {}
    BY <1>2 DEF Custody, NoDuplicate
  <2> QED BY Zenon, <2>2, <2>3, <2>4 DEF NoDuplicate
<1>6. NoLoss'
  BY <1>0, <1>1, <1>2 DEF Custody, NoLoss
<1> QED BY Zenon, <1>4, <1>5, <1>6 DEF Custody

-----------------------------------------------------------------------------
(* Types                                                                   *)

\* Leaving vl_run_queue_steal keeps the types of the thieves' locals.
LEMMA StealReturnType ==
  ASSUME TypeOK, NEW t \in Thieves, NEW pc \in ThiefPcs, StealReturn(t, pc)
  PROVE  /\ tpc' \in [Thieves -> ThiefPcs] /\ ttop' \in [Thieves -> Nat]
         /\ titem' \in [Thieves -> Items \cup {NoItem}]
BY Zenon DEF TypeOK, StealReturn

\* So does handing an item to an actor.
LEMMA TakeType ==
  ASSUME TypeOK, NEW a \in Actors, NEW x \in Items, Take(a, x)
  PROVE  hands' \in [Actors -> SUBSET Items]
BY Zenon DEF TypeOK, Take

\* Every step keeps the types; popping needs that live slots hold tasks and
\* that an unsigned decrement starts above zero.
LEMMA TypeStep ==
  ASSUME IInv, [Next]_vars
  PROVE  TypeOK'
<1> USE CapacityAssumption, BatchAssumption DEF Actors
<1>0. /\ TypeOK
      /\ \A i \in Nat : slots[Idx(i)] \in Items \cup {NoItem}
  BY Zenon, IdxRange DEF IInv, TypeOK
<1>1. ASSUME NEW x \in Items, PushLoad(x) PROVE TypeOK'
  BY Zenon, <1>0, <1>1 DEF TypeOK, PushLoad, thiefVars, OwnerPcs
<1>2. CASE PushRefuse
  BY Zenon, <1>0, <1>2 DEF TypeOK, PushRefuse, OwnerReturn, thiefVars, OwnerPcs
<1>3. CASE PushStore
  BY ZenonT(30), <1>0, <1>3 DEF TypeOK, PushStore, thiefVars, OwnerPcs
<1>4. CASE PushPublish
  BY <1>0, <1>4 DEF TypeOK, PushPublish, OwnerReturn, thiefVars, OwnerPcs
<1>5. CASE PopReserve
  BY <1>0, <1>5 DEF TypeOK, PopReserve, thiefVars, OwnerPcs
<1>6. CASE PopReadTop
  <2>1. CASE top >= ob
    BY SMTT(30), <1>0, <1>6, <2>1 DEF TypeOK, PopReadTop, thiefVars, OwnerPcs
  <2>2. CASE top < ob
    <3>1. ob = bottom /\ ob \in Live
      BY SMTT(30), <1>0, <1>6, <2>2
         DEF IInv, OwnerShape, Live, Limit, TypeOK, PopReadTop
    <3>2. slots[Idx(ob)] \in Items
      BY Zenon, <3>1 DEF IInv, Custody, LiveFilled
    <3> QED
      BY <1>0, <1>6, <2>2, <3>2
         DEF TypeOK, PopReadTop, Take, OwnerReturn, thiefVars, OwnerPcs
  <2> QED BY <1>0, <2>1, <2>2 DEF TypeOK
<1>7. CASE PopEmpty
  BY Zenon, <1>0, <1>7 DEF TypeOK, PopEmpty, OwnerReturn, thiefVars, OwnerPcs
<1>8. CASE PopCas
  <2>1. CASE top = ot
    <3>1. ob \in Live /\ oitem = slots[Idx(ob)]
      BY <1>0, <1>8, <2>1 DEF IInv, OwnerShape, Live, Limit, TypeOK, PopCas
    <3>2. oitem \in Items
      BY Zenon, <3>1 DEF IInv, Custody, LiveFilled
    <3> QED
      BY SMTT(30), <1>0, <1>8, <2>1, <3>2
         DEF TypeOK, PopCas, Take, thiefVars, OwnerPcs
  <2>2. CASE top # ot
    BY Zenon, SMTT(30), <1>0, <1>8, <2>2
    DEF TypeOK, PopCas, thiefVars, OwnerPcs
  <2> QED BY Zenon, <2>1, <2>2
<1>9. CASE PopFix
  BY <1>0, <1>9 DEF TypeOK, PopFix, OwnerReturn, thiefVars, OwnerPcs
<1>10. ASSUME NEW t \in Thieves, BatchBegin(t) PROVE TypeOK'
  BY Zenon, <1>0, <1>10 DEF TypeOK, BatchBegin, ownerVars, ThiefPcs
<1>11. ASSUME NEW t \in Thieves, StealTop(t) PROVE TypeOK'
  BY Zenon, <1>0, <1>11 DEF TypeOK, StealTop, ownerVars, ThiefPcs
<1>12. ASSUME NEW t \in Thieves, StealBottom(t) PROVE TypeOK'
  <2>1. CASE StealReturn(t, "idle")
    BY Zenon, <1>0, <1>12, <2>1, StealReturnType
       DEF TypeOK, StealBottom, ownerVars, ThiefPcs
  <2>2. CASE ~StealReturn(t, "idle")
    BY ZenonT(30), <1>0, <1>12, <2>2
       DEF TypeOK, StealBottom, ownerVars, ThiefPcs
  <2> QED BY Zenon, <2>1, <2>2
<1>13. ASSUME NEW t \in Thieves, StealSlot(t) PROVE TypeOK'
  BY Zenon, <1>0, <1>13 DEF TypeOK, StealSlot, ownerVars, ThiefPcs
<1>14. ASSUME NEW t \in Thieves, StealCas(t) PROVE TypeOK'
  <2>1. CASE top = ttop[t]
    <3>1. top \in Live /\ titem[t] = slots[Idx(top)]
      BY <1>0, <1>14, <2>1 DEF IInv, ThiefShape, Live, Limit, TypeOK, StealCas
    <3>2. titem[t] \in Items
      BY Zenon, <3>1 DEF IInv, Custody, LiveFilled
    <3>3. PICK pc \in ThiefPcs : StealReturn(t, pc)
      BY Zenon, <1>14, <2>1 DEF StealCas, ThiefPcs
    <3>4. count' \in [Thieves -> Nat] /\ top' \in Nat
      BY SMTT(30), <1>0, <1>14, <2>1 DEF TypeOK, StealCas
    <3>5. hands' \in [Actors -> SUBSET Items]
      BY ZenonT(30), <1>0, <1>14, <2>1, <3>2, TakeType DEF StealCas
    <3> QED
      BY Zenon, <1>0, <1>14, <3>3, <3>4, <3>5, StealReturnType
         DEF TypeOK, StealCas, ownerVars
  <2>2. CASE top # ttop[t]
    <3>1. StealReturn(t, "idle") /\ UNCHANGED <<top, count, hands>>
      BY Zenon, <1>14, <2>2 DEF StealCas
    <3> QED
      BY Zenon, <1>0, <1>14, <3>1, StealReturnType
         DEF TypeOK, StealCas, ownerVars, ThiefPcs
  <2> QED BY Zenon, <2>1, <2>2
<1>15. ASSUME NEW t \in Thieves, NEW x \in Items, Return(t, x) PROVE TypeOK'
  BY ZenonT(30), <1>0, <1>15 DEF TypeOK, Return, ownerVars, thiefVars
<1>16. CASE UNCHANGED vars
  BY Zenon, <1>0, <1>16 DEF TypeOK, vars, ownerVars, thiefVars
<1> QED
  BY Zenon, <1>1, <1>2, <1>3, <1>4, <1>5, <1>6, <1>7, <1>8, <1>9, <1>10, <1>11,
     <1>12, <1>13, <1>14, <1>15, <1>16 DEF Next, OwnerStep, ThiefStep

-----------------------------------------------------------------------------
(* Custody                                                                 *)

\* Every step leaves each item in exactly one place.
LEMMA CustodyStep ==
  ASSUME IInv, [Next]_vars
  PROVE  Custody'
<1> USE CapacityAssumption
<1>0. TypeOK /\ OwnerShape /\ ThiefShape /\ Custody
      /\ hands \in [Actors -> SUBSET Items]
      /\ top \in Nat /\ bottom \in Nat
  BY Zenon DEF IInv, TypeOK
<1>a. ASSUME UNCHANGED <<slots, hands>>, Live' = Live PROVE Custody'
  BY Zenon, <1>0, <1>a, CustodySame
<1>1. ASSUME NEW x \in Items, PushLoad(x) PROVE Custody'
  BY Zenon, <1>0, <1>1, <1>a DEF PushLoad, Live, Limit
<1>2. CASE PushRefuse
  BY Zenon, <1>0, <1>2, <1>a DEF PushRefuse, OwnerReturn, Live, Limit
<1>3. CASE PushStore
  <2>1. ob = bottom /\ bottom < top + Capacity /\ Live' = Live
    BY <1>0, <1>3 DEF PushStore, OwnerShape, TypeOK, Live, Limit
  <2>2. \A i \in Live : i \in Nat /\ i < bottom /\ bottom < i + Capacity
    BY <1>0, <1>3, <2>1 DEF PushStore, Live, Limit
  <2>3. \A i \in Live : Idx(i) # Idx(bottom)
    BY Zenon, <1>0, <2>2, IdxInjective
  <2>4. \A i \in Live : slots'[Idx(i)] = slots[Idx(i)]
    BY Zenon, <1>0, <1>3, <2>1, <2>2, <2>3, IdxRange DEF PushStore, TypeOK
  <2> QED BY Zenon, <1>0, <1>3, <2>1, <2>4, CustodySame DEF PushStore
<1>4. CASE PushPublish
  <2>1. oitem \in hands[Owner] /\ slots[Idx(bottom)] = oitem /\ top <= bottom
        /\ bottom' = bottom + 1
    BY Zenon, <1>0, <1>4 DEF PushPublish, OwnerShape
  <2>2. Live' = Live \cup {bottom} /\ bottom \notin Live
    BY <1>0, <1>4, <2>1 DEF PushPublish, OwnerReturn, Live, Limit
  <2> QED
    BY ZenonT(30), <1>0, <1>4, <2>1, <2>2, CustodyGive DEF PushPublish
<1>5. CASE PopReserve
  BY <1>0, <1>5, <1>a DEF PopReserve, Live, Limit
<1>6. CASE PopReadTop
  <2>1. ob = bottom /\ opc = "pop_top" /\ top <= bottom + 1
    BY Zenon, <1>0, <1>6 DEF PopReadTop, OwnerShape
  <2>2. CASE top >= ob
    BY <1>0, <1>6, <1>a, <2>1, <2>2 DEF PopReadTop, Live, Limit
  <2>3. CASE top < ob
    <3>1. bottom \in Live /\ Live' = Live \ {bottom}
      BY SMTT(30), <1>0, <1>6, <2>1, <2>3
         DEF PopReadTop, OwnerReturn, Live, Limit
    <3> QED
      BY <1>0, <1>6, <2>1, <2>3, <3>1, CustodyTake DEF PopReadTop, Take, Actors
  <2> QED BY <1>0, <2>1, <2>2, <2>3
<1>7. CASE PopEmpty
  BY <1>0, <1>7, <1>a DEF PopEmpty, OwnerReturn, OwnerShape, Live, Limit
<1>8. CASE PopCas
  <2>1. ob = bottom /\ ot = bottom /\ opc = "pop_cas" /\ oitem = slots[Idx(bottom)]
        /\ top \in {bottom, bottom + 1}
    BY Zenon, <1>0, <1>8 DEF PopCas, OwnerShape
  <2>2. CASE top = ot
    <3>1. bottom \in Live /\ Live' = Live \ {bottom}
      BY <1>0, <1>8, <2>1, <2>2 DEF PopCas, Live, Limit
    <3> QED
      BY ZenonT(30), <1>0, <1>8, <2>1, <2>2, <3>1, CustodyTake
         DEF PopCas, Take, Actors
  <2>3. CASE top # ot
    BY <1>0, <1>8, <1>a, <2>1, <2>3 DEF PopCas, Live, Limit
  <2> QED BY Zenon, <2>2, <2>3
<1>9. CASE PopFix
  BY SMTT(30), <1>0, <1>9, <1>a
     DEF PopFix, OwnerReturn, OwnerShape, Live, Limit
<1>10. ASSUME NEW t \in Thieves,
              BatchBegin(t) \/ StealTop(t) \/ StealBottom(t) \/ StealSlot(t)
       PROVE  Custody'
  BY Zenon, <1>0, <1>10, <1>a
     DEF BatchBegin, StealTop, StealBottom, StealSlot, ownerVars, Live, Limit
<1>11. ASSUME NEW t \in Thieves, StealCas(t) PROVE Custody'
  <2>1. CASE top = ttop[t]
    <3>1. top \in Live /\ titem[t] = slots[Idx(top)] /\ top < Limit
      BY <1>0, <1>11, <2>1 DEF ThiefShape, Live, Limit, StealCas
    <3>2. Live' = Live \ {top}
      BY <1>0, <1>11, <2>1, <3>1 DEF StealCas, ownerVars, Live, Limit
    <3> QED
      BY ZenonT(30), <1>0, <1>11, <2>1, <3>1, <3>2, CustodyTake
         DEF StealCas, Take, Actors
  <2>2. CASE top # ttop[t]
    BY Zenon, <1>0, <1>11, <1>a, <2>2 DEF StealCas, ownerVars, Live, Limit
  <2> QED BY Zenon, <2>1, <2>2
<1>12. ASSUME NEW t \in Thieves, NEW x \in Items, Return(t, x) PROVE Custody'
  <2>1. Live' = Live /\ Content' = Content /\ slots' = slots
    BY Zenon, <1>12 DEF Return, ownerVars, Live, Limit, Content
  <2>2. t # Owner /\ t \in Actors /\ Owner \in Actors /\ x \in hands[t]
    BY Zenon, <1>12, ActorAssumption DEF Actors, Return
  <2>3. /\ hands'[t] = hands[t] \ {x} /\ hands'[Owner] = hands[Owner] \cup {x}
        /\ \A b \in Actors \ {t, Owner} : hands'[b] = hands[b]
    BY Zenon, <1>0, <1>12, <2>2 DEF Return
  <2>4. LiveFilled' /\ \A i, j \in Live' : slots'[Idx(i)] = slots'[Idx(j)] => i = j
    BY Zenon, <1>0, <2>1 DEF Custody, LiveFilled, NoDuplicate
  <2>5. \A b \in Actors : hands'[b] \cap Content' = {}
    BY SMTT(30), <1>0, <2>1, <2>2, <2>3 DEF Custody, NoDuplicate
  <2>6. \A b, c \in Actors : b # c => hands'[b] \cap hands'[c] = {}
    BY <1>0, <2>2, <2>3 DEF Custody, NoDuplicate
  <2>7. NoLoss'
    BY <1>0, <2>1, <2>2, <2>3 DEF Custody, NoLoss
  <2> QED BY Zenon, <2>4, <2>5, <2>6, <2>7 DEF Custody, NoDuplicate
<1>13. CASE UNCHANGED vars
  BY Zenon, SMTT(30), <1>0, <1>13, <1>a DEF vars, ownerVars, Live, Limit
<1> QED
  BY Zenon, <1>1, <1>2, <1>3, <1>4, <1>5, <1>6, <1>7, <1>8, <1>9, <1>10, <1>11,
     <1>12, <1>13 DEF Next, OwnerStep, ThiefStep

-----------------------------------------------------------------------------
(* Indices                                                                 *)

\* Every step keeps what each place of the code knows about the indices.  The
\* thieves' part says why the deque has no ABA problem: top only grows, and a
\* thief whose top is still current has its slot protected by Capacity.
LEMMA ShapeStep ==
  ASSUME IInv, [Next]_vars
  PROVE  OwnerShape' /\ ThiefShape'
<1> USE CapacityAssumption
<1>0. TypeOK /\ OwnerShape /\ ThiefShape /\ top \in Nat /\ bottom \in Nat
      /\ ot \in Nat /\ \A t \in Thieves : ttop[t] \in Nat
  BY Zenon DEF IInv, TypeOK
<1>c. \A t \in Thieves : ttop'[t] \in Nat
  BY Zenon, TypeStep DEF TypeOK
<1>d. ASSUME top' = top + 1,
             \A u \in Thieves : tpc'[u] \in {"bottom", "slot", "cas"} => ttop'[u] <= top
      PROVE  ThiefShape'
  <2>1. ASSUME NEW u \in Thieves, tpc'[u] \in {"bottom", "slot", "cas"}
        PROVE  ttop'[u] <= top' /\ ttop'[u] # top'
    BY SMTT(30), <1>0, <1>c, <1>d, <2>1
  <2> QED BY Zenon, <2>1 DEF ThiefShape
<1>a. ASSUME UNCHANGED <<top, slots, thiefVars>>, Limit' = Limit \/ top < Limit'
      PROVE  ThiefShape'
  BY Zenon, <1>0, <1>a DEF ThiefShape, thiefVars
<1>b. ASSUME UNCHANGED <<top, slots, thiefVars>>, top >= Limit
      PROVE  ThiefShape'
  BY <1>0, <1>b DEF ThiefShape, thiefVars, Limit
<1>1. ASSUME NEW x \in Items, PushLoad(x) PROVE OwnerShape' /\ ThiefShape'
  BY SMTT(30), <1>0, <1>1, <1>a DEF PushLoad, OwnerShape, Limit
<1>2. CASE PushRefuse
  BY Zenon, <1>0, <1>2, <1>a DEF PushRefuse, OwnerReturn, OwnerShape, Limit
<1>3. CASE PushStore
  <2>1. ob = bottom /\ top <= bottom /\ bottom < top + Capacity /\ Limit' = Limit
        /\ Limit = bottom
    BY <1>0, <1>3 DEF PushStore, OwnerShape, Limit
  <2>2. slots'[Idx(bottom)] = oitem
    BY Zenon, <1>0, <1>3, <2>1, IdxRange DEF PushStore, TypeOK
  <2>3. OwnerShape'
    BY Zenon, <1>0, <1>3, <2>1, <2>2 DEF PushStore, OwnerShape
  <2>4. top < Limit => slots'[Idx(top)] = slots[Idx(top)]
    BY Zenon, <1>0, <1>3, <2>1, IdxRange, IdxInjective DEF PushStore, TypeOK
  <2>5. ThiefShape'
    BY Zenon, <1>0, <1>3, <2>1, <2>4 DEF PushStore, ThiefShape, thiefVars
  <2> QED BY Zenon, <2>3, <2>5
<1>4. CASE PushPublish
  BY SMTT(30), <1>0, <1>4, <1>a DEF PushPublish, OwnerReturn, OwnerShape, Limit
<1>5. CASE PopReserve
  BY <1>0, <1>5, <1>a DEF PopReserve, OwnerShape, Limit
<1>6. CASE PopReadTop
  <2>1. OwnerShape'
    BY SMTT(30), <1>0, <1>6 DEF PopReadTop, OwnerReturn, OwnerShape
  <2>2. ThiefShape'
    BY <1>0, <1>6, <1>a, <1>b DEF PopReadTop, OwnerReturn, OwnerShape, Limit
  <2> QED BY Zenon, <2>1, <2>2
<1>7. CASE PopEmpty
  BY <1>0, <1>7, <1>b DEF PopEmpty, OwnerReturn, OwnerShape, Limit
<1>8. CASE PopCas
  <2>1. OwnerShape'
    BY Zenon, <1>0, <1>8 DEF PopCas, OwnerShape
  <2>2. CASE top = ot
    <3>1. top' = top + 1 /\ UNCHANGED thiefVars
      BY Zenon, <1>8, <2>2 DEF PopCas
    <3>2. \A u \in Thieves : tpc'[u] \in {"bottom", "slot", "cas"} => ttop'[u] <= top
      BY Zenon, <1>0, <3>1 DEF ThiefShape, thiefVars
    <3> QED BY Zenon, <2>1, <3>1, <3>2, <1>d
  <2>3. CASE top # ot
    BY <1>0, <1>8, <2>3, <1>b DEF PopCas, OwnerShape, Limit
  <2> QED BY Zenon, SMTT(30), <2>1, <2>2, <2>3
<1>9. CASE PopFix
  BY SMTT(30), <1>0, <1>9, <1>b DEF PopFix, OwnerReturn, OwnerShape, Limit
<1>10. ASSUME NEW t \in Thieves, UNCHANGED <<top, bottom, slots, ownerVars, hands>>
       PROVE  OwnerShape' /\ Limit' = Limit
  BY Zenon, <1>0, <1>10 DEF OwnerShape, ownerVars, Limit
<1>11. ASSUME NEW t \in Thieves, BatchBegin(t) PROVE OwnerShape' /\ ThiefShape'
  BY Zenon, SMTT(30), <1>0, <1>10, <1>11 DEF BatchBegin, ThiefShape, TypeOK
<1>12. ASSUME NEW t \in Thieves, StealTop(t) PROVE OwnerShape' /\ ThiefShape'
  BY <1>0, <1>10, <1>12 DEF StealTop, ThiefShape, TypeOK
<1>13. ASSUME NEW t \in Thieves, StealBottom(t) PROVE OwnerShape' /\ ThiefShape'
  <2>1. OwnerShape' /\ Limit' = Limit /\ bottom <= Limit
        /\ UNCHANGED <<top, slots, bottom>>
    BY SMTT(30), <1>0, <1>10, <1>13 DEF StealBottom, Limit
  <2>2. \A u \in Thieves \ {t} : tpc'[u] = tpc[u] /\ ttop'[u] = ttop[u]
                                /\ titem'[u] = titem[u]
    BY Zenon, SMTT(30), <1>0, <1>13 DEF StealBottom, StealReturn, TypeOK
  <2>3. \/ tpc'[t] = "idle"
        \/ tpc'[t] = "slot" /\ ttop'[t] = ttop[t] /\ ttop[t] < bottom
    BY Zenon, <1>0, <1>13 DEF StealBottom, StealReturn, TypeOK
  <2>4. bottom \in Nat /\ Limit \in Nat /\ tpc[t] = "bottom"
    BY <1>0, <1>13 DEF Limit, StealBottom
  <2>5. ASSUME NEW u \in Thieves \ {t}
        PROVE  /\ tpc'[u] \in {"bottom", "slot", "cas"} => ttop'[u] <= top'
               /\ tpc'[u] \in {"slot", "cas"} /\ ttop'[u] = top' => top' < Limit'
               /\ tpc'[u] = "cas" /\ ttop'[u] = top' => titem'[u] = slots'[Idx(top')]
    BY Zenon, <1>0, <2>1, <2>2, <2>5 DEF ThiefShape
  <2>6. /\ tpc'[t] \in {"bottom", "slot", "cas"} => ttop'[t] <= top'
        /\ tpc'[t] \in {"slot", "cas"} /\ ttop'[t] = top' => top' < Limit'
        /\ tpc'[t] # "cas"
    BY <1>0, <2>1, <2>3, <2>4 DEF ThiefShape
  <2> QED BY Zenon, SMTT(30), <2>1, <2>5, <2>6 DEF ThiefShape
<1>14. ASSUME NEW t \in Thieves, StealSlot(t) PROVE OwnerShape' /\ ThiefShape'
  BY Zenon, <1>0, <1>10, <1>14 DEF StealSlot, ThiefShape, TypeOK
<1>15. ASSUME NEW t \in Thieves, StealCas(t) PROVE OwnerShape' /\ ThiefShape'
  <2>1. CASE top = ttop[t]
    <3>1. top < Limit /\ top' = top + 1 /\ UNCHANGED <<bottom, slots, ownerVars>>
      BY Zenon, SMTT(30), <1>0, <1>15, <2>1 DEF StealCas, ThiefShape
    <3>2. hands[Owner] \subseteq hands'[Owner]
      BY ZenonT(30), <1>0, <1>15, <2>1 DEF StealCas, Take, TypeOK, Actors
    <3>3. OwnerShape'
      BY <1>0, <3>1, <3>2 DEF OwnerShape, ownerVars, Limit
    <3>4. \A u \in Thieves : tpc'[u] \in {"bottom", "slot", "cas"} =>
                             ttop'[u] <= top
      BY Zenon, <1>0, <1>15, <2>1 DEF StealCas, StealReturn, ThiefShape, TypeOK
    <3>5. ThiefShape'
      BY Zenon, SMTT(30), <3>1, <3>4, <1>d
    <3> QED BY Zenon, SMTT(30), <3>3, <3>5
  <2>2. CASE top # ttop[t]
    BY ZenonT(30), <1>0, <1>10, <1>15, <2>2
       DEF StealCas, StealReturn, ThiefShape, TypeOK
  <2> QED BY Zenon, <2>1, <2>2
<1>16. ASSUME NEW t \in Thieves, NEW x \in Items, Return(t, x)
       PROVE  OwnerShape' /\ ThiefShape'
  <2>1. hands[Owner] \subseteq hands'[Owner]
    BY Zenon, SMTT(30), <1>0, <1>16, ActorAssumption DEF Return, TypeOK, Actors
  <2> QED
    BY ZenonT(30), <1>0, <1>16, <1>a, <2>1
       DEF Return, OwnerShape, ownerVars, Limit
<1>17. CASE UNCHANGED vars
  BY Zenon, SMTT(30), <1>0, <1>17, <1>a DEF vars, OwnerShape, ownerVars, Limit
<1> QED
  BY Zenon, <1>1, <1>2, <1>3, <1>4, <1>5, <1>6, <1>7, <1>8, <1>9, <1>11,
     <1>12, <1>13,
     <1>14, <1>15, <1>16, <1>17 DEF Next, OwnerStep, ThiefStep

-----------------------------------------------------------------------------
(* Theorems                                                                *)

\* The empty queue, with every item in the owner's hands.
LEMMA InitInv == Init => IInv
<1> SUFFICES ASSUME Init PROVE IInv
  BY Zenon
<1> USE CapacityAssumption DEF Init
<1>1. TypeOK
  BY Zenon DEF TypeOK, OwnerPcs, ThiefPcs, Actors
<1>2. OwnerShape /\ ThiefShape
  BY DEF OwnerShape, ThiefShape
<1>3. Live = {} /\ Content = {}
  BY DEF Live, Limit, Content
<1>4. Custody
  BY Zenon, <1>3, ActorAssumption
  DEF Custody, LiveFilled, NoDuplicate, NoLoss, Actors
<1> QED BY Zenon, <1>1, <1>2, <1>4 DEF IInv

\* IInv is inductive.
THEOREM InvariantHolds == Spec => []IInv
<1>1. Init => IInv
  BY Zenon, InitInv
<1>2. IInv /\ [Next]_vars => IInv'
  BY Zenon, TypeStep, ShapeStep, CustodyStep DEF IInv
<1> QED BY <1>1, <1>2, PTL DEF Spec

\* Shared words and locals of the run queue keep their types.
THEOREM TypeCorrect == Spec => []TypeOK
<1>1. IInv => TypeOK
  BY Zenon DEF IInv
<1> QED BY <1>1, InvariantHolds, PTL

\* Exactly-once: owner pops and steals hand out each task to one actor only,
\* and no task is lost, for any capacity and any number of thieves.
THEOREM ExactlyOnce == Spec => []HandedOnce
<1>1. IInv => HandedOnce
  BY Zenon, SMTT(30) DEF IInv, Custody, HandedOnce
<1> QED BY <1>1, InvariantHolds, PTL

\* The queue never holds more than capacity tasks, and bottom - top in
\* vl_run_queue_owner_push never underflows.
THEOREM IndicesBounded == Spec => []IndexBounds
<1>1. IInv => IndexBounds
  BY SMTT(30), CapacityAssumption
     DEF IInv, TypeOK, OwnerShape, OwnerPcs, IndexBounds, Limit
<1> QED BY <1>1, InvariantHolds, PTL

\* A compare-and-swap of vl_run_queue_steal that is about to succeed takes
\* the task at the front of the queue, never a recycled slot or one already
\* popped.
THEOREM StealsAreFresh == Spec => [](NoStaleSteal /\ StealTakesQueued)
<1>1. IInv => NoStaleSteal /\ StealTakesQueued
  BY Zenon DEF IInv, ThiefShape, NoStaleSteal, StealTakesQueued
<1> QED BY <1>1, InvariantHolds, PTL

-----------------------------------------------------------------------------
(* The concurrent deque implements the atomic one                          *)

\* The abstract queue is a sequence of the expected length.
LEMMA QueuedSeq ==
  ASSUME IInv
  PROVE  Length \in Nat /\ Queued \in Seq(Items) /\ Len(Queued) = Length
<1>1. Length \in Nat /\ top \in Nat /\ Limit \in Nat
  BY DEF IInv, TypeOK, Length, Limit
<1>2. \A k \in 1..Length : top + k - 1 \in Live
  BY <1>1 DEF Length, Live
<1>3. \A k \in 1..Length : slots[Idx(top + k - 1)] \in Items
  BY Zenon, <1>2 DEF IInv, Custody, LiveFilled
<1> QED BY <1>1, <1>3 DEF Queued

\* Steps that leave top, Limit and the live slots alone leave it alone.
LEMMA QueuedSame ==
  ASSUME IInv, Length' = Length, top' = top \/ Length = 0,
         \A i \in Live : slots'[Idx(i)] = slots[Idx(i)]
  PROVE  Queued' = Queued
<1>1. Length \in Nat /\ top \in Nat /\ Limit \in Nat
  BY DEF IInv, TypeOK, Length, Limit
<1>2. \A k \in 1..Length : top + k - 1 \in Live
  BY <1>1 DEF Length, Live
<1>3. CASE Length = 0
  BY <1>3 DEF Queued
<1>4. CASE top' = top
  BY Zenon, <1>2, <1>4 DEF Queued
<1> QED BY Zenon, <1>3, <1>4

\* A slot published behind the last one appends to it.
LEMMA QueuedAppend ==
  ASSUME IInv, top \in Nat, top' = top, Length' = Length + 1, slots' = slots
  PROVE  Queued' = Append(Queued, slots[Idx(top + Length)])
<1>1. Length \in Nat /\ Queued \in Seq(Items) /\ Len(Queued) = Length
  BY Zenon, QueuedSeq
<1>2. Queued' = [k \in 1..(Length + 1) |-> slots[Idx(top + k - 1)]]
  BY Zenon DEF Queued
<1>3. \A k \in 1..Length : Append(Queued, slots[Idx(top + Length)])[k] = slots[Idx(top + k - 1)]
  BY <1>1 DEF Queued
<1>4. Append(Queued, slots[Idx(top + Length)])[Length + 1] = slots[Idx(top + (Length + 1) - 1)]
  BY <1>1
<1>5. Append(Queued, slots[Idx(top + Length)]) =
        [k \in 1..(Length + 1) |-> slots[Idx(top + k - 1)]]
  BY <1>1, <1>3, <1>4
<1> QED BY Zenon, <1>2, <1>5

\* Giving up the last live slot removes the last element.
LEMMA QueuedFront ==
  ASSUME IInv, top \in Nat, top' = top, Length > 0, Length' = Length - 1, slots' = slots
  PROVE  /\ Queued # <<>> /\ Queued' = SubSeq(Queued, 1, Len(Queued) - 1)
         /\ Queued[Len(Queued)] = slots[Idx(top + Length - 1)]
<1>1. Length \in Nat /\ Queued \in Seq(Items) /\ Len(Queued) = Length
  BY Zenon, QueuedSeq
<1>2. Queued' = [k \in 1..(Length - 1) |-> slots[Idx(top + k - 1)]]
  BY Zenon DEF Queued
<1>3. SubSeq(Queued, 1, Len(Queued) - 1) = [k \in 1..(Length - 1) |-> Queued[k]]
  BY <1>1
<1>4. \A k \in 1..Length : Queued[k] = slots[Idx(top + k - 1)]
  BY Zenon DEF Queued
<1>5. Queued # <<>>
  BY <1>1
<1>6. Queued[Len(Queued)] = slots[Idx(top + Length - 1)]
  BY <1>1, <1>4
<1> QED BY <1>1, <1>2, <1>3, <1>4, <1>5, <1>6

\* Advancing top removes the first element.
LEMMA QueuedTail ==
  ASSUME IInv, top \in Nat, top' = top + 1, Length > 0, Length' = Length - 1, slots' = slots
  PROVE  Queued # <<>> /\ Queued' = Tail(Queued) /\ Head(Queued) = slots[Idx(top)]
<1>1. Length \in Nat /\ Queued \in Seq(Items) /\ Len(Queued) = Length
  BY Zenon, QueuedSeq
<1>2. Queued' = [k \in 1..(Length - 1) |-> slots[Idx(top + 1 + k - 1)]]
  BY Zenon DEF Queued
<1>3. Tail(Queued) = [k \in 1..(Length - 1) |-> Queued[k + 1]]
  <2> DEFINE rest == Tail(Queued)
  <2>1. Queued # <<>>
    BY <1>1
  <2>2. /\ rest \in Seq(Items) /\ Len(rest) = Length - 1
        /\ \A k \in 1..Len(rest) : rest[k] = Queued[k + 1]
    BY Zenon, <1>1, <2>1, HeadTailProperties
  <2> HIDE DEF rest
  <2>3. rest = [k \in 1..Len(rest) |-> rest[k]]
    BY <2>2
  <2> QED BY Zenon, <2>2, <2>3 DEF rest
<1>4. \A k \in 1..(Length - 1) : Queued[k + 1] = slots[Idx(top + (k + 1) - 1)]
  BY <1>1 DEF Queued
<1>5. \A k \in 1..(Length - 1) : top + (k + 1) - 1 = top + 1 + k - 1
  BY <1>1
<1>6. Queued # <<>> /\ Head(Queued) = Queued[1] /\ top + 1 - 1 = top
  BY <1>1
<1>7. Queued[1] = slots[Idx(top + 1 - 1)]
  BY <1>1 DEF Queued
<1> QED BY <1>1, <1>2, <1>3, <1>4, <1>5, <1>6, <1>7

\* Each step of the concurrent deque is a step of the atomic one or changes
\* nothing it can see.  A push takes effect when bottom is published, a pop
\* when top is read below bottom or at its compare-and-swap, a steal at its
\* compare-and-swap.
LEMMA DequeStep ==
  ASSUME IInv, [Next]_vars
  PROVE  [Deque!Next]_(Deque!vars)
<1> USE CapacityAssumption
<1>0. TypeOK /\ OwnerShape /\ ThiefShape /\ top \in Nat /\ bottom \in Nat
      /\ Deque!Actors = Actors
  BY Zenon DEF IInv, TypeOK, Actors, Deque!Actors
<1>a. ASSUME UNCHANGED <<slots, hands>>, Length' = Length, top' = top \/ Length = 0
      PROVE  UNCHANGED Deque!vars
  BY Zenon, <1>a, QueuedSame DEF Deque!vars
<1>1. ASSUME NEW x \in Items, PushLoad(x) PROVE UNCHANGED Deque!vars
  BY Zenon, <1>0, <1>1, <1>a DEF PushLoad, Length, Limit
<1>2. CASE PushRefuse
  BY Zenon, <1>0, <1>2, <1>a DEF PushRefuse, OwnerReturn, Length, Limit
<1>3. CASE PushStore
  <2>1. ob = bottom /\ bottom < top + Capacity /\ Length' = Length
    BY <1>0, <1>3 DEF PushStore, OwnerShape, TypeOK, Length, Limit
  <2>2. \A i \in Live : i \in Nat /\ i < bottom /\ bottom < i + Capacity
    BY <1>0, <1>3, <2>1 DEF PushStore, Live, Limit
  <2>3. \A i \in Live : Idx(i) # Idx(bottom)
    BY Zenon, SMTT(30), <1>0, <2>2, IdxInjective
  <2>4. \A i \in Live : slots'[Idx(i)] = slots[Idx(i)]
    BY Zenon, <1>0, <1>3, <2>1, <2>2, <2>3, IdxRange DEF PushStore, TypeOK
  <2> QED BY Zenon, SMTT(30), <1>3, <2>1, <2>4, QueuedSame
          DEF PushStore, Deque!vars
<1>4. CASE PushPublish
  <2>1. oitem \in hands[Owner] /\ slots[Idx(bottom)] = oitem /\ top <= bottom
        /\ bottom' = bottom + 1 /\ bottom < top + Capacity
    BY Zenon, SMTT(30), <1>0, <1>4 DEF PushPublish, OwnerShape
  <2>2. Length = bottom - top /\ Length' = Length + 1 /\ bottom = top + Length
        /\ UNCHANGED <<top, slots>>
    BY SMTT(30), <1>0, <1>4, <2>1 DEF PushPublish, OwnerReturn, Length, Limit
  <2>3. Queued' = Append(Queued, oitem) /\ Len(Queued) < Capacity
    BY <1>0, <2>1, <2>2, QueuedAppend, QueuedSeq
  <2>4. oitem \in Items
    BY Zenon, <1>0, <2>1 DEF TypeOK, Actors
  <2>5. Deque!Push(oitem)
    BY Zenon, SMTT(30), <1>4, <2>1, <2>3 DEF PushPublish, Deque!Push
  <2> QED BY Zenon, <2>4, <2>5 DEF Deque!Next
<1>5. CASE PopReserve
  BY <1>0, <1>5, <1>a DEF PopReserve, Length, Limit
<1>6. CASE PopReadTop
  <2>1. ob = bottom /\ opc = "pop_top" /\ top <= bottom + 1
    BY Zenon, <1>0, <1>6 DEF PopReadTop, OwnerShape
  <2>2. CASE top >= ob
    BY <1>0, <1>6, <1>a, <2>1, <2>2 DEF PopReadTop, Length, Limit
  <2>3. CASE top < ob
    <3>1. Length > 0 /\ Length' = Length - 1 /\ bottom = top + Length - 1
          /\ UNCHANGED <<top, slots>>
      BY <1>0, <1>6, <2>1, <2>3 DEF PopReadTop, OwnerReturn, Length, Limit
    <3>2. Queued # <<>> /\ Queued' = SubSeq(Queued, 1, Len(Queued) - 1)
          /\ Queued[Len(Queued)] = slots[Idx(bottom)]
      BY Zenon, SMTT(30), <1>0, <3>1, QueuedFront
    <3>3. Deque!Pop
      BY <1>0, <1>6, <2>1, <2>3, <3>2 DEF PopReadTop, Take, Deque!Pop
    <3> QED BY Zenon, <3>3 DEF Deque!Next
  <2> QED BY SMTT(30), <1>0, <2>1, <2>2, <2>3
<1>7. CASE PopEmpty
  BY <1>0, <1>7, <1>a DEF PopEmpty, OwnerReturn, OwnerShape, Length, Limit
<1>8. CASE PopCas
  <2>1. ob = bottom /\ ot = bottom /\ opc = "pop_cas" /\ oitem = slots[Idx(bottom)]
        /\ top \in {bottom, bottom + 1}
    BY Zenon, SMTT(30), <1>0, <1>8 DEF PopCas, OwnerShape
  <2>2. CASE top = ot
    <3>1. Length = 1 /\ Length' = 0
      BY <1>0, <1>8, <2>1, <2>2 DEF PopCas, Length, Limit
    <3>2. Queued = <<oitem>> /\ Queued' = <<>>
      BY <1>0, <2>1, <2>2, <3>1 DEF Queued
    <3>3. Queued # <<>> /\ SubSeq(Queued, 1, Len(Queued) - 1) = <<>> /\ Queued[Len(Queued)] = oitem
      BY <3>2
    <3>4. Deque!Pop
      BY Zenon, <1>8, <2>2, <3>2, <3>3 DEF PopCas, Take, Deque!Pop
    <3> QED BY Zenon, <3>4 DEF Deque!Next
  <2>3. CASE top # ot
    BY SMTT(30), <1>0, <1>8, <1>a, <2>1, <2>3 DEF PopCas, Length, Limit
  <2> QED BY Zenon, SMTT(30), <2>2, <2>3
<1>9. CASE PopFix
  BY SMTT(30), <1>0, <1>9, <1>a
     DEF PopFix, OwnerReturn, OwnerShape, Length, Limit
<1>10. ASSUME NEW t \in Thieves,
              BatchBegin(t) \/ StealTop(t) \/ StealBottom(t) \/ StealSlot(t)
       PROVE  UNCHANGED Deque!vars
  BY Zenon, SMTT(30), <1>0, <1>10, <1>a
     DEF BatchBegin, StealTop, StealBottom, StealSlot, ownerVars, Length, Limit
<1>11. ASSUME NEW t \in Thieves, StealCas(t) PROVE [Deque!Next]_(Deque!vars)
  <2>1. CASE top = ttop[t]
    <3>0. tpc[t] = "cas" /\ top' = top + 1
      BY Zenon, <1>11, <2>1 DEF StealCas
    <3>1. titem[t] = slots[Idx(top)] /\ top < Limit /\ top' = top + 1
      <4>1. ThiefShape
        BY Zenon, <1>0
      <4> QED
        BY Zenon, <2>1, <3>0, <4>1 DEF ThiefShape
    <3>2. Length > 0 /\ Length' = Length - 1 /\ slots' = slots
      BY <1>0, <1>11, <2>1, <3>1 DEF StealCas, ownerVars, Length, Limit
    <3>3. Queued # <<>> /\ Queued' = Tail(Queued) /\ Head(Queued) = titem[t]
      BY Zenon, <1>0, <3>1, <3>2, QueuedTail
    <3>4. Deque!Steal(t)
      BY Zenon, SMTT(30), <1>11, <2>1, <3>3 DEF StealCas, Take, Deque!Steal
    <3> QED BY Zenon, SMTT(30), <3>4 DEF Deque!Next
  <2>2. CASE top # ttop[t]
    BY Zenon, <1>0, <1>11, <1>a, <2>2 DEF StealCas, ownerVars, Length, Limit
  <2> QED BY Zenon, <2>1, <2>2
<1>12. ASSUME NEW t \in Thieves, NEW x \in Items, Return(t, x)
       PROVE  [Deque!Next]_(Deque!vars)
  <2>1. Queued' = Queued
    BY Zenon, <1>0, <1>12, QueuedSame DEF Return, ownerVars, Length, Limit
  <2>2. Deque!Return(t, x)
    BY Zenon, SMTT(30), <1>12, <2>1 DEF Return, Deque!Return
  <2> QED BY Zenon, <2>2 DEF Deque!Next
<1>13. CASE UNCHANGED vars
  BY Zenon, <1>0, <1>13, <1>a DEF vars, ownerVars, Length, Limit
<1> QED
  BY Zenon, <1>1, <1>2, <1>3, <1>4, <1>5, <1>6, <1>7, <1>8, <1>9, <1>10, <1>11,
     <1>12, <1>13 DEF Next, OwnerStep, ThiefStep

\* The Chase-Lev deque of run_queue.c is linearizable: it implements the
\* atomic work deque.
THEOREM ImplementsWorkDeque == Spec => DequeSpec
<1>1. Init => Deque!Init
  BY DEF Init, Deque!Init, Queued, Length, Limit, Actors, Deque!Actors
<1>2. IInv /\ [Next]_vars => [Deque!Next]_(Deque!vars)
  BY Zenon, DequeStep
<1> QED BY <1>1, <1>2, InvariantHolds, PTL DEF Spec, DequeSpec, Deque!Spec

=============================================================================
