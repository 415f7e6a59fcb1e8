----------------------------- MODULE ArenaProofs -----------------------------
(***************************************************************************)
(* ArenaSound for every page size, block size, width of addresses, size    *)
(* and alignment, and wherever mmap puts the blocks.                       *)
(***************************************************************************)
EXTENDS Arena, SequenceTheorems, TLAPS

\* A quotient and what it leaves.
LEMMA Quotient ==
    ASSUME NEW x \in Nat, NEW n \in Nat \ {0}
    PROVE  /\ x \div n \in Nat
           /\ (x \div n) * n <= x
           /\ x < (x \div n) * n + n
  OBVIOUS

\* A multiple is divisible.
LEMMA Divisible ==
    ASSUME NEW q \in Nat, NEW n \in Nat \ {0}
    PROVE  (q * n) % n = 0
  OBVIOUS

\* AlignUp gives the first multiple of the alignment that is not below a.
LEMMA AlignUpProperties ==
    ASSUME NEW a \in Nat, NEW n \in Nat \ {0}
    PROVE  /\ AlignUp(a, n) \in Nat
           /\ a <= AlignUp(a, n)
           /\ AlignUp(a, n) < a + n
           /\ AlignUp(a, n) % n = 0
  <1> DEFINE q == (a + n - 1) \div n
  <1>1. a + n - 1 \in Nat
    OBVIOUS
  <1>2. q \in Nat /\ q * n <= a + n - 1 /\ a + n - 1 < q * n + n
    BY <1>1, Quotient
  <1>3. q * n \in Nat
    BY <1>2
  <1>4. (q * n) % n = 0
    BY <1>2, Divisible
  <1>5. AlignUp(a, n) = q * n
    BY DEF AlignUp
  <1> HIDE DEF q
  <1> QED
    BY <1>2, <1>3, <1>4, <1>5

\* A new block has at least the capacity that was asked for.
LEMMA NewBlockCapacity ==
    ASSUME NEW minimum \in Nat
    PROVE  /\ PagesFor(minimum) \in Nat \ {0}
           /\ (PagesFor(minimum) - 1) * Page \in Nat
           /\ minimum <= (PagesFor(minimum) - 1) * Page
  <1> DEFINE capacity == IF BlockSize > minimum THEN BlockSize ELSE minimum
             q == (capacity + Page - 1) \div Page
  <1>1. Page \in Nat \ {0} /\ BlockSize \in Nat
    BY PageAssumption, BlockAssumption
  <1>2. capacity \in Nat /\ minimum <= capacity
    BY <1>1
  <1>3. capacity + Page - 1 \in Nat
    BY <1>1, <1>2
  <1>4. q \in Nat /\ capacity + Page - 1 < q * Page + Page
    BY <1>1, <1>3, Quotient
  <1>5. PagesFor(minimum) = q + 1
    BY DEF PagesFor
  <1>6. q * Page \in Nat
    BY <1>1, <1>4
  <1> HIDE DEF q, capacity
  <1>7. PagesFor(minimum) - 1 = q
    BY <1>4, <1>5
  <1> QED
    BY <1>1, <1>2, <1>4, <1>5, <1>6, <1>7

-----------------------------------------------------------------------------
(* What holds of a list of blocks and of the allocations in them.          *)

Blocks == [base: Nat, capacity: Nat, used: Nat]

Interior(b) == b.base .. (b.base + b.used - 1)

WellFormed(list) ==
    /\ list \in Seq(Blocks)
    /\ \A i \in 1..Len(list) : list[i].used <= list[i].capacity
    /\ \A i, j \in 1..Len(list) :
           i # j => Extent(list[i]) \cap Extent(list[j]) = {}

Holds(list, gs) ==
    \A g \in gs :
        /\ g.from % g.alignment = 0
        /\ \E i \in 1..Len(list) : Bytes(g) \subseteq Interior(list[i])

Apart(gs) == \A g, h \in gs : g # h => Bytes(g) \cap Bytes(h) = {}

ArenaInv ==
    /\ WellFormed(blocks) /\ Holds(blocks, given) /\ Apart(given)
    /\ answer # "small"

\* A block in front of others.
LEMMA InFront ==
    ASSUME NEW b \in Blocks, NEW rest \in Seq(Blocks)
    PROVE  /\ <<b>> \o rest \in Seq(Blocks)
           /\ <<b>> \o rest # << >>
           /\ Len(<<b>> \o rest) = Len(rest) + 1
           /\ (<<b>> \o rest)[1] = b
           /\ \A i \in 1..Len(rest) : (<<b>> \o rest)[i + 1] = rest[i]
           /\ Head(<<b>> \o rest) = b
           /\ Tail(<<b>> \o rest) = rest
  <1>1. <<b>> \in Seq(Blocks) /\ Len(<<b>>) = 1 /\ <<b>>[1] = b
    OBVIOUS
  <1> DEFINE list == <<b>> \o rest
  <1>2. /\ list \in Seq(Blocks)
        /\ Len(list) = Len(rest) + 1
        /\ \A i \in 1 .. Len(rest) + 1 : list[i] = IF i <= 1 THEN b ELSE rest[i - 1]
    BY <1>1, ConcatProperties
  <1>3. Len(rest) \in Nat
    BY LenProperties
  <1>4. list # << >>
    BY <1>2, <1>3, EmptySeq
  <1> HIDE DEF list
  <1>5. list[1] = b /\ \A i \in 1..Len(rest) : list[i + 1] = rest[i]
    BY <1>2, <1>3
  <1>6. Head(list) = b
    BY <1>2, <1>4, <1>5
  <1>7. Tail(list) = rest
    <2>1. /\ Tail(list) \in Seq(Blocks) /\ Len(Tail(list)) = Len(rest)
          /\ \A i \in 1..Len(rest) : Tail(list)[i] = rest[i]
      BY <1>2, <1>3, <1>4, <1>5, HeadTailProperties
    <2> QED
      BY <2>1, SeqEqual
  <1> QED
    BY <1>2, <1>4, <1>5, <1>6, <1>7 DEF list

\* The interior of a block lies in its extent.
LEMMA InteriorInExtent ==
    ASSUME NEW b \in Blocks, b.used <= b.capacity
    PROVE  Interior(b) \subseteq Extent(b)
  BY PageAssumption DEF Interior, Extent, Blocks

\* An allocation from the head of a list keeps what holds of it.
LEMMA PlaceKeeps ==
    ASSUME NEW b \in Blocks, NEW rest \in Seq(Blocks), NEW gs,
           WellFormed(<<b>> \o rest), Holds(<<b>> \o rest, gs), Apart(gs),
           NEW size \in Nat, NEW alignment \in Nat \ {0},
           Room(b, size, alignment),
           NEW new, new = [b EXCEPT !.used = Offset(b, alignment) + size],
           NEW g, g = [from |-> b.base + Offset(b, alignment), size |-> size,
                       alignment |-> alignment]
    PROVE  /\ WellFormed(<<new>> \o rest)
           /\ Holds(<<new>> \o rest, gs \cup {g})
           /\ Apart(gs \cup {g})
  <1> DEFINE at == Offset(b, alignment)
             old == <<b>> \o rest
             list == <<new>> \o rest
  <1>1. b.base \in Nat /\ b.used \in Nat /\ b.capacity \in Nat
    BY DEF Blocks
  <1>2. /\ at \in Nat /\ b.used <= at /\ (b.base + at) % alignment = 0
    <2> DEFINE up == AlignUp(b.base + b.used, alignment)
    <2>1. b.base + b.used \in Nat
      BY <1>1
    <2>2. up \in Nat /\ b.base + b.used <= up /\ up % alignment = 0
      BY <2>1, AlignUpProperties
    <2>3. at = up - b.base
      BY DEF Offset
    <2> HIDE DEF up, at
    <2>4. b.base + at = up
      BY <1>1, <2>2, <2>3
    <2> QED
      BY <1>1, <2>2, <2>3, <2>4
  <1>3. at + size <= b.capacity /\ at + size \in Nat
    BY <1>1, <1>2 DEF Room
  <1> HIDE DEF at
  <1>4. /\ new \in Blocks /\ new.base = b.base /\ new.capacity = b.capacity
        /\ new.used = at + size
    BY <1>1, <1>3 DEF Blocks, at
  <1>5. Extent(new) = Extent(b) /\ Interior(b) \subseteq Interior(new)
    <2>1. Extent(new) = Extent(b)
      BY <1>4 DEF Extent
    <2>2. ASSUME NEW x \in Interior(b)
          PROVE  x \in Interior(new)
      <3>1. x \in Int /\ b.base <= x /\ x <= b.base + b.used - 1
        BY <1>1 DEF Interior
      <3>2. x <= b.base + (at + size) - 1
        BY <1>1, <1>2, <3>1
      <3> QED
        BY <1>1, <1>3, <1>4, <3>1, <3>2 DEF Interior
    <2> QED
      BY <2>1, <2>2
  <1>6. /\ Len(rest) \in Nat
        /\ list \in Seq(Blocks) /\ Len(list) = Len(rest) + 1 /\ list[1] = new
        /\ \A i \in 1..Len(rest) : list[i + 1] = rest[i]
        /\ old \in Seq(Blocks) /\ Len(old) = Len(rest) + 1 /\ old[1] = b
        /\ \A i \in 1..Len(rest) : old[i + 1] = rest[i]
    BY <1>4, InFront, LenProperties
  <1>7. WellFormed(old) /\ Holds(old, gs)
    OBVIOUS
  <1> HIDE DEF list, old
  <1>8. \A i \in 1..Len(old) : i = 1 \/ i - 1 \in 1..Len(rest)
    BY <1>6
  <1>9. \A i \in 1..Len(old) : i # 1 => list[i] = old[i]
    BY <1>6, <1>8
  <1>10. \A i \in 1..Len(old) : /\ Extent(list[i]) = Extent(old[i])
                                /\ Interior(old[i]) \subseteq Interior(list[i])
                                /\ list[i].used <= list[i].capacity
    <2> TAKE i \in 1..Len(old)
    <2>1. CASE i = 1
      BY <1>3, <1>4, <1>5, <1>6, <2>1
    <2>2. CASE i # 1
      BY <1>7, <1>9, <2>2 DEF WellFormed
    <2> QED
      BY <2>1, <2>2
  <1>11. WellFormed(list)
    BY <1>6, <1>7, <1>10 DEF WellFormed
  <1>12. Bytes(g) = (b.base + at) .. (b.base + at + size - 1)
    BY DEF Bytes, at
  <1>13. Bytes(g) \subseteq Interior(new) /\ Bytes(g) \cap Interior(b) = {}
    <2> SUFFICES ASSUME NEW x \in Bytes(g)
                 PROVE  x \in Interior(new) /\ x \notin Interior(b)
      OBVIOUS
    <2>1. x \in Int /\ b.base + at <= x /\ x <= b.base + at + size - 1
      BY <1>1, <1>2, <1>12
    <2>2. b.base <= x /\ x <= b.base + (at + size) - 1
      BY <1>1, <1>2, <2>1
    <2>3. ~(x <= b.base + b.used - 1)
      BY <1>1, <1>2, <2>1
    <2>4. x \in Interior(new)
      BY <1>1, <1>3, <1>4, <2>1, <2>2 DEF Interior
    <2>5. x \notin Interior(b)
      BY <1>1, <2>3 DEF Interior
    <2> QED
      BY <2>4, <2>5
  <1>14. g.from % g.alignment = 0
    BY <1>2 DEF at
  <1>15. Holds(list, gs \cup {g})
    <2>0. 1 \in 1..Len(list)
      BY <1>6
    <2>1. Bytes(g) \subseteq Interior(list[1])
      BY <1>6, <1>13
    <2>2. ASSUME NEW e \in gs
          PROVE  \E i \in 1..Len(list) : Bytes(e) \subseteq Interior(list[i])
      BY <1>6, <1>7, <1>10 DEF Holds
    <2> QED
      BY <1>7, <1>14, <2>0, <2>1, <2>2 DEF Holds
  <1>16. ASSUME NEW e \in gs
         PROVE  Bytes(e) \cap Bytes(g) = {}
    <2>1. PICK i \in 1..Len(old) : Bytes(e) \subseteq Interior(old[i])
      BY <1>7 DEF Holds
    <2>2. CASE i = 1
      BY <1>6, <1>13, <2>1, <2>2
    <2>3. CASE i # 1
      <3>0. 1 \in 1..Len(old)
        BY <1>6
      <3>1. Extent(old[i]) \cap Extent(old[1]) = {}
        BY <1>7, <2>3, <3>0 DEF WellFormed
      <3>2. Interior(old[i]) \subseteq Extent(old[i])
        BY <1>6, <1>7, InteriorInExtent DEF WellFormed
      <3>3. Interior(new) \subseteq Extent(b)
        BY <1>3, <1>4, <1>5, InteriorInExtent
      <3> QED
        BY <1>6, <1>13, <2>1, <3>1, <3>2, <3>3
    <2> QED
      BY <2>2, <2>3
  <1>17. Apart(gs \cup {g})
    BY <1>16 DEF Apart
  <1> QED
    BY <1>11, <1>15, <1>17 DEF list

\* A list is its head in front of its tail.
LEMMA HeadFirst ==
    ASSUME NEW list \in Seq(Blocks), list # << >>
    PROVE  /\ Head(list) \in Blocks /\ Tail(list) \in Seq(Blocks)
           /\ list = <<Head(list)>> \o Tail(list)
  <1> DEFINE again == <<Head(list)>> \o Tail(list)
  <1>1. /\ Head(list) \in Blocks /\ Tail(list) \in Seq(Blocks)
        /\ Len(Tail(list)) = Len(list) - 1
        /\ \A i \in 1 .. Len(Tail(list)) : Tail(list)[i] = list[i + 1]
    BY HeadTailProperties
  <1>2. Len(list) \in Nat \ {0}
    BY EmptySeq
  <1>3. /\ again \in Seq(Blocks) /\ Len(again) = Len(list) /\ again[1] = Head(list)
        /\ \A i \in 1..Len(Tail(list)) : again[i + 1] = list[i + 1]
    BY <1>1, <1>2, InFront
  <1>4. Head(list) = list[1]
    BY <1>2
  <1> HIDE DEF again
  <1>5. ASSUME NEW i \in 1..Len(list)
        PROVE  again[i] = list[i]
    <2>1. CASE i = 1
      BY <1>3, <1>4, <2>1
    <2>2. CASE i # 1
      <3>1. i - 1 \in 1..Len(Tail(list)) /\ (i - 1) + 1 = i
        BY <1>1, <1>2, <2>2
      <3> QED
        BY <1>3, <3>1
    <2> QED
      BY <2>1, <2>2
  <1>6. again = list
    BY <1>3, <1>5, SeqEqual
  <1> QED
    BY <1>1, <1>6 DEF again

\* A block that was mapped for an allocation is apart from the others and has
\* room for it.
LEMMA NewBlockServes ==
    ASSUME WellFormed(blocks), NEW size \in Nat, NEW alignment \in Nat \ {0},
           NEW n, n = PagesFor(Minimum(size, alignment)), NEW at \in Placements(n),
           NEW b, b = NewBlock(at, n)
    PROVE  /\ b \in Blocks /\ b.used = 0
           /\ \A i \in 1..Len(blocks) : Extent(b) \cap Extent(blocks[i]) = {}
           /\ Room(b, size, alignment)
  <1> DEFINE capacity == (n - 1) * Page
  <1>0. Page \in Nat \ {0} /\ SizeMax \in Nat
    BY PageAssumption
  <1>1. /\ n \in Nat \ {0} /\ capacity \in Nat /\ size + alignment <= capacity
    <2>1. size + alignment \in Nat /\ Minimum(size, alignment) = size + alignment
      BY DEF Minimum
    <2> QED
      BY <2>1, NewBlockCapacity
  <1>2. PICK k \in 1 .. SizeMax \div Page :
            /\ at = Page * k
            /\ \A i \in 1..Len(blocks) :
                   Extent(blocks[i]) \cap (Page * k .. Page * (k + n) - 1) = {}
    BY DEF Placements
  <1>3. at \in Nat /\ k \in Nat
    <2>1. k \in Nat
      BY <1>0, <1>2, Quotient
    <2> QED
      BY <1>0, <1>2, <2>1
  <1>4. b = [base |-> at + Page, capacity |-> capacity, used |-> 0]
    BY DEF NewBlock
  <1>5. Page * (k + n) = at + Page + capacity
    BY <1>0, <1>1, <1>2, <1>3
  <1> HIDE DEF capacity
  <1>6. /\ b \in Blocks /\ b.used = 0 /\ b.base = at + Page /\ b.capacity = capacity
    BY <1>0, <1>1, <1>3, <1>4 DEF Blocks
  <1>7. Extent(b) = at .. (at + Page + capacity - 1)
    <2>1. b.base - Page = at
      BY <1>0, <1>3, <1>6
    <2>2. b.base + b.capacity - 1 = at + Page + capacity - 1
      BY <1>6
    <2> QED
      BY <1>0, <1>1, <1>3, <1>6, <2>1, <2>2 DEF Extent
  <1>8. \A i \in 1..Len(blocks) : Extent(b) \cap Extent(blocks[i]) = {}
    <2> DEFINE top == Page * (k + n)
    <2>1. \A i \in 1..Len(blocks) : Extent(blocks[i]) \cap (at .. top - 1) = {}
      BY <1>2
    <2>2. top = at + Page + capacity
      BY <1>5
    <2> HIDE DEF top
    <2>3. (at .. top - 1) = Extent(b)
      BY <1>0, <1>1, <1>3, <1>7, <2>2
    <2> QED
      BY <2>1, <2>3
  <1>9. Offset(b, alignment) \in Nat /\ Offset(b, alignment) < alignment
    <2> DEFINE up == AlignUp(b.base + b.used, alignment)
    <2>1. b.base + b.used \in Nat /\ b.base + b.used = b.base /\ b.base \in Nat
      BY <1>0, <1>3, <1>6
    <2>2. up \in Nat /\ b.base <= up /\ up < b.base + alignment
      BY <2>1, AlignUpProperties
    <2>3. Offset(b, alignment) = up - b.base
      BY DEF Offset
    <2> HIDE DEF up
    <2> QED
      BY <2>1, <2>2, <2>3
  <1>10. Room(b, size, alignment)
    BY <1>1, <1>6, <1>9 DEF Room
  <1> QED
    BY <1>6, <1>8, <1>10

\* A new block without allocations in front of the others.
LEMMA NewBlockKeeps ==
    ASSUME WellFormed(blocks), Holds(blocks, given), NEW b \in Blocks, b.used = 0,
           \A i \in 1..Len(blocks) : Extent(b) \cap Extent(blocks[i]) = {}
    PROVE  WellFormed(<<b>> \o blocks) /\ Holds(<<b>> \o blocks, given)
  <1> DEFINE list == <<b>> \o blocks
  <1>1. /\ blocks \in Seq(Blocks) /\ Len(blocks) \in Nat
        /\ list \in Seq(Blocks) /\ Len(list) = Len(blocks) + 1 /\ list[1] = b
        /\ \A i \in 1..Len(blocks) : list[i + 1] = blocks[i]
    BY InFront, LenProperties DEF WellFormed
  <1> HIDE DEF list
  <1>2. \A i \in 1..Len(list) :
            i # 1 => i - 1 \in 1..Len(blocks) /\ list[i] = blocks[i - 1]
    BY <1>1
  <1>3. \A i \in 1..Len(list) : list[i].used <= list[i].capacity
    <2> TAKE i \in 1..Len(list)
    <2>1. CASE i = 1
      BY <1>1, <2>1 DEF Blocks
    <2>2. CASE i # 1
      BY <1>2, <2>2 DEF WellFormed
    <2> QED
      BY <2>1, <2>2
  <1>4. ASSUME NEW i \in 1..Len(list), NEW j \in 1..Len(list), i # j
        PROVE  Extent(list[i]) \cap Extent(list[j]) = {}
    <2>1. CASE i = 1
      BY <1>1, <1>2, <1>4, <2>1
    <2>2. CASE j = 1
      BY <1>1, <1>2, <1>4, <2>2
    <2>3. CASE i # 1 /\ j # 1
      <3>1. i - 1 # j - 1
        BY <1>1, <1>4
      <3> QED
        <4>1. /\ i - 1 \in 1..Len(blocks) /\ list[i] = blocks[i - 1]
              /\ j - 1 \in 1..Len(blocks) /\ list[j] = blocks[j - 1]
          BY <1>2, <2>3
        <4>2. Extent(blocks[i - 1]) \cap Extent(blocks[j - 1]) = {}
          BY <3>1, <4>1 DEF WellFormed
        <4> QED
          BY <4>1, <4>2
    <2> QED
      BY <2>1, <2>2, <2>3
  <1>5. ASSUME NEW g \in given
        PROVE  \E i \in 1..Len(list) : Bytes(g) \subseteq Interior(list[i])
    <2>1. PICK i \in 1..Len(blocks) : Bytes(g) \subseteq Interior(blocks[i])
      BY DEF Holds
    <2>2. i + 1 \in 1..Len(list) /\ list[i + 1] = blocks[i]
      BY <1>1
    <2> QED
      BY <2>1, <2>2
  <1> QED
    BY <1>1, <1>3, <1>4, <1>5 DEF WellFormed, Holds, list

-----------------------------------------------------------------------------
\* An arena that does not exist has no blocks.
LEMMA ArenaInitially == NoArena => ArenaInv
  BY EmptySeq DEF NoArena, ArenaInv, WellFormed, Holds, Apart

\* An allocation keeps the invariant.
LEMMA AllocKeeps ==
    ASSUME ArenaInv, NEW size \in Sizes, NEW alignment \in Alignments,
           ArenaAlloc(size, alignment)
    PROVE  ArenaInv'
  <1>0. size \in Nat /\ alignment \in Nat \ {0}
    BY ArgumentAssumption
  <1>1. ASSUME NEW why, why # "small", Null(blocks, why)
        PROVE  ArenaInv'
    BY <1>1 DEF Null, ArenaInv
  <1>2. ASSUME NEW b \in Blocks, NEW rest \in Seq(Blocks),
               WellFormed(<<b>> \o rest), Holds(<<b>> \o rest, given),
               Room(b, size, alignment), Place(<<b>> \o rest, size, alignment)
        PROVE  ArenaInv'
    <2> DEFINE new == [b EXCEPT !.used = Offset(b, alignment) + size]
               g == [from |-> b.base + Offset(b, alignment), size |-> size,
                     alignment |-> alignment]
    <2>1. Head(<<b>> \o rest) = b /\ Tail(<<b>> \o rest) = rest
      BY InFront
    <2>2. /\ blocks' = <<new>> \o rest /\ given' = given \cup {g}
          /\ answer' = "pointer"
      BY <1>2, <2>1 DEF Place
    <2>3. Apart(given)
      BY DEF ArenaInv
    <2>4. /\ WellFormed(<<new>> \o rest)
          /\ Holds(<<new>> \o rest, given \cup {g})
          /\ Apart(given \cup {g})
      BY <1>0, <1>2, <2>3, PlaceKeeps
    <2> HIDE DEF new, g
    <2> QED
      BY <2>2, <2>4 DEF ArenaInv
  <1>3. ASSUME blocks # <<>>, Room(Head(blocks), size, alignment),
               Place(blocks, size, alignment)
        PROVE  ArenaInv'
    <2>1. /\ Head(blocks) \in Blocks /\ Tail(blocks) \in Seq(Blocks)
          /\ blocks = <<Head(blocks)>> \o Tail(blocks)
      BY <1>3, HeadFirst DEF ArenaInv, WellFormed
    <2>2. WellFormed(blocks) /\ Holds(blocks, given)
      BY DEF ArenaInv
    <2> QED
      BY <1>2, <1>3, <2>1, <2>2
  <1>4. ASSUME AllocNew(size, alignment)
        PROVE  ArenaInv'
    <2> DEFINE n == PagesFor(Minimum(size, alignment))
    <2>1. CASE Null(blocks, "unmapped")
      BY <1>1, <2>1
    <2>2. ASSUME NEW at \in Placements(n),
                 LET b == NewBlock(at, n)
                 IN  IF AddressFits(b, alignment) /\ Room(b, size, alignment)
                     THEN Place(<<b>> \o blocks, size, alignment)
                     ELSE Null(blocks, IF AddressFits(b, alignment)
                                       THEN "small" ELSE "address")
          PROVE  ArenaInv'
      <3> DEFINE b == NewBlock(at, n)
      <3>1. WellFormed(blocks) /\ Holds(blocks, given) /\ blocks \in Seq(Blocks)
        BY DEF ArenaInv, WellFormed
      <3>2. /\ b \in Blocks /\ b.used = 0
            /\ \A i \in 1..Len(blocks) : Extent(b) \cap Extent(blocks[i]) = {}
            /\ Room(b, size, alignment)
        BY <1>0, <2>2, <3>1, NewBlockServes
      <3>3. WellFormed(<<b>> \o blocks) /\ Holds(<<b>> \o blocks, given)
        BY <3>1, <3>2, NewBlockKeeps
      <3>4. CASE Place(<<b>> \o blocks, size, alignment)
        BY <1>2, <3>1, <3>2, <3>3, <3>4
      <3>5. CASE Null(blocks, "address")
        BY <1>1, <3>5
      <3> QED
        BY <2>2, <3>2, <3>4, <3>5
    <2> QED
      BY <1>4, <2>1, <2>2 DEF AllocNew
  <1> QED
    BY <1>1, <1>3, <1>4 DEF ArenaAlloc

\* Every step keeps the invariant.
LEMMA ArenaStep == ArenaInv /\ [ArenaNext]_arenaVars => ArenaInv'
  <1> SUFFICES ASSUME ArenaInv, [ArenaNext]_arenaVars PROVE ArenaInv'
    OBVIOUS
  <1>1. CASE ArenaInit
    BY <1>1 DEF ArenaInit, ArenaInv
  <1>2. CASE ArenaReset \/ ArenaDestroy
    <2>1. blocks' = << >> /\ given' = {} /\ answer' = "none"
      BY <1>2 DEF ArenaReset, ArenaDestroy
    <2>2. WellFormed(<< >>) /\ Holds(<< >>, {}) /\ Apart({})
      BY EmptySeq DEF WellFormed, Holds, Apart
    <2> QED
      BY <2>1, <2>2 DEF ArenaInv
  <1>3. ASSUME NEW size \in Sizes, NEW alignment \in Alignments,
               ArenaAlloc(size, alignment)
        PROVE  ArenaInv'
    BY <1>3, AllocKeeps
  <1>4. CASE UNCHANGED arenaVars
    BY <1>4 DEF arenaVars, ArenaInv
  <1> QED
    BY <1>1, <1>2, <1>3, <1>4 DEF ArenaNext

\* Every allocation is aligned and lies in a block, behind its header and below
\* its mark, allocations never overlap, and a block that was mapped for one has
\* room for it: for every page size, block size, size, alignment and address.
THEOREM ArenaIsSound == ArenaSpec => []ArenaSound
  <1>1. ArenaInv => ArenaSound
    BY DEF ArenaInv, Holds, Apart, Interior, ArenaSound
  <1> QED
    BY <1>1, ArenaInitially, ArenaStep, PTL DEF ArenaSpec

=============================================================================
