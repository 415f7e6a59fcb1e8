-------------------------------- MODULE Arena --------------------------------
(***************************************************************************)
(* The arena of src/memory/arena.c over the pages of page_heap.c.          *)
(*                                                                         *)
(* Addresses and sizes are the integers 0..SizeMax; a block is a run of    *)
(* pages whose first one holds its header, wherever mmap puts it.  An      *)
(* arena belongs to one thread, so that a call is one step.                *)
(***************************************************************************)
EXTENDS Integers, Sequences

CONSTANTS Page,             \* page_size
          SizeMax,          \* SIZE_MAX and UINTPTR_MAX
          BlockSize,        \* block_size given to vl_arena_init
          Sizes, Alignments \* arguments of vl_arena_alloc

ASSUME PageAssumption == Page \in Nat \ {0} /\ SizeMax \in Nat
ASSUME BlockAssumption == BlockSize \in 1 .. SizeMax - Page
ASSUME ArgumentAssumption == Sizes \subseteq Nat /\ Alignments \subseteq Nat \ {0}

VARIABLES arena,            \* whether the arena exists
          blocks,           \* its blocks, head first
          given,            \* allocations since the last reset
          answer            \* how the last vl_arena_alloc ended

arenaVars == <<arena, blocks, given, answer>>

NoArena == arena = FALSE /\ blocks = <<>> /\ given = {} /\ answer = "none"

\* vl_arena_init; a block size that does not fit is refused.
ArenaInit ==
    /\ ~arena
    /\ arena' = TRUE /\ answer' = "none"
    /\ UNCHANGED <<blocks, given>>

AlignUp(a, alignment) == ((a + alignment - 1) \div alignment) * alignment

\* The pages of a new block, header included.
PagesFor(minimum) ==
    LET capacity == IF BlockSize > minimum THEN BlockSize ELSE minimum
    IN  (capacity + Page - 1) \div Page + 1

\* Mutant: no room is kept to align the allocation.
MinimumUnaligned(size, alignment) == size

\* Capacity asked of a new block: the size, and room to align it.
Minimum(size, alignment) == size + alignment

\* What vl_arena_alloc and vl_arena_new_block refuse because a sum would not
\* fit in a size_t.
Overflows(size, alignment) ==
    \/ size > SizeMax - alignment
    \/ size + alignment > SizeMax - (Page - 1)
    \/ PagesFor(Minimum(size, alignment)) > SizeMax \div Page

\* The addresses of block b, and where mmap may put a block of n pages.
Extent(b) == (b.base - Page) .. (b.base + b.capacity - 1)

Placements(n) ==
    { Page * k : k \in { j \in 1 .. SizeMax \div Page :
        /\ Page * (j + n) - 1 <= SizeMax
        /\ \A i \in 1..Len(blocks) :
               Extent(blocks[i]) \cap (Page * j .. Page * (j + n) - 1) = {} } }

NewBlock(at, n) == [base |-> at + Page, capacity |-> (n - 1) * Page, used |-> 0]

\* Offset of the next allocation in block b.
Offset(b, alignment) == AlignUp(b.base + b.used, alignment) - b.base

AddressFits(b, alignment) == b.base + b.used <= SizeMax - (alignment - 1)

Room(b, size, alignment) ==
    /\ Offset(b, alignment) <= b.capacity
    /\ size <= b.capacity - Offset(b, alignment)

\* vl_arena_alloc succeeds in the head of `list'.
Place(list, size, alignment) ==
    LET b == Head(list)
        at == Offset(b, alignment)
    IN  /\ blocks' = <<[b EXCEPT !.used = at + size]>> \o Tail(list)
        /\ given' = given \cup {[from |-> b.base + at, size |-> size,
                                 alignment |-> alignment]}
        /\ answer' = "pointer"

\* It returns NULL, leaving `list'.
Null(list, why) == blocks' = list /\ answer' = why /\ UNCHANGED given

\* The allocation is tried in a block of its own, put in front of the blocks; a
\* block that turns out too small is released again.
AllocNew(size, alignment) ==
    LET n == PagesFor(Minimum(size, alignment))
    IN  \/ Null(blocks, "unmapped")
        \/ \E at \in Placements(n) :
               LET b == NewBlock(at, n)
               IN  IF AddressFits(b, alignment) /\ Room(b, size, alignment)
                   THEN Place(<<b>> \o blocks, size, alignment)
                   ELSE Null(blocks, IF AddressFits(b, alignment)
                                     THEN "small" ELSE "address")

\* vl_arena_alloc.
ArenaAlloc(size, alignment) ==
    /\ arena
    /\ IF blocks # <<>> /\ ~AddressFits(Head(blocks), alignment)
       THEN Null(blocks, "address")
       ELSE IF blocks # <<>> /\ Room(Head(blocks), size, alignment)
       THEN Place(blocks, size, alignment)
       ELSE IF Overflows(size, alignment)
       THEN Null(blocks, "overflow")
       ELSE AllocNew(size, alignment)
    /\ UNCHANGED arena

\* vl_arena_reset: every block is released, and the program drops what it got.
ArenaReset ==
    /\ arena
    /\ blocks' = <<>> /\ given' = {} /\ answer' = "none"
    /\ UNCHANGED arena

\* vl_arena_destroy.
ArenaDestroy ==
    /\ arena
    /\ arena' = FALSE
    /\ blocks' = <<>> /\ given' = {} /\ answer' = "none"

ArenaNext ==
    \/ ArenaInit \/ ArenaReset \/ ArenaDestroy
    \/ \E size \in Sizes, alignment \in Alignments : ArenaAlloc(size, alignment)

ArenaSpec == NoArena /\ [][ArenaNext]_arenaVars

-----------------------------------------------------------------------------
Bytes(g) == g.from .. (g.from + g.size - 1)

\* Every allocation since the last reset is aligned and lies in a block, behind
\* its header and below its mark, two of them never share a byte, and a block
\* mapped for an allocation has room for it, whatever address it got.
ArenaSound ==
    /\ \A g \in given :
           /\ g.from % g.alignment = 0
           /\ \E i \in 1..Len(blocks) :
                  Bytes(g) \subseteq
                      blocks[i].base .. (blocks[i].base + blocks[i].used - 1)
    /\ \A g, h \in given : g # h => Bytes(g) \cap Bytes(h) = {}
    /\ answer # "small"
=============================================================================
