------------------------------ MODULE Allocator ------------------------------
(***************************************************************************)
(* The allocator of src/memory: valloc.c over span.c and page_heap.c, with *)
(* the object pool of object_pool.c as one of its clients.                 *)
(*                                                                         *)
(* One size class stands for all 42: their lists never meet.  An object is *)
(* known by the span in its header, so that a free list is a sequence of   *)
(* spans, head first.  A thread is the P it is bound to.  What runs under  *)
(* the mutex is one step; the test of the initialised flag, the two halves *)
(* of vl_realloc and the frees of vl_pool_destroy are steps of their own.  *)
(***************************************************************************)
EXTENDS Integers, Sequences, SequencesExt, FiniteSets, FiniteSetsExt

CONSTANTS Ps,
          MaxSpans,         \* bound on the spans mapped at a time
          ObjectCount,      \* objects of a span
          CacheMax,         \* VL_CACHE_MAX
          CacheRefill,      \* VL_CACHE_REFILL
          MaxHeld,          \* bound on the objects the program holds
          MaxLarge,         \* bound on the large mappings
          MaxPool           \* bound on the items of the pool

ASSUME CountAssumption == ObjectCount \in Nat \ {0} /\ MaxSpans \in Nat
ASSUME CacheAssumption == CacheMax \in Nat /\ CacheRefill \in 1..CacheMax

Spans == 1..MaxSpans
Large == 0                  \* kind of an object with a mapping of its own
NoObject == -1

VARIABLES initialized,
          span,             \* span: its counters, or Unmapped
          central,          \* list of the spans of the class
          cache, remote,    \* P: free lists
          large,            \* number of large mappings
          active_objects, mapped,   \* statistics
          pc, want, old,    \* P: place, purpose of a malloc, object to replace
          user,             \* kind: objects that the program holds
          pool              \* items of the pool, [kind, active]

listVars == <<cache, remote>>
heapVars == <<initialized, span, central, cache, remote, large,
              active_objects, mapped>>
clientVars == <<pc, want, old, user, pool>>
allocatorVars == <<heapVars, clientVars>>

Unmapped == [mapped |-> FALSE, owner |-> NoObject, central |-> 0, free |-> 0,
             cached |-> 0, active |-> 0]

\* Nothing is initialised before the first allocation.
AllocatorInit ==
    /\ initialized = FALSE
    /\ span = [s \in Spans |-> Unmapped]
    /\ central = <<>>
    /\ cache = [p \in Ps |-> <<>>] /\ remote = [p \in Ps |-> <<>>]
    /\ large = 0 /\ active_objects = 0 /\ mapped = 0
    /\ pc = [p \in Ps |-> "idle"]
    /\ want = [p \in Ps |-> "none"]
    /\ old = [p \in Ps |-> NoObject]
    /\ user = [k \in Spans \cup {Large} |-> 0]
    /\ pool = <<>>

Times(list, s) == Cardinality({i \in DOMAIN list : list[i] = s})
First(list, n) == SubSeq(list, 1, Min({n, Len(list)}))
Rest(list, n) == SubSeq(list, Min({n, Len(list)}) + 1, Len(list))
Proceed(p, place) == pc' = [pc EXCEPT ![p] = place]

-----------------------------------------------------------------------------
(* vl_malloc                                                               *)

\* A new span belongs to the current P, and all of its objects are central.
Created(p) == [mapped |-> TRUE, owner |-> p, central |-> ObjectCount,
               free |-> ObjectCount, cached |-> 0, active |-> 0]

FreshSpan == Min({s \in Spans : ~span[s].mapped})

\* vl_find_refill_span: the first span of the list with a central object.
RefillSpans == {i \in DOMAIN central : span[central[i]].central > 0}

\* Mutant: the objects that go to the cache are not counted there.
TakenUncached(sp, n) == [sp EXCEPT !.central = @ - n]

\* vl_span_take_central, n times.
Taken(sp, n) == [sp EXCEPT !.central = @ - n, !.cached = @ + n]

\* What vl_refill_cache makes of the lists of p, whose cache is empty: remote
\* objects first; the span is chosen before they are moved, and when none can be
\* had the refill fails although they were moved.
Refill(p) ==
    LET moved == Reverse(First(remote[p], CacheRefill))
        more == CacheRefill - Len(moved)
        From(s, sp) == LET n == Min({more, sp.central}) IN
            [ok |-> TRUE, cache |-> [i \in 1..n |-> s] \o moved,
             span |-> [span EXCEPT ![s] = Taken(sp, n)]]
        Same(ok) == [ok |-> ok, cache |-> moved, span |-> span] IN
    IF more = 0 THEN {Same(TRUE)}
    ELSE IF RefillSpans # {}
    THEN LET s == central[Min(RefillSpans)] IN {From(s, span[s])}
    ELSE {Same(FALSE)} \cup
         (IF Len(central) < MaxSpans
          THEN {From(FreshSpan, Created(p))} ELSE {})

\* The lists that vl_cache_pop takes the object from.
Refilled(p) ==
    IF cache[p] # <<>> THEN {[ok |-> TRUE, cache |-> cache[p], span |-> span]}
    ELSE Refill(p)

\* An object leaves a cache for its user.
Popped(sp) == [sp EXCEPT !.cached = @ - 1, !.free = @ - 1, !.active = @ + 1]

NewSpans(spans) == {s \in Spans : spans[s].mapped /\ ~span[s].mapped}

\* The object goes to whom it was allocated for.
Give(p, kind) ==
    /\ \/ /\ want[p] = "pool"
          /\ pool' = <<[kind |-> kind, active |-> TRUE]>> \o pool
          /\ UNCHANGED user
       \/ /\ want[p] # "pool"
          /\ user' = [user EXCEPT ![kind] = @ + 1]
          /\ UNCHANGED pool
    /\ Proceed(p, IF want[p] = "realloc" THEN "copied" ELSE "idle")
    /\ want' = [want EXCEPT ![p] = "none"]
    /\ UNCHANGED old

\* NULL is returned; vl_realloc leaves the old object alone.
GiveNothing(p) ==
    /\ user' = IF want[p] = "realloc" THEN [user EXCEPT ![old[p]] = @ + 1] ELSE user
    /\ old' = [old EXCEPT ![p] = NoObject]
    /\ Proceed(p, "idle")
    /\ want' = [want EXCEPT ![p] = "none"]
    /\ UNCHANGED pool

MallocSmall(p) ==
    /\ pc[p] = "ready"
    /\ \E r \in Refilled(p) :
        LET s == Head(r.cache)
            added == NewSpans(r.span) IN
        /\ remote' = IF cache[p] = <<>>
                     THEN [remote EXCEPT ![p] = Rest(@, CacheRefill)] ELSE remote
        /\ central' = SetToSeq(added) \o central
        /\ mapped' = mapped + Cardinality(added)
        /\ \/ /\ r.ok
              /\ cache' = [cache EXCEPT ![p] = Tail(r.cache)]
              /\ span' = [r.span EXCEPT ![s] = Popped(@)]
              /\ active_objects' = active_objects + 1
              /\ Give(p, s)
           \/ /\ ~r.ok
              /\ cache' = [cache EXCEPT ![p] = r.cache]
              /\ span' = r.span
              /\ GiveNothing(p)
              /\ UNCHANGED active_objects
    /\ UNCHANGED <<initialized, large>>

\* vl_malloc_large; the pool's objects are small.
MallocLarge(p) ==
    /\ pc[p] = "ready" /\ want[p] # "pool" /\ large < MaxLarge
    /\ \/ /\ large' = large + 1 /\ mapped' = mapped + 1
          /\ active_objects' = active_objects + 1
          /\ Give(p, Large)
       \/ GiveNothing(p) /\ UNCHANGED <<large, mapped, active_objects>>
    /\ UNCHANGED <<initialized, span, central, listVars>>

\* vl_memory_ensure_initialized reads the flag without the mutex.
Enter(p) ==
    /\ pc[p] = "enter"
    /\ Proceed(p, IF initialized THEN "ready" ELSE "init")
    /\ UNCHANGED <<heapVars, want, old, user, pool>>

\* memset of vl_memory_global: what it counted and listed is gone.
Cleared ==
    /\ span' = [s \in Spans |-> Unmapped]
    /\ central' = <<>>
    /\ cache' = [p \in Ps |-> <<>>] /\ remote' = [p \in Ps |-> <<>>]
    /\ large' = 0 /\ active_objects' = 0 /\ mapped' = 0

\* vl_allocator_init clears everything, unless another thread came first.
Initialize(p) ==
    /\ pc[p] = "init"
    /\ initialized' = TRUE
    /\ \/ ~initialized /\ Cleared
       \/ initialized /\ UNCHANGED <<span, central, listVars, large,
                                     active_objects, mapped>>
    /\ Proceed(p, "ready")
    /\ UNCHANGED <<want, old, user, pool>>

Held == FoldFunction(LAMBDA a, b : a + b, 0, user) + Len(pool)

Malloc(p) ==
    /\ pc[p] = "idle" /\ Held < MaxHeld
    /\ want' = [want EXCEPT ![p] = "user"]
    /\ Proceed(p, "enter")
    /\ UNCHANGED <<heapVars, old, user, pool>>

-----------------------------------------------------------------------------
(* vl_free, vl_realloc, vl_allocator_shutdown                              *)

\* An object returns to a free list, cached for its owner.
Returned(sp) == [sp EXCEPT !.cached = @ + 1, !.free = @ + 1, !.active = @ - 1]

\* vl_span_move_to_central, n times.
Moved(sp, n) == [sp EXCEPT !.central = @ + n, !.cached = @ - n]

\* Mutant: objects in a cache do not keep the span.
EmptyUnlessActive(sp) == sp.active = 0

\* vl_span_reclaim_if_empty.
Empty(sp) == sp.active = 0 /\ sp.cached = 0 /\ sp.central = ObjectCount

\* Mutant: a list that is full is not drained yet.
OverfullLate(list) == Len(list) > CacheMax + 1

Overfull(list) == Len(list) > CacheMax

\* vl_cache_push on P p: the owner's cache, or its remote list when the owner is
\* another P.  When the list that grew is over the maximum it is the cache of
\* the current P that is drained, and spans that are empty then are unmapped.
FreeSmall(p, s) ==
    LET o == span[s].owner
        grown == <<s>> \o (IF o = p THEN cache[p] ELSE remote[o])
        local == IF o = p THEN grown ELSE cache[p]
        drained == IF Overfull(grown) THEN First(local, CacheRefill) ELSE <<>>
        after == [x \in Spans |->
                    Moved(IF x = s THEN Returned(span[x]) ELSE span[x],
                          Times(drained, x))]
        dead == {x \in ToSet(drained) : Empty(after[x])} IN
    /\ cache' = [cache EXCEPT ![p] = Rest(local, Len(drained))]
    /\ remote' = IF o = p THEN remote ELSE [remote EXCEPT ![o] = grown]
    /\ span' = [x \in Spans |-> IF x \in dead THEN Unmapped ELSE after[x]]
    /\ central' = SelectSeq(central, LAMBDA x : x \notin dead)
    /\ mapped' = mapped - Cardinality(dead)
    /\ active_objects' = active_objects - 1
    /\ UNCHANGED <<initialized, large>>

FreeLarge ==
    /\ large' = large - 1 /\ mapped' = mapped - 1
    /\ active_objects' = active_objects - 1
    /\ UNCHANGED <<initialized, span, central, listVars>>

FreeObject(p, kind) ==
    (kind = Large /\ FreeLarge) \/ (kind # Large /\ FreeSmall(p, kind))

\* Any thread may free any object of the program.
Free(p, kind) ==
    /\ pc[p] = "idle" /\ user[kind] > 0
    /\ FreeObject(p, kind)
    /\ user' = [user EXCEPT ![kind] = @ - 1]
    /\ UNCHANGED <<pc, want, old, pool>>

\* vl_realloc past the capacity: the mutex is given up, an object is allocated,
\* and the old one is freed.  Within the capacity only sizes change.
Realloc(p, kind) ==
    /\ pc[p] = "idle" /\ user[kind] > 0
    /\ user' = [user EXCEPT ![kind] = @ - 1]
    /\ old' = [old EXCEPT ![p] = kind]
    /\ want' = [want EXCEPT ![p] = "realloc"]
    /\ Proceed(p, "enter")
    /\ UNCHANGED <<heapVars, pool>>

ReallocFree(p) ==
    /\ pc[p] = "copied"
    /\ FreeObject(p, old[p])
    /\ old' = [old EXCEPT ![p] = NoObject]
    /\ Proceed(p, "idle")
    /\ UNCHANGED <<want, user, pool>>

\* vl_shutdown calls it when its workers are joined; everything is unmapped,
\* what the application still holds included.
Shutdown ==
    /\ initialized /\ \A p \in Ps : pc[p] = "idle"
    /\ initialized' = FALSE
    /\ Cleared
    /\ user' = [k \in Spans \cup {Large} |-> 0]
    /\ pool' = <<>>
    /\ UNCHANGED <<pc, want, old>>

-----------------------------------------------------------------------------
(* The pool, which one thread at a time uses.                              *)

PoolIdle(p) ==
    pc[p] = "idle" /\ \A q \in Ps : pc[q] # "destroying" /\ want[q] # "pool"
Inactive == {i \in DOMAIN pool : ~pool[i].active}

\* vl_pool_alloc reuses the first inactive object or allocates one.
PoolAlloc(p) ==
    /\ PoolIdle(p)
    /\ \/ /\ Inactive # {}
          /\ pool' = [pool EXCEPT ![Min(Inactive)].active = TRUE]
          /\ UNCHANGED <<pc, want>>
       \/ /\ Inactive = {} /\ Len(pool) < MaxPool /\ Held < MaxHeld
          /\ want' = [want EXCEPT ![p] = "pool"]
          /\ Proceed(p, "enter")
          /\ UNCHANGED pool
    /\ UNCHANGED <<heapVars, old, user>>

PoolFree(p, i) ==
    /\ PoolIdle(p) /\ pool[i].active
    /\ pool' = [pool EXCEPT ![i].active = FALSE]
    /\ UNCHANGED <<heapVars, pc, want, old, user>>

\* vl_pool_destroy frees every object, active or not, one call at a time.
PoolDestroy(p) ==
    /\ pool # <<>> /\ PoolIdle(p)
    /\ Proceed(p, "destroying")
    /\ UNCHANGED <<heapVars, want, old, user, pool>>

PoolDestroyItem(p) ==
    /\ pc[p] = "destroying"
    /\ FreeObject(p, Head(pool).kind)
    /\ pool' = Tail(pool)
    /\ Proceed(p, IF Len(pool) = 1 THEN "idle" ELSE "destroying")
    /\ UNCHANGED <<want, old, user>>

-----------------------------------------------------------------------------

AllocatorNext ==
    \/ \E p \in Ps :
        \/ Malloc(p) \/ Enter(p) \/ Initialize(p)
        \/ MallocSmall(p) \/ MallocLarge(p)
        \/ \E k \in Spans \cup {Large} : Free(p, k) \/ Realloc(p, k)
        \/ ReallocFree(p)
        \/ PoolAlloc(p) \/ PoolDestroy(p) \/ PoolDestroyItem(p)
        \/ \E i \in DOMAIN pool : PoolFree(p, i)
    \/ Shutdown

AllocatorSpec == AllocatorInit /\ [][AllocatorNext]_allocatorVars

-----------------------------------------------------------------------------
(* Properties                                                              *)

\* "object_count = active_count + free_count; free_count = central_free_count +
\* cached_count" (docs/architecture/allocator.md), for every span after every
\* operation, also in the middle of a vl_realloc or a vl_pool_destroy.
SpanAccounting ==
    \A s \in Spans : span[s].mapped =>
        /\ span[s].active + span[s].free = ObjectCount
        /\ span[s].free = span[s].central + span[s].cached

\* The objects of a kind that somebody outside the heap holds.
Outside(k) ==
    user[k] + Cardinality({i \in DOMAIN pool : pool[i].kind = k})
    + Cardinality({p \in Ps : old[p] = k})

Listed(s) == SumFunction([p \in Ps |-> Times(cache[p], s) + Times(remote[p], s)])

\* The counters that vl_span_reclaim_if_empty trusts are true: a span's active
\* count is the number of its objects that the program, the pool and calls in
\* progress hold, its cached count is the number that the free lists of all Ps
\* hold, and no list and nobody holds an object of a span that was unmapped.
\* The statistics agree with the objects and mappings there are.
HeapSound ==
    /\ \A s \in Spans :
        /\ span[s].active = Outside(s)
        /\ span[s].cached = Listed(s)
        /\ span[s].mapped <=> s \in ToSet(central)
        /\ ~span[s].mapped => span[s] = Unmapped
    /\ IsInjective(central)
    /\ large = Outside(Large)
    /\ mapped = Len(central) + large
    /\ active_objects = SumFunction([k \in Spans \cup {Large} |-> Outside(k)])

\* "maximum 64 objects" (docs/architecture/allocator.md): the cache of a P never
\* holds more than the maximum, whoever frees and whatever was refilled.  (Its
\* remote list may: see vl_cache_push.)
CacheBound == \A p \in Ps : Len(cache[p]) <= CacheMax
=============================================================================
