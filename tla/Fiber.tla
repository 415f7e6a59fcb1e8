-------------------------------- MODULE Fiber --------------------------------
(***************************************************************************)
(* The fibers of src/fiber/fiber.c on the thread that owns their           *)
(* scheduler: creation, resume, yield, return, destruction, and the growth *)
(* of a stack from the fault handler.                                      *)
(*                                                                         *)
(* A context switch stops one context and continues another where it was   *)
(* saved.  `saved' says where that is, so that what vl_fiber_resume does   *)
(* after its switch happens when its caller is continued, whoever it is    *)
(* that continues it.                                                      *)
(***************************************************************************)
EXTENDS Integers, FiniteSets

CONSTANTS Fibers,
          Root,             \* the thread's own context
          StackPages        \* fiber: usable pages of its stack

ASSUME RootAssumption == Root \notin Fibers
ASSUME StackAssumption == StackPages \in [Fibers -> Nat \ {0}]

VARIABLES state,            \* fiber: vl_fiber_state_t, "none" if not allocated
          caller,           \* fiber: its caller field, Root for NULL
          current,          \* impl->current, Root for NULL
          live_fibers,
          saved,            \* context: where it continues
          running,          \* the context that really executes
          resumed,          \* context: the fiber its pending resume continued
          pages,            \* fiber: accessible pages of its mapping
          mapped_low,       \* fiber: lowest of them by its own account
          sched,            \* whether the scheduler exists
          crossed           \* history: a fiber waiting in a resume was resumed

chainVars == <<state, caller, current, saved, running, resumed, crossed>>
fiberVars == <<chainVars, live_fibers, pages, mapped_low, sched>>

Contexts == Fibers \cup {Root}
Guard == 0                  \* page below the stack
Top(f) == StackPages[f]     \* page that a stack starts on

\* vl_fiber_sched_init.
SchedInit ==
    /\ state = [f \in Fibers |-> "none"]
    /\ caller = [f \in Fibers |-> Root]
    /\ current = Root /\ running = Root
    /\ live_fibers = 0
    /\ saved = [c \in Contexts |-> "none"]
    /\ resumed = [c \in Contexts |-> Root]
    /\ pages = [f \in Fibers |-> {}]
    /\ mapped_low = [f \in Fibers |-> Top(f)]
    /\ sched = TRUE /\ crossed = FALSE

\* vl_fiber_create: one page is mapped, and the context starts in the
\* trampoline.
Create(f) ==
    /\ sched /\ state[f] = "none"
    /\ state' = [state EXCEPT ![f] = "READY"]
    /\ caller' = [caller EXCEPT ![f] = Root]
    /\ saved' = [saved EXCEPT ![f] = "trampoline"]
    /\ pages' = [pages EXCEPT ![f] = {Top(f)}]
    /\ mapped_low' = [mapped_low EXCEPT ![f] = Top(f)]
    /\ live_fibers' = live_fibers + 1
    /\ UNCHANGED <<current, running, resumed, sched, crossed>>

\* The state with fiber f set to s, and the context c set running.
Marked(f, s, c) ==
    [g \in Fibers |-> IF g = c THEN "RUNNING" ELSE IF g = f THEN s ELSE state[g]]

\* Mutant: the caller link survives the resume that set it.
TransferKeepsCaller(place, what, to, callers) ==
    /\ running' = to
    /\ saved' = [saved EXCEPT ![running] = place, ![to] = "none"]
    /\ resumed' = [resumed EXCEPT ![running] = what, ![to] = Root]
    /\ current' = to
    /\ caller' = callers

\* vl_transfer: the running context stops at `place', in a resume of `what',
\* and `to' continues.  A context that was inside vl_fiber_resume goes on to
\* the end of it: it makes itself current again and clears the caller of the
\* fiber it had resumed.  `callers' are the caller fields at the switch.
Transfer(place, what, to, callers) ==
    /\ running' = to
    /\ saved' = [saved EXCEPT ![running] = place, ![to] = "none"]
    /\ resumed' = [resumed EXCEPT ![running] = what, ![to] = Root]
    /\ current' = to
    /\ caller' = IF saved[to] = "resume"
                 THEN [callers EXCEPT ![resumed[to]] = Root]
                 ELSE callers

\* vl_fiber_resume, for a fiber that is neither RUNNING nor DONE: a suspended
\* fiber that waits in a resume of its own is not refused.
Resume(f) ==
    /\ state[f] \in {"READY", "SUSPENDED"}
    /\ state' = Marked(current, "SUSPENDED", f)
    /\ crossed' = (crossed \/ saved[f] = "resume")
    /\ Transfer("resume", f, f, [caller EXCEPT ![f] = current])
    /\ UNCHANGED <<live_fibers, pages, mapped_low, sched>>

\* The running fiber gives control to its caller.
ToCaller(s, place) ==
    /\ current # Root /\ state[current] = "RUNNING"
    /\ state' = Marked(current, s, caller[current])
    /\ Transfer(place, Root, caller[current], caller)
    /\ UNCHANGED <<crossed, live_fibers, pages, mapped_low, sched>>

\* vl_fiber_yield.
Yield == ToCaller("SUSPENDED", "yield")

\* The fiber's function returns to vl_fiber_trampoline.
Return == ToCaller("DONE", "unreachable")

\* vl_stack_fault_handler: the running context touches page a of the stack of
\* fiber f.  A page that is not mapped faults; if it is one of the stack of the
\* current fiber, the pages from it up to the mapped ones are mapped.  Any
\* other fault is forwarded and ends the process.
Touch(f, a) ==
    /\ f = running /\ a \notin pages[f]
    /\ f = current /\ state[f] = "RUNNING"
    /\ a > Guard /\ a < mapped_low[f]
    /\ pages' = [pages EXCEPT ![f] = @ \cup (a .. mapped_low[f] - 1)]
    /\ mapped_low' = [mapped_low EXCEPT ![f] = a]
    /\ UNCHANGED <<chainVars, live_fibers, sched>>

\* The fibers that wait in a resume of their own.
Waiting == { f \in Fibers : saved[f] = "resume" }

\* vl_fiber_destroy refuses a RUNNING fiber.  That the program does not destroy
\* a fiber that waits in a resume is left to the program.
FiberDestroy(f) ==
    /\ state[f] \notin {"none", "RUNNING"} /\ f \notin Waiting
    /\ state' = [state EXCEPT ![f] = "none"]
    /\ saved' = [saved EXCEPT ![f] = "none"]
    /\ pages' = [pages EXCEPT ![f] = {}]
    /\ live_fibers' = live_fibers - 1
    /\ UNCHANGED <<caller, current, running, resumed, crossed, mapped_low, sched>>

\* vl_fiber_sched_destroy is refused inside a fiber and while one is left.
SchedDestroy ==
    /\ sched /\ current = Root /\ live_fibers = 0
    /\ sched' = FALSE
    /\ UNCHANGED <<chainVars, live_fibers, pages, mapped_low>>

FiberNext ==
    \/ \E f \in Fibers : Create(f) \/ Resume(f) \/ FiberDestroy(f)
    \/ \E f \in Fibers : \E a \in Guard..Top(f) : Touch(f, a)
    \/ Yield \/ Return \/ SchedDestroy

-----------------------------------------------------------------------------
\* The context that control reaches from the running one after n yields.
Back[n \in 0..Cardinality(Fibers)] ==
    IF n = 0 THEN current
    ELSE LET c == Back[n - 1] IN IF c = Root THEN Root ELSE caller[c]

Chain == { Back[n] : n \in DOMAIN Back } \ {Root}

\* The context that executes is current and the one fiber marked RUNNING, and
\* its caller links lead to the thread's own context through fibers that wait
\* in a resume, however the fibers resumed one another: a yield never continues
\* a context that is not stopped in vl_fiber_resume.  Unless a fiber that was
\* waiting in a resume was itself resumed, a fiber yields to the context whose
\* resume runs it, and every waiting fiber is on the way back.
ResumeChain ==
    /\ current = running
    /\ \A f \in Fibers : state[f] = "RUNNING" <=> f = running
    /\ running # Root => saved[Root] = "resume"
    /\ Back[Cardinality(Fibers)] = Root
    /\ Chain \ {running} \subseteq Waiting
    /\ \A f \in Waiting : state[f] = "SUSPENDED"
    /\ crossed \/ ( /\ Waiting \subseteq Chain
                    /\ \A f \in Chain : resumed[caller[f]] = f )

\* The mapped pages of a stack have no hole, never reach the guard page, and
\* are those the fiber accounts for.
StackMapped ==
    \A f \in Fibers : state[f] # "none" =>
        /\ pages[f] = mapped_low[f]..Top(f)
        /\ Guard \notin pages[f]

FiberSound == ResumeChain /\ StackMapped
=============================================================================
