------------------------------ MODULE MCLibrary ------------------------------
(***************************************************************************)
(* The parts of the library that do not need the scheduler: the allocator  *)
(* with an object pool, an arena, fibers on one thread, and the HTTP       *)
(* server.  A behaviour is one of one part; the variables of the others    *)
(* keep their initial values.                                              *)
(***************************************************************************)
EXTENDS Allocator, Arena, Fiber, HttpServer

CONSTANTS f1, f2, f3, c1, c2

VARIABLE part

mcVars == <<part, allocatorVars, arenaVars, fiberVars, httpVars>>

\* Only the first fiber has a stack that can grow.
MCStackPages == [f \in Fibers |-> IF f = f1 THEN 3 ELSE 1]

\* Heads that are good, over every limit in turn, and malformed in every way;
\* the second connection sends a request for no route.
Message(n, ok, h) == [line |-> n, lineOk |-> ok, headers |-> h, route |-> TRUE]

MCMessages ==
    { Message(4, TRUE, <<>>), Message(1, FALSE, <<>>) } \cup
    { Message(1, TRUE, h) :
        h \in { <<LengthIs(1)>>, <<LengthIs(3)>>, <<LengthIs(3), Malformed>>,
                <<BadLength>>, <<LengthIs(1), LengthIs(1)>>,
                <<Other, Other, Other>> } }
MCOther == { [line |-> 1, lineOk |-> TRUE, headers |-> <<>>, route |-> FALSE] }
MCMessagesOf == [c \in Connections |-> IF c = c1 THEN MCMessages ELSE MCOther]
MCSegmentsOf == [c \in Connections |-> IF c = c1 THEN {1, 4, 11} ELSE {2, 5}]

MCInit ==
    /\ part \in {"allocator", "arena", "fibers", "http"}
    /\ AllocatorInit /\ NoArena /\ SchedInit /\ ServerInit

MCNext ==
    /\ \/ /\ part = "allocator" /\ AllocatorNext
          /\ UNCHANGED <<arenaVars, fiberVars, httpVars>>
       \/ /\ part = "arena" /\ ArenaNext
          /\ UNCHANGED <<allocatorVars, fiberVars, httpVars>>
       \/ /\ part = "fibers" /\ FiberNext
          /\ UNCHANGED <<allocatorVars, arenaVars, httpVars>>
       \/ /\ part = "http" /\ HttpNext
          /\ UNCHANGED <<allocatorVars, arenaVars, fiberVars>>
    /\ UNCHANGED part

MCSpec == MCInit /\ [][MCNext]_mcVars /\ HttpFairness
=============================================================================
