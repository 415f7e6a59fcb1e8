-------------------------------- MODULE MCIo ---------------------------------
(***************************************************************************)
(* Instances of both I/O backends for TLC.  A behaviour is one of epoll    *)
(* handles or one of io_uring handles, as vl_io_init_with_config chooses;  *)
(* the registry and the facade are the same.  The io_uring instance has    *)
(* bounds of its own and one handle, because it has a worker thread and a  *)
(* kernel more.                                                            *)
(***************************************************************************)
EXTENDS EpollIo, TLC

CONSTANTS h1, h2, r1, r2, f1, f2,
          UringRequests, UringSockets, UringOps, Depth, MaxOperations

ASSUME UringAssumption == Depth \in Nat \ {0} /\ MaxOperations \in Nat \ {0}

VARIABLES backend,
          oper, commands, done, status, stop, event, armed, wpc, batch, wop, sq,
          abandoned

Uring == INSTANCE UringIo WITH Requests <- UringRequests,
                               MaxSockets <- UringSockets, Ops <- UringOps

MCHandles == {h1, h2}
MCRequests == {r1, r2}
MCFds == {f1, f2}
OneHandle == {h1}
OneRequest == {r1}
Symmetric == Permutations(MCHandles) \cup Permutations(MCRequests)
             \cup Permutations(MCFds)

uringVars == <<oper, commands, done, status, stop, event, armed, wpc, batch, wop,
               sq, abandoned>>
mcVars == <<vars, uringVars, backend>>

\* vl_io_init_with_config takes one of the backends for good.
MCInit ==
    /\ Init /\ Uring!UringInit
    /\ \/ backend = "epoll"
       \/ backend = "uring" /\ Cardinality({h \in Handles : live[h]}) = 1

\* Two requests, or two sockets, but not both: requests meet on the one socket,
\* where the second may be claimed before the first is delivered, and sockets
\* come and go under a request.
UringBound ==
    \/ serial <= 1
    \/ Cardinality({r \in Requests : req[r].state # "new"}) <= 1

EpollNext == backend = "epoll" /\ Next /\ UNCHANGED <<uringVars, backend>>
UringNext == backend = "uring" /\ Uring!Next /\ UringBound'
             /\ UNCHANGED <<epollVars, backend>>

MCSpec == MCInit /\ [][EpollNext \/ UringNext]_mcVars

\* The calls of a thread run to their end, and a handle with pending requests
\* is polled again and again: the worker loop polls its I/O driver until
\* nothing is ready before it runs the next task (vl_worker_run).
EpollFairness ==
    \A h \in Handles :
        /\ WF_vars(backend = "epoll" /\ SubmitStep(h))
        /\ WF_vars(backend = "epoll" /\ PollStep(h))
        /\ SF_vars(backend = "epoll" /\ PollQueued(h))
        /\ SF_vars(backend = "epoll" /\ PollBegin(h))

\* The worker runs whenever it can, it reaps entries in the order in which they
\* were posted, so that none is passed over for ever, a call that has begun goes
\* on, and the handle is polled again and again.  A poll that waits without a
\* time limit waits until it is signalled, and an operation may take for ever.
ioVars == <<socketVars, requestVars, uringVars>>
UringFairness ==
    \A h \in Handles :
        /\ WF_ioVars(backend = "uring" /\ Uring!WorkerStep(h))
        /\ WF_ioVars(backend = "uring" /\ Uring!SubmitStep(h))
        /\ WF_ioVars(backend = "uring" /\ Uring!PollDeliver(h))
        /\ WF_ioVars(backend = "uring" /\ Uring!DestroyEnd(h))
        /\ WF_ioVars(backend = "uring" /\ pc[h] = "woken" /\ Uring!PollReturn(h))
        /\ SF_ioVars(backend = "uring" /\ Uring!PollTake(h))
        /\ \A o \in Uring!Operations :
               SF_ioVars(backend = "uring" /\ Uring!Reap(h, o))

MCFairSpec == MCSpec /\ EpollFairness /\ UringFairness

-----------------------------------------------------------------------------

\* Over both backends: see ClaimExact of EpollIo and of UringIo.
OneClaim == IF backend = "epoll" THEN ClaimExact ELSE Uring!ClaimExact

\* See CompletesOnce of EpollIo and of UringIo.
OneCompletion == IF backend = "epoll" THEN CompletesOnce ELSE Uring!CompletesOnce

\* See NoFdLeak of EpollIo and of UringIo.
NoLeak == IF backend = "epoll" THEN NoFdLeak ELSE Uring!NoFdLeak

\* See OperationLifetime of UringIo.
OperationLifetime == backend = "uring" => Uring!OperationLifetime

\* See StaleCompletes of EpollIo and RequestCompletes of UringIo.
Completes == /\ backend = "epoll" => StaleCompletes
             /\ backend = "uring" => Uring!RequestCompletes
=============================================================================
