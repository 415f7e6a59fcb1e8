----------------------------- MODULE IoRequests ------------------------------
(***************************************************************************)
(* The backend-neutral half of src/net/backend.c: request objects, the     *)
(* thread that owns a handle and is inside one of its calls, and the end   *)
(* of vl_io_poll, which is the same for both backends.  A call is broken   *)
(* at every registry lock and at every kernel call, because other threads  *)
(* open, track and close sockets at any time and may reuse a descriptor    *)
(* number in between.  What is read or written is left out; what counts    *)
(* is the socket an operation was performed on.                            *)
(***************************************************************************)
EXTENDS SocketSlots, FiniteSets, Sequences, Functions

CONSTANTS Handles, Requests, NoRequest,
          Ops           \* "recv" stands for send too

ASSUME OpsAssumption == Ops \subseteq {"accept", "recv", "connect", "timeout"}
ASSUME NoRequestAssumption == NoRequest \notin Requests
ASSUME FdsAssumption == 0 \notin Fds /\ GenMax \in Nat /\ MaxSockets \in Nat

VARIABLES req,          \* the request objects and what became of them
          live,         \* the handles that are initialised and not yet destroyed
          pc, cur,      \* handle: place of its thread, request in hand
          outcome       \* handle: result in hand, [kind, fd, on]

threadVars == <<pc, cur, outcome>>
requestVars == <<req, live, pc, cur, outcome>>

\* "ok": the operation was performed on socket "on", with whatever result;
\* "error": there was no socket to perform it on, or none could be kept.
Kinds == {"none", "ok", "error", "stale", "cancelled"}
NoFd == 0
Nothing == [kind |-> "none", fd |-> NoFd, on |-> 0]
Result(kind) == [Nothing EXCEPT !.kind = kind]
Outcomes == [kind: Kinds, fd: Fds \cup {NoFd}, on: 0..MaxSockets]

\* fd, op and generation are the caller's; socket is the one claimed.
Object(state, fd, op, generation, socket, result) ==
    [state |-> state, fd |-> fd, op |-> op, gen |-> generation,
     socket |-> socket, result |-> result]
Blank == Object("new", NoFd, "none", 0, 0, Nothing)

RequestInit ==
    /\ req = [r \in Requests |-> Blank]
    /\ live \in [Handles -> BOOLEAN]
    /\ pc = [h \in Handles |-> "idle"]
    /\ cur = [h \in Handles |-> NoRequest]
    /\ outcome = [h \in Handles |-> Nothing]

Request == [state: {"new", "submitting", "pending", "done"},
            fd: Fds \cup {NoFd}, op: Ops \cup {"none"},
            gen: 0..GenMax, socket: 0..MaxSockets, result: Outcomes]

RequestOK ==
    /\ req \in [Requests -> Request]
    /\ live \in [Handles -> BOOLEAN]
    /\ cur \in [Handles -> Requests \cup {NoRequest}]
    /\ outcome \in [Handles -> Outcomes]

At(h, place) == live[h] /\ pc[h] = place
Goto(h, place) == pc' = [pc EXCEPT ![h] = place]
Hold(h, r) == cur' = [cur EXCEPT ![h] = r]
Fd(r) == req[r].fd

\* vl_socket_request_is_stale: a timeout has no descriptor.
Stale(r) == req[r].op # "timeout" /\ IsStale(req[r].fd, req[r].gen)

\* The thread of h is between calls again.
Return(h) ==
    /\ Goto(h, "idle") /\ Hold(h, NoRequest)
    /\ outcome' = [outcome EXCEPT ![h] = Nothing]

\* The request is free: its completion was returned, or it was refused.  A
\* request generation of 0 captures the current one; any other value that
\* differs from it is refused.
Capture(h, r, f, op) ==
    /\ At(h, "idle") /\ req[r].state \in {"new", "done"}
    /\ gen[f] # 0
    /\ req' = [req EXCEPT ![r] =
                 Object("submitting", f, op, gen[f], 0, Nothing)]
    /\ Hold(h, r)

Refuse(h) == req' = [req EXCEPT ![cur[h]] = Blank] /\ Return(h)

\* vl_socket_claim looks at everything again.
ClaimOrRefuse(h, next) ==
    LET r == cur[h] IN
    /\ \/ /\ Claimable(Fd(r), req[r].gen)
          /\ Claim(Fd(r), req[r].gen)
          /\ req' = [req EXCEPT ![r].socket = file[Fd(r)]]
          /\ Goto(h, next)
          /\ UNCHANGED <<cur, outcome>>
       \/ ~Claimable(Fd(r), req[r].gen) /\ Refuse(h) /\ UNCHANGED pending
    /\ UNCHANGED <<kernelVars, gen, active, opened, owned, live>>

\* The caller fills in the other fields again before the next submission.
Answer(r, result) ==
    req' = [req EXCEPT ![r] =
              Object("done", NoFd, "none", 0, req[r].socket, result)]

\* Mutant: the completion is not tested for staleness again.
DeliverUnchecked(h) ==
    LET a == outcome[h].fd IN
    /\ At(h, "deliver")
    /\ Answer(cur[h], outcome[h])
    /\ owned' = IF a = NoFd THEN owned ELSE owned \cup {a}
    /\ Return(h)
    /\ UNCHANGED <<kernelVars, slotVars, opened, live>>

\* Mutant: the socket of a stale accept stays open.
DeliverKeepsAccepted(h) ==
    LET r == cur[h]
        a == outcome[h].fd IN
    /\ At(h, "deliver")
    /\ Answer(r, IF Stale(r) THEN Result("stale") ELSE outcome[h])
    /\ owned' = IF a = NoFd \/ Stale(r) THEN owned ELSE owned \cup {a}
    /\ Return(h)
    /\ UNCHANGED <<kernelVars, slotVars, opened, live>>

\* The end of vl_io_poll: a stale completion loses its result, and the socket
\* that a stale accept created is closed.
Deliver(h) ==
    LET r == cur[h]
        a == outcome[h].fd IN
    /\ At(h, "deliver")
    /\ \/ /\ ~Stale(r)
          /\ Answer(r, outcome[h])
          /\ owned' = IF a = NoFd THEN owned ELSE owned \cup {a}
          /\ UNCHANGED <<file, gen, active>>
       \/ /\ Stale(r)
          /\ Answer(r, Result("stale"))
          /\ \/ a # NoFd /\ Closed(a)
             \/ a = NoFd /\ UNCHANGED <<file, gen, active>>
          /\ UNCHANGED owned
    /\ Return(h)
    /\ UNCHANGED <<serial, pending, opened, live>>

\* vl_socket_close by the thread that holds the descriptor.
CloseOwned(f) ==
    /\ f \in owned
    /\ Closed(f)
    /\ owned' = owned \ {f}
    /\ UNCHANGED <<serial, pending, opened>>

-----------------------------------------------------------------------------
(* What the properties of both backends say.                               *)

\* The claim of a slot is held by exactly one of the claimants, and is free
\* when none holds it.
ClaimedBy(claimants) ==
    \A f \in Fds :
        LET holders == {r \in claimants : Fd(r) = f} IN
        /\ pending[f] # 0 <=> holders # {}
        /\ \A r, s \in holders : r = s /\ req[r].gen = pending[f]

\* "reuse of the same integer cannot satisfy an older Request"
\* (docs/architecture/io.md): a result that is delivered came from an operation
\* on the very socket the request was submitted for, although the number may
\* have been closed and reused between the claim, the staleness test and the
\* operation.
RightSocket ==
    \A r \in Requests :
        req[r].state = "done" /\ req[r].result.kind = "ok"
            => req[r].result.on = req[r].socket

\* Every open socket is held by the program or is in the hands of a completion,
\* and nobody holds a descriptor that is closed.
OpenExactly(inHand) ==
    /\ \A f \in Fds : file[f] # 0 <=> f \in opened \cup owned \cup inHand
    /\ owned \cap inHand = {}
    /\ \A f \in owned : active[f]
=============================================================================
