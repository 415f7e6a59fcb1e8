------------------------------- MODULE EpollIo -------------------------------
(***************************************************************************)
(* Requests on epoll handles: src/net/epoll_backend.c under the facade of  *)
(* IoRequests and over the registry SocketSlots.  A handle belongs to one  *)
(* thread, whose calls are submit, cancel, poll and destroy.               *)
(***************************************************************************)
EXTENDS IoRequests

VARIABLES waiters,      \* handle: list of requests, newest first
          completed,    \* handle: queue of cancelled requests
          watched,      \* handle: epoll set, [fd, socket, request]
          pos           \* handle: scan cursor

handleVars == <<live, waiters, completed, watched>>
epollVars == <<waiters, completed, watched, pos>>
vars == <<socketVars, requestVars, epollVars>>

EpollInit ==
    /\ waiters = [h \in Handles |-> <<>>]
    /\ completed = [h \in Handles |-> <<>>]
    /\ watched = [h \in Handles |-> {}]
    /\ pos = [h \in Handles |-> 0]

Init == SocketInit /\ RequestInit /\ EpollInit

\* A closed socket leaves every epoll set.
Unwatched(f) == [h \in Handles |-> {w \in watched[h] : w.fd # f}]

Close(f) ==
    /\ CloseOwned(f)
    /\ watched' = Unwatched(f)
    /\ UNCHANGED <<requestVars, waiters, completed, pos>>

ReturnFrom(h) == Return(h) /\ pos' = [pos EXCEPT ![h] = 0]

-----------------------------------------------------------------------------
(* vl_io_submit                                                            *)

\* The operation has an event, and h has no waiter on the descriptor yet.
SubmitRead(h, r, f, op) ==
    /\ Capture(h, r, f, op) /\ op # "timeout"
    /\ \A i \in DOMAIN waiters[h] : Fd(waiters[h][i]) # f
    /\ Goto(h, "check")
    /\ UNCHANGED <<socketVars, live, outcome, epollVars>>

\* vl_socket_is_tracked, in a locked section of its own.
SubmitCheck(h) ==
    /\ At(h, "check")
    /\ \/ /\ active[Fd(cur[h])]
          /\ Goto(h, "claim")
          /\ UNCHANGED <<req, cur, outcome>>
       \/ ~active[Fd(cur[h])] /\ Refuse(h)
    /\ UNCHANGED <<socketVars, live, epollVars>>

SubmitClaim(h) ==
    /\ At(h, "claim")
    /\ ClaimOrRefuse(h, "add")
    /\ UNCHANGED epollVars

\* EPOLL_CTL_ADD watches whatever socket the number names by now.
SubmitAdd(h) ==
    LET r == cur[h] IN
    /\ At(h, "add") /\ file[Fd(r)] # 0
    /\ watched' = [watched EXCEPT ![h] = @ \cup
                     {[fd |-> Fd(r), socket |-> file[Fd(r)], request |-> r]}]
    /\ waiters' = [waiters EXCEPT ![h] = <<r>> \o @]
    /\ req' = [req EXCEPT ![r].state = "pending"]
    /\ ReturnFrom(h)
    /\ UNCHANGED <<socketVars, live, completed>>

\* Mutant: the error path forgets the claim.
SubmitFailsClaimed(h) ==
    /\ At(h, "add")
    /\ Refuse(h)
    /\ UNCHANGED <<socketVars, handleVars, pos>>

\* No memory for the waiter, or EPOLL_CTL_ADD fails: the claim is given back.
SubmitFails(h) ==
    LET r == cur[h] IN
    /\ At(h, "add")
    /\ Release(Fd(r), req[r].gen)
    /\ Refuse(h)
    /\ UNCHANGED <<kernelVars, gen, active, opened, owned, handleVars, pos>>

-----------------------------------------------------------------------------
(* vl_io_cancel, vl_io_destroy                                             *)

\* The list without waiter r.
Unlink(list, r) ==
    LET i == CHOOSE i \in DOMAIN list : list[i] = r
    IN  SubSeq(list, 1, i - 1) \o SubSeq(list, i + 1, Len(list))

\* vl_delete_waiter: EPOLL_CTL_DEL names the descriptor, not the socket.
DeleteWaiter(h, r) ==
    /\ watched' = [watched EXCEPT ![h] = {w \in @ : w.fd # Fd(r)}]
    /\ waiters' = [waiters EXCEPT ![h] = Unlink(@, r)]
    /\ Release(Fd(r), req[r].gen)

\* Mutant: the waiter stays on the list after its completion was queued.
CancelKeepsWaiter(h, r) ==
    /\ At(h, "idle") /\ r \in Range(waiters[h])
    /\ completed' = [completed EXCEPT ![h] = Append(@, r)]
    /\ UNCHANGED <<socketVars, req, live, waiters, watched, threadVars, pos>>

\* The completion is queued first; without memory for it nothing happens.
CancelRequest(h, r) ==
    /\ At(h, "idle") /\ r \in Range(waiters[h])
    /\ completed' = [completed EXCEPT ![h] = Append(@, r)]
    /\ DeleteWaiter(h, r)
    /\ UNCHANGED <<kernelVars, gen, active, opened, owned, req, live,
                   threadVars, pos>>

\* Pending requests are abandoned: no completion will follow.
Destroy(h) ==
    LET mine == Range(waiters[h]) IN
    /\ At(h, "idle")
    /\ live' = [live EXCEPT ![h] = FALSE]
    /\ pending' = [f \in Fds |->
                     IF \E r \in mine : Fd(r) = f /\ req[r].gen = pending[f]
                     THEN 0 ELSE pending[f]]
    /\ req' = [r \in Requests |-> IF r \in mine \cup Range(completed[h])
                                  THEN Blank ELSE req[r]]
    /\ waiters' = [waiters EXCEPT ![h] = <<>>]
    /\ completed' = [completed EXCEPT ![h] = <<>>]
    /\ watched' = [watched EXCEPT ![h] = {}]
    /\ UNCHANGED <<kernelVars, gen, active, opened, owned, threadVars, pos>>

-----------------------------------------------------------------------------
(* vl_io_poll                                                              *)

\* A queued completion goes first.
PollQueued(h) ==
    /\ At(h, "idle") /\ completed[h] # <<>>
    /\ completed' = [completed EXCEPT ![h] = Tail(@)]
    /\ Hold(h, Head(completed[h]))
    /\ outcome' = [outcome EXCEPT ![h] = Result("cancelled")]
    /\ Goto(h, "deliver")
    /\ UNCHANGED <<socketVars, req, live, waiters, watched, pos>>

\* Otherwise the stale waiters are looked for, from the head of the list.
PollBegin(h) ==
    /\ At(h, "idle") /\ completed[h] = <<>>
    /\ pos' = [pos EXCEPT ![h] = 1]
    /\ Goto(h, "scan")
    /\ UNCHANGED <<socketVars, req, handleVars, cur, outcome>>

\* One waiter of vl_scan_stale_waiters; each look takes the registry lock.
PollScan(h) ==
    /\ At(h, "scan") /\ pos[h] <= Len(waiters[h])
    /\ LET r == waiters[h][pos[h]] IN
       \/ /\ Stale(r)
          /\ DeleteWaiter(h, r)
          /\ Hold(h, r)
          /\ outcome' = [outcome EXCEPT ![h] = Result("stale")]
          /\ Goto(h, "deliver")
          /\ UNCHANGED pos
       \/ /\ ~Stale(r)
          /\ pos' = [pos EXCEPT ![h] = @ + 1]
          /\ UNCHANGED <<pending, waiters, watched, cur, outcome, pc>>
    /\ UNCHANGED <<kernelVars, gen, active, opened, owned, req, live,
                   completed>>

\* epoll_wait: no event in time, or one event whose data is the waiter.
PollTimeout(h) ==
    /\ At(h, "scan") /\ pos[h] > Len(waiters[h])
    /\ ReturnFrom(h)
    /\ UNCHANGED <<socketVars, req, handleVars>>

\* EINTR: a poll with a timeout starts over.
PollInterrupted(h) ==
    /\ At(h, "scan") /\ pos[h] > Len(waiters[h])
    /\ pos' = [pos EXCEPT ![h] = 1]
    /\ UNCHANGED <<socketVars, req, handleVars, pc, cur, outcome>>

PollEvent(h, w) ==
    /\ At(h, "scan") /\ pos[h] > Len(waiters[h])
    /\ w \in watched[h]
    /\ Hold(h, w.request)
    /\ Goto(h, "ready")
    /\ UNCHANGED <<socketVars, req, handleVars, pos, outcome>>

\* vl_execute_ready: the staleness test and the operation are two steps.
ReadyCheck(h) ==
    LET r == cur[h] IN
    /\ At(h, "ready")
    /\ \/ /\ Stale(r)
          /\ outcome' = [outcome EXCEPT ![h] = Result("stale")]
          /\ Goto(h, "delete")
       \/ ~Stale(r) /\ Goto(h, "operate") /\ UNCHANGED outcome
    /\ UNCHANGED <<socketVars, req, handleVars, cur, pos>>

\* EAGAIN: the request stays pending; a poll with a timeout starts over.
OperateAgain(h) ==
    /\ At(h, "operate") /\ req[cur[h]].op # "connect" /\ file[Fd(cur[h])] # 0
    /\ \/ ReturnFrom(h)
       \/ /\ Goto(h, "scan") /\ Hold(h, NoRequest)
          /\ pos' = [pos EXCEPT ![h] = 1]
          /\ UNCHANGED outcome
    /\ UNCHANGED <<socketVars, req, handleVars>>

\* The operation is performed on the socket that the number names now.
Operate(h) ==
    LET f == Fd(cur[h]) IN
    /\ At(h, "operate")
    /\ outcome' = [outcome EXCEPT ![h] =
                     IF file[f] = 0 THEN Result("error")
                     ELSE [kind |-> "ok", fd |-> NoFd, on |-> file[f]]]
    /\ Goto(h, "delete")
    /\ UNCHANGED <<socketVars, req, handleVars, cur, pos>>

\* accept4 creates socket a, tracked in a second step.
OperateAccept(h, a) ==
    LET f == Fd(cur[h]) IN
    /\ At(h, "operate") /\ req[cur[h]].op = "accept" /\ file[f] # 0
    /\ NewFile(a)
    /\ outcome' = [outcome EXCEPT ![h] =
                     [kind |-> "ok", fd |-> a, on |-> file[f]]]
    /\ Goto(h, "track")
    /\ UNCHANGED <<slotVars, opened, owned, req, handleVars, cur, pos>>

AcceptTrack(h) ==
    LET a == outcome[h].fd IN
    /\ At(h, "track")
    /\ \/ Trackable(a) /\ Tracked(a) /\ UNCHANGED <<file, outcome, watched>>
       \/ /\ ~Trackable(a)
          /\ file' = [file EXCEPT ![a] = 0]
          /\ watched' = Unwatched(a)
          /\ outcome' = [outcome EXCEPT ![h] = Result("error")]
          /\ UNCHANGED <<gen, active>>
    /\ Goto(h, "delete")
    /\ UNCHANGED <<serial, pending, opened, owned, req, live, waiters,
                   completed, cur, pos>>

ReadyDelete(h) ==
    /\ At(h, "delete")
    /\ DeleteWaiter(h, cur[h])
    /\ Goto(h, "deliver")
    /\ UNCHANGED <<kernelVars, gen, active, opened, owned, req, live,
                   completed, cur, pos, outcome>>

\* vl_io_poll hands the completion out; a socket it closes leaves every set.
PollDeliver(h) ==
    /\ Deliver(h)
    /\ watched' = IF file' = file THEN watched ELSE Unwatched(outcome[h].fd)
    /\ pos' = [pos EXCEPT ![h] = 0]
    /\ UNCHANGED <<waiters, completed>>

PollStep(h) ==
    \/ PollScan(h) \/ PollTimeout(h) \/ PollInterrupted(h)
    \/ \E w \in watched[h] : PollEvent(h, w)
    \/ ReadyCheck(h) \/ OperateAgain(h) \/ Operate(h)
    \/ \E a \in Fds : OperateAccept(h, a)
    \/ AcceptTrack(h) \/ ReadyDelete(h) \/ PollDeliver(h)

SubmitStep(h) ==
    SubmitCheck(h) \/ SubmitClaim(h) \/ SubmitAdd(h) \/ SubmitFails(h)

HandleStep(h) ==
    \/ \E r \in Requests, f \in Fds, op \in Ops : SubmitRead(h, r, f, op)
    \/ SubmitStep(h)
    \/ \E r \in Requests : CancelRequest(h, r)
    \/ PollQueued(h) \/ PollBegin(h) \/ PollStep(h)
    \/ Destroy(h)

ProgramStep ==
    \E f \in Fds :
        \/ (Open(f) \/ Track(f)) /\ UNCHANGED <<req, handleVars, threadVars, pos>>
        \/ /\ TrackFails(f)
           /\ watched' = Unwatched(f)
           /\ UNCHANGED <<req, live, waiters, completed, threadVars, pos>>
        \/ Close(f)

Next == ProgramStep \/ \E h \in Handles : HandleStep(h)

Spec == Init /\ [][Next]_vars

-----------------------------------------------------------------------------
(* Properties                                                              *)

\* The requests that hold a claim: on a waiter list, or on the way to one.
Claimants ==
    UNION {Range(waiters[h]) \cup (IF pc[h] = "add" THEN {cur[h]} ELSE {}) :
             h \in Handles}

\* "One request may be pending per fd process-wide" (include/veloco/io.h): the
\* claim of a slot is held by exactly one request of exactly one handle, over
\* closes and reuse of the descriptor number, and is free when none holds it.
ClaimExact == ClaimedBy(Claimants)

\* The places a pending request can be in: waiter lists, completion queues,
\* and the completion that a poll has in hand.
Places(s, r) == {i \in DOMAIN s : s[i] = r}
Homes(r) ==
    UNION {{<<h, "waiting", i>> : i \in Places(waiters[h], r)}
           \cup {<<h, "queued", i>> : i \in Places(completed[h], r)}
           \cup (IF pc[h] = "deliver" /\ cur[h] = r
                 THEN {<<h, "in hand", 0>>} ELSE {}) : h \in Handles}

\* "produces once" (docs/architecture/io.md): a pending request is in exactly
\* one place from which a completion can come, whatever cancel, readiness and
\* staleness do to it, and the kernel holds a pointer to its waiter only while
\* that waiter is on the list (it is freed when it leaves).
CompletesOnce ==
    /\ \A r \in Requests : IF req[r].state = "pending"
                          THEN \E p \in Homes(r) : Homes(r) = {p}
                          ELSE Homes(r) = {}
    /\ \A h \in Handles : \A w \in watched[h] :
         w.request \in Range(waiters[h]) /\ w.socket = file[w.fd]

\* The descriptors that a poll has accepted and not delivered.
InHand == {outcome[h].fd : h \in {g \in Handles :
             pc[g] \in {"track", "delete", "deliver"}}} \ {NoFd}

\* "the stale path cannot leak an fd" (docs/architecture/io.md): every open
\* socket is held by the program or is in the hands of a poll that will deliver
\* or close it, and nobody holds a descriptor that is closed.
NoFdLeak == OpenExactly(InHand)

\* A request whose socket was closed is completed although its descriptor left
\* the epoll set and no event will ever come: polls look for stale waiters.
StaleCompletes ==
    \A r \in Requests :
        req[r].state = "pending" /\ Stale(r) ~> req[r].state # "pending"
=============================================================================
