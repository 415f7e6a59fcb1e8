------------------------------- MODULE UringIo -------------------------------
(***************************************************************************)
(* Requests on io_uring handles: src/net/uring_backend.c and io_worker.c   *)
(* under the facade of IoRequests.  The owner's thread puts commands on a  *)
(* list and writes an eventfd; a worker thread turns them into submission  *)
(* entries, reaps completion entries and queues the completions that       *)
(* vl_io_poll hands out.  The kernel resolves a descriptor number when it  *)
(* takes the entry, not when the request was claimed.                      *)
(***************************************************************************)
EXTENDS IoRequests

CONSTANTS Depth,            \* entries of the submission queue
          MaxOperations     \* bound on the operation objects of a handle

VARIABLES oper,             \* handle: the operation objects
          commands,         \* handle: list of commands, [type, op]
          done,             \* handle: queue of completed operations
          status, stop,     \* handle: worker_status, stop_requested
          event, armed,     \* handle: the eventfd is readable, is polled
          wpc, batch, wop,  \* worker: place, commands taken, operation in hand
          sq,               \* handle: entries prepared and not yet submitted
          abandoned         \* accepted descriptors dropped by vl_io_destroy

sharedVars == <<commands, done, status, stop>>
ringVars == <<event, armed, sq>>
workerVars == <<wpc, batch, wop>>
uringVars == <<oper, sharedVars, ringVars, workerVars, abandoned>>
vars == <<socketVars, requestVars, uringVars>>

Operations == 1..MaxOperations
NoOp == 0
Wakeup == [type |-> "wake", op |-> NoOp]

\* state: free, on the active list, or resolved; kernel: what became of the
\* entry; res: the result, whose "on" is set as soon as the kernel has the file.
FreeOp == [state |-> "free", request |-> NoRequest, kernel |-> "none",
           res |-> Nothing, consumed |-> FALSE, cancelling |-> FALSE]

UringInit ==
    /\ oper = [h \in Handles |-> [o \in Operations |-> FreeOp]]
    /\ commands = [h \in Handles |-> <<>>]
    /\ done = [h \in Handles |-> <<>>]
    /\ status = [h \in Handles |-> "ok"]
    /\ stop = [h \in Handles |-> FALSE]
    /\ event = [h \in Handles |-> FALSE]
    /\ armed = [h \in Handles |-> TRUE]
    /\ wpc = [h \in Handles |-> "wait"]
    /\ batch = [h \in Handles |-> <<>>]
    /\ wop = [h \in Handles |-> NoOp]
    /\ sq = [h \in Handles |-> <<>>]
    /\ abandoned = {}

Init == SocketInit /\ RequestInit /\ UringInit

Active(h) == {o \in Operations : oper[h][o].state = "active"}
FreeOps(h) == {o \in Operations : oper[h][o].state = "free"}
HasFd(r) == req[r].op # "timeout"
Set(h, o, value) == oper' = [oper EXCEPT ![h][o] = value]

\* vl_uring_append_command_locked and vl_uring_write_wakeup.
Post(h, type, o) ==
    /\ commands' = [commands EXCEPT ![h] = Append(@, [type |-> type, op |-> o])]
    /\ event' = [event EXCEPT ![h] = TRUE]

-----------------------------------------------------------------------------
(* vl_io_submit, vl_io_cancel                                              *)

SubmitRead(h, r, f, op) ==
    /\ Capture(h, r, f, op)
    /\ Goto(h, "claim")
    /\ UNCHANGED <<socketVars, live, outcome, uringVars>>

\* A timeout has generation 0 and claims nothing.
SubmitTimeout(h, r) ==
    /\ At(h, "idle") /\ req[r].state \in {"new", "done"} /\ "timeout" \in Ops
    /\ req' = [req EXCEPT ![r] =
                 Object("submitting", NoFd, "timeout", 0, 0, Nothing)]
    /\ Hold(h, r) /\ Goto(h, "enqueue")
    /\ UNCHANGED <<socketVars, live, outcome, uringVars>>

SubmitClaim(h) ==
    /\ At(h, "claim")
    /\ ClaimOrRefuse(h, "enqueue")
    /\ UNCHANGED uringVars

\* vl_io_worker_submit: the operation is on the active list before the worker
\* sees its command.  The least free object stands for the one malloc returns,
\* so that an object is reused as soon as it can be.
Enqueue(h) ==
    LET o == CHOOSE p \in FreeOps(h) : \A q \in FreeOps(h) : p <= q IN
    /\ At(h, "enqueue") /\ status[h] = "ok" /\ FreeOps(h) # {}
    /\ Set(h, o, [FreeOp EXCEPT !.state = "active", !.request = cur[h]])
    /\ Post(h, "submit", o)
    /\ req' = [req EXCEPT ![cur[h]].state = "pending"]
    /\ Return(h)
    /\ UNCHANGED <<socketVars, live, done, status, stop, armed, sq, workerVars,
                   abandoned>>

\* No memory, or the worker has failed: the claim is given back.
EnqueueFails(h) ==
    LET r == cur[h] IN
    /\ At(h, "enqueue")
    /\ \/ HasFd(r) /\ Release(Fd(r), req[r].gen)
       \/ ~HasFd(r) /\ UNCHANGED pending
    /\ Refuse(h)
    /\ UNCHANGED <<kernelVars, gen, active, opened, owned, live, uringVars>>

\* vl_io_worker_cancel: one cancel command per operation at a time.
CancelRequest(h, r) ==
    /\ At(h, "idle")
    /\ \E o \in Active(h) :
        /\ oper[h][o].request = r /\ ~oper[h][o].cancelling
        /\ Set(h, o, [oper[h][o] EXCEPT !.cancelling = TRUE])
        /\ Post(h, "cancel", o)
    /\ UNCHANGED <<socketVars, requestVars, done, status, stop, armed, sq,
                   workerVars, abandoned>>

-----------------------------------------------------------------------------
(* The worker thread                                                       *)

Work(h, place) == wpc' = [wpc EXCEPT ![h] = place]

\* A worker that stops or completes signals the condition of the poll.
Signal(h) ==
    pc' = IF pc[h] = "waiting" THEN [pc EXCEPT ![h] = "woken"] ELSE pc

\* The wakeup entry is reaped and the eventfd is drained, before the list is
\* looked at: a command that comes in between writes the eventfd again.
Wake(h) ==
    /\ wpc[h] = "wait" /\ armed[h] /\ event[h]
    /\ armed' = [armed EXCEPT ![h] = FALSE]
    /\ event' = [event EXCEPT ![h] = FALSE]
    /\ Work(h, "take")
    /\ UNCHANGED <<socketVars, requestVars, oper, sharedVars, sq, batch, wop,
                   abandoned>>

\* vl_uring_process_commands takes the whole list.
TakeCommands(h) ==
    /\ wpc[h] = "take"
    /\ batch' = [batch EXCEPT ![h] = commands[h]]
    /\ commands' = [commands EXCEPT ![h] = <<>>]
    /\ Work(h, "command")
    /\ UNCHANGED <<socketVars, requestVars, oper, done, status, stop, ringVars,
                   wop, abandoned>>

Command(h) == Head(batch[h])
Room(h) == Len(sq[h]) < Depth
Prepare(h, entry) == sq' = [sq EXCEPT ![h] = Append(@, entry)]
NextCommand(h) == batch' = [batch EXCEPT ![h] = Tail(@)]

CommandSubmit(h) ==
    /\ wpc[h] = "command" /\ batch[h] # <<>> /\ Command(h).type = "submit"
    /\ Room(h) /\ Prepare(h, Command(h))
    /\ NextCommand(h)
    /\ UNCHANGED <<socketVars, requestVars, oper, sharedVars, event, armed, wpc,
                   wop, abandoned>>

\* The object, once its cancel command is done with it: whoever is last frees.
Cancelled(op) ==
    IF op.state = "resolved" /\ op.consumed
    THEN FreeOp ELSE [op EXCEPT !.cancelling = FALSE]

\* An operation that is resolved already is not cancelled any more.
CommandCancel(h) ==
    LET o == Command(h).op IN
    /\ wpc[h] = "command" /\ batch[h] # <<>> /\ Command(h).type = "cancel"
    /\ \/ oper[h][o].state = "active" /\ Room(h) /\ Prepare(h, Command(h))
       \/ oper[h][o].state # "active" /\ UNCHANGED sq
    /\ Set(h, o, Cancelled(oper[h][o]))
    /\ NextCommand(h)
    /\ UNCHANGED <<socketVars, requestVars, sharedVars, event, armed, wpc, wop,
                   abandoned>>

\* vl_uring_get_sqe on a full queue submits what there is.
Flush(h) ==
    /\ wpc[h] = "command" /\ ~Room(h)
    /\ Work(h, "flush")
    /\ UNCHANGED <<socketVars, requestVars, oper, sharedVars, ringVars, batch,
                   wop, abandoned>>

\* It returns nothing when that fails: the worker fails, after the last of its
\* commands.
CommandFails(h) ==
    LET o == Command(h).op IN
    /\ wpc[h] = "command" /\ batch[h] # <<>> /\ ~Room(h)
    /\ status' = [status EXCEPT ![h] = "failed"]
    /\ \/ Command(h).type = "submit" /\ UNCHANGED oper
       \/ /\ Command(h).type = "cancel" /\ oper[h][o].state = "active"
          /\ Set(h, o, Cancelled(oper[h][o]))
    /\ NextCommand(h)
    /\ Signal(h)
    /\ UNCHANGED <<socketVars, req, live, cur, outcome, commands, done, stop,
                   ringVars, wpc, wop, abandoned>>

\* After the last command the wakeup is armed again and all is submitted,
\* unless the worker is to stop.
CommandsDone(h) ==
    /\ wpc[h] = "command" /\ batch[h] = <<>>
    /\ \/ /\ stop[h] \/ status[h] = "failed"
          /\ Work(h, "exited")
          /\ UNCHANGED sq
       \/ /\ ~stop[h] /\ status[h] = "ok" /\ Room(h)
          /\ Prepare(h, Wakeup)
          /\ Work(h, "submit")
    /\ UNCHANGED <<socketVars, requestVars, oper, sharedVars, event, armed,
                   batch, wop, abandoned>>

\* io_uring_wait_cqe or io_uring_submit fails: no entry is reaped any more.
WorkerFails(h) ==
    /\ live[h] /\ wpc[h] \in {"wait", "submit"}
    /\ status' = [status EXCEPT ![h] = "failed"]
    /\ Work(h, "exited")
    /\ Signal(h)
    /\ UNCHANGED <<socketVars, req, live, cur, outcome, oper, commands, done,
                   stop, ringVars, batch, wop, abandoned>>

-----------------------------------------------------------------------------
(* The kernel                                                              *)

\* An operation is taken on the socket that its number names now.
Started(h, o) ==
    LET r == oper[h][o].request IN
    IF HasFd(r) /\ file[Fd(r)] = 0
    THEN [oper[h][o] EXCEPT !.kernel = "posted", !.res = Result("error")]
    ELSE [oper[h][o] EXCEPT !.kernel = "flying",
            !.res.on = IF HasFd(r) THEN file[Fd(r)] ELSE 0]

\* The entry of a cancelled operation is posted with -ECANCELED; one that is
\* posted already is not found.
Stopped(op) ==
    IF op.kernel = "flying"
    THEN [op EXCEPT !.kernel = "posted", !.res = Result("cancelled")] ELSE op

\* io_uring_submit hands the entries over in order.  The entry that a cancel
\* posts for itself is dropped by the worker and is left out.
Issue(h) ==
    LET entry == Head(sq[h]) IN
    /\ wpc[h] \in {"flush", "submit"} /\ sq[h] # <<>>
    /\ sq' = [sq EXCEPT ![h] = Tail(@)]
    /\ \/ entry.type = "wake" /\ armed' = [armed EXCEPT ![h] = TRUE]
                              /\ UNCHANGED oper
       \/ entry.type = "submit" /\ Set(h, entry.op, Started(h, entry.op))
                                /\ UNCHANGED armed
       \/ entry.type = "cancel" /\ Set(h, entry.op, Stopped(oper[h][entry.op]))
                                /\ UNCHANGED armed
    /\ Work(h, IF Len(sq[h]) > 1 THEN wpc[h]
               ELSE IF wpc[h] = "flush" THEN "command" ELSE "wait")
    /\ UNCHANGED <<socketVars, requestVars, sharedVars, event, batch, wop,
                   abandoned>>

Flying(h) == {o \in Operations : oper[h][o].kernel = "flying"}

\* A socket that is closed meanwhile is still performed on: the kernel holds it.
Perform(h, o) ==
    /\ wpc[h] # "exited" /\ o \in Flying(h)
    /\ Set(h, o, [oper[h][o] EXCEPT !.kernel = "posted", !.res.kind = "ok"])
    /\ UNCHANGED <<socketVars, requestVars, sharedVars, ringVars, workerVars,
                   abandoned>>

PerformAccept(h, o, a) ==
    LET op == oper[h][o] IN
    /\ wpc[h] # "exited" /\ o \in Flying(h) /\ req[op.request].op = "accept"
    /\ NewFile(a)
    /\ Set(h, o, [op EXCEPT !.kernel = "posted", !.res.kind = "ok",
                            !.res.fd = a])
    /\ UNCHANGED <<slotVars, opened, owned, requestVars, sharedVars, ringVars,
                   workerVars, abandoned>>

-----------------------------------------------------------------------------
(* vl_uring_complete_operation                                             *)

Reap(h, o) ==
    LET r == oper[h][o].request IN
    /\ wpc[h] = "wait" /\ oper[h][o].kernel = "posted"
    /\ Set(h, o, [oper[h][o] EXCEPT !.kernel = "reaped"])
    /\ wop' = [wop EXCEPT ![h] = o]
    /\ Work(h, IF oper[h][o].res.fd # NoFd THEN "track"
               ELSE IF HasFd(r) THEN "release" ELSE "publish")
    /\ UNCHANGED <<socketVars, requestVars, sharedVars, ringVars, batch,
                   abandoned>>

ReapTrack(h) ==
    LET o == wop[h]
        a == oper[h][o].res.fd IN
    /\ wpc[h] = "track"
    /\ \/ Trackable(a) /\ Tracked(a) /\ UNCHANGED <<file, oper>>
       \/ /\ ~Trackable(a)
          /\ file' = [file EXCEPT ![a] = 0]
          /\ Set(h, o, [oper[h][o] EXCEPT !.res = Result("error")])
          /\ UNCHANGED <<gen, active>>
    /\ Work(h, "release")
    /\ UNCHANGED <<serial, pending, opened, owned, requestVars, sharedVars,
                   ringVars, batch, wop, abandoned>>

\* The claim is given back before the completion is queued: by then the next
\* request may be submitted on the descriptor.
ReapRelease(h) ==
    LET r == oper[h][wop[h]].request IN
    /\ wpc[h] = "release"
    /\ Release(Fd(r), req[r].gen)
    /\ Work(h, "publish")
    /\ UNCHANGED <<kernelVars, gen, active, opened, owned, requestVars, oper,
                   sharedVars, ringVars, batch, wop, abandoned>>

\* Mutant: the poll is not signalled.
PublishSilent(h) ==
    LET o == wop[h] IN
    /\ wpc[h] = "publish"
    /\ Set(h, o, [oper[h][o] EXCEPT !.state = "resolved"])
    /\ done' = [done EXCEPT ![h] = Append(@, o)]
    /\ wop' = [wop EXCEPT ![h] = NoOp]
    /\ Work(h, "wait")
    /\ UNCHANGED <<socketVars, requestVars, commands, status, stop, ringVars,
                   batch, abandoned>>

Publish(h) ==
    LET o == wop[h] IN
    /\ wpc[h] = "publish"
    /\ Set(h, o, [oper[h][o] EXCEPT !.state = "resolved"])
    /\ done' = [done EXCEPT ![h] = Append(@, o)]
    /\ Signal(h)
    /\ wop' = [wop EXCEPT ![h] = NoOp]
    /\ Work(h, "wait")
    /\ UNCHANGED <<socketVars, req, live, cur, outcome, commands, status, stop,
                   ringVars, batch, abandoned>>

-----------------------------------------------------------------------------
(* vl_io_poll, vl_io_destroy                                               *)

\* Nothing is queued: a poll with a timeout waits on the condition.
PollWait(h) ==
    /\ At(h, "idle") /\ done[h] = <<>> /\ status[h] = "ok"
    /\ Goto(h, "waiting")
    /\ UNCHANGED <<socketVars, req, live, cur, outcome, uringVars>>

\* The wait timed out, or it ended because the worker failed.
PollReturn(h) ==
    /\ \/ At(h, "waiting")
       \/ At(h, "woken") /\ done[h] = <<>>
    /\ Return(h)
    /\ UNCHANGED <<socketVars, req, live, uringVars>>

\* Mutant: the operation is freed although a command still points to it.
PollTakeFrees(h) ==
    LET o == Head(done[h]) IN
    /\ At(h, "idle") \/ At(h, "woken")
    /\ done[h] # <<>>
    /\ done' = [done EXCEPT ![h] = Tail(@)]
    /\ Hold(h, oper[h][o].request)
    /\ outcome' = [outcome EXCEPT ![h] = oper[h][o].res]
    /\ Set(h, o, FreeOp)
    /\ Goto(h, "deliver")
    /\ UNCHANGED <<socketVars, req, live, commands, status, stop, ringVars,
                   workerVars, abandoned>>

\* The completion is copied out.  The object is freed here, unless a cancel
\* command still points to it: then that command frees it.
PollTake(h) ==
    LET o == Head(done[h])
        op == oper[h][o] IN
    /\ At(h, "idle") \/ At(h, "woken")
    /\ done[h] # <<>>
    /\ done' = [done EXCEPT ![h] = Tail(@)]
    /\ Hold(h, op.request)
    /\ outcome' = [outcome EXCEPT ![h] = op.res]
    /\ Set(h, o, IF op.cancelling
                 THEN [op EXCEPT !.consumed = TRUE, !.res = Nothing] ELSE FreeOp)
    /\ Goto(h, "deliver")
    /\ UNCHANGED <<socketVars, req, live, commands, status, stop, ringVars,
                   workerVars, abandoned>>

PollDeliver(h) == Deliver(h) /\ UNCHANGED uringVars

\* vl_io_worker_stop asks the worker to stop and joins it.
DestroyBegin(h) ==
    /\ At(h, "idle")
    /\ stop' = [stop EXCEPT ![h] = TRUE]
    /\ event' = [event EXCEPT ![h] = TRUE]
    /\ Goto(h, "join")
    /\ UNCHANGED <<socketVars, req, live, cur, outcome, oper, commands, done,
                   status, armed, sq, workerVars, abandoned>>

\* vl_uring_free_state frees what is active or queued, and drops the socket of
\* an accept that nobody polled for.
DestroyEnd(h) ==
    LET dropped == Active(h) \cup Range(done[h])
        mine == {oper[h][o].request : o \in dropped} IN
    /\ At(h, "join") /\ wpc[h] = "exited"
    /\ live' = [live EXCEPT ![h] = FALSE]
    /\ pending' = [f \in Fds |->
         IF \E o \in Active(h) : LET r == oper[h][o].request IN
                HasFd(r) /\ Fd(r) = f /\ req[r].gen = pending[f]
         THEN 0 ELSE pending[f]]
    /\ req' = [r \in DOMAIN req |-> IF r \in mine THEN Blank ELSE req[r]]
    /\ abandoned' = abandoned \cup ({oper[h][o].res.fd : o \in dropped} \ {NoFd})
    /\ oper' = [oper EXCEPT ![h] =
                  [o \in Operations |-> IF o \in dropped THEN FreeOp ELSE @[o]]]
    /\ commands' = [commands EXCEPT ![h] = <<>>]
    /\ done' = [done EXCEPT ![h] = <<>>]
    /\ sq' = [sq EXCEPT ![h] = <<>>]
    /\ Return(h)
    /\ UNCHANGED <<kernelVars, gen, active, opened, owned, status, stop, event,
                   armed, workerVars>>

-----------------------------------------------------------------------------

SubmitStep(h) == SubmitClaim(h) \/ Enqueue(h) \/ EnqueueFails(h)

WorkerStep(h) ==
    \/ Wake(h) \/ TakeCommands(h)
    \/ CommandSubmit(h) \/ CommandCancel(h) \/ Flush(h)
    \/ CommandsDone(h) \/ Issue(h)
    \/ \E o \in Operations : Reap(h, o)
    \/ ReapTrack(h) \/ ReapRelease(h) \/ Publish(h)

KernelStep(h) ==
    \E o \in Operations : \/ Perform(h, o)
                          \/ \E a \in Fds : PerformAccept(h, o, a)

HandleStep(h) ==
    \/ \E r \in Requests, f \in Fds, op \in Ops \ {"timeout"} : SubmitRead(h, r, f, op)
    \/ \E r \in Requests : SubmitTimeout(h, r) \/ CancelRequest(h, r)
    \/ SubmitStep(h)
    \/ PollWait(h) \/ PollReturn(h) \/ PollTake(h) \/ PollDeliver(h)
    \/ DestroyBegin(h) \/ DestroyEnd(h)
    \/ WorkerStep(h) \/ CommandFails(h) \/ WorkerFails(h)
    \/ KernelStep(h)

ProgramStep ==
    \E f \in Fds :
        /\ Open(f) \/ Track(f) \/ TrackFails(f) \/ CloseOwned(f)
        /\ UNCHANGED <<requestVars, uringVars>>

Next == ProgramStep \/ \E h \in Handles : HandleStep(h)

Spec == Init /\ [][Next]_vars

-----------------------------------------------------------------------------
(* Properties                                                              *)

\* The requests that hold a claim: from the claim to the release, which comes
\* before the operation leaves the active list.
Claimants ==
    {r \in Requests : HasFd(r) /\ \E h \in Handles :
        \/ pc[h] = "enqueue" /\ cur[h] = r
        \/ \E o \in Active(h) : oper[h][o].request = r
                                /\ ~(wpc[h] = "publish" /\ wop[h] = o)}

\* "releases the process-wide fd claim exactly once" (docs/architecture/io.md):
\* a claim is held by exactly one request from the submission to the completion,
\* although the worker gives it back before the completion is queued and the
\* next request may take it at once.
ClaimExact == ClaimedBy(Claimants)

Homes(r) ==
    UNION {{<<h, o>> : o \in {p \in Active(h) : oper[h][p].request = r}}
           \cup {<<h, "queued", i>> :
                   i \in {j \in DOMAIN done[h] : oper[h][done[h][j]].request = r}}
           \cup (IF pc[h] = "deliver" /\ cur[h] = r THEN {<<h, "hand">>} ELSE {})
             : h \in Handles}

\* "Only the original operation CQE creates a user-visible Completion"
\* (docs/architecture/io.md): a pending request is in exactly one place from
\* which a completion can come, whatever cancel commands, late entries and
\* worker failures do to it.
CompletesOnce ==
    \A r \in Requests :
        Cardinality(Homes(r)) = IF req[r].state = "pending" THEN 1 ELSE 0

Pointers(h) ==
    ({c.op : c \in Range(commands[h]) \cup Range(batch[h]) \cup Range(sq[h])}
     \cup Range(done[h]) \cup {wop[h]} \cup Flying(h)
     \cup {o \in Operations : oper[h][o].kernel = "posted"}) \ {NoOp}

\* An operation "stays alive until command, original CQE, and Completion
\* ownership are all resolved" (docs/diagrams/io-completion.md) and is freed
\* then: what a command, an entry of the ring, the worker or the queue points
\* to is allocated, and what is allocated is on the active list or pointed to.
\* The one exception is an object whose cancel command the failed worker never
\* came to.
OperationLifetime ==
    \A h \in Handles :
        /\ Pointers(h) \cap FreeOps(h) = {}
        /\ \A o \in Operations \ (FreeOps(h) \cup Active(h)) :
             o \in Pointers(h) \/ (~live[h] /\ status[h] = "failed")

InHand ==
    abandoned \cup
    (UNION {{oper[h][o].res.fd : o \in Operations} \cup {outcome[h].fd} :
              h \in Handles} \ {NoFd})

\* An accepted socket is on its way to the program or is closed; only
\* vl_io_destroy drops the ones that nobody polled for.
NoFdLeak == OpenExactly(InHand)

\* A request that was cancelled, or whose operation the kernel has performed,
\* is completed unless the worker fails: no command, no entry and no signal to
\* the poll is lost, whenever the eventfd was drained and armed.
RequestCompletes ==
    \A r \in Requests, h \in Handles :
        (\E o \in Active(h) : /\ oper[h][o].request = r
                              /\ oper[h][o].cancelling \/ oper[h][o].kernel = "posted")
            ~> (req[r].state # "pending" \/ status[h] = "failed")
=============================================================================
