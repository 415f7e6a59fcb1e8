------------------------------- MODULE Channel -------------------------------
(***************************************************************************)
(* The channel: src/sync/channel.c.  Tasks send and receive; tasks and the *)
(* host close.  An action is one section under the runtime mutex.  Each    *)
(* send carries a value of its own, so that values can be followed.        *)
(***************************************************************************)
EXTENDS TaskPark

CONSTANTS
    Capacities,     \* what vl_channel_init may be given
    MaxSends        \* bound on the number of sends

Values == 1..MaxSends

ASSUME CapacityAssumption == Capacities \subseteq Nat /\ MaxSends \in Nat
ASSUME ValuesAssumption == None \notin Values

VARIABLES
    \* vl_channel_impl_t; a capacity of 0 makes the channel a rendezvous
    capacity, buffer, head, length, closed, senders, receivers,
    chanAlive,          \* channel->impl is not NULL
    value,              \* task->wait_value
    out,                \* what was written to *task->wait_output
    sent,               \* sends made so far
    received,           \* the values received, in order
    mine,               \* the value of the send that a task is parked in
    fate                \* what the send of a value has returned

bufVars == <<capacity, buffer, head, length>>
waitVars == <<value, out>>
history == <<sent, received, mine, fate>>
chanVars == <<bufVars, closed, senders, receivers, chanAlive, waitVars, history>>

ChannelInit ==
    /\ capacity \in Capacities
    /\ buffer = [i \in 0..(capacity - 1) |-> None] /\ head = 0 /\ length = 0
    /\ closed = FALSE /\ senders = <<>> /\ receivers = <<>> /\ chanAlive = TRUE
    /\ value = [t \in Tasks |-> None] /\ out = [t \in Tasks |-> None]
    /\ sent = 0 /\ received = <<>> /\ mine = [t \in Tasks |-> None]
    /\ fate = [v \in Values |-> "none"]

\* vl_channel_buffer_push with the head at h and n values in the buffer.
BufferPush(h, n, v) == [buffer EXCEPT ![(h + n) % capacity] = v]

-----------------------------------------------------------------------------
(* vl_channel_send.  On a closed channel it returns VL_ERROR_CLOSED.       *)

Sending(t) == Running(t) /\ chanAlive /\ sent < MaxSends
Sent(r) ==
    /\ sent' = sent + 1
    /\ fate' = [fate EXCEPT ![sent + 1] = r]

SendClosed(t) ==
    /\ Sending(t) /\ closed
    /\ Sent("CLOSED")
    /\ UNCHANGED <<taskVars, bufVars, closed, senders, receivers, chanAlive,
                   waitVars, received, mine>>

\* A receiver waits: it gets the value.
SendMeet(t) ==
    /\ Sending(t) /\ ~closed /\ receivers # <<>>
    /\ LET r == Head(receivers)
       IN  /\ out' = [out EXCEPT ![r] = sent + 1]
           /\ Wake({r}, "OK")
    /\ receivers' = Tail(receivers)
    /\ Sent("OK")
    /\ received' = Append(received, sent + 1)
    /\ UNCHANGED <<bufVars, closed, senders, chanAlive, value, mine>>

\* There is room.
SendBuffer(t) ==
    /\ Sending(t) /\ ~closed /\ receivers = <<>> /\ length < capacity
    /\ buffer' = BufferPush(head, length, sent + 1) /\ length' = length + 1
    /\ Sent("OK")
    /\ UNCHANGED <<taskVars, capacity, head, closed, senders, receivers, chanAlive, value, out,
                   received, mine>>

SendPark(t) ==
    /\ Sending(t) /\ ~closed /\ receivers = <<>> /\ length >= capacity
    /\ Park(t, "send")
    /\ value' = [value EXCEPT ![t] = sent + 1]
    /\ mine' = [mine EXCEPT ![t] = sent + 1]
    /\ senders' = Append(senders, t)
    /\ Sent("pending")
    /\ UNCHANGED <<bufVars, closed, receivers, chanAlive, out, received>>

-----------------------------------------------------------------------------
(* vl_channel_receive.  On an empty closed channel it returns              *)
(* VL_ERROR_CLOSED and changes nothing.                                    *)

\* The oldest value of the buffer, and no sender waits.
ReceiveBuffered(t) ==
    /\ Running(t) /\ chanAlive /\ length # 0 /\ senders = <<>>
    /\ received' = Append(received, buffer[head])
    /\ head' = (head + 1) % capacity /\ length' = length - 1
    /\ UNCHANGED <<taskVars, capacity, buffer, closed, senders, receivers, chanAlive, value, out, sent,
                   mine, fate>>

\* Mutant: with a sender waiting its value is taken before the buffered ones.
ReceiveSenderFirst(t) ==
    /\ Running(t) /\ chanAlive /\ length # 0 /\ senders # <<>>
    /\ LET s == Head(senders)
       IN  /\ received' = Append(received, value[s])
           /\ value' = [value EXCEPT ![s] = None]
           /\ Wake({s}, "OK")
    /\ senders' = Tail(senders)
    /\ UNCHANGED <<bufVars, closed, receivers, chanAlive, out, sent, mine, fate>>

\* The oldest value of the buffer, and the oldest sender takes its place.
ReceiveRefill(t) ==
    /\ Running(t) /\ chanAlive /\ length # 0 /\ senders # <<>>
    /\ received' = Append(received, buffer[head])
    /\ head' = (head + 1) % capacity
    /\ LET s == Head(senders)
       IN  /\ buffer' = BufferPush((head + 1) % capacity, length - 1, value[s])
           /\ value' = [value EXCEPT ![s] = None]
           /\ Wake({s}, "OK")
    /\ senders' = Tail(senders)
    /\ UNCHANGED <<capacity, length, closed, receivers, chanAlive, out, sent, mine, fate>>

\* Nothing is buffered, and a sender waits.
ReceiveMeet(t) ==
    /\ Running(t) /\ chanAlive /\ length = 0 /\ senders # <<>>
    /\ LET s == Head(senders)
       IN  /\ received' = Append(received, value[s])
           /\ value' = [value EXCEPT ![s] = None]
           /\ Wake({s}, "OK")
    /\ senders' = Tail(senders)
    /\ UNCHANGED <<bufVars, closed, receivers, chanAlive, out, sent, mine, fate>>

ReceivePark(t) ==
    /\ Running(t) /\ chanAlive /\ length = 0 /\ senders = <<>> /\ ~closed
    /\ Park(t, "receive")
    /\ receivers' = Append(receivers, t)
    /\ UNCHANGED <<bufVars, closed, senders, chanAlive, value, out, history>>

-----------------------------------------------------------------------------

\* Mutant: the senders are told that their send went through.
CloseAsSent ==
    /\ chanAlive /\ ~closed
    /\ closed' = TRUE
    /\ Wake(Elems(senders) \cup Elems(receivers), "OK")
    /\ value' = [t \in Tasks |-> IF t \in Elems(senders) THEN None ELSE value[t]]
    /\ senders' = <<>> /\ receivers' = <<>>
    /\ UNCHANGED <<bufVars, chanAlive, out, history>>

\* vl_channel_close wakes everybody; the buffered values stay.
Close ==
    /\ chanAlive /\ ~closed
    /\ closed' = TRUE
    /\ Wake(Elems(senders) \cup Elems(receivers), "CLOSED")
    /\ value' = [t \in Tasks |-> IF t \in Elems(senders) THEN None ELSE value[t]]
    /\ senders' = <<>> /\ receivers' = <<>>
    /\ UNCHANGED <<bufVars, chanAlive, out, history>>

\* vl_channel_destroy drops what is in the buffer.
ChannelDestroy ==
    /\ chanAlive /\ Len(senders) = 0 /\ Len(receivers) = 0
    /\ chanAlive' = FALSE
    /\ UNCHANGED <<taskVars, bufVars, closed, senders, receivers, value, out, history>>

ChannelStep ==
    \/ Close \/ ChannelDestroy
    \/ \E t \in Tasks :
          \/ SendClosed(t) \/ SendMeet(t) \/ SendBuffer(t) \/ SendPark(t)
          \/ ReceiveBuffered(t) \/ ReceiveRefill(t) \/ ReceiveMeet(t) \/ ReceivePark(t)

\* What the resume of t changes: a call that had parked returns.
ChannelReturns(t) ==
    /\ fate' = IF call[t] = "send" THEN [fate EXCEPT ![mine[t]] = waitResult[t]] ELSE fate
    /\ mine' = [mine EXCEPT ![t] = None] /\ out' = [out EXCEPT ![t] = None]
    /\ UNCHANGED <<bufVars, closed, senders, receivers, chanAlive, value, sent, received>>

-----------------------------------------------------------------------------
(* Properties                                                              *)

Contents == [i \in 1..length |-> buffer[(head + i - 1) % capacity]]
Blocked == [i \in DOMAIN senders |-> value[senders[i]]]

\* The buffer is never overrun, and the wait queues link each task once.
ChannelOK ==
    /\ capacity \in Nat /\ buffer \in [0..(capacity - 1) -> Values \cup {None}]
    /\ head \in 0..capacity /\ length \in 0..capacity
    /\ closed \in BOOLEAN /\ chanAlive \in BOOLEAN
    /\ WaitQueue(senders) /\ WaitQueue(receivers)
    /\ value \in [Tasks -> Values \cup {None}] /\ out \in [Tasks -> Values \cup {None}]
    /\ sent \in 0..MaxSends /\ received \in Seq(Values)
    /\ mine \in [Tasks -> Values \cup {None}]
    /\ fate \in [Values -> {"none", "pending", "OK", "CLOSED"}]

\* Nobody waits without need: senders wait only for a full buffer, receivers
\* only for an empty one, never both, never after the close or the destroy.
WaitersNeeded ==
    /\ senders # <<>> => length = capacity /\ receivers = <<>>
    /\ receivers # <<>> => length = 0
    /\ senders \o receivers # <<>> => ~closed /\ chanAlive
    /\ QueueOf("send", senders) /\ QueueOf("receive", receivers)

\* What a call returns is what happened to its value: a send that returned
\* VL_OK has its value in the buffer or with a receiver, one that returned
\* VL_ERROR_CLOSED has not, and a receive returns VL_OK with a value and
\* VL_ERROR_CLOSED without, however close, send and receive raced.
OutcomeTruthful ==
    /\ \A v \in Values : fate[v] = "OK" => v \in Elems(received \o Contents)
    /\ \A v \in Values : fate[v] = "CLOSED" => v \notin Elems(received \o Contents)
    /\ \A t \in Tasks : call[t] = "receive" /\ Woken(t) =>
          (waitResult[t] = "OK" <=> out[t] # None)

\* The values that are sent and not received: the buffered ones, then those of
\* the blocked senders.
ValueQueue == Contents \o Blocked

\* "bounded FIFO buffers ... buffered values remain receivable before close is
\* seen" (synchronization.md): every value is received once and in the order
\* of the sends, through the buffer, the blocked senders and the rendezvous.
Fifo == INSTANCE FifoChannel WITH queue <- ValueQueue
FifoSpec == Fifo!Spec
=============================================================================
