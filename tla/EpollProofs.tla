----------------------------- MODULE EpollProofs -----------------------------
(***************************************************************************)
(* The promises of the epoll backend, proved for any number of handles,    *)
(* requests, descriptors, sockets and generations: one claim per           *)
(* descriptor, one place per request, no descriptor lost, and no result    *)
(* from a socket that the request was not submitted for.                   *)
(***************************************************************************)
EXTENDS EpollCustody

-----------------------------------------------------------------------------
(* Who holds an open socket.                                               *)

\* The accepted descriptor that the poll of h has in hand.
Hand(h) == outcome[h].fd

Sockets ==
    /\ \A h \in Handles :
           /\ Hand(h) # NoFd => pc[h] \in {"track", "delete", "deliver"}
           /\ pc[h] = "track" => Hand(h) # NoFd
           /\ Hand(h) \notin opened \cup owned
    /\ \A g, h \in Handles : g # h => Hand(g) # Hand(h) \/ Hand(h) = NoFd
    /\ opened \cap owned = {}
    /\ \A f \in Fds :
           /\ file[f] # 0 <=> \/ f \in opened \cup owned
                              \/ \E h \in Handles : Hand(h) = f
           /\ active[f] <=> \/ f \in owned
                            \/ \E h \in Handles : Hand(h) = f /\ pc[h] # "track"

\* What a step of h can do to sockets.
Quiet(h) ==
    /\ UNCHANGED <<file, gen, active, opened, owned>>
    /\ Hand(h)' = Hand(h)
    /\ pc[h] # "track" /\ pc'[h] # "track"
    /\ Hand(h) # NoFd => pc'[h] \in {"delete", "deliver"}

Accepts(h, a) ==
    /\ NewFile(a) /\ UNCHANGED <<gen, active, opened, owned>>
    /\ Hand(h) = NoFd /\ Hand(h)' = a /\ pc'[h] = "track"

Tracks(h) ==
    /\ pc[h] = "track" /\ pc'[h] = "delete" /\ Hand(h)' = Hand(h)
    /\ Trackable(Hand(h)) /\ Tracked(Hand(h))
    /\ UNCHANGED <<file, opened, owned>>

Discards(h) ==
    /\ pc[h] = "track" /\ pc'[h] = "delete" /\ Hand(h)' = NoFd
    /\ file' = [file EXCEPT ![Hand(h)] = 0]
    /\ UNCHANGED <<gen, active, opened, owned>>

Delivers(h) ==
    /\ pc[h] = "deliver" /\ pc'[h] = "idle"
    /\ Hand(h) # NoFd /\ Hand(h)' = NoFd
    /\ owned' = owned \cup {Hand(h)}
    /\ UNCHANGED <<file, gen, active, opened>>

Drops(h) ==
    /\ pc[h] = "deliver" /\ pc'[h] = "idle"
    /\ Hand(h) # NoFd /\ Hand(h)' = NoFd
    /\ Closed(Hand(h))
    /\ UNCHANGED <<opened, owned>>

\* A handle's step does one of these.
LEMMA SocketMoves ==
    ASSUME Types, Sockets, NEW h \in Handles, HandleStep(h)
    PROVE  \/ Quiet(h) \/ Tracks(h) \/ Discards(h) \/ Delivers(h) \/ Drops(h)
           \/ \E a \in Fds : Accepts(h, a)
  <1>t. /\ pc \in [Handles -> Pcs] /\ outcome \in [Handles -> Outcomes]
        /\ Hand(h) # NoFd => pc[h] \in {"track", "delete", "deliver"}
    BY Zenon DEF Types, RequestOK, EpollOK, Sockets
  <1>r. /\ Nothing.fd = NoFd /\ \A k \in Kinds : Result(k).fd = NoFd
        /\ {"stale", "error", "cancelled"} \subseteq Kinds
    BY Zenon, ResultTypes DEF Nothing, Kinds
  <1>1. ASSUME UNCHANGED <<file, gen, active, opened, owned>>,
               pc[h] \notin {"track", "delete", "deliver"},
               pc'[h] # "track", Hand(h)' = NoFd
        PROVE  Quiet(h)
    BY Zenon, <1>t, <1>1 DEF Quiet
  <1>2. ASSUME UNCHANGED outcome, pc[h] \notin {"track", "delete", "deliver"}
        PROVE  Hand(h)' = NoFd
    BY Zenon, <1>t, <1>2 DEF Hand
  <1>3. ASSUME NEW r \in Requests, NEW f \in Fds, NEW op \in Ops,
               SubmitRead(h, r, f, op)
        PROVE  Quiet(h)
    BY Zenon, <1>t, <1>1, <1>2, <1>3
    DEF SubmitRead, Capture, At, Goto, socketVars
  <1>4. ASSUME Return(h) PROVE pc'[h] = "idle" /\ Hand(h)' = NoFd
    BY Zenon, <1>t, <1>r, <1>4 DEF Return, Goto, Hand
  <1>5. CASE SubmitCheck(h)
    BY ZenonT(30), <1>t, <1>1, <1>2, <1>4, <1>5
    DEF SubmitCheck, Refuse, At, Goto, socketVars
  <1>6. CASE SubmitClaim(h)
    BY Zenon, <1>t, <1>1, <1>2, <1>4, <1>6
    DEF SubmitClaim, ClaimOrRefuse, Refuse, At, Goto, kernelVars
  <1>7. CASE SubmitAdd(h)
    BY Zenon, <1>t, <1>1, <1>4, <1>7 DEF SubmitAdd, ReturnFrom, At, socketVars
  <1>8. CASE SubmitFails(h)
    BY Zenon, <1>t, <1>1, <1>4, <1>8 DEF SubmitFails, Refuse, At, kernelVars
  <1>9. ASSUME NEW r \in Requests, CancelRequest(h, r) PROVE Quiet(h)
    BY Zenon, <1>t, <1>1, <1>2, <1>9
    DEF CancelRequest, At, kernelVars, threadVars
  <1>10. CASE PollQueued(h)
    <2>1. Hand(h)' = NoFd
      BY Zenon, <1>t, <1>r, <1>10 DEF PollQueued, Hand
    <2> QED
      BY Zenon, <1>t, <1>1, <1>10, <2>1 DEF PollQueued, At, Goto, socketVars
  <1>11. CASE PollBegin(h)
    BY Zenon, <1>t, <1>1, <1>2, <1>11 DEF PollBegin, At, Goto, socketVars
  <1>12. CASE PollScan(h)
    <2>1. Hand(h)' = NoFd
      BY <1>t, <1>r, <1>2, <1>12 DEF PollScan, Hand, At
    <2> QED
      BY Zenon, <1>t, <1>1, <1>12, <2>1 DEF PollScan, At, Goto, kernelVars
  <1>13. CASE PollTimeout(h)
    BY Zenon, <1>t, <1>1, <1>4, <1>13
    DEF PollTimeout, ReturnFrom, At, socketVars
  <1>14. CASE PollInterrupted(h)
    BY Zenon, <1>t, <1>1, <1>2, <1>14 DEF PollInterrupted, At, socketVars
  <1>15. ASSUME NEW w \in watched[h], PollEvent(h, w) PROVE Quiet(h)
    BY Zenon, <1>t, <1>1, <1>2, <1>15 DEF PollEvent, At, Goto, socketVars
  <1>16. CASE ReadyCheck(h)
    <2>1. Hand(h)' = NoFd
      BY <1>t, <1>r, <1>2, <1>16 DEF ReadyCheck, Hand, At
    <2> QED
      BY Zenon, <1>t, <1>1, <1>16, <2>1 DEF ReadyCheck, At, Goto, socketVars
  <1>17. CASE OperateAgain(h)
    BY Zenon, <1>t, <1>1, <1>2, <1>4, <1>17
    DEF OperateAgain, ReturnFrom, At, Goto, socketVars
  <1>18. CASE Operate(h)
    <2>1. Hand(h)' = NoFd
      BY Zenon, <1>t, <1>r, <1>18 DEF Operate, Hand
    <2> QED
      BY Zenon, <1>t, <1>1, <1>18, <2>1 DEF Operate, At, Goto, socketVars
  <1>19. ASSUME NEW a \in Fds, OperateAccept(h, a) PROVE Accepts(h, a)
    <2>1. Hand(h)' = a
      BY Zenon, <1>t, <1>19 DEF OperateAccept, Hand
    <2> QED
      BY Zenon, <1>t, <1>19, <2>1
      DEF OperateAccept, Accepts, At, Goto, slotVars
  <1>20. CASE AcceptTrack(h)
    <2>1. pc[h] = "track" /\ pc'[h] = "delete" /\ UNCHANGED <<opened, owned>>
      BY Zenon, <1>t, <1>20 DEF AcceptTrack, At, Goto
    <2>2. CASE Trackable(Hand(h)) /\ Tracked(Hand(h)) /\ UNCHANGED <<file, outcome>>
      BY Zenon, <2>1, <2>2 DEF Tracks, Hand
    <2>3. CASE /\ file' = [file EXCEPT ![Hand(h)] = 0] /\ UNCHANGED <<gen, active>>
               /\ outcome' = [outcome EXCEPT ![h] = Result("error")]
      <3>1. Hand(h)' = NoFd
        BY Zenon, <1>t, <1>r, <2>3 DEF Hand
      <3> QED
        BY Zenon, <2>1, <2>3, <3>1 DEF Discards
    <2> QED
      BY Zenon, <1>20, <2>2, <2>3 DEF AcceptTrack, Hand
  <1>21. CASE ReadyDelete(h)
    BY Zenon, <1>t, <1>21 DEF ReadyDelete, Quiet, Hand, At, Goto, kernelVars
  <1>22. CASE PollDeliver(h)
    <2>1. /\ pc[h] = "deliver" /\ pc'[h] = "idle" /\ Hand(h)' = NoFd
          /\ UNCHANGED opened
      BY Zenon, <1>4, <1>22 DEF PollDeliver, Deliver, At
    <2>2. CASE Hand(h) = NoFd
      <3>1. UNCHANGED <<file, gen, active, owned>>
        BY Zenon, <1>22, <2>2 DEF PollDeliver, Deliver, Hand
      <3> QED
        BY Zenon, <2>1, <2>2, <3>1 DEF Quiet
    <2>3. CASE Hand(h) # NoFd
      BY Zenon, <1>22, <2>1, <2>3
      DEF PollDeliver, Deliver, Hand, Delivers, Drops
    <2> QED
      BY Zenon, <2>2, <2>3
  <1>23. CASE Destroy(h)
    BY ZenonT(30), <1>t, <1>1, <1>2, <1>23
    DEF Destroy, At, kernelVars, threadVars
  <1> QED
    BY ZenonT(30), <1>3, <1>5, <1>6, <1>7, <1>8, <1>9, <1>10, <1>11, <1>12,
       <1>13, <1>14,
       <1>15, <1>16, <1>17, <1>18, <1>19, <1>20, <1>21, <1>22, <1>23
    DEF HandleStep, SubmitStep, PollStep

\* A handle's step keeps every open socket in somebody's hands.
LEMMA StepSockets ==
    ASSUME Types, Types', Sockets, NEW h \in Handles, HandleStep(h)
    PROVE  Sockets'
  <1>t. /\ file \in [Fds -> 0..MaxSockets] /\ serial \in 0..MaxSockets
        /\ active \in [Fds -> BOOLEAN] /\ opened \subseteq Fds /\ owned \subseteq Fds
        /\ NoFd \notin Fds /\ \A g \in Handles : Hand(g) \in Fds \cup {NoFd}
    BY Zenon, FdsAssumption
    DEF Types, SocketOK, RequestOK, Outcomes, Hand, NoFd
  <1>o. \A g \in Handles : g # h => Hand(g)' = Hand(g) /\ pc'[g] = pc[g]
    BY Zenon, Elsewhere DEF Hand
  <1>i. /\ \A g \in Handles :
               /\ Hand(g) # NoFd => pc[g] \in {"track", "delete", "deliver"}
               /\ pc[g] = "track" => Hand(g) # NoFd
               /\ Hand(g) \notin opened \cup owned
        /\ \A g, k \in Handles : g # k => Hand(g) # Hand(k) \/ Hand(k) = NoFd
        /\ opened \cap owned = {}
    BY Zenon DEF Sockets
  <1>f. \A f \in Fds :
           /\ file[f] # 0 <=> \/ f \in opened \cup owned
                              \/ \E g \in Handles : Hand(g) = f
           /\ active[f] <=> \/ f \in owned
                            \/ \E g \in Handles : Hand(g) = f /\ pc[g] # "track"
    BY Zenon DEF Sockets
  <1>1. CASE Quiet(h)
    <2>1. \A g \in Handles : Hand(g)' = Hand(g)
      BY Zenon, <1>o, <1>1 DEF Quiet
    <2>2. \A g \in Handles : pc'[g] = "track" <=> pc[g] = "track"
      BY Zenon, <1>o, <1>1 DEF Quiet
    <2>3. \A g \in Handles : Hand(g) # NoFd => pc'[g] \in {"track", "delete", "deliver"}
      BY Zenon, <1>i, <1>o, <1>1 DEF Quiet
    <2>4. UNCHANGED <<file, active, opened, owned>>
      BY Zenon, <1>1 DEF Quiet
    <2> QED
      BY <1>i, <1>f, <2>1, <2>2, <2>3, <2>4 DEF Sockets
  <1>2. ASSUME NEW a \in Fds, Accepts(h, a) PROVE Sockets'
    <2>1. /\ file[a] = 0 /\ file'[a] # 0 /\ \A f \in Fds : f # a => file'[f] = file[f]
          /\ UNCHANGED <<active, opened, owned>>
          /\ Hand(h) = NoFd /\ Hand(h)' = a /\ pc'[h] = "track"
      BY <1>t, <1>2 DEF Accepts, NewFile
    <2>2. a \notin opened \cup owned /\ \A g \in Handles : Hand(g) # a
      BY Zenon, <1>f, <2>1
    <2>3. \A g \in Handles :
               /\ Hand(g)' # NoFd => pc'[g] \in {"track", "delete", "deliver"}
               /\ pc'[g] = "track" => Hand(g)' # NoFd
               /\ Hand(g)' \notin (opened \cup owned)'
      BY <1>t, <1>o, <1>i, <2>1, <2>2
    <2>4. \A g, k \in Handles : g # k => Hand(g)' # Hand(k)' \/ Hand(k)' = NoFd
      BY <1>o, <1>i, <2>1, <2>2
    <2>5. ASSUME NEW f \in Fds
          PROVE  /\ file'[f] # 0 <=> \/ f \in (opened \cup owned)'
                                     \/ \E g \in Handles : Hand(g)' = f
                 /\ active'[f] <=> \/ f \in owned'
                                   \/ \E g \in Handles :
                                          Hand(g)' = f /\ pc'[g] # "track"
      <3>1. CASE f = a
        BY ZenonT(30), <1>f, <1>o, <2>1, <2>2, <3>1
      <3>2. CASE f # a
        BY <1>t, <1>f, <1>o, <2>1, <3>2
      <3> QED
        BY Zenon, <3>1, <3>2
    <2> QED
      BY ZenonT(30), <1>i, <2>1, <2>3, <2>4, <2>5 DEF Sockets
  <1>3. CASE Tracks(h)
    <2>1. /\ active'[Hand(h)] /\ \A f \in Fds : f # Hand(h) => active'[f] = active[f]
          /\ UNCHANGED <<file, opened, owned>>
          /\ Hand(h)' = Hand(h) /\ Hand(h) \in Fds
          /\ pc[h] = "track" /\ pc'[h] = "delete"
      BY Zenon, <1>t, <1>i, <1>3 DEF Tracks, Tracked
    <2>2. \A g \in Handles : Hand(g)' = Hand(g)
      BY Zenon, <1>o, <2>1
    <2>3. \A g \in Handles :
               /\ Hand(g)' # NoFd => pc'[g] \in {"track", "delete", "deliver"}
               /\ pc'[g] = "track" => Hand(g)' # NoFd
               /\ Hand(g)' \notin (opened \cup owned)'
      BY ZenonT(30), <1>o, <1>i, <2>1, <2>2
    <2>4. ASSUME NEW f \in Fds
          PROVE  active'[f] <=> \/ f \in owned'
                                \/ \E g \in Handles :
                                       Hand(g)' = f /\ pc'[g] # "track"
      <3>1. CASE f = Hand(h)
        BY Zenon, <2>1, <3>1
      <3>2. CASE f # Hand(h)
        BY <1>f, <1>o, <2>1, <2>2, <3>2
      <3> QED
        BY Zenon, <3>1, <3>2
    <2> QED
      BY <1>i, <1>f, <2>1, <2>2, <2>3, <2>4 DEF Sockets
  <1>4. ASSUME Hand(h) \in Fds, Hand(h)' = NoFd, pc'[h] # "track",
               \/ /\ file'[Hand(h)] = 0 /\ ~active'[Hand(h)] /\ owned' = owned
               \/ /\ file'[Hand(h)] # 0 /\ active'[Hand(h)]
                  /\ owned' = owned \cup {Hand(h)},
               opened' = opened,
               \A f \in Fds : f # Hand(h) => /\ file'[f] = file[f]
                                             /\ active'[f] = active[f]
        PROVE  Sockets'
    <2>0. \A g \in Handles : g # h => Hand(g) # Hand(h)
      BY Zenon, <1>t, <1>i, <1>4
    <2>1. \A g \in Handles :
               /\ Hand(g)' # NoFd => pc'[g] \in {"track", "delete", "deliver"}
               /\ pc'[g] = "track" => Hand(g)' # NoFd
               /\ Hand(g)' \notin (opened \cup owned)'
      BY <1>t, <1>o, <1>i, <1>4, <2>0
    <2>2. \A g, k \in Handles : g # k => Hand(g)' # Hand(k)' \/ Hand(k)' = NoFd
      BY <1>t, <1>o, <1>i, <1>4
    <2>3. (opened \cap owned)' = {}
      BY Zenon, <1>i, <1>4
    <2>4. ASSUME NEW f \in Fds
          PROVE  /\ file'[f] # 0 <=> \/ f \in (opened \cup owned)'
                                     \/ \E g \in Handles : Hand(g)' = f
                 /\ active'[f] <=> \/ f \in owned'
                                   \/ \E g \in Handles :
                                          Hand(g)' = f /\ pc'[g] # "track"
      <3>1. CASE f = Hand(h)
        <4>1. \A g \in Handles : Hand(g)' # f
          BY Zenon, <1>t, <1>o, <1>4, <2>0, <3>1
        <4>2. f \notin opened \cup owned
          BY Zenon, <1>i, <3>1
        <4> QED
          BY Zenon, <1>4, <3>1, <4>1, <4>2
      <3>2. CASE f # Hand(h)
        BY <1>t, <1>f, <1>o, <1>4, <3>2
      <3> QED
        BY Zenon, <3>1, <3>2
    <2> QED
      BY Zenon, <2>1, <2>2, <2>3, <2>4 DEF Sockets
  <1>5. CASE Discards(h)
    <2>1. Hand(h) \in Fds /\ ~active[Hand(h)]
      BY <1>t, <1>i, <1>f, <1>5 DEF Discards
    <2>2. /\ Hand(h)' = NoFd /\ pc'[h] # "track" /\ file'[Hand(h)] = 0
          /\ \A f \in Fds : f # Hand(h) => file'[f] = file[f]
          /\ UNCHANGED <<active, opened, owned>>
      BY Zenon, <1>t, <1>5, <2>1 DEF Discards
    <2> QED
      BY Zenon, <1>4, <2>1, <2>2
  <1>6. CASE Delivers(h)
    <2>1. /\ Hand(h) \in Fds /\ Hand(h)' = NoFd /\ pc[h] = "deliver"
          /\ pc'[h] # "track" /\ owned' = owned \cup {Hand(h)}
          /\ UNCHANGED <<file, active, opened>>
      BY Zenon, <1>t, <1>6 DEF Delivers
    <2>2. file[Hand(h)] # 0 /\ active[Hand(h)]
      BY Zenon, <1>f, <2>1
    <2> QED
      BY Zenon, <1>4, <2>1, <2>2
  <1>7. CASE Drops(h)
    <2>1. /\ Hand(h) \in Fds /\ Hand(h)' = NoFd /\ pc'[h] # "track"
          /\ UNCHANGED <<opened, owned>> /\ Closed(Hand(h))
      BY Zenon, <1>t, <1>7 DEF Drops
    <2>2. /\ file'[Hand(h)] = 0 /\ ~active'[Hand(h)]
          /\ \A f \in Fds : f # Hand(h) => file'[f] = file[f] /\ active'[f] = active[f]
      BY Zenon, <1>t, <2>1 DEF Closed
    <2> QED
      BY Zenon, <1>4, <2>1, <2>2
  <1> QED
    BY ZenonT(30), <1>1, <1>2, <1>3, <1>5, <1>6, <1>7, SocketMoves

\* So does a step of the program.
LEMMA ProgramSockets ==
    ASSUME Types, Sockets, ProgramStep
    PROVE  Sockets'
  <1>t. /\ file \in [Fds -> 0..MaxSockets] /\ serial \in 0..MaxSockets
        /\ active \in [Fds -> BOOLEAN] /\ opened \subseteq Fds /\ owned \subseteq Fds
        /\ NoFd \notin Fds
    BY Zenon, FdsAssumption DEF Types, SocketOK, NoFd
  <1>o. \A g \in Handles : Hand(g)' = Hand(g) /\ pc'[g] = pc[g]
    BY Zenon, ProgramTypes DEF Hand
  <1>i. /\ \A g \in Handles :
               /\ Hand(g) # NoFd => pc[g] \in {"track", "delete", "deliver"}
               /\ pc[g] = "track" => Hand(g) # NoFd
               /\ Hand(g) \notin opened \cup owned
        /\ \A g, k \in Handles : g # k => Hand(g) # Hand(k) \/ Hand(k) = NoFd
        /\ opened \cap owned = {}
    BY Zenon DEF Sockets
  <1>f. \A f \in Fds :
           /\ file[f] # 0 <=> \/ f \in opened \cup owned
                              \/ \E g \in Handles : Hand(g) = f
           /\ active[f] <=> \/ f \in owned
                            \/ \E g \in Handles : Hand(g) = f /\ pc[g] # "track"
    BY Zenon DEF Sockets
  <1>1. PICK f \in Fds : Open(f) \/ Track(f) \/ TrackFails(f) \/ CloseOwned(f)
    BY Zenon DEF ProgramStep, Close
  <1>2. \A g \in Fds : g # f =>
            /\ file'[g] = file[g] /\ active'[g] = active[g]
            /\ g \in opened' <=> g \in opened
            /\ g \in owned' <=> g \in owned
    BY <1>t, <1>1
    DEF Open, NewFile, Track, Tracked, TrackFails, CloseOwned, Closed, slotVars,
        kernelVars
  <1>3. /\ opened' \subseteq Fds /\ owned' \subseteq Fds
    BY Zenon, <1>t, <1>1
    DEF Open, NewFile, Track, Tracked, TrackFails, CloseOwned
  <1>4. /\ \A g \in Handles : Hand(g) # f
        /\ f \in opened' => f \notin owned'
        /\ file'[f] # 0 <=> f \in opened' \cup owned'
        /\ active'[f] <=> f \in owned'
    <2>1. CASE Open(f)
      BY <1>t, <1>f, <2>1 DEF Open, NewFile, slotVars
    <2>2. CASE Track(f)
      BY <1>t, <1>i, <1>f, <2>2 DEF Track, Tracked, kernelVars
    <2>3. CASE TrackFails(f)
      BY <1>t, <1>i, <1>f, <2>3 DEF TrackFails, slotVars
    <2>4. CASE CloseOwned(f)
      BY <1>t, <1>i, <1>f, <2>4 DEF CloseOwned, Closed
    <2> QED
      BY Zenon, <1>1, <2>1, <2>2, <2>3, <2>4
  <1>5. \A g \in Handles : Hand(g)' \notin (opened \cup owned)'
    BY <1>o, <1>i, <1>2, <1>3, <1>4
  <1>6. (opened \cap owned)' = {}
    BY <1>i, <1>2, <1>3, <1>4
  <1>7. ASSUME NEW k \in Fds
        PROVE  /\ file'[k] # 0 <=> \/ k \in (opened \cup owned)'
                                   \/ \E g \in Handles : Hand(g)' = k
               /\ active'[k] <=> \/ k \in owned'
                                 \/ \E g \in Handles :
                                        Hand(g)' = k /\ pc'[g] # "track"
    <2>1. CASE k = f
      BY Zenon, <1>o, <1>4, <2>1
    <2>2. CASE k # f
      BY <1>o, <1>f, <1>2, <2>2
    <2> QED
      BY Zenon, <2>1, <2>2
  <1> QED
    BY <1>o, <1>i, <1>5, <1>6, <1>7 DEF Sockets

-----------------------------------------------------------------------------
(* Slots and what they name.                                               *)

\* A slot's generation never goes back, and a slot that is active now and has
\* the generation it had was active before and names the same socket.
SlotStep(f) ==
    /\ gen'[f] >= gen[f]
    /\ active'[f] /\ gen'[f] = gen[f] => active[f] /\ file'[f] = file[f]

\* A handle's step.
LEMMA StepSlots ==
    ASSUME Types, Sockets, NEW h \in Handles, HandleStep(h), NEW f \in Fds
    PROVE  SlotStep(f)
  <1>t. /\ file \in [Fds -> 0..MaxSockets] /\ gen \in [Fds -> 0..GenMax]
        /\ active \in [Fds -> BOOLEAN] /\ gen[f] \in Int /\ gen[f] <= GenMax
        /\ GenMax \in Nat
    BY FdsAssumption DEF Types, SocketOK
  <1>f. /\ active[f] => file[f] # 0
        /\ pc[h] = "track" => ~active[Hand(h)] /\ Hand(h) \in Fds
    BY FdsAssumption DEF Sockets, Types, RequestOK, Outcomes, Hand, NoFd
  <1>1. CASE Quiet(h)
    BY <1>t, <1>1 DEF Quiet, SlotStep
  <1>2. ASSUME NEW a \in Fds, Accepts(h, a) PROVE SlotStep(f)
    BY <1>t, <1>f, <1>2 DEF Accepts, NewFile, SlotStep
  <1>3. CASE Tracks(h)
    BY <1>t, <1>f, <1>3 DEF Tracks, Tracked, SlotStep
  <1>4. CASE Discards(h)
    BY <1>t, <1>f, <1>4 DEF Discards, SlotStep
  <1>5. CASE Delivers(h)
    BY <1>t, <1>5 DEF Delivers, SlotStep
  <1>6. CASE Drops(h)
    BY <1>t, <1>6 DEF Drops, Closed, NextGen, SlotStep
  <1> QED
    BY Zenon, <1>1, <1>2, <1>3, <1>4, <1>5, <1>6, SocketMoves

\* A step of the program.
LEMMA ProgramSlots ==
    ASSUME Types, Sockets, ProgramStep, NEW f \in Fds
    PROVE  SlotStep(f)
  <1>t. /\ file \in [Fds -> 0..MaxSockets] /\ gen \in [Fds -> 0..GenMax]
        /\ active \in [Fds -> BOOLEAN] /\ gen[f] \in Int /\ gen[f] <= GenMax
        /\ GenMax \in Nat
    BY FdsAssumption DEF Types, SocketOK
  <1>f. \A k \in Fds : active[k] => file[k] # 0 /\ k \notin opened
    BY DEF Sockets
  <1>1. PICK k \in Fds : Open(k) \/ Track(k) \/ TrackFails(k) \/ CloseOwned(k)
    BY Zenon DEF ProgramStep, Close
  <1>2. CASE Open(k)
    BY <1>t, <1>f, <1>2 DEF Open, NewFile, SlotStep, slotVars
  <1>3. CASE Track(k)
    BY <1>t, <1>f, <1>3 DEF Track, Tracked, SlotStep, kernelVars
  <1>4. CASE TrackFails(k)
    BY <1>t, <1>f, <1>4 DEF TrackFails, SlotStep, slotVars
  <1>5. CASE CloseOwned(k)
    BY <1>t, <1>5 DEF CloseOwned, Closed, NextGen, SlotStep
  <1> QED
    BY ZenonT(30), <1>1, <1>2, <1>3, <1>4, <1>5

-----------------------------------------------------------------------------
(* Which socket a request is about.                                        *)

\* A request in flight is not older than its slot; while it is not stale, its
\* descriptor names the socket it claimed, and so does a result in hand.
Identity ==
    /\ \A r \in Requests : ~Free(r) => req[r].gen <= gen[Fd(r)]
    /\ \A r \in Claimants : ~Stale(r) => file[Fd(r)] = req[r].socket
    /\ \A h \in Handles :
           outcome[h].kind = "ok" =>
               /\ pc[h] \in {"track", "delete", "deliver"}
               /\ ~Stale(cur[h]) => outcome[h].on = req[cur[h]].socket
    /\ RightSocket

\* Once stale, a request stays stale.
LEMMA StaleStays ==
    ASSUME Types, Types', NEW r \in Requests, Fd(r) \in Fds, SlotStep(Fd(r)),
           req[r].gen <= gen[Fd(r)],
           req'[r].fd = req[r].fd, req'[r].gen = req[r].gen,
           req'[r].op = req[r].op, ~Stale(r)', req[r].op # "timeout"
    PROVE  ~Stale(r) /\ file'[Fd(r)] = file[Fd(r)]
  <1>1. /\ gen[Fd(r)] \in Int /\ gen'[Fd(r)] \in Int /\ req[r].gen \in Int
    BY FdsAssumption DEF Types, SocketOK, RequestOK, Request
  <1>2. active'[Fd(r)] /\ gen'[Fd(r)] = req[r].gen
    BY Zenon DEF Stale, IsStale, Fd
  <1>3. gen'[Fd(r)] >= gen[Fd(r)]
    BY Zenon DEF SlotStep
  <1>4. gen'[Fd(r)] = gen[Fd(r)]
    BY <1>1, <1>2, <1>3
  <1>5. active[Fd(r)] /\ file'[Fd(r)] = file[Fd(r)]
    BY Zenon, <1>2, <1>4 DEF SlotStep
  <1> QED
    BY Zenon, <1>2, <1>4, <1>5 DEF Stale, IsStale, Fd

\* What a step of h does to a request.
Touched(h, r) ==
    \/ req'[r] = req[r]
    \/ req'[r].state = "new"
    \/ /\ Free(r) /\ req'[r].state = "submitting"
       /\ req'[r].fd \in Fds /\ req'[r].gen = gen[req'[r].fd]
       /\ UNCHANGED gen
    \/ /\ r = cur[h] /\ pc[h] = "claim" /\ req'[r].state = "submitting"
       /\ req'[r].fd = req[r].fd /\ req'[r].gen = req[r].gen
       /\ req'[r].op = req[r].op
       /\ req'[r].socket = file[Fd(r)] /\ UNCHANGED file
    \/ /\ r = cur[h] /\ pc[h] = "add" /\ req'[r].state = "pending"
       /\ req'[r].fd = req[r].fd /\ req'[r].gen = req[r].gen
       /\ req'[r].op = req[r].op /\ req'[r].socket = req[r].socket
    \/ /\ r = cur[h] /\ pc[h] = "deliver" /\ req'[r].state = "done"
       /\ req'[r].result.kind = "ok" =>
              /\ ~Stale(r) /\ outcome[h].kind = "ok"
              /\ req'[r].result.on = outcome[h].on
              /\ req'[r].socket = req[r].socket

\* A handle's step does one of these to every request.
LEMMA StepTouches ==
    ASSUME Types, Ownership, NEW h \in Handles, HandleStep(h), NEW r \in Requests
    PROVE  Touched(h, r)
  <1>t. /\ req \in [Requests -> Request] /\ pc \in [Handles -> Pcs]
        /\ outcome \in [Handles -> Outcomes] /\ file \in [Fds -> 0..MaxSockets]
        /\ gen \in [Fds -> 0..GenMax]
    BY Zenon DEF Types, RequestOK, EpollOK, SocketOK
  <1>h. /\ pc[h] \in Submitting \cup {"deliver"} =>
               cur[h] \in Requests /\ Fd(cur[h]) \in Fds
    BY Zenon, Held
  <1>1. CASE UNCHANGED req
    BY Zenon, <1>1 DEF Touched
  <1>2. ASSUME NEW s \in Requests, NEW f \in Fds, NEW op \in Ops,
               SubmitRead(h, s, f, op)
        PROVE  Touched(h, r)
    <2>1. /\ req' = [req EXCEPT ![s] = Object("submitting", f, op, gen[f], 0, Nothing)]
          /\ UNCHANGED gen /\ Free(s)
      BY Zenon, <1>2 DEF SubmitRead, Capture, socketVars, Free
    <2>2. CASE r = s
      <3>1. req'[r] = Object("submitting", f, op, gen[f], 0, Nothing)
        BY Zenon, <1>t, <2>1, <2>2
      <3>2. /\ req'[r].state = "submitting" /\ req'[r].fd = f
            /\ req'[r].gen = gen[f]
        BY <3>1 DEF Object
      <3> QED
        BY Zenon, <2>1, <2>2, <3>2 DEF Touched
    <2>3. CASE r # s
      BY Zenon, <1>t, <2>1, <2>3 DEF Touched
    <2> QED
      BY Zenon, <2>2, <2>3
  <1>3. ASSUME Refuse(h) PROVE Touched(h, r)
    BY Zenon, <1>t, <1>3, BlankFields DEF Refuse, Touched
  <1>4. CASE SubmitClaim(h)
    <2>1. CASE Refuse(h)
      BY Zenon, <1>3, <2>1
    <2>2. CASE req' = [req EXCEPT ![cur[h]].socket = file[Fd(cur[h])]]
      <3>1. pc[h] = "claim" /\ cur[h] \in Requests /\ Fd(cur[h]) \in Fds
            /\ UNCHANGED file
        BY Zenon, <1>h, <1>4
        DEF SubmitClaim, ClaimOrRefuse, At, Submitting, kernelVars
      <3>2. CASE r = cur[h]
        <4>1. /\ req'[r] = [req[r] EXCEPT !.socket = file[Fd(r)]]
              /\ req[r] \in Request /\ file[Fd(r)] \in 0..MaxSockets
          BY Zenon, <1>t, <2>2, <3>1, <3>2
        <4>2. /\ req'[r].fd = req[r].fd /\ req'[r].gen = req[r].gen
              /\ req'[r].op = req[r].op /\ req'[r].socket = file[Fd(r)]
              /\ req'[r].state = req[r].state
          BY <4>1, ClaimedFields
        <4>3. req[r].state = "submitting"
          BY Zenon, <3>1, <3>2
          DEF Ownership, HandleOK, Holds, InCall, Submitting
        <4> QED
          BY ZenonT(30), <3>1, <3>2, <4>2, <4>3 DEF Touched
      <3>3. CASE r # cur[h]
        BY ZenonT(30), <1>t, <2>2, <3>3 DEF Touched
      <3> QED
        BY Zenon, <3>2, <3>3
    <2> QED
      BY Zenon, <1>4, <2>1, <2>2 DEF SubmitClaim, ClaimOrRefuse
  <1>5. CASE SubmitAdd(h)
    <2>1. /\ pc[h] = "add" /\ cur[h] \in Requests
          /\ req' = [req EXCEPT ![cur[h]].state = "pending"]
      BY Zenon, <1>h, <1>5 DEF SubmitAdd, At, Submitting
    <2>2. CASE r = cur[h]
      <3>1. req'[r] = [req[r] EXCEPT !.state = "pending"] /\ req[r] \in Request
        BY Zenon, <1>t, <2>1, <2>2
      <3>2. /\ req'[r].fd = req[r].fd /\ req'[r].gen = req[r].gen
            /\ req'[r].op = req[r].op /\ req'[r].socket = req[r].socket
            /\ req'[r].state = "pending"
        BY Zenon, <3>1, PendingFields
      <3> QED
        BY Zenon, <2>1, <2>2, <3>2 DEF Touched
    <2>3. CASE r # cur[h]
      BY Zenon, <1>t, <2>1, <2>3 DEF Touched
    <2> QED
      BY Zenon, <2>2, <2>3
  <1>6. CASE PollDeliver(h)
    <2>1. pc[h] = "deliver" /\ cur[h] \in Requests
      BY Zenon, <1>h, <1>6 DEF PollDeliver, Deliver, At
    <2>2. PICK x \in Outcomes :
              /\ Answer(cur[h], x)
              /\ \/ ~Stale(cur[h]) /\ x = outcome[h]
                 \/ x = Result("stale")
      BY Zenon, <1>t, <1>6, Consts DEF PollDeliver, Deliver
    <2>3. CASE r = cur[h]
      <3>1. /\ req'[r] = Object("done", NoFd, "none", 0, req[r].socket, x)
            /\ req[r].socket \in 0..MaxSockets
        BY ZenonT(30), <1>t, <2>1, <2>2, <2>3 DEF Answer, Request
      <3>2. /\ req'[r].state = "done" /\ req'[r].result = x
            /\ req'[r].socket = req[r].socket
        BY <3>1, Consts, ObjectFields
      <3>3. Result("stale").kind # "ok"
        BY Zenon, ResultTypes DEF Kinds
      <3> QED
        BY ZenonT(30), <2>1, <2>2, <2>3, <3>2, <3>3 DEF Touched
    <2>4. CASE r # cur[h]
      BY Zenon, <1>t, <2>1, <2>2, <2>4 DEF Answer, Touched
    <2> QED
      BY Zenon, <2>3, <2>4
  <1>7. CASE Destroy(h)
    BY Zenon, <1>7, BlankFields DEF Destroy, Touched
  <1> QED
    BY ZenonT(30), <1>1, <1>2, <1>3, <1>4, <1>5, <1>6, <1>7
    DEF HandleStep, SubmitStep, PollStep, SubmitCheck, SubmitFails, CancelRequest,
        PollQueued, PollBegin, PollScan, PollTimeout, PollInterrupted, PollEvent,
        ReadyCheck, OperateAgain, Operate, OperateAccept, AcceptTrack, ReadyDelete

\* A request in flight is as young as its slot.
LEMMA StepYoung ==
    ASSUME Types, Types', Ownership, Sockets, Identity,
           NEW h \in Handles, HandleStep(h), NEW r \in Requests, ~Free(r)'
    PROVE  req'[r].gen <= gen'[Fd(r)']
  <1>g. /\ \A f \in Fds : gen[f] \in Int /\ gen'[f] \in Int /\ gen'[f] >= gen[f]
        /\ req[r].gen \in Int /\ req'[r].gen \in Int
    <2>1. \A f \in Fds : gen'[f] >= gen[f]
      BY Zenon, StepSlots DEF SlotStep
    <2>2. \A f \in Fds : gen[f] \in Int /\ gen'[f] \in Int
      BY FdsAssumption DEF Types, SocketOK
    <2>3. req[r].gen \in Int /\ req'[r].gen \in Int
      BY FdsAssumption DEF Types, RequestOK, Request
    <2> QED
      BY Zenon, <2>1, <2>2, <2>3
  <1>1. ASSUME ~Free(r), req'[r].fd = req[r].fd, req'[r].gen = req[r].gen
        PROVE  req'[r].gen <= gen'[Fd(r)']
    <2>1. Fd(r) \in Fds /\ req[r].gen <= gen[Fd(r)]
      BY Zenon, <1>1 DEF Ownership, Identity
    <2>2. Fd(r)' = Fd(r)
      BY Zenon, <1>1 DEF Fd
    <2> QED
      BY <1>g, <1>1, <2>1, <2>2
  <1>2. CASE req'[r] = req[r]
    BY Zenon, <1>1, <1>2 DEF Free
  <1>3. CASE req'[r].state \in {"new", "done"}
    BY Zenon, <1>3 DEF Free
  <1>4. CASE req'[r].fd \in Fds /\ req'[r].gen = gen[req'[r].fd] /\ UNCHANGED gen
    BY Zenon, <1>g, <1>4 DEF Fd
  <1>5. CASE /\ r = cur[h] /\ pc[h] \in {"claim", "add"}
             /\ req'[r].fd = req[r].fd /\ req'[r].gen = req[r].gen
    <2>1. ~Free(r)
      BY Zenon, <1>5, Held DEF Submitting
    <2> QED
      BY Zenon, <1>1, <1>5, <2>1
  <1> QED
    BY <1>2, <1>3, <1>4, <1>5, StepTouches DEF Touched

\* A claimant of h after a step was one before, or has just claimed the socket
\* that its descriptor names.
LEMMA StepClaims ==
    ASSUME Types, Types', Ownership, NEW h \in Handles, HandleStep(h),
           NEW r \in Claims(h)'
    PROVE  \/ /\ r \in Claims(h)
              /\ req'[r].fd = req[r].fd /\ req'[r].gen = req[r].gen
              /\ req'[r].op = req[r].op /\ req'[r].socket = req[r].socket
           \/ req'[r].socket = file[req'[r].fd] /\ UNCHANGED file
  <1> DEFINE Goal ==
        \/ /\ r \in Claims(h)
           /\ req'[r].fd = req[r].fd /\ req'[r].gen = req[r].gen
           /\ req'[r].op = req[r].op /\ req'[r].socket = req[r].socket
        \/ req'[r].socket = file[req'[r].fd] /\ UNCHANGED file
  <1>t. /\ pc \in [Handles -> Pcs] /\ waiters \in [Handles -> Seq(Requests)]
        /\ req \in [Requests -> Request] /\ file \in [Fds -> 0..MaxSockets]
    BY Zenon DEF Types, RequestOK, EpollOK, SocketOK
  <1>w. ASSUME r \in Range(waiters[h]), ~Destroy(h) PROVE Goal
    BY Zenon, <1>w, WaiterObjects DEF Claims
  <1>1. ASSUME Range(waiters'[h]) \subseteq Range(waiters[h]), pc'[h] # "add",
               ~Destroy(h)
        PROVE  Goal
    BY Zenon, <1>w, <1>1 DEF Claims
  <1>2. CASE Destroy(h)
    BY <1>t, <1>2 DEF Destroy, Claims, At, Range, threadVars
  <1>3. ASSUME UNCHANGED waiters, ~Destroy(h),
               NEW p \in {"idle", "check", "scan", "ready", "operate", "track",
                          "delete", "deliver", "claim"},
               Goto(h, p) \/ (UNCHANGED pc /\ pc[h] # "add")
        PROVE  Goal
    BY Zenon, <1>t, <1>1, <1>3 DEF Goto
  <1>4. ASSUME NEW s \in Range(waiters[h]), DeleteWaiter(h, s), ~Destroy(h),
               Goto(h, "deliver") \/ (UNCHANGED pc /\ pc[h] # "add")
        PROVE  Goal
    BY ZenonT(30), <1>t, <1>1, <1>4, Deleted DEF Goto
  <1>5. CASE SubmitClaim(h)
    <2>1. /\ pc[h] = "claim" /\ UNCHANGED <<waiters, file>> /\ cur[h] \in Requests
          /\ Fd(cur[h]) \in Fds /\ ~Destroy(h)
      BY Zenon, <1>5, Held
      DEF SubmitClaim, ClaimOrRefuse, Destroy, At, Submitting, epollVars, kernelVars
    <2>2. CASE Refuse(h)
      BY Zenon, <1>3, <2>1, <2>2 DEF Refuse, Return
    <2>3. CASE /\ req' = [req EXCEPT ![cur[h]].socket = file[Fd(cur[h])]]
               /\ UNCHANGED cur
      <3>1. CASE r \in Range(waiters[h])
        BY Zenon, <1>w, <2>1, <3>1
      <3>2. CASE r = cur[h]
        <4>1. /\ req'[r] = [req[r] EXCEPT !.socket = file[Fd(r)]]
              /\ req[r] \in Request /\ file[Fd(r)] \in 0..MaxSockets
          BY ZenonT(30), <1>t, <2>1, <2>3, <3>2
        <4>2. req'[r].fd = req[r].fd /\ req'[r].socket = file[Fd(r)]
          BY <4>1, ClaimedFields
        <4> QED
          BY Zenon, <2>1, <4>2 DEF Fd
      <3> QED
        BY ZenonT(30), <2>1, <2>3, <3>1, <3>2 DEF Claims
    <2> QED
      BY Zenon, <1>5, <2>2, <2>3 DEF SubmitClaim, ClaimOrRefuse
  <1>6. CASE SubmitAdd(h)
    <2>1. /\ pc[h] = "add" /\ pc'[h] = "idle" /\ cur[h] \in Requests
          /\ waiters'[h] = <<cur[h]>> \o waiters[h] /\ ~Destroy(h)
          /\ req' = [req EXCEPT ![cur[h]].state = "pending"]
      BY ZenonT(30), <1>t, <1>6, Held
      DEF SubmitAdd, Destroy, At, Submitting, ReturnFrom, Return, Goto
    <2>2. Range(waiters'[h]) = Range(waiters[h]) \cup {cur[h]}
      <3>1. cur[h] \notin Range(waiters[h])
        BY Zenon, <2>1 DEF Submitting, Ownership, HandleOK, InCall
      <3> QED
        BY <1>t, <2>1, <3>1, PushProperties DEF Ownership, HandleOK
    <2>3. CASE r \in Range(waiters[h])
      BY Zenon, <1>w, <2>1, <2>3
    <2>4. CASE r = cur[h]
      <3>1. req'[r] = [req[r] EXCEPT !.state = "pending"] /\ req[r] \in Request
        BY Zenon, <1>t, <2>1, <2>4
      <3>2. /\ req'[r].fd = req[r].fd /\ req'[r].gen = req[r].gen
            /\ req'[r].op = req[r].op /\ req'[r].socket = req[r].socket
        BY Zenon, <3>1, PendingFields
      <3> QED
        BY Zenon, <2>1, <2>4, <3>2 DEF Claims
    <2> QED
      BY Zenon, <2>1, <2>2, <2>3, <2>4 DEF Claims
  <1>7. ASSUME NEW s \in Requests, CancelRequest(h, s), ~Destroy(h) PROVE Goal
    BY Zenon, <1>4, <1>7 DEF CancelRequest, At, threadVars
  <1>8. CASE ReadyDelete(h) /\ ~Destroy(h)
    BY Zenon, <1>4, <1>8, Held DEF ReadyDelete, At, Servicing
  <1>9. CASE PollScan(h) /\ ~Destroy(h)
    <2>1. waiters[h][pos[h]] \in Range(waiters[h]) /\ pc[h] = "scan"
      BY Zenon, <1>9, ScanWaiter
    <2> QED
      BY ZenonT(30), <1>3, <1>4, <1>9, <2>1 DEF PollScan
  <1>10. ASSUME NEW s \in Requests, NEW f \in Fds, NEW op \in Ops,
                SubmitRead(h, s, f, op), ~Destroy(h)
         PROVE  Goal
    BY Zenon, <1>3, <1>10 DEF SubmitRead, epollVars
  <1>11. CASE (SubmitCheck(h) \/ SubmitFails(h)) /\ ~Destroy(h)
    BY Zenon, <1>3, <1>11
    DEF SubmitCheck, SubmitFails, Refuse, Return, epollVars, handleVars
  <1>12. CASE /\ PollQueued(h) \/ PollBegin(h) \/ PollTimeout(h) \/ PollInterrupted(h)
              /\ ~Destroy(h)
    BY Zenon, <1>3, <1>12
    DEF PollQueued, PollBegin, PollTimeout, PollInterrupted, At, ReturnFrom, Return,
        handleVars
  <1>13. ASSUME NEW w \in watched[h], PollEvent(h, w), ~Destroy(h) PROVE Goal
    BY Zenon, <1>3, <1>13 DEF PollEvent, handleVars
  <1>14. CASE (ReadyCheck(h) \/ OperateAgain(h) \/ Operate(h)) /\ ~Destroy(h)
    BY Zenon, <1>3, <1>14
    DEF ReadyCheck, OperateAgain, Operate, ReturnFrom, Return,
                       handleVars
  <1>15. ASSUME NEW a \in Fds, OperateAccept(h, a), ~Destroy(h) PROVE Goal
    BY Zenon, <1>3, <1>15 DEF OperateAccept, handleVars
  <1>16. CASE (AcceptTrack(h) \/ PollDeliver(h)) /\ ~Destroy(h)
    BY Zenon, <1>3, <1>16 DEF AcceptTrack, PollDeliver, Deliver, Return
  <1> QED
    BY ZenonT(30), <1>2, <1>5, <1>6, <1>7, <1>8, <1>9, <1>10, <1>11, <1>12,
       <1>13, <1>14, <1>15,
       <1>16
    DEF HandleStep, SubmitStep, PollStep

\* A result in hand after a step was there before, or is from the socket that
\* the descriptor of a waiter names.
LEMMA StepResult ==
    ASSUME Types, Types', Ownership, Identity, NEW h \in Handles, HandleStep(h),
           outcome'[h].kind = "ok"
    PROVE  /\ pc'[h] \in {"track", "delete", "deliver"}
           /\ UNCHANGED <<req, cur>> /\ cur[h] \in Holds(h)
           /\ \/ outcome'[h].on = outcome[h].on /\ outcome[h].kind = "ok"
              \/ /\ outcome'[h].on = file[Fd(cur[h])]
                 /\ cur[h] \in Range(waiters[h])
  <1> DEFINE Goal ==
           /\ pc'[h] \in {"track", "delete", "deliver"}
           /\ UNCHANGED <<req, cur>> /\ cur[h] \in Holds(h)
           /\ \/ outcome'[h].on = outcome[h].on /\ outcome[h].kind = "ok"
              \/ /\ outcome'[h].on = file[Fd(cur[h])]
                 /\ cur[h] \in Range(waiters[h])
  <1>t. /\ pc \in [Handles -> Pcs] /\ outcome \in [Handles -> Outcomes]
        /\ outcome[h].kind = "ok" => pc[h] \in {"track", "delete", "deliver"}
    BY Zenon DEF Types, RequestOK, EpollOK, Identity
  <1>r. /\ Nothing.kind # "ok" /\ Result("stale").kind # "ok"
        /\ Result("error").kind # "ok" /\ Result("cancelled").kind # "ok"
    BY Zenon, ResultTypes DEF Kinds, Nothing
  <1>h. pc[h] \in Servicing => cur[h] \in Range(waiters[h]) /\ cur[h] \in Holds(h)
    BY Zenon, Held
  <1>1. ASSUME UNCHANGED outcome, pc[h] \notin {"track", "delete", "deliver"}
        PROVE  Goal
    BY Zenon, <1>t, <1>1
  <1>2. ASSUME Return(h) PROVE Goal
    BY Zenon, <1>t, <1>r, <1>2 DEF Return
  <1>3. ASSUME NEW x \in {"stale", "error", "cancelled"},
               outcome' = [outcome EXCEPT ![h] = Result(x)]
        PROVE  Goal
    BY Zenon, <1>t, <1>r, <1>3
  <1>4. CASE Operate(h)
    <2>1. /\ pc[h] = "operate" /\ pc'[h] = "delete" /\ UNCHANGED <<req, cur>>
      BY Zenon, <1>t, <1>4 DEF Operate, At, Goto
    <2>2. \/ outcome'[h] = Result("error")
          \/ outcome'[h] = [kind |-> "ok", fd |-> NoFd, on |-> file[Fd(cur[h])]]
      BY Zenon, <1>t, <1>4 DEF Operate
    <2>3. outcome'[h].on = file[Fd(cur[h])]
      BY <1>r, <2>2
    <2> QED
      BY Zenon, <1>h, <2>1, <2>3 DEF Servicing
  <1>5. ASSUME NEW a \in Fds, OperateAccept(h, a) PROVE Goal
    <2>1. /\ pc[h] = "operate" /\ pc'[h] = "track" /\ UNCHANGED <<req, cur>>
      BY Zenon, <1>t, <1>5 DEF OperateAccept, At, Goto
    <2>2. outcome'[h] = [kind |-> "ok", fd |-> a, on |-> file[Fd(cur[h])]]
      BY Zenon, <1>t, <1>5 DEF OperateAccept
    <2>3. outcome'[h].on = file[Fd(cur[h])]
      BY <2>2
    <2> QED
      BY Zenon, <1>h, <2>1, <2>3 DEF Servicing
  <1>6. CASE AcceptTrack(h)
    <2>1. /\ pc[h] = "track" /\ pc'[h] = "delete" /\ UNCHANGED <<req, cur>>
      BY Zenon, <1>t, <1>6 DEF AcceptTrack, At, Goto
    <2>2. CASE UNCHANGED outcome
      BY Zenon, <1>h, <2>1, <2>2 DEF Servicing
    <2> QED
      BY Zenon, <1>3, <1>6, <2>2 DEF AcceptTrack
  <1>7. CASE ReadyDelete(h)
    <2>1. /\ pc[h] = "delete" /\ pc'[h] = "deliver" /\ UNCHANGED <<req, cur, outcome>>
      BY Zenon, <1>t, <1>7 DEF ReadyDelete, At, Goto
    <2> QED
      BY Zenon, <1>h, <2>1 DEF Servicing
  <1>8. ASSUME NEW s \in Requests, NEW f \in Fds, NEW op \in Ops,
               SubmitRead(h, s, f, op)
        PROVE  Goal
    BY Zenon, <1>1, <1>8 DEF SubmitRead, Capture, At
  <1>9. CASE SubmitCheck(h) \/ SubmitClaim(h) \/ SubmitAdd(h) \/ SubmitFails(h)
    BY ZenonT(30), <1>1, <1>2, <1>9
    DEF SubmitCheck, SubmitClaim, ClaimOrRefuse, SubmitAdd, SubmitFails, Refuse,
        ReturnFrom, At
  <1>10. ASSUME NEW s \in Requests, CancelRequest(h, s) PROVE Goal
    BY Zenon, <1>1, <1>10 DEF CancelRequest, At, threadVars
  <1>11. CASE PollQueued(h) \/ PollScan(h) \/ ReadyCheck(h)
    BY Zenon, <1>1, <1>3, <1>11 DEF PollQueued, PollScan, ReadyCheck, At
  <1>12. CASE \/ PollBegin(h) \/ PollTimeout(h) \/ PollInterrupted(h)
              \/ OperateAgain(h) \/ PollDeliver(h) \/ Destroy(h)
    BY ZenonT(30), <1>1, <1>2, <1>12
    DEF PollBegin, PollTimeout, PollInterrupted, OperateAgain, PollDeliver, Deliver,
        Destroy, ReturnFrom, At, threadVars
  <1>13. ASSUME NEW w \in watched[h], PollEvent(h, w) PROVE Goal
    BY Zenon, <1>1, <1>13 DEF PollEvent, At
  <1> QED
    BY ZenonT(30), <1>4, <1>5, <1>6, <1>7, <1>8, <1>9, <1>10, <1>11, <1>12,
       <1>13
    DEF HandleStep, SubmitStep, PollStep

\* A handle's step keeps the identities.
LEMMA StepIdentity ==
    ASSUME Types, Types', Ownership, Sockets, Identity,
           NEW h \in Handles, HandleStep(h)
    PROVE  Identity'
  <1>s. \A f \in Fds : SlotStep(f)
    BY Zenon, StepSlots
  <1>y. ASSUME NEW r \in Requests, ~Free(r), ~Stale(r)',
               req'[r].fd = req[r].fd, req'[r].gen = req[r].gen,
               req'[r].op = req[r].op
        PROVE  ~Stale(r) /\ file'[Fd(r)'] = file[Fd(r)]
    <2>1. /\ Fd(r) \in Fds /\ req[r].op # "timeout" /\ req[r].gen <= gen[Fd(r)]
          /\ Fd(r)' = Fd(r)
      BY Zenon, <1>y DEF Ownership, Identity, Fd
    <2> QED
      BY ZenonT(30), <1>s, <1>y, <2>1, StaleStays
  <1>1. \A r \in Requests : ~Free(r)' => req'[r].gen <= gen'[Fd(r)']
    BY Zenon, StepYoung
  <1>2. ASSUME NEW r \in Claimants', ~Stale(r)'
        PROVE  file'[Fd(r)'] = req'[r].socket
    <2>1. PICK g \in Handles : r \in Claims(g)'
      BY Zenon DEF Claimants, Claims
    <2>2. ASSUME NEW k \in Handles, r \in Claims(k),
                 req'[r].fd = req[r].fd, req'[r].gen = req[r].gen,
                 req'[r].op = req[r].op, req'[r].socket = req[r].socket
          PROVE  file'[Fd(r)'] = req'[r].socket
      <3>1. r \in Requests /\ ~Free(r) /\ r \in Claimants
        BY Zenon, <2>2, ClaimantHeld, ClaimantsBy
      <3>2. ~Stale(r) /\ file'[Fd(r)'] = file[Fd(r)]
        BY ZenonT(30), <1>y, <1>2, <2>2, <3>1
      <3> QED
        BY Zenon, <2>2, <3>1, <3>2 DEF Identity
    <2>3. CASE g = h
      BY Zenon, <2>1, <2>2, <2>3, StepClaims DEF Fd
    <2>4. CASE g # h
      <3>1. r \in Claims(g)
        BY Zenon, <2>1, <2>4, Elsewhere DEF Claims
      <3>2. r \in Requests /\ ~Free(r) /\ r \in Holds(g)
        BY Zenon, <3>1, ClaimantHeld
      <3>3. r \notin Holds(h) /\ r \notin InCall(h)
        BY Zenon, <2>4, <3>2 DEF Ownership, Holds
      <3>4. req'[r] = req[r]
        BY Zenon, <3>2, <3>3, Objects
      <3> QED
        BY Zenon, <2>2, <3>1, <3>4
    <2> QED
      BY Zenon, <2>3, <2>4
  <1>3. ASSUME NEW g \in Handles, outcome'[g].kind = "ok"
        PROVE  /\ pc'[g] \in {"track", "delete", "deliver"}
               /\ ~Stale(cur[g])' => outcome'[g].on = req'[cur'[g]].socket
    <2>1. CASE g # h
      <3>1. /\ pc'[g] = pc[g] /\ cur'[g] = cur[g] /\ outcome'[g] = outcome[g]
        BY Zenon, <2>1, Elsewhere
      <3>2. /\ pc[g] \in {"track", "delete", "deliver"}
            /\ ~Stale(cur[g]) => outcome[g].on = req[cur[g]].socket
        BY Zenon, <1>3, <3>1 DEF Identity
      <3>3. cur[g] \in Holds(g) /\ cur[g] \in Requests /\ ~Free(cur[g])
        BY Zenon, <3>2, Held DEF Servicing
      <3>4. cur[g] \notin Holds(h) /\ cur[g] \notin InCall(h)
        BY Zenon, <2>1, <3>3 DEF Ownership, Holds
      <3>5. req'[cur[g]] = req[cur[g]]
        BY Zenon, <3>3, <3>4, Objects
      <3>6. PICK r \in Requests : r = cur[g]
        BY Zenon, <3>3
      <3>7. ~Stale(r)' => ~Stale(r)
        BY Zenon, <1>y, <3>3, <3>5, <3>6
      <3>8. Stale(cur[g])' <=> Stale(r)'
        BY Zenon, <3>1, <3>6 DEF Stale
      <3> QED
        BY ZenonT(30), <3>1, <3>2, <3>5, <3>6, <3>7, <3>8
    <2>2. CASE g = h
      <3>1. /\ pc'[h] \in {"track", "delete", "deliver"}
            /\ UNCHANGED <<req, cur>> /\ cur[h] \in Holds(h)
            /\ \/ outcome'[h].on = outcome[h].on /\ outcome[h].kind = "ok"
               \/ /\ outcome'[h].on = file[Fd(cur[h])]
                  /\ cur[h] \in Range(waiters[h])
        BY Zenon, <1>3, <2>2, StepResult
      <3>2. PICK r \in Requests : r = cur[h] /\ ~Free(r)
        BY Zenon, <3>1, Held
      <3>3. ~Stale(r)' => ~Stale(r)
        BY Zenon, <1>y, <3>1, <3>2
      <3>4. Stale(cur[h])' <=> Stale(r)'
        BY Zenon, <3>1, <3>2 DEF Stale
      <3>5. cur[h] \in Range(waiters[h]) => r \in Claimants
        BY Zenon, <3>2, ClaimantsBy DEF Claims
      <3> QED
        BY ZenonT(30), <2>2, <3>1, <3>2, <3>3, <3>4, <3>5 DEF Identity
    <2> QED
      BY Zenon, <2>1, <2>2
  <1>4. RightSocket'
    <2> SUFFICES ASSUME NEW r \in Requests,
                        req'[r].state = "done", req'[r].result.kind = "ok"
                 PROVE  req'[r].result.on = req'[r].socket
      BY Zenon DEF RightSocket
    <2>1. CASE req'[r] = req[r]
      BY Zenon, <2>1 DEF Identity, RightSocket
    <2>2. CASE /\ r = cur[h] /\ pc[h] = "deliver"
               /\ ~Stale(r) /\ outcome[h].kind = "ok"
               /\ req'[r].result.on = outcome[h].on
               /\ req'[r].socket = req[r].socket
      BY Zenon, <2>2 DEF Identity
    <2> QED
      BY Zenon, <2>1, <2>2, StepTouches DEF Touched
  <1> QED
    BY ZenonT(30), <1>1, <1>2, <1>3, <1>4 DEF Identity

\* So does a step of the program.
LEMMA ProgramIdentity ==
    ASSUME Types, Types', Ownership, Sockets, Identity, ProgramStep
    PROVE  Identity'
  <1>s. \A f \in Fds : SlotStep(f)
    BY Zenon, ProgramSlots
  <1>u. UNCHANGED <<req, pc, cur, outcome, waiters>>
    BY Zenon, ProgramTypes
  <1>y. ASSUME NEW r \in Requests, ~Free(r), ~Stale(r)'
        PROVE  ~Stale(r) /\ file'[Fd(r)] = file[Fd(r)]
    <2>1. /\ Fd(r) \in Fds /\ req[r].op # "timeout" /\ req[r].gen <= gen[Fd(r)]
      BY Zenon, <1>y DEF Ownership, Identity
    <2> QED
      BY ZenonT(30), <1>s, <1>u, <1>y, <2>1, StaleStays
  <1>1. ASSUME NEW r \in Requests, ~Free(r)'
        PROVE  req'[r].gen <= gen'[Fd(r)']
    <2>1. /\ Fd(r) \in Fds /\ req[r].gen <= gen[Fd(r)]
          /\ Fd(r)' = Fd(r) /\ req'[r].gen = req[r].gen
      BY Zenon, <1>u, <1>1 DEF Ownership, Identity, Free, Fd
    <2>2. /\ gen'[Fd(r)] >= gen[Fd(r)] /\ gen[Fd(r)] \in Int /\ gen'[Fd(r)] \in Int
          /\ req[r].gen \in Int
      BY <1>s, <2>1, FdsAssumption
      DEF SlotStep, Types, SocketOK, RequestOK, Request
    <2> QED
      BY <2>1, <2>2
  <1>2. ASSUME NEW r \in Claimants', ~Stale(r)'
        PROVE  file'[Fd(r)'] = req'[r].socket
    <2>1. r \in Claimants
      BY Zenon, <1>u DEF Claimants
    <2>2. r \in Requests /\ ~Free(r)
      BY Zenon, <2>1, ClaimantsBy, ClaimantHeld
    <2> QED
      BY Zenon, <1>u, <1>y, <1>2, <2>1, <2>2 DEF Identity, Fd
  <1>3. ASSUME NEW g \in Handles, outcome'[g].kind = "ok"
        PROVE  /\ pc'[g] \in {"track", "delete", "deliver"}
               /\ ~Stale(cur[g])' => outcome'[g].on = req'[cur'[g]].socket
    <2>1. /\ pc[g] \in {"track", "delete", "deliver"}
          /\ ~Stale(cur[g]) => outcome[g].on = req[cur[g]].socket
      BY Zenon, <1>u, <1>3 DEF Identity
    <2>2. PICK r \in Requests : r = cur[g] /\ ~Free(r)
      BY Zenon, <2>1, Held DEF Servicing
    <2>3. ~Stale(r)' => ~Stale(r)
      BY Zenon, <1>y, <2>2
    <2>4. Stale(cur[g])' <=> Stale(r)'
      BY Zenon, <1>u, <2>2 DEF Stale
    <2> QED
      BY ZenonT(30), <1>u, <2>1, <2>2, <2>3, <2>4
  <1>4. RightSocket'
    BY Zenon, <1>u DEF Identity, RightSocket
  <1> QED
    BY ZenonT(30), <1>1, <1>2, <1>3, <1>4 DEF Identity

-----------------------------------------------------------------------------
(* Where a request is.                                                     *)

HomesAt(h, r) ==
    {<<h, "waiting", i>> : i \in Places(waiters[h], r)}
    \cup {<<h, "queued", i>> : i \in Places(completed[h], r)}
    \cup (IF pc[h] = "deliver" /\ cur[h] = r THEN {<<h, "in hand", 0>>} ELSE {})

\* A request that is not on a list has no place in it.
LEMMA NoPlace ==
    ASSUME NEW s, NEW r, r \notin Range(s)
    PROVE  Places(s, r) = {}
    BY Zenon DEF Places, Range

\* A request on a list without repetitions has one place in it.
LEMMA OnePlace ==
    ASSUME NEW S, NEW s \in Seq(S), Distinct(s), NEW r \in Range(s)
    PROVE  \E i \in Nat : Places(s, r) = {i}
  <1>1. DOMAIN s = 1..Len(s) /\ Len(s) \in Nat
    BY Zenon, SeqOf
  <1>2. PICK i \in 1..Len(s) : s[i] = r
    BY Zenon, <1>1 DEF Range
  <1>3. Places(s, r) = {i}
    BY Zenon, <1>1, <1>2 DEF Places, Distinct
  <1>4. i \in Nat
    BY <1>1, <1>2
  <1> QED
    BY Zenon, <1>3, <1>4

\* A request is in at most one place of the handle that holds it, and in one
\* unless the call in progress is still submitting it.
LEMMA HomesOfHolder ==
    ASSUME Types, Ownership, NEW h \in Handles, NEW r \in Holds(h)
    PROVE  IF req[r].state = "pending" THEN \E x : HomesAt(h, r) = {x}
                                       ELSE HomesAt(h, r) = {}
  <1>1. /\ Distinct(waiters[h]) /\ Distinct(completed[h])
        /\ Range(waiters[h]) \cap Range(completed[h]) = {}
        /\ InCall(h) \cap (Range(waiters[h]) \cup Range(completed[h])) = {}
        /\ req[r].state = IF pc[h] \in Submitting /\ r = cur[h]
                          THEN "submitting" ELSE "pending"
    BY Zenon DEF Ownership, HandleOK
  <1>2. waiters[h] \in Seq(Requests) /\ completed[h] \in Seq(Requests)
    BY Zenon DEF Types, EpollOK
  <1>3. CASE r \in Range(waiters[h])
    <2>1. r \notin Range(completed[h]) /\ r \notin InCall(h)
      BY Zenon, <1>1, <1>3
    <2>2. Places(completed[h], r) = {} /\ \E i \in Nat : Places(waiters[h], r) = {i}
      BY ZenonT(30), <1>1, <1>2, <1>3, <2>1, NoPlace, OnePlace
    <2>3. /\ ~(pc[h] = "deliver" /\ cur[h] = r) /\ req[r].state = "pending"
      BY Zenon, <1>1, <2>1 DEF InCall
    <2>4. PICK i \in Nat : Places(waiters[h], r) = {i}
      BY Zenon, <2>2
    <2>5. HomesAt(h, r) = {<<h, "waiting", i>>}
      BY Zenon, <2>2, <2>3, <2>4 DEF HomesAt
    <2> QED
      BY Zenon, <2>3, <2>5
  <1>4. CASE r \in Range(completed[h])
    <2>1. r \notin Range(waiters[h]) /\ r \notin InCall(h)
      BY Zenon, <1>1, <1>4
    <2>2. Places(waiters[h], r) = {} /\ \E i \in Nat : Places(completed[h], r) = {i}
      BY ZenonT(30), <1>1, <1>2, <1>4, <2>1, NoPlace, OnePlace
    <2>3. /\ ~(pc[h] = "deliver" /\ cur[h] = r) /\ req[r].state = "pending"
      BY Zenon, <1>1, <2>1 DEF InCall
    <2>4. PICK i \in Nat : Places(completed[h], r) = {i}
      BY Zenon, <2>2
    <2>5. HomesAt(h, r) = {<<h, "queued", i>>}
      BY Zenon, <2>2, <2>3, <2>4 DEF HomesAt
    <2> QED
      BY Zenon, <2>3, <2>5
  <1>5. CASE r \in InCall(h)
    <2>1. Places(waiters[h], r) = {} /\ Places(completed[h], r) = {}
      BY Zenon, <1>1, <1>5, NoPlace
    <2>2. pc[h] \in Submitting \cup {"deliver"} /\ cur[h] = r
      BY Zenon, <1>5 DEF InCall
    <2>3. CASE pc[h] \in Submitting
      <3>1. pc[h] # "deliver" /\ req[r].state = "submitting"
        BY Zenon, <1>1, <2>2, <2>3 DEF Submitting
      <3> QED
        BY Zenon, <2>1, <3>1 DEF HomesAt
    <2>4. CASE pc[h] = "deliver"
      <3>1. req[r].state = "pending"
        BY Zenon, <1>1, <2>4 DEF Submitting
      <3>2. HomesAt(h, r) = {<<h, "in hand", 0>>}
        BY Zenon, <2>1, <2>2, <2>4 DEF HomesAt
      <3> QED
        BY Zenon, <3>1, <3>2
    <2> QED
      BY Zenon, <2>2, <2>3, <2>4
  <1> QED
    BY Zenon, <1>3, <1>4, <1>5 DEF Holds

\* It is in no place of another handle.
LEMMA NoHomes ==
    ASSUME NEW h \in Handles, NEW r, r \notin Holds(h)
    PROVE  HomesAt(h, r) = {}
  <1>1. Places(waiters[h], r) = {} /\ Places(completed[h], r) = {}
    BY Zenon, NoPlace DEF Holds
  <1>2. ~(pc[h] = "deliver" /\ cur[h] = r)
    BY Zenon DEF Holds, InCall
  <1> QED
    BY Zenon, <1>1, <1>2 DEF HomesAt

-----------------------------------------------------------------------------
(* The theorems.                                                           *)

IInv == Custody /\ Sockets /\ Identity

\* The invariant holds before the first call.
LEMMA InitInvariant ==
    ASSUME Init
    PROVE  IInv
  <1>1. Custody
    BY Zenon, InitCustody
  <1>i. SocketInit /\ RequestInit /\ EpollInit
    BY Zenon DEF Init
  <1>2. \A h \in Handles : /\ pc[h] = "idle" /\ waiters[h] = << >>
                           /\ outcome[h].kind = "none" /\ outcome[h].fd = NoFd
    BY Zenon, <1>i DEF RequestInit, EpollInit, Nothing
  <1>3. \A r \in Requests : req[r].state = "new"
    BY Zenon, <1>i, BlankFields DEF RequestInit
  <1>4. Sockets
    BY Zenon, <1>i, <1>2, FdsAssumption DEF SocketInit, Sockets, Hand, NoFd
  <1>5. Claimants = {}
    <2>1. \A h \in Handles : Range(waiters[h]) = {}
      BY <1>2 DEF Range
    <2> QED
      BY Zenon, <1>2, <2>1 DEF Claimants
  <1>6. Identity
    BY Zenon, <1>2, <1>3, <1>5 DEF Identity, RightSocket, Free
  <1> QED
    BY Zenon, <1>1, <1>4, <1>6 DEF IInv

\* Every step keeps it.
LEMMA NextInvariant ==
    ASSUME IInv, [Next]_vars
    PROVE  IInv'
  <1>c. Types /\ Ownership /\ Sockets /\ Identity /\ Custody
    BY Zenon DEF IInv, Custody
  <1>1. Custody' /\ Types'
    BY Zenon, <1>c, NextCustody DEF Custody
  <1>2. ASSUME NEW h \in Handles, HandleStep(h)
        PROVE  Sockets' /\ Identity'
    BY ZenonT(30), <1>c, <1>1, <1>2, StepSockets, StepIdentity
  <1>3. CASE ProgramStep
    BY ZenonT(30), <1>c, <1>1, <1>3, ProgramSockets, ProgramIdentity DEF IInv
  <1>4. CASE UNCHANGED vars
    <2>1. UNCHANGED <<req, pc, cur, outcome, waiters, file, gen, active,
                      opened, owned>>
      BY Zenon, <1>4 DEF vars, socketVars, requestVars, epollVars
    <2>2. Sockets'
      BY Zenon, <1>c, <2>1 DEF Sockets, Hand
    <2>3. Claimants' = Claimants /\ \A r : Stale(r)' <=> Stale(r)
      BY Zenon, <2>1 DEF Claimants, Stale, IsStale, Fd
    <2>4. Identity'
      BY Zenon, <1>c, <2>1, <2>3 DEF Identity, RightSocket, Free, Fd
    <2> QED
      BY Zenon, <1>1, <2>2, <2>4 DEF IInv
  <1> QED
    BY Zenon, <1>1, <1>2, <1>3, <1>4 DEF Next, IInv

\* It holds in every reachable state.
LEMMA InvariantHolds == Spec => []IInv
  <1>1. Init => IInv
    BY Zenon, InitInvariant
  <1>2. IInv /\ [Next]_vars => IInv'
    BY Zenon, NextInvariant
  <1> QED
    BY <1>1, <1>2, PTL DEF Spec

\* "reuse of the same integer cannot satisfy an older Request": whatever is
\* closed and reused between the steps of a call, a result that is delivered
\* came from the socket that the request claimed.
THEOREM ReuseIsHarmless == Spec => []RightSocket
  <1>1. IInv => RightSocket
    BY Zenon DEF IInv, Identity
  <1> QED
    BY <1>1, InvariantHolds, PTL

\* "One request may be pending per fd process-wide".
THEOREM ClaimIsExact == Spec => []ClaimExact
  <1>1. IInv => ClaimExact
    BY Zenon DEF IInv, Custody
  <1> QED
    BY <1>1, InvariantHolds, PTL

\* "the stale path cannot leak an fd".
THEOREM DescriptorsAccounted == Spec => []NoFdLeak
  <1>1. IInv => NoFdLeak
    <2> SUFFICES ASSUME IInv PROVE NoFdLeak
      BY Zenon
    <2>1. Sockets /\ NoFd \notin Fds
      BY Zenon, FdsAssumption DEF IInv, NoFd
    <2>a. \A h \in Handles :
              Hand(h) # NoFd => pc[h] \in {"track", "delete", "deliver"}
      BY Zenon, <2>1 DEF Sockets
    <2>2. \A f \in Fds : f \in InHand <=> \E h \in Handles : Hand(h) = f
      BY Zenon, <2>1, <2>a DEF InHand, Hand
    <2>3. owned \cap InHand = {}
      BY <2>1 DEF InHand, Sockets, Hand
    <2>4. \A f \in Fds : file[f] # 0 <=> f \in opened \cup owned \cup InHand
      BY Zenon, <2>1, <2>2 DEF Sockets
    <2>5. owned \subseteq Fds
      BY Zenon DEF IInv, Custody, Types, SocketOK
    <2>6. \A f \in owned : active[f]
      BY Zenon, <2>1, <2>5 DEF Sockets
    <2> QED
      BY Zenon, <2>3, <2>4, <2>6 DEF NoFdLeak, OpenExactly
  <1> QED
    BY <1>1, InvariantHolds, PTL

\* Ownership puts a pending request in exactly one place.
LEMMA HomesCount ==
    ASSUME Types, Ownership, NEW r \in Requests
    PROVE  IF req[r].state = "pending"
           THEN \E p \in Homes(r) : Homes(r) = {p} ELSE Homes(r) = {}
  <1>1. Homes(r) = UNION {HomesAt(h, r) : h \in Handles}
    BY Zenon DEF Homes, HomesAt
  <1>2. CASE \E h \in Handles : r \in Holds(h)
    <2>1. PICK h \in Handles : r \in Holds(h)
      BY Zenon, <1>2
    <2>2. \A g \in Handles \ {h} : HomesAt(g, r) = {}
      BY Zenon, <2>1, NoHomes DEF Ownership
    <2>3. Homes(r) = HomesAt(h, r)
      BY <1>1, <2>2
    <2>4. IF req[r].state = "pending" THEN \E x : HomesAt(h, r) = {x}
                                      ELSE HomesAt(h, r) = {}
      BY Zenon, <2>1, HomesOfHolder
    <2>5. \A x : Homes(r) = {x} => \E p \in Homes(r) : Homes(r) = {p}
      OBVIOUS
    <2> QED
      BY <2>3, <2>4, <2>5
  <1>3. CASE ~\E h \in Handles : r \in Holds(h)
    <2>1. Homes(r) = {}
      BY Zenon, <1>1, <1>3, NoHomes
    <2>2. req[r].state # "pending"
      BY Zenon, <1>3 DEF Ownership, Free
    <2> QED
      BY Zenon, <2>1, <2>2
  <1> QED
    BY Zenon, <1>2, <1>3

\* "produces once": a pending request is in one place, and the kernel points to
\* its waiter only while the waiter is on the list.
THEOREM RequestCompletesOnce == Spec => []CompletesOnce
  <1>1. ASSUME IInv PROVE CompletesOnce
    <2>1. Types /\ Ownership /\ Watching
      BY Zenon, <1>1 DEF IInv, Custody
    <2>2. \A r \in Requests : IF req[r].state = "pending"
                              THEN \E p \in Homes(r) : Homes(r) = {p}
                              ELSE Homes(r) = {}
      BY Zenon, <2>1, HomesCount
    <2>3. \A h \in Handles : \A w \in watched[h] :
              w.request \in Range(waiters[h]) /\ w.socket = file[w.fd]
      BY Zenon, <2>1 DEF Watching
    <2> QED
      BY Zenon, <2>2, <2>3 DEF CompletesOnce
  <1> QED
    BY <1>1, InvariantHolds, PTL

=============================================================================
